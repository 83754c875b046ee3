---------------------------- MODULE ServersProofs ---------------------------
(***************************************************************************)
(* What is proved of MCServers and of what it is made of.  The dispatch of *)
(* normal group messages (GroupDeliver), for any storage servers and any   *)
(* bounds: messages reach every queue in the order in which they were      *)
(* saved, none twice without a failure, and what is acknowledged is in     *)
(* every queue.  Then what is proved of Routing, Sessions and MessageStore *)
(* with its queries for every instance, of their instances in MCServers,   *)
(* which implements each.                                                  *)
(***************************************************************************)
EXTENDS MCServers, TLAPS

\* GroupDeliver without its fairness: what is proved of it holds of MCServers too.
SafetySpec == Init /\ [][Next]_vars

-----------------------------------------------------------------------------
\* The inductive invariant.

\* The number of the last message that will not be sent again: the file holds
\* the last Len(file) messages, sent up to latest_sended_msgid.  Between the two
\* steps of a truncation latest_sended_msgid still counts in the old file.
Done == IF pc = "cursor" THEN saved ELSE saved - Len(file) + latest_sended_msgid

\* The file holds the last messages that were saved.
FileOK ==
  /\ Len(file) <= saved
  /\ \A i \in 1..Len(file) : file[i] = saved - Len(file) + i
  /\ pc = "cursor" => file = << >>
  /\ writing # 0 => writing = saved /\ Len(file) > 0 /\ ~Locked

\* run sends the message after the last one that was sent, which the cursor
\* file names.
RunOK ==
  /\ cursor = latest_sended_msgid
  /\ current # 0 => Scanning /\ current = latest_sended_msgid + 1
  /\ current = 0 => rest = {}

\* A queue holds nothing beyond the message that is sent next.  That one is
\* there if it was saved on its server, and otherwise only if an earlier try
\* was cut.
QueuesOK ==
  \A s \in Servers :
    /\ \A m \in Queued(s) : m <= Done + 1
    /\ current # 0 /\ s \notin rest => file[current] \in Queued(s)
    /\ Done + 1 \in Queued(s) /\ Done + 1 \notin cut => current # 0 /\ s \notin rest

\* A callback belongs to the message at its offset; the channel of a handler
\* holds the metadata of the handler's own message, which was sent.
CallbacksOK ==
  /\ pc # "cursor" => \A o \in Offsets :
       callbacks[o] # 0 => o <= Len(file) /\ file[o] = callbacks[o]
  /\ \A m \in Msgs : ch[m] # 0 => ch[m] = m /\ \A s \in Servers : m \in Queued(s)

IInv ==
  /\ TypeOK /\ FileOK /\ RunOK /\ QueuesOK /\ CallbacksOK
  /\ DuplicatesExplained /\ AckIsOwn

\* Without a crash in the middle of a truncation nothing is passed over.
NothingSkipped ==
  /\ pc # "cursor" => latest_sended_msgid <= Len(file)
  /\ \A s \in Servers, m \in Msgs : m <= Done => m \in Queued(s)

-----------------------------------------------------------------------------
\* What the invariant says where it is used most.
LEMMA Facts ==
  ASSUME IInv
  PROVE  /\ saved \in Nat /\ saved <= MaxMsgs /\ MaxMsgs \in Nat
         /\ Len(file) \in Nat /\ Len(file) <= saved /\ latest_sended_msgid \in Nat
         /\ Done \in Int
         /\ current # 0 => /\ pc # "cursor" /\ current \in 1..Len(file)
                           /\ file[current] = Done + 1 /\ file[current] \in Msgs
<1>1. MaxMsgs \in Nat
  BY GroupDeliverAssumption
<1>2. /\ saved \in Nat /\ saved <= MaxMsgs
      /\ Len(file) \in Nat /\ Len(file) <= saved /\ latest_sended_msgid \in Nat
  BY <1>1 DEF IInv, TypeOK, FileOK
<1>3. Done \in Int
  BY <1>2 DEF Done
<1>4. ASSUME current # 0
      PROVE  /\ pc # "cursor" /\ current \in 1..Len(file)
             /\ file[current] = Done + 1 /\ file[current] \in Msgs
  <2>1. pc # "cursor" /\ current \in 1..Len(file) /\ current = latest_sended_msgid + 1
    BY <1>2, <1>4 DEF IInv, TypeOK, RunOK, Scanning
  <2>2. file[current] = saved - Len(file) + current
    BY <2>1 DEF IInv, FileOK
  <2>3. QED BY <1>1, <1>2, <2>1, <2>2 DEF Done, Msgs
<1>5. QED BY <1>1, <1>2, <1>3, <1>4

\* A message that is queued has a number that was given.
LEMMA QueuedBounds ==
  ASSUME IInv, NEW s \in Servers
  PROVE  \A m \in Queued(s) : m \in Msgs /\ m \in Int /\ m <= Done + 1
<1>1. ims[s] \in Seq(Msgs)
  BY DEF IInv, TypeOK
<1>2. \A i \in 1..Len(ims[s]) : ims[s][i] \in Msgs
  BY <1>1
<1>3. Queued(s) \subseteq Msgs
  BY <1>2 DEF Queued
<1>4. QED BY <1>3 DEF Msgs, IInv, QueuesOK

\* Writing a message to its file keeps the inductive invariant.
LEMMA WriteStep ==
  ASSUME IInv, Write
  PROVE  IInv'
<1>1. /\ saved \in Nat /\ saved < MaxMsgs /\ file \in Seq(Msgs) /\ MaxMsgs \in Nat
      /\ Len(file) <= saved /\ saved' = saved + 1 /\ pc' = pc /\ pc # "cursor"
      /\ file' = Append(file, saved + 1) /\ saved + 1 \in Msgs
  BY Facts DEF Write, IInv, TypeOK, Locked, runVars, Msgs
<1>2. /\ file' \in Seq(Msgs) /\ Len(file') = Len(file) + 1
      /\ \A i \in 1..Len(file) : file'[i] = file[i]
      /\ file'[Len(file) + 1] = saved + 1
  BY <1>1
<1>3. TypeOK'
  BY <1>1, <1>2 DEF Write, IInv, TypeOK, cbVars, runVars, Msgs
<1>4. FileOK'
  BY <1>1, <1>2 DEF Write, IInv, FileOK, Locked, runVars
<1>5. RunOK'
  BY DEF Write, IInv, RunOK, Scanning, runVars
<1>6. Done' = Done
  BY <1>1, <1>2, Facts DEF Write, Done
<1>7. QueuesOK'
  <2>1. current # 0 => file'[current] = file[current]
    BY <1>2, Facts
  <2>2. QED BY <1>6, <2>1 DEF Write, IInv, QueuesOK, Queued, runVars
<1>8. CallbacksOK'
  BY <1>1, <1>2 DEF Write, IInv, CallbacksOK, Queued, cbVars, runVars, Offsets
<1>9. DuplicatesExplained' /\ AckIsOwn'
  BY DEF Write, IInv, DuplicatesExplained, AckIsOwn, Queued, cbVars
<1>10. QED BY <1>3, <1>4, <1>5, <1>7, <1>8, <1>9 DEF IInv

\* Handlers come and go.
LEMMA HandlerStep ==
  ASSUME IInv, EndSave \/ \E m \in Msgs : HandlerReturns(m)
  PROVE  IInv'
<1>1. /\ file' = file /\ cursor' = cursor /\ latest_msgid' = latest_msgid
      /\ latest_sended_msgid' = latest_sended_msgid /\ pc' = pc /\ current' = current
      /\ rest' = rest /\ ims' = ims /\ saved' = saved /\ cut' = cut
  BY DEF EndSave, HandlerReturns, diskVars, runVars, history
<1>2. Done' = Done /\ RunOK' /\ QueuesOK' /\ DuplicatesExplained'
  BY <1>1 DEF IInv, Done, RunOK, Scanning, QueuesOK, Queued, DuplicatesExplained
<1>3. CASE EndSave
  <2>1. /\ writing # 0 /\ writing = saved /\ writing \in Msgs /\ Len(file) > 0
        /\ pc # "cursor" /\ latest_msgid = Len(file) /\ latest_msgid \in Offsets
        /\ file[latest_msgid] = writing
    <3>1. /\ writing # 0 /\ writing = saved /\ writing \in Msgs /\ Len(file) > 0
          /\ pc # "cursor" /\ latest_msgid = Len(file)
      BY <1>3 DEF EndSave, IInv, TypeOK, FileOK, Locked
    <3>2. QED BY <3>1, Facts DEF IInv, FileOK, Offsets, Msgs
  <2>2. TypeOK'
    <3>1. wt' \in 0..WtSize /\ writing' = 0
      BY <1>3, GroupDeliverAssumption DEF EndSave, IInv, TypeOK
    <3>2. /\ callbacks' \in [Offsets -> Msgs \cup {0}] /\ waiting' \subseteq Msgs
          /\ callbackid_to_msgid' \in [Msgs -> Offsets \cup {0}]
          /\ ch' = ch /\ acked' = acked
      <4>1. CASE UNCHANGED cbVars
        BY <4>1 DEF IInv, TypeOK, cbVars
      <4>2. CASE ~UNCHANGED cbVars
        <5>1. /\ callbacks' = [callbacks EXCEPT ![latest_msgid] = writing]
              /\ callbackid_to_msgid' = [callbackid_to_msgid EXCEPT ![writing] = latest_msgid]
              /\ waiting' = waiting \cup {writing} /\ ch' = ch /\ acked' = acked
          BY <1>3, <4>2 DEF EndSave
        <5>2. QED BY <2>1, <5>1 DEF IInv, TypeOK
      <4>3. QED BY <4>1, <4>2
    <3>3. QED BY <1>1, <3>1, <3>2 DEF IInv, TypeOK
  <2>3. FileOK'
    BY <1>1, <1>3 DEF EndSave, IInv, FileOK
  <2>4. CallbacksOK'
    BY <1>1, <1>3, <2>1 DEF EndSave, IInv, TypeOK, CallbacksOK, Queued, cbVars
  <2>5. AckIsOwn'
    BY <1>1, <1>3 DEF EndSave, IInv, AckIsOwn, Queued, cbVars
  <2>6. QED BY <1>2, <2>2, <2>3, <2>4, <2>5 DEF IInv
<1>4. ASSUME NEW m \in Msgs, HandlerReturns(m)
      PROVE  IInv'
  <2>1. /\ ch' = ch /\ writing' = writing
        /\ callbacks' \in [Offsets -> Msgs \cup {0}]
        /\ \A o \in Offsets : callbacks'[o] # 0 => callbacks'[o] = callbacks[o]
        /\ callbackid_to_msgid' \in [Msgs -> Offsets \cup {0}]
    BY <1>4 DEF HandlerReturns, RemoveCallback, IInv, TypeOK
  <2>2. acked' \in [Msgs -> Msgs \cup {0}] /\ \A k \in Msgs : acked'[k] \in {acked[k], ch[k]}
    BY <1>4 DEF HandlerReturns, IInv, TypeOK
  <2>3. TypeOK'
    BY <1>1, <1>4, <2>1, <2>2 DEF HandlerReturns, IInv, TypeOK, history
  <2>4. FileOK'
    BY <1>1, <2>1 DEF IInv, FileOK, Locked
  <2>5. CallbacksOK'
    BY <1>1, <2>1 DEF IInv, CallbacksOK, Queued
  <2>6. AckIsOwn'
    BY <1>1, <2>2 DEF IInv, AckIsOwn, CallbacksOK, Queued
  <2>7. QED BY <1>2, <2>3, <2>4, <2>5, <2>6 DEF IInv
<1>5. QED BY <1>3, <1>4

\* run looks for the next message: neither file nor queues change.
LEMMA ScanStep ==
  ASSUME IInv, Flush \/ BeginSend \/ EndScan \/ Lock
  PROVE  IInv'
<1>1. /\ file' = file /\ cursor' = cursor /\ latest_msgid' = latest_msgid
      /\ latest_sended_msgid' = latest_sended_msgid /\ ims' = ims /\ saved' = saved
      /\ cut' = cut /\ writing' = writing /\ ch' = ch /\ acked' = acked
      /\ callbacks' = callbacks /\ callbackid_to_msgid' = callbackid_to_msgid
      /\ waiting' = waiting
  BY DEF Flush, BeginSend, EndScan, Lock, diskVars, cbVars, history
<1>2. /\ pc \in {"idle", "scan", "lock", "rescan"}
      /\ pc' \in {"idle", "scan", "lock", "rescan", "decide"}
      /\ Locked' => Locked \/ writing = 0
  BY DEF Flush, BeginSend, EndScan, EndOfScan, Lock, Scanning, IInv, TypeOK, Locked
<1>3. Done' = Done
  BY <1>1, <1>2 DEF Done
<1>4. TypeOK'
  <2>1. wt' \in 0..WtSize
    BY GroupDeliverAssumption DEF Flush, BeginSend, EndScan, Lock, IInv, TypeOK
  <2>2. current' \in 0..Len(file) /\ rest' \subseteq Servers
    BY Facts DEF Flush, BeginSend, EndScan, Lock, IInv, TypeOK
  <2>3. QED BY <1>1, <1>2, <2>1, <2>2 DEF IInv, TypeOK
<1>5. FileOK'
  BY <1>1, <1>2 DEF IInv, FileOK
<1>6. RunOK'
  <2>1. CASE BeginSend
    BY <1>1, <2>1 DEF BeginSend, Scanning, IInv, RunOK, TypeOK
  <2>2. CASE Flush \/ EndScan \/ Lock
    BY <1>1, <2>2 DEF Flush, EndScan, Lock, Scanning, IInv, RunOK
  <2>3. QED BY <2>1, <2>2
<1>7. QueuesOK'
  <2>1. CASE BeginSend
    BY <1>1, <1>3, <2>1 DEF BeginSend, IInv, QueuesOK, Queued
  <2>2. CASE Flush \/ EndScan \/ Lock
    BY <1>1, <1>3, <2>2 DEF Flush, EndScan, Lock, IInv, QueuesOK, Queued
  <2>3. QED BY <2>1, <2>2
<1>8. CallbacksOK' /\ DuplicatesExplained' /\ AckIsOwn'
  BY <1>1, <1>2 DEF IInv, CallbacksOK, DuplicatesExplained, AckIsOwn, Queued
<1>9. QED BY <1>4, <1>5, <1>6, <1>7, <1>8 DEF IInv

\* A message appended to the queue on one server.
LEMMA QueueAppend ==
  ASSUME NEW s \in Servers, NEW m \in Msgs, ims \in [Servers -> Seq(Msgs)],
         ims' = [ims EXCEPT ![s] = Append(@, m)]
  PROVE  /\ ims' \in [Servers -> Seq(Msgs)]
         /\ \A t \in Servers \ {s} : ims'[t] = ims[t]
         /\ Len(ims'[s]) = Len(ims[s]) + 1 /\ ims'[s][Len(ims[s]) + 1] = m
         /\ \A i \in 1..Len(ims[s]) : ims'[s][i] = ims[s][i]
         /\ Queued(s)' = Queued(s) \cup {m}
         /\ \A t \in Servers \ {s} : Queued(t)' = Queued(t)
<1>1. /\ ims' \in [Servers -> Seq(Msgs)] /\ ims'[s] = Append(ims[s], m) /\ ims[s] \in Seq(Msgs)
      /\ \A t \in Servers \ {s} : ims'[t] = ims[t]
  OBVIOUS
<1>2. /\ Len(ims[s]) \in Nat
      /\ Len(ims'[s]) = Len(ims[s]) + 1 /\ ims'[s][Len(ims[s]) + 1] = m
      /\ \A i \in 1..Len(ims[s]) : ims'[s][i] = ims[s][i]
  BY <1>1
<1>3. Queued(s)' = Queued(s) \cup {m}
  <2>1. 1..Len(ims'[s]) = 1..Len(ims[s]) \cup {Len(ims[s]) + 1}
    BY <1>2
  <2>2. QED BY <1>2, <2>1 DEF Queued
<1>4. \A t \in Servers \ {s} : Queued(t)' = Queued(t)
  BY <1>1 DEF Queued
<1>5. QED BY <1>1, <1>2, <1>3, <1>4

\* The message being sent is appended: it was not there, or it is in cut.
LEMMA SendAppend ==
  ASSUME IInv, current # 0, NEW s \in rest, cut \subseteq cut',
         ims' = [ims EXCEPT ![s] = Append(@, file[current])]
  PROVE  /\ ims' \in [Servers -> Seq(Msgs)]
         /\ Queued(s)' = Queued(s) \cup {Done + 1}
         /\ \A t \in Servers : Queued(t) \subseteq Queued(t)'
         /\ \A t \in Servers \ {s} : Queued(t)' = Queued(t)
         /\ DuplicatesExplained'
<1>1. /\ s \in Servers /\ ims \in [Servers -> Seq(Msgs)] /\ file[current] \in Msgs
      /\ file[current] = Done + 1
  BY Facts DEF IInv, TypeOK
<1>2. /\ ims' \in [Servers -> Seq(Msgs)]
      /\ \A t \in Servers \ {s} : ims'[t] = ims[t] /\ Queued(t)' = Queued(t)
      /\ Len(ims'[s]) = Len(ims[s]) + 1 /\ ims'[s][Len(ims[s]) + 1] = Done + 1
      /\ \A i \in 1..Len(ims[s]) : ims'[s][i] = ims[s][i]
      /\ Queued(s)' = Queued(s) \cup {Done + 1}
  BY <1>1, QueueAppend
<1>3. Done + 1 \in Queued(s) => Done + 1 \in cut
  BY <1>1 DEF IInv, QueuesOK
<1>4. DuplicatesExplained'
  <2> SUFFICES ASSUME NEW t \in Servers, NEW i \in 1..Len(ims'[t]), NEW j \in 1..Len(ims'[t]),
                      i # j, ims'[t][i] = ims'[t][j]
               PROVE  ims'[t][i] \in cut
    BY DEF DuplicatesExplained
  <2>1. CASE t # s
    BY <1>2, <2>1 DEF IInv, DuplicatesExplained
  <2>2. CASE t = s
    <3> DEFINE n == Len(ims[s])
    <3>1. /\ n \in Nat
          /\ i \in 1..n \/ i = n + 1
          /\ j \in 1..n \/ j = n + 1
      BY <1>1, <1>2, <2>2
    <3>2. CASE i \in 1..n /\ j \in 1..n
      BY <1>1, <1>2, <2>2, <3>2 DEF IInv, DuplicatesExplained
    <3>3. CASE i = n + 1 \/ j = n + 1
      BY <1>2, <1>3, <2>2, <3>1, <3>3 DEF Queued
    <3>4. QED BY <3>1, <3>2, <3>3
  <2>3. QED BY <2>1, <2>2
<1>5. QED BY <1>2, <1>4

\* The acknowledgements stay right while queues grow.
LEMMA AckStays ==
  ASSUME IInv, acked' = acked, \A t \in Servers : Queued(t) \subseteq Queued(t)'
  PROVE  AckIsOwn'
  BY DEF IInv, AckIsOwn

\* Sending the pending messages keeps the inductive invariant.
LEMMA SendStep ==
  ASSUME IInv, NEW s \in Servers, SavePeerGroupMessage(s)
  PROVE  IInv'
<1>1. /\ current # 0 /\ s \in rest /\ ims' = [ims EXCEPT ![s] = Append(@, file[current])]
      /\ rest' = rest \ {s} /\ file' = file /\ cursor' = cursor /\ latest_msgid' = latest_msgid
      /\ latest_sended_msgid' = latest_sended_msgid /\ wt' = wt /\ writing' = writing
      /\ callbacks' = callbacks /\ callbackid_to_msgid' = callbackid_to_msgid /\ ch' = ch
      /\ waiting' = waiting /\ acked' = acked /\ pc' = pc /\ current' = current
      /\ saved' = saved /\ cut' = cut
  BY DEF SavePeerGroupMessage, diskVars, cbVars, history
<1>2. /\ ims' \in [Servers -> Seq(Msgs)] /\ Queued(s)' = Queued(s) \cup {Done + 1}
      /\ \A t \in Servers : Queued(t) \subseteq Queued(t)'
      /\ \A t \in Servers \ {s} : Queued(t)' = Queued(t)
      /\ DuplicatesExplained'
  BY <1>1, SendAppend
<1>3. Done' = Done
  BY <1>1 DEF Done
<1>4. TypeOK'
  BY <1>1, <1>2 DEF IInv, TypeOK
<1>5. FileOK' /\ RunOK'
  BY <1>1 DEF IInv, FileOK, RunOK, Locked, Scanning
<1>6. QueuesOK'
  <2>1. Done \in Int /\ file[current] = Done + 1
    BY <1>1, Facts
  <2>2. ASSUME NEW t \in Servers
        PROVE  /\ \A m \in Queued(t)' : m <= Done + 1
               /\ t \notin rest' => file[current] \in Queued(t)'
               /\ Done + 1 \in Queued(t)' /\ Done + 1 \notin cut => t \notin rest'
    <3>1. CASE t = s
      BY <1>1, <1>2, <2>1, <3>1 DEF IInv, QueuesOK
    <3>2. CASE t # s
      BY <1>1, <1>2, <2>1, <3>2 DEF IInv, QueuesOK
    <3>3. QED BY <3>1, <3>2
  <2>3. QED BY <1>1, <1>3, <2>2 DEF QueuesOK
<1>7. CallbacksOK'
  BY <1>1, <1>2 DEF IInv, CallbacksOK
<1>8. AckIsOwn'
  BY <1>1, <1>2, AckStays
<1>9. QED BY <1>2, <1>4, <1>5, <1>6, <1>7, <1>8 DEF IInv

\* A delivery that fails keeps the inductive invariant.
LEMMA FailStep ==
  ASSUME IInv, NEW s \in Servers, SavePeerGroupMessageFails(s)
  PROVE  IInv'
<1>1. /\ current # 0 /\ s \in rest /\ cut' = cut \cup {file[current]}
      /\ current' = 0 /\ rest' = {} /\ EndOfScan
      /\ file' = file /\ cursor' = cursor /\ latest_msgid' = latest_msgid
      /\ latest_sended_msgid' = latest_sended_msgid /\ wt' = wt /\ writing' = writing
      /\ callbacks' = callbacks /\ callbackid_to_msgid' = callbackid_to_msgid /\ ch' = ch
      /\ waiting' = waiting /\ acked' = acked /\ saved' = saved
  BY DEF SavePeerGroupMessageFails, diskVars, cbVars
<1>2. /\ Done \in Int /\ file[current] = Done + 1 /\ file[current] \in Msgs
      /\ Scanning /\ pc # "cursor"
  BY <1>1, Facts DEF IInv, RunOK
<1>3. /\ pc' \in {"decide", "lock", "idle"}
      /\ pc' = "decide" => pc = "rescan"
  BY <1>1, <1>2 DEF EndOfScan, Scanning
<1>4. /\ ims' \in [Servers -> Seq(Msgs)]
      /\ \A t \in Servers : Queued(t) \subseteq Queued(t)'
      /\ \A t \in Servers : Queued(t)' \subseteq Queued(t) \cup {Done + 1}
      /\ DuplicatesExplained'
  <2>1. CASE ims' = ims
    BY <1>1, <2>1 DEF IInv, TypeOK, Queued, DuplicatesExplained
  <2>2. CASE ims' = [ims EXCEPT ![s] = Append(@, file[current])]
    <3>1. cut \subseteq cut'
      BY <1>1
    <3>2. /\ ims' \in [Servers -> Seq(Msgs)] /\ Queued(s)' = Queued(s) \cup {Done + 1}
          /\ \A t \in Servers : Queued(t) \subseteq Queued(t)'
          /\ \A t \in Servers \ {s} : Queued(t)' = Queued(t)
          /\ DuplicatesExplained'
      BY <1>1, <2>2, <3>1, SendAppend
    <3>3. QED BY <3>2
  <2>3. QED BY <2>1, <2>2 DEF SavePeerGroupMessageFails
<1>5. Done' = Done
  BY <1>1, <1>2, <1>3 DEF Done
<1>6. TypeOK'
  BY <1>1, <1>2, <1>3, <1>4, Facts DEF IInv, TypeOK
<1>7. FileOK' /\ RunOK'
  BY <1>1, <1>2, <1>3 DEF IInv, FileOK, RunOK, Locked
<1>8. QueuesOK'
  BY <1>1, <1>2, <1>4, <1>5 DEF IInv, QueuesOK
<1>9. CallbacksOK'
  BY <1>1, <1>2, <1>4 DEF IInv, CallbacksOK
<1>10. AckIsOwn'
  BY <1>1, <1>4, AckStays
<1>11. QED BY <1>4, <1>6, <1>7, <1>8, <1>9, <1>10 DEF IInv

\* The message is on every server: its handler gets its metadata.
LEMMA SentStep ==
  ASSUME IInv, Sent
  PROVE  IInv'
<1>1. /\ current # 0 /\ rest = {} /\ DoCallback(current, file[current])
      /\ latest_sended_msgid' = current /\ cursor' = current /\ current' = 0
      /\ file' = file /\ latest_msgid' = latest_msgid /\ wt' = wt /\ writing' = writing
      /\ callbacks' = callbacks /\ callbackid_to_msgid' = callbackid_to_msgid
      /\ waiting' = waiting /\ acked' = acked /\ pc' = pc /\ rest' = rest /\ ims' = ims
      /\ saved' = saved /\ cut' = cut
  BY DEF Sent, history
<1>2. /\ Done \in Int /\ pc # "cursor" /\ current \in 1..Len(file)
      /\ file[current] = Done + 1 /\ file[current] \in Msgs
      /\ current = latest_sended_msgid + 1
  BY <1>1, Facts DEF IInv, RunOK
<1>3. Done' = Done + 1
  BY <1>1, <1>2, Facts DEF Done
<1>4. current \in Offsets /\ current \in 0..MaxMsgs
  BY <1>2, Facts DEF Offsets
<1>5. ch' \in [Msgs -> Msgs \cup {0}]
  BY <1>1, <1>2, <1>4 DEF DoCallback, IInv, TypeOK
<1>6. \A m \in Msgs : ch'[m] # ch[m] => m = file[current] /\ ch'[m] = m
  BY <1>1, <1>2, <1>4 DEF DoCallback, IInv, TypeOK, CallbacksOK
<1>7. \A s \in Servers : file[current] \in Queued(s)
  BY <1>1 DEF IInv, QueuesOK
<1>8. TypeOK'
  <2>1. 0 \in 0..Len(file')
    BY <1>1, Facts
  <2>2. QED BY <1>1, <1>4, <1>5, <2>1 DEF IInv, TypeOK
<1>9. FileOK' /\ RunOK'
  BY <1>1 DEF IInv, FileOK, RunOK, Locked, Scanning
<1>10. QueuesOK'
  <2> SUFFICES ASSUME NEW s \in Servers
               PROVE  \A m \in Queued(s)' : m <= Done + 2 /\ m # Done + 2
    BY <1>1, <1>2, <1>3 DEF QueuesOK
  <2>1. Queued(s)' = Queued(s)
    BY <1>1 DEF Queued
  <2>2. \A m \in Queued(s) : m \in Int /\ m <= Done + 1
    BY QueuedBounds
  <2>3. QED BY <1>2, <2>1, <2>2
<1>11. CallbacksOK'
  BY <1>1, <1>6, <1>7 DEF IInv, CallbacksOK, Queued
<1>12. DuplicatesExplained' /\ AckIsOwn'
  BY <1>1 DEF IInv, DuplicatesExplained, AckIsOwn, Queued
<1>13. QED BY <1>8, <1>9, <1>10, <1>11, <1>12 DEF IInv

\* The truncation.
LEMMA TruncateStep ==
  ASSUME IInv, Decide \/ SaveCursor
  PROVE  IInv'
<1>1. /\ wt' = wt /\ writing' = writing /\ ch' = ch /\ waiting' = waiting /\ acked' = acked
      /\ current' = current /\ rest' = rest /\ ims' = ims /\ saved' = saved /\ cut' = cut
      /\ pc \in {"decide", "cursor"} /\ pc' \in {"idle", "cursor"}
  BY DEF Decide, SaveCursor, cbVars, history
<1>2. current = 0 /\ rest = {} /\ writing = 0
  BY <1>1 DEF IInv, RunOK, FileOK, Scanning, Locked
<1>3. /\ file' \in Seq(Msgs) /\ Len(file') \in Nat /\ Len(file') <= saved
      /\ file' = file \/ file' = << >>
      /\ pc' = "cursor" => file' = << >>
      /\ pc' # "cursor" => latest_msgid' = Len(file')
      /\ latest_msgid' \in 0..MaxMsgs /\ latest_sended_msgid' \in 0..MaxMsgs
      /\ cursor' = latest_sended_msgid'
  <2>1. CASE Decide
    <3>1. /\ latest_msgid' = latest_msgid /\ latest_sended_msgid' = latest_sended_msgid
          /\ cursor' = cursor /\ pc = "decide"
      BY <2>1 DEF Decide
    <3>2. \/ file' = file /\ pc' = "idle"
          \/ file' = << >> /\ pc' = "cursor"
      BY <2>1 DEF Decide
    <3>3. << >> \in Seq(Msgs) /\ Len(<< >>) = 0
      OBVIOUS
    <3>4. CASE file' = file /\ pc' = "idle"
      BY <3>1, <3>4, Facts DEF IInv, TypeOK, RunOK
    <3>5. CASE file' = << >> /\ pc' = "cursor"
      BY <3>1, <3>3, <3>5, Facts DEF IInv, TypeOK, RunOK
    <3>6. QED BY <3>2, <3>4, <3>5
  <2>2. CASE SaveCursor
    BY <2>2, Facts, GroupDeliverAssumption DEF SaveCursor, IInv, TypeOK, FileOK
  <2>3. QED BY <2>1, <2>2
<1>4. Done' = Done
  <2>1. CASE Decide
    <3>1. latest_msgid = Len(file) /\ latest_sended_msgid' = latest_sended_msgid
      BY <2>1 DEF Decide, IInv, TypeOK
    <3>2. pc = "decide"
      BY <2>1 DEF Decide
    <3>3. \/ pc' = "cursor" /\ latest_sended_msgid = Len(file)
          \/ pc' = "idle" /\ file' = file
      BY <2>1, <3>1 DEF Decide
    <3>4. QED BY <1>1, <3>1, <3>2, <3>3, Facts DEF Done
  <2>2. CASE SaveCursor
    BY <1>1, <2>2, Facts DEF SaveCursor, Done, IInv, FileOK
  <2>3. QED BY <2>1, <2>2
<1>5. /\ callbacks' \in [Offsets -> Msgs \cup {0}]
      /\ callbackid_to_msgid' \in [Msgs -> Offsets \cup {0}]
      /\ callbacks' = callbacks \/ callbacks' = NoCallbacks
      /\ callbacks' = NoCallbacks \/ pc' = "cursor" \/ (file' = file /\ pc # "cursor")
  <2>1. CASE Decide
    <3>1. pc' = "cursor" \/ (file' = file /\ pc # "cursor")
      BY <2>1 DEF Decide
    <3>2. QED BY <2>1, <3>1 DEF Decide, cbVars, IInv, TypeOK
  <2>2. CASE SaveCursor
    BY <2>2 DEF SaveCursor, NoCallbacks
  <2>3. QED BY <2>1, <2>2
<1>6. TypeOK'
  <2>1. current' \in 0..Len(file')
    BY <1>1, <1>2, <1>3
  <2>2. cursor' \in 0..MaxMsgs
    BY <1>3
  <2>3. QED BY <1>1, <1>3, <1>5, <2>1, <2>2 DEF IInv, TypeOK
<1>7. FileOK'
  BY <1>1, <1>2, <1>3 DEF IInv, FileOK
<1>8. RunOK'
  BY <1>1, <1>2, <1>3 DEF RunOK
<1>9. QueuesOK'
  BY <1>1, <1>2, <1>4 DEF IInv, QueuesOK, Queued
<1>10. CallbacksOK'
  <2>1. \A m \in Msgs : ch'[m] # 0 => ch'[m] = m /\ \A s \in Servers : m \in Queued(s)'
    BY <1>1 DEF IInv, CallbacksOK, Queued
  <2>2. pc' # "cursor" => \A o \in Offsets : callbacks'[o] # 0 => o <= Len(file') /\ file'[o] = callbacks'[o]
    <3>1. CASE callbacks' = NoCallbacks
      BY <3>1 DEF NoCallbacks
    <3>2. CASE callbacks' = callbacks
      BY <1>5, <3>1, <3>2 DEF IInv, CallbacksOK
    <3>3. QED BY <1>5, <3>1, <3>2
  <2>3. QED BY <2>1, <2>2 DEF CallbacksOK
<1>11. DuplicatesExplained' /\ AckIsOwn'
  BY <1>1 DEF IInv, DuplicatesExplained, AckIsOwn, Queued
<1>12. QED BY <1>6, <1>7, <1>8, <1>9, <1>10, <1>11 DEF IInv

\* After a crash in the middle of a truncation the old cursor counts in an
\* empty file: Done goes up, and messages that come are passed over.
LEMMA CrashStep ==
  ASSUME IInv, Crash
  PROVE  IInv' /\ Done' >= Done /\ (pc # "cursor" => Done' = Done)
<1>1. /\ cut' = IF current # 0 THEN cut \cup {file[current]} ELSE cut
      /\ latest_msgid' = Len(file) /\ latest_sended_msgid' = cursor
      /\ wt' = 0 /\ writing' = 0
      /\ callbacks' = NoCallbacks /\ callbackid_to_msgid' = [m \in Msgs |-> 0]
      /\ ch' = [m \in Msgs |-> 0] /\ waiting' = {}
      /\ pc' = "idle" /\ current' = 0 /\ rest' = {}
      /\ file' = file /\ cursor' = cursor /\ acked' = acked /\ saved' = saved /\ ims' = ims
  BY DEF Crash, diskVars
<1>2. cursor = latest_sended_msgid
  BY DEF IInv, RunOK
<1>3. /\ Done' \in Int /\ Done' >= Done
      /\ pc # "cursor" => Done' = Done
  BY <1>1, <1>2, Facts DEF Done, IInv, FileOK
<1>4. TypeOK'
  <2>1. wt' \in 0..WtSize
    BY <1>1, GroupDeliverAssumption
  <2>2. cut' \subseteq Msgs
    BY <1>1, Facts DEF IInv, TypeOK
  <2>3. callbacks' \in [Offsets -> Msgs \cup {0}]
    BY <1>1 DEF NoCallbacks
  <2>4. latest_msgid' \in 0..MaxMsgs /\ current' \in 0..Len(file')
    BY <1>1, Facts
  <2>5. QED BY <1>1, <1>2, <2>1, <2>2, <2>3, <2>4 DEF IInv, TypeOK
<1>5. FileOK' /\ RunOK'
  BY <1>1, <1>2 DEF IInv, FileOK, RunOK
<1>6. QueuesOK'
  <2>1. CASE Done' = Done
    BY <1>1, <2>1, Facts DEF IInv, QueuesOK, Queued
  <2>2. CASE Done' > Done
    <3> SUFFICES ASSUME NEW s \in Servers
                 PROVE  \A m \in Queued(s)' : m <= Done' + 1 /\ m # Done' + 1
      BY <1>1 DEF QueuesOK
    <3>1. Queued(s)' = Queued(s)
      BY <1>1 DEF Queued
    <3>2. \A m \in Queued(s) : m \in Int /\ m <= Done + 1
      BY QueuedBounds
    <3>3. Done \in Int
      BY Facts
    <3>4. QED BY <1>3, <2>2, <3>1, <3>2, <3>3
  <2>3. QED BY <1>3, <2>1, <2>2, Facts
<1>7. CallbacksOK'
  BY <1>1 DEF CallbacksOK, NoCallbacks
<1>8. DuplicatesExplained'
  BY <1>1 DEF IInv, DuplicatesExplained
<1>9. AckIsOwn'
  BY <1>1 DEF IInv, AckIsOwn, Queued
<1>10. QED BY <1>3, <1>4, <1>5, <1>6, <1>7, <1>8, <1>9 DEF IInv

\* The inductive invariant holds when the process is started.
LEMMA InitInvariant ==
  ASSUME Init
  PROVE  IInv /\ NothingSkipped /\ NoneOvertaken
<1>1. TypeOK
  BY GroupDeliverAssumption DEF Init, TypeOK, NoCallbacks
<1>2. FileOK /\ RunOK /\ CallbacksOK /\ AckIsOwn
  BY DEF Init, FileOK, RunOK, CallbacksOK, AckIsOwn, NoCallbacks
<1>3. \A s \in Servers : ims[s] = << >> /\ Len(ims[s]) = 0 /\ Queued(s) = {}
  <2>1. Len(<< >>) = 0 /\ 1..0 = {}
    OBVIOUS
  <2>2. QED BY <2>1 DEF Init, Queued
<1>4. QueuesOK /\ DuplicatesExplained /\ NoneOvertaken
  BY <1>3 DEF Init, QueuesOK, DuplicatesExplained, NoneOvertaken
<1>5. NothingSkipped
  BY <1>1 DEF Init, NothingSkipped, Done, TypeOK, Msgs
<1>6. QED BY <1>1, <1>2, <1>4, <1>5 DEF IInv

\* The inductive invariant is kept by every step.
LEMMA StepInvariant ==
  ASSUME IInv, [Next]_vars
  PROVE  IInv'
<1>1. CASE Write
  BY <1>1, WriteStep
<1>2. CASE EndSave \/ \E m \in Msgs : HandlerReturns(m)
  BY <1>2, HandlerStep
<1>3. CASE Flush \/ BeginSend \/ EndScan \/ Lock
  BY <1>3, ScanStep
<1>4. CASE \E s \in Servers : SavePeerGroupMessage(s)
  BY <1>4, SendStep
<1>5. CASE \E s \in Servers : SavePeerGroupMessageFails(s)
  BY <1>5, FailStep
<1>6. CASE Sent
  BY <1>6, SentStep
<1>7. CASE Decide \/ SaveCursor
  BY <1>7, TruncateStep
<1>8. CASE Crash
  BY <1>8, CrashStep
<1>9. CASE UNCHANGED vars
  BY <1>9 DEF vars, diskVars, cbVars, runVars, history, IInv, TypeOK, FileOK, Locked, RunOK,
     Scanning, QueuesOK, Done, Queued, CallbacksOK, DuplicatesExplained, AckIsOwn
<1>10. QED
  BY <1>1, <1>2, <1>3, <1>4, <1>5, <1>6, <1>7, <1>8, <1>9 DEF Next, Run

-----------------------------------------------------------------------------
\* Nothing is passed over.

\* Queues never lose a message, and hold at most one new one, which is the next
\* one to be sent.
LEMMA NothingSkippedStep ==
  ASSUME IInv, NothingSkipped, [Next]_vars, ~TruncateCrash
  PROVE  NothingSkipped'
<1> USE Facts
<1>1. CASE Write
  <2>1. /\ file' = Append(file, saved + 1) /\ saved' = saved + 1 /\ pc' = pc /\ ims' = ims
        /\ latest_sended_msgid' = latest_sended_msgid /\ pc # "cursor"
    BY <1>1 DEF Write, runVars, Locked
  <2>2. Len(file') = Len(file) + 1
    BY <1>1, <2>1 DEF IInv, TypeOK
  <2>3. Done' = Done
    BY <2>1, <2>2 DEF Done
  <2>4. QED BY <2>1, <2>2, <2>3 DEF NothingSkipped, Queued
<1>2. CASE EndSave \/ (\E m \in Msgs : HandlerReturns(m)) \/ Flush \/ BeginSend \/ EndScan \/ Lock
  <2>1. /\ file' = file /\ saved' = saved /\ ims' = ims
        /\ latest_sended_msgid' = latest_sended_msgid
        /\ pc' = "cursor" <=> pc = "cursor"
    <3>1. CASE EndSave \/ \E m \in Msgs : HandlerReturns(m)
      BY <3>1 DEF EndSave, HandlerReturns, diskVars, runVars, history
    <3>2. CASE Flush \/ BeginSend \/ EndScan \/ Lock
      BY <3>2 DEF Flush, BeginSend, EndScan, EndOfScan, Lock, Scanning, diskVars, history
    <3>3. QED BY <1>2, <3>1, <3>2
  <2>2. Done' = Done
    BY <2>1 DEF Done
  <2>3. QED BY <2>1, <2>2 DEF NothingSkipped, Queued
<1>3. ASSUME NEW s \in Servers, SavePeerGroupMessage(s) \/ SavePeerGroupMessageFails(s)
      PROVE  NothingSkipped'
  <2>1. /\ file' = file /\ saved' = saved /\ latest_sended_msgid' = latest_sended_msgid
        /\ current # 0 /\ s \in rest /\ cut \subseteq cut'
        /\ pc # "cursor" /\ pc' # "cursor"
    BY <1>3 DEF SavePeerGroupMessage, SavePeerGroupMessageFails, EndOfScan, diskVars, history
  <2>2. \A t \in Servers : Queued(t) \subseteq Queued(t)'
    <3>1. CASE ims' = ims
      BY <3>1 DEF Queued
    <3>2. CASE ims' = [ims EXCEPT ![s] = Append(@, file[current])]
      BY <2>1, <3>2, SendAppend
    <3>3. QED BY <1>3, <3>1, <3>2 DEF SavePeerGroupMessage, SavePeerGroupMessageFails
  <2>3. Done' = Done
    BY <2>1 DEF Done
  <2>4. QED BY <2>1, <2>2, <2>3 DEF NothingSkipped
<1>4. CASE Sent
  <2>1. /\ file' = file /\ saved' = saved /\ latest_sended_msgid' = current /\ current # 0
        /\ rest = {} /\ pc' = pc /\ ims' = ims
    BY <1>4 DEF Sent, history
  <2>2. /\ pc # "cursor" /\ current \in 1..Len(file) /\ file[current] = Done + 1
        /\ current = latest_sended_msgid + 1
    BY <2>1 DEF IInv, RunOK
  <2>3. Done' = Done + 1
    BY <2>1, <2>2 DEF Done
  <2>4. \A s \in Servers : Done + 1 \in Queued(s)
    BY <2>1, <2>2 DEF IInv, QueuesOK
  <2>5. ASSUME NEW s \in Servers, NEW m \in Msgs, m <= Done + 1
        PROVE  m \in Queued(s)
    BY <2>4, <2>5 DEF NothingSkipped, Msgs
  <2>6. QED BY <2>1, <2>2, <2>3, <2>5 DEF NothingSkipped, Queued
<1>5. CASE Decide
  <2>1. /\ saved' = saved /\ ims' = ims /\ latest_sended_msgid' = latest_sended_msgid
        /\ pc = "decide" /\ latest_msgid = Len(file)
    BY <1>5 DEF Decide, history, IInv, TypeOK
  <2>2. CASE latest_msgid = latest_sended_msgid
    BY <1>5, <2>1, <2>2 DEF Decide, NothingSkipped, Done, Queued
  <2>3. CASE latest_msgid # latest_sended_msgid
    BY <1>5, <2>1, <2>3 DEF Decide, NothingSkipped, Done, Queued
  <2>4. QED BY <2>2, <2>3
<1>6. CASE SaveCursor
  <2>1. /\ file' = file /\ Len(file) = 0 /\ saved' = saved /\ ims' = ims
        /\ latest_sended_msgid' = 0 /\ pc = "cursor" /\ pc' = "idle"
    BY <1>6 DEF SaveCursor, history, IInv, FileOK
  <2>2. Done' = Done
    BY <2>1 DEF Done
  <2>3. QED BY <2>1, <2>2 DEF NothingSkipped, Queued
<1>7. CASE Crash
  <2>1. /\ file' = file /\ latest_sended_msgid' = latest_sended_msgid /\ ims' = ims
        /\ pc # "cursor"
    BY <1>7 DEF Crash, diskVars, IInv, RunOK
  <2>2. Done' = Done
    BY <1>7, <2>1, CrashStep
  <2>3. QED BY <2>1, <2>2 DEF NothingSkipped, Queued
<1>8. CASE UNCHANGED vars
  BY <1>8 DEF vars, diskVars, runVars, history, NothingSkipped, Done, Queued
<1>9. QED BY <1>1, <1>2, <1>3, <1>4, <1>5, <1>6, <1>7, <1>8 DEF Next, Run

\* No step delivers a message before an older one.
LEMMA NoneOvertakenStep ==
  ASSUME IInv, NothingSkipped, NoneOvertaken, [Next]_vars
  PROVE  NoneOvertaken'
<1>0. Done \in Int /\ MaxMsgs \in Nat
  BY Facts
<1>1. CASE ims' = ims
  BY <1>1 DEF NoneOvertaken
<1>2. ASSUME NEW s \in Servers, current # 0, s \in rest,
             ims' = [ims EXCEPT ![s] = Append(@, file[current])]
      PROVE  NoneOvertaken'
  <2> DEFINE n == Len(ims[s])
  <2>1. /\ file[current] = Done + 1 /\ file[current] \in Msgs /\ ims \in [Servers -> Seq(Msgs)]
    BY <1>2, Facts DEF IInv, TypeOK
  <2>2. /\ n \in Nat /\ Len(ims'[s]) = n + 1 /\ ims'[s][n + 1] = Done + 1
        /\ \A i \in 1..n : ims'[s][i] = ims[s][i]
        /\ \A t \in Servers \ {s} : ims'[t] = ims[t]
    BY <1>2, <2>1, QueueAppend
  <2> SUFFICES ASSUME NEW t \in Servers, NEW i \in 1..Len(ims'[t]), NEW m \in 1..ims'[t][i] - 1
               PROVE  \E j \in 1..i - 1 : ims'[t][j] = m
    BY DEF NoneOvertaken
  <2>3. CASE t # s
    <3>1. ims'[t] = ims[t]
      BY <2>2, <2>3
    <3> QED BY <3>1 DEF NoneOvertaken
  <2>4. CASE t = s /\ i \in 1..n
    <3>1. ims'[s][i] = ims[s][i]
      BY <2>2, <2>4
    <3>2. PICK j \in 1..i - 1 : ims[s][j] = m
      BY <2>4, <3>1 DEF NoneOvertaken
    <3>3. j \in 1..n
      BY <2>2, <2>4
    <3>4. QED BY <2>2, <2>4, <3>2, <3>3
  <2>5. CASE t = s /\ i = n + 1
    <3>1. m \in Msgs /\ m <= Done
      <4>1. m \in 1..Done
        <5>1. ims'[t][i] = Done + 1 BY <2>2, <2>5
        <5>2. m \in 1..(Done + 1) - 1 BY <5>1, Zenon
        <5> QED BY <1>0, <5>2
      <4>2. Done + 1 \in 1..MaxMsgs BY <2>1 DEF Msgs
      <4> QED BY <1>0, <4>1, <4>2 DEF Msgs
    <3>2. m \in Queued(s)
      BY <3>1 DEF NothingSkipped
    <3>3. PICK j \in 1..n : ims[s][j] = m
      BY <3>2 DEF Queued
    <3>4. QED BY <2>2, <2>5, <3>3
  <2>6. QED BY <2>2, <2>3, <2>4, <2>5
<1>3. \/ ims' = ims
      \/ \E s \in Servers : /\ current # 0 /\ s \in rest
                            /\ ims' = [ims EXCEPT ![s] = Append(@, file[current])]
  <2>1. CASE \E s \in Servers : SavePeerGroupMessage(s) \/ SavePeerGroupMessageFails(s)
    BY <2>1 DEF SavePeerGroupMessage, SavePeerGroupMessageFails
  <2>2. CASE ~\E s \in Servers : SavePeerGroupMessage(s) \/ SavePeerGroupMessageFails(s)
    BY <2>2 DEF Next, Run, Write, EndSave, HandlerReturns, Flush, BeginSend, EndScan, Sent, Lock,
       Decide, SaveCursor, Crash, vars
  <2>3. QED BY <2>1, <2>2
<1>4. QED BY <1>1, <1>2, <1>3

-----------------------------------------------------------------------------
\* The inductive invariant always holds.
LEMMA AlwaysInvariant == SafetySpec => []IInv
<1>1. Init => IInv
  BY InitInvariant
<1>2. IInv /\ [Next]_vars => IInv'
  BY StepInvariant
<1>3. QED BY <1>1, <1>2, PTL DEF SafetySpec

\* GroupMessageDeliver keeps its types, and latest_msgid at the end of its file.
THEOREM TypeCorrect == SafetySpec => []TypeOK
<1>1. IInv => TypeOK
  BY DEF IInv
<1>2. QED BY <1>1, AlwaysInvariant, PTL

\* group_message_deliver.go: neither truncateFile nor the two wake-ups of run
\* send a message a second time.  Whatever crashes come, in a truncation too.
THEOREM NoUnexplainedDuplicates == SafetySpec => []DuplicatesExplained
<1>1. IInv => DuplicatesExplained
  BY DEF IInv
<1>2. QED BY <1>1, AlwaysInvariant, PTL

\* DoCallback gives a handler the metadata of its own message, when the message
\* is in the queues of all members.  Whatever crashes come.
THEOREM AckAlwaysOwn == SafetySpec => []AckIsOwn
<1>1. IInv => AckIsOwn
  BY DEF IInv
<1>2. QED BY <1>1, AlwaysInvariant, PTL

\* sendPendingMessage and truncateFile: no message overtakes one that was saved
\* to the file before it, unless the process dies between Truncate and
\* saveCursor.
THEOREM NeverOvertaken ==
  ASSUME ~TruncateCrash
  PROVE  SafetySpec => []NoneOvertaken
<1>1. Init => NothingSkipped /\ NoneOvertaken
  BY InitInvariant
<1>2. IInv /\ NothingSkipped /\ NoneOvertaken /\ [Next]_vars => NothingSkipped' /\ NoneOvertaken'
  BY NothingSkippedStep, NoneOvertakenStep
<1>3. QED BY <1>1, <1>2, AlwaysInvariant, PTL DEF SafetySpec

-----------------------------------------------------------------------------
(***************************************************************************)
(* The instances of Sessions and Routing.                                  *)
(***************************************************************************)

\* The same instance of Sessions as Se, with what was proved of it.
Sp == INSTANCE SessionsProofs WITH
        Conns <- {c1, c2, c3}, Servers <- {1, 2},
        ServerOf <- [c \in {c1, c2, c3} |-> IF c = c1 THEN 1 ELSE 2],
        Users <- {user}, UserOf <- [c \in {c1, c2, c3} |-> user], Devices <- {phone, pad},
        DeviceOf <- [c \in {c1, c2, c3} |-> IF c = c3 THEN pad ELSE phone],
        MaxFailures <- SessionFailures, failures <- redis_failures, subscribed <- connected

\* A step of MCServers is one of Sessions or leaves its state alone.
LEMMA ImplementsSessions == MCSpec => Sp!Spec
<1>1. MCInit => Sp!Init
  BY DEF MCInit, Se!Init, Sp!Init
<1>2. [MCNext]_<<which, vars, storeVars, routeVars, sessionVars>> => [Sp!Next]_(Sp!vars)
  <2>1. CASE UNCHANGED sessionVars
    BY <2>1 DEF sessionVars, Sp!vars, Sp!redisVars, Sp!eventVars, Sp!connVars
  <2>2. CASE Se!Next
    BY <2>2, Zenon DEF Se!Next, Sp!Next, Se!HandleAuthToken, Sp!HandleAuthToken,
       Se!LoadUserAccessToken, Sp!LoadUserAccessToken, Se!GetUserPreferences,
       Sp!GetUserPreferences, Se!GetDevice, Sp!GetDevice, Se!Incr, Sp!Incr, Se!SetDevice,
       Sp!SetDevice, Se!AddClient, Sp!AddClient, Se!HandleClientClosed, Sp!HandleClientClosed,
       Se!ChangeFlag, Sp!ChangeFlag, Se!Publish, Sp!Publish, Se!HandleForbidden,
       Sp!HandleForbidden, Se!Unsubscribe, Sp!Unsubscribe, Se!SubscribeRedis, Sp!SubscribeRedis,
       Se!Fails, Sp!Fails, Se!Refused, Sp!Refused, Se!Meeting, Sp!Meeting, Se!Doubt, Sp!Doubt,
       Se!NewID, Sp!NewID, Se!Reading, Sp!Reading, Se!Told, Sp!Told, Se!redisVars, Sp!redisVars,
       Se!eventVars, Sp!eventVars, Se!connVars, Sp!connVars
  <2> QED BY <2>1, <2>2 DEF MCNext
<1> QED BY <1>1, <1>2, PTL DEF MCSpec, Sp!Spec

\* Its constants are as Sessions assumes them.
LEMMA SessionsGiven == Sp!SessionsAssumption
BY ConstantsAreBounds DEF Sp!SessionsAssumption, Se!SessionsAssumption

\* GetDeviceID never gives connections of two devices one id.
THEOREM ServersDeviceIDsDiffer == MCSpec => []DeviceIDsDiffer
<1>1. Sp!Spec => []Sp!DeviceIDsDiffer
  BY SessionsGiven, Sp!DeviceIDsAlwaysDiffer
<1>2. Sp!DeviceIDsDiffer => DeviceIDsDiffer
  BY DEF Sp!DeviceIDsDiffer, DeviceIDsDiffer, Se!DeviceIDsDiffer
<1> QED BY <1>1, <1>2, ImplementsSessions, PTL

\* GetDeviceID gives a device its id again, unless log-ins met or redis failed.
THEOREM ServersDeviceKeepsID == MCSpec => DeviceKeepsID
<1>1. Sp!Spec => Sp!DeviceKeepsID
  BY SessionsGiven, Sp!DeviceAlwaysKeepsID
<1>2. Sp!DeviceKeepsID => DeviceKeepsID
  BY DEF Sp!DeviceKeepsID, DeviceKeepsID, Se!DeviceKeepsID, Sp!vars, Se!vars, Sp!redisVars,
         Se!redisVars, Sp!eventVars, Se!eventVars, Sp!connVars, Se!connVars
<1> QED BY <1>1, <1>2, ImplementsSessions, PTL

\* HandleForbidden keeps Client.forbidden up to date, but for events that were
\* lost or came in the middle of a log-in.
THEOREM ServersForbiddenAgrees == MCSpec => []ForbiddenAgrees
<1>1. Sp!Spec => []Sp!ForbiddenAgrees
  BY SessionsGiven, Sp!ForbiddenAlwaysAgrees
<1>2. Sp!ForbiddenAgrees => ForbiddenAgrees
  BY DEF Sp!ForbiddenAgrees, ForbiddenAgrees, Se!ForbiddenAgrees
<1> QED BY <1>1, <1>2, ImplementsSessions, PTL

-----------------------------------------------------------------------------
\* The same instance of Routing as Rt, with what was proved of it.
Rq == INSTANCE RoutingProofs WITH
        Clients <- {p1, d1, v1}, Keys <- {user, room}, Rooms <- {room}, Online <- {p1},
        KeyOf <- [c \in {p1, d1, v1} |-> IF c = v1 THEN room ELSE user], wt <- route_wt

\* A step of MCServers is one of Routing or leaves its state alone.
LEMMA ImplementsRouting == MCSpec => Rq!SafetySpec
<1>1. MCInit => Rq!Init
  BY DEF MCInit, Rt!Init, Rq!Init, Rt!NoMsg, Rq!NoMsg, Rt!NoKeys, Rq!NoKeys
<1>2. [MCNext]_<<which, vars, storeVars, routeVars, sessionVars>> => [Rq!Next]_(Rq!vars)
  <2>1. CASE UNCHANGED routeVars
    BY <2>1 DEF routeVars, Rq!vars
  <2>2. CASE Rt!Next
    BY <2>2, Zenon DEF Rt!Next, Rq!Next, Rt!Subscribe, Rq!Subscribe, Rt!Unsubscribe, Rq!Unsubscribe,
       Rt!AddSubscribe, Rq!AddSubscribe, Rt!RemoveSubscribe, Rq!RemoveSubscribe, Rt!ToTell, Rq!ToTell,
       Rt!Msg, Rq!Msg, Rt!NoMsg, Rq!NoMsg, Rt!StatusOf, Rq!StatusOf, Rt!SendWt, Rq!SendWt,
       Rt!ReSubscribeRoom, Rq!ReSubscribeRoom, Rt!Forward, Rq!Forward, Rt!LinkDown, Rq!LinkDown,
       Rt!Connect, Rq!Connect, Rt!Handle, Rq!Handle, Rt!RemoveClient, Rq!RemoveClient,
       Rt!Subscriptions, Rq!Subscriptions, Rt!SetToSeq, Rq!SetToSeq, Rt!IsInjective, Rq!IsInjective,
       Rt!Cardinality, Rq!Cardinality,
       Rt!Forget, Rq!Forget, Rt!ToSet, Rq!ToSet, Rt!Transmit, Rq!Transmit, Rt!NoKeys, Rq!NoKeys,
       Rt!imVars, Rq!imVars, Rt!imrVars, Rq!imrVars
  <2> QED BY <2>1, <2>2 DEF MCNext
<1> QED BY <1>1, <1>2, PTL DEF MCSpec, Rq!SafetySpec

\* Its constants are as Routing assumes them.
LEMMA RoutingGiven == Rq!RoutingAssumption
BY ConstantsAreBounds DEF Rq!RoutingAssumption, Rt!RoutingAssumption, Rq!IsFiniteSet, Rt!IsFiniteSet

\* Once Channel has told everything, the route server knows of every user and room
\* what their clients call for.
THEOREM ServersRouteAgrees == MCSpec => []RouteAgrees
<1>1. Rq!SafetySpec => []Rq!RouteAgrees
  BY RoutingGiven, Rq!RoutesAgree
<1>2. Rq!RouteAgrees => RouteAgrees
  BY DEF Rq!RouteAgrees, RouteAgrees, Rt!RouteAgrees, Rq!Settled, Rt!Settled, Rq!Wanted, Rt!Wanted,
     Rq!ToSet, Rt!ToSet, Rq!StatusOf, Rt!StatusOf
<1> QED BY <1>1, <1>2, ImplementsRouting, PTL

-----------------------------------------------------------------------------
\* The same instance of MessageStore and HistoryLoad as Hl, with what was proved of it.
St == INSTANCE StoreProofs

\* A step of MCServers is one of MessageStore or leaves its state alone.
LEMMA ImplementsStore == MCSpec => St!Spec
<1>1. MCInit => St!Init
  BY DEF MCInit, Hl!Init, St!Init, Hl!NoSave, St!NoSave, Hl!Idle, St!Idle, Hl!NoUsers, St!NoUsers,
     Hl!NoGroups, St!NoGroups, Hl!ZeroUser, St!ZeroUser, Hl!ZeroGroup, St!ZeroGroup
<1>2. [MCNext]_<<which, vars, storeVars, routeVars, sessionVars>> => [St!Next]_(St!vars)
  <2>1. UNCHANGED storeVars => UNCHANGED St!vars
    BY DEF storeVars, St!vars
  <2>2. Hl!Next => St!Next
    BY Zenon DEF Hl!Next, St!Next, Hl!SaveNext, St!SaveNext, Hl!FlushNext, St!FlushNext,
       Hl!StartNext, St!StartNext, Hl!SaveBody, St!SaveBody, Hl!SavePeerEntry, St!SavePeerEntry,
       Hl!SaveGroupEntry, St!SaveGroupEntry, Hl!PeerEntry, St!PeerEntry, Hl!GroupEntry,
       St!GroupEntry, Hl!Append1, St!Append1, Hl!NextUserIndex, St!NextUserIndex,
       Hl!NextGroupIndex, St!NextGroupIndex, Hl!ExecPeer, St!ExecPeer, Hl!ExecGroup,
       St!ExecGroup, Hl!BlockOf, St!BlockOf, Hl!MayFlush, St!MayFlush, Hl!MustFlush,
       St!MustFlush, Hl!BeginFlush, St!BeginFlush, Hl!TimerFlush, St!TimerFlush, Hl!Stop,
       St!Stop, Hl!BootFlush, St!BootFlush, Hl!SavePeerIndexFile, St!SavePeerIndexFile,
       Hl!SaveGroupIndexFile, St!SaveGroupIndexFile, Hl!SaveGroupIndexFileAndExit,
       St!SaveGroupIndexFileAndExit, Hl!ProcessEnds, St!ProcessEnds, Hl!Crash, St!Crash,
       Hl!RemovePeerFile, St!RemovePeerFile, Hl!RemoveGroupFile, St!RemoveGroupFile, Hl!r1,
       St!r1, Hl!r2, St!r2, Hl!FirstStage, St!FirstStage, Hl!StageAfter, St!StageAfter,
       Hl!StartsAt, St!StartsAt, Hl!ReadIds, St!ReadIds, Hl!ReadIndexFiles, St!ReadIndexFiles,
       Hl!ScanPeer, St!ScanPeer, Hl!ScanGroup, St!ScanGroup, Hl!EndStage, St!EndStage,
       Hl!BootDone, St!BootDone, Hl!Stages, St!Stages, Hl!NoSave, St!NoSave, Hl!Idle, St!Idle,
       Hl!NoUsers, St!NoUsers, Hl!NoGroups, St!NoGroups, Hl!ZeroUser, St!ZeroUser, Hl!ZeroGroup,
       St!ZeroGroup, Hl!Larger, St!Larger, Hl!indexVars, St!indexVars, Hl!diskVars, St!diskVars,
       Hl!logVars, St!logVars
  <2> QED BY <2>1, <2>2 DEF MCNext
<1> QED BY <1>1, <1>2, PTL DEF MCSpec, St!Spec

\* Its constants are as MessageStore and HistoryLoad assume them.
LEMMA StoreGiven == St!StoreAssumption /\ St!LimitsAssumption
BY ConstantsAreBounds DEF Hl!StoreAssumption, St!StoreAssumption,
   Hl!LimitsAssumption, St!LimitsAssumption

\* What the queries return is the same in both.
LEMMA SameQueries ==
  /\ \A s, n : St!FirstOf(s, n) = Hl!FirstOf(s, n)
  /\ \A i : St!MsgidOf(i) = Hl!MsgidOf(i)
  /\ \A i, l, k : St!Follow(i, l, k) = Hl!Follow(i, l, k)
  /\ \A s : St!Msgids(s) = Hl!Msgids(s)
  /\ \A n : St!AtLeastOne(n) = Hl!AtLeastOne(n)
<1>1. \A s, n : St!FirstOf(s, n) = Hl!FirstOf(s, n)
  BY Zenon DEF St!FirstOf, Hl!FirstOf
<1>2. \A i : St!MsgidOf(i) = Hl!MsgidOf(i)
  BY Zenon DEF St!MsgidOf, Hl!MsgidOf
<1>3. \A i, l, k : St!Follow(i, l, k) = Hl!Follow(i, l, k)
  BY <1>2, Zenon DEF St!Follow, Hl!Follow
<1>4. \A s : St!Msgids(s) = Hl!Msgids(s)
  BY Zenon DEF St!Msgids, Hl!Msgids
<1>5. \A n : St!AtLeastOne(n) = Hl!AtLeastOne(n)
  BY Zenon DEF St!AtLeastOne, Hl!AtLeastOne
<1> QED BY <1>1, <1>2, <1>3, <1>4, <1>5

\* And so is what they should return.
LEMMA SameAnswers ==
  /\ \A s, S : St!Lists(s, S) = Hl!Lists(s, S)
  /\ \A S, n : St!NewFor(S, n) = Hl!NewFor(S, n)
  /\ \A S, n : St!NewestOf(S, n) = Hl!NewestOf(S, n)
  /\ \A r, S, n : St!AnswersInFull(r, S, n) = Hl!AnswersInFull(r, S, n)
  /\ \A u, n : St!PeerEntries(u, n) = Hl!PeerEntries(u, n)
  /\ \A u, n : St!DirectEntries(u, n) = Hl!DirectEntries(u, n)
  /\ \A g, n : St!GroupEntries(g, n) = Hl!GroupEntries(g, n)
  /\ \A s : St!ToSet(s) = Hl!ToSet(s)
  /\ St!SyncKeys = Hl!SyncKeys
<1>1. \A s : St!ToSet(s) = Hl!ToSet(s)
  BY Zenon DEF St!ToSet, Hl!ToSet
<1>2. \A s, S : St!Lists(s, S) = Hl!Lists(s, S)
  BY <1>1, Zenon DEF St!Lists, Hl!Lists
<1>3. \A S, n : St!NewFor(S, n) = Hl!NewFor(S, n)
  BY Zenon DEF St!NewFor, Hl!NewFor
<1>4. \A S, n : St!NewestOf(S, n) = Hl!NewestOf(S, n)
  BY Zenon DEF St!NewestOf, Hl!NewestOf, St!Cardinality, Hl!Cardinality
<1>5. \A r, S, n : St!AnswersInFull(r, S, n) = Hl!AnswersInFull(r, S, n)
  BY <1>2, Zenon DEF St!AnswersInFull, Hl!AnswersInFull
<1>6. \A u, n : St!PeerEntries(u, n) = Hl!PeerEntries(u, n)
  BY Zenon DEF St!PeerEntries, Hl!PeerEntries
<1>7. \A u, n : St!DirectEntries(u, n) = Hl!DirectEntries(u, n)
  BY <1>6, Zenon DEF St!DirectEntries, Hl!DirectEntries
<1>8. \A g, n : St!GroupEntries(g, n) = Hl!GroupEntries(g, n)
  BY Zenon DEF St!GroupEntries, Hl!GroupEntries
<1>9. St!SyncKeys = Hl!SyncKeys
  BY Zenon DEF St!SyncKeys, Hl!SyncKeys
<1> QED BY <1>1, <1>2, <1>3, <1>4, <1>5, <1>6, <1>7, <1>8, <1>9

\* LoadHistoryMessagesV3 is the same in both.
LEMMA SameHistory ==
  \A u, k, limit, hard :
    St!LoadHistoryMessagesV3(u, k, limit, hard) = Hl!LoadHistoryMessagesV3(u, k, limit, hard)
<1> SUFFICES ASSUME NEW u, NEW k, NEW limit, NEW hard
             PROVE  St!LoadHistoryMessagesV3(u, k, limit, hard) = Hl!LoadHistoryMessagesV3(u, k, limit, hard)
  OBVIOUS
<1> DEFINE n == hard \div BatchSize
           c == IF limit < BatchSize THEN 1 ELSE limit \div BatchSize
           all == St!Follow(peer[u].last_batch_id, "prevBatch", k)
           ids == St!FirstOf(all, n)
           is_peer == n > 0 /\ Len(ids) >= n /\ n >= c
           start == IF Len(ids) >= c THEN ids[Len(ids) - c + 1] ELSE peer[u].last_id
           found == IF is_peer THEN St!Follow(start, "prevPeer", k) ELSE St!Follow(start, "prev", k)
           answer == [messages |-> St!Msgids(St!FirstOf(found, limit)), last_msgid |-> St!MsgidOf(start),
                      hasMore |-> start > 0 /\ start < peer[u].last_id, is_peer |-> is_peer]
<1>1. St!LoadHistoryMessagesV3(u, k, limit, hard) = answer
  BY DEF St!LoadHistoryMessagesV3
<1>2. all = Hl!Follow(peer[u].last_batch_id, "prevBatch", k)
  BY SameQueries
<1>3. ids = Hl!FirstOf(Hl!Follow(peer[u].last_batch_id, "prevBatch", k), n)
  BY <1>2, SameQueries
<1>4. found = IF is_peer THEN Hl!Follow(start, "prevPeer", k) ELSE Hl!Follow(start, "prev", k)
  BY SameQueries
<1>5. St!MsgidOf(start) = Hl!MsgidOf(start) /\ St!Msgids(St!FirstOf(found, limit)) = Hl!Msgids(Hl!FirstOf(found, limit))
  BY SameQueries
<1> HIDE DEF ids, found
<1>6. Hl!LoadHistoryMessagesV3(u, k, limit, hard) = answer
  BY <1>3, <1>4, <1>5 DEF Hl!LoadHistoryMessagesV3
<1> QED BY <1>1, <1>6

\* One answer of LoadHistoryMessagesV3 leaves out none of a client's new messages,
\* and the next continues where it ended.
THEOREM ServersLeaveNoGap == ASSUME ~EmptyStop PROVE MCSpec => []SyncLeavesNoGap
<1>1. St!Spec => []St!SyncLeavesNoGap
  BY StoreGiven, St!SyncNeverLeavesGap
<1>2. St!SyncLeavesNoGap => SyncLeavesNoGap
  BY SameHistory, SameAnswers, Zenon DEF SyncLeavesNoGap, Hl!SyncLeavesNoGap, St!SyncLeavesNoGap
<1> QED BY <1>1, <1>2, ImplementsStore, PTL

\* Above the hard limit LoadHistoryMessagesV3 still makes progress and keeps the
\* newest of the direct messages it passes over.
THEOREM ServersKeepDirect == ASSUME ~EmptyStop PROVE MCSpec => []HardLimitKeepsDirect
<1>1. St!Spec => []St!HardLimitKeepsDirect
  BY StoreGiven, St!HardLimitAlwaysKeepsDirect
<1>2. St!HardLimitKeepsDirect => HardLimitKeepsDirect
  <2> SUFFICES ASSUME St!HardLimitKeepsDirect, phase = "up", NEW u \in Users, NEW k \in Hl!SyncKeys,
                      NEW limit \in Limits, NEW hard \in HardLimits,
                      limit >= BatchSize, hard >= 2 * limit
               PROVE  LET r == Hl!LoadHistoryMessagesV3(u, k, limit, hard)
                          new == Hl!NewFor(Hl!PeerEntries(u, Len(log)), k)
                          direct == {m \in Hl!NewFor(Hl!DirectEntries(u, Len(log)), k) : m <= r.last_msgid}
                      IN /\ new # {} => r.last_msgid \in new
                         /\ r.hasMore <=> \E m \in new : m > r.last_msgid
                         /\ Hl!NewestOf(direct, limit - 1) \subseteq Hl!ToSet(r.messages)
                         /\ r.is_peer \/ Hl!AnswersInFull(r, new, limit)
    BY DEF HardLimitKeepsDirect, Hl!HardLimitKeepsDirect
  <2> DEFINE r == St!LoadHistoryMessagesV3(u, k, limit, hard)
             new == St!NewFor(St!PeerEntries(u, Len(log)), k)
             direct == {m \in St!NewFor(St!DirectEntries(u, Len(log)), k) : m <= r.last_msgid}
  <2>1. /\ new # {} => r.last_msgid \in new
        /\ r.hasMore <=> \E m \in new : m > r.last_msgid
        /\ St!NewestOf(direct, limit - 1) \subseteq St!ToSet(r.messages)
        /\ r.is_peer \/ St!AnswersInFull(r, new, limit)
    <3>1. k \in St!SyncKeys
      BY SameAnswers
    <3> QED BY <3>1 DEF St!HardLimitKeepsDirect
  <2>2. r = Hl!LoadHistoryMessagesV3(u, k, limit, hard)
    BY SameHistory
  <2>3. new = Hl!NewFor(Hl!PeerEntries(u, Len(log)), k)
    BY SameAnswers
  <2>4. St!NewFor(St!DirectEntries(u, Len(log)), k) = Hl!NewFor(Hl!DirectEntries(u, Len(log)), k)
    BY SameAnswers
  <2>5. /\ St!NewestOf(direct, limit - 1) = Hl!NewestOf(direct, limit - 1)
        /\ St!ToSet(r.messages) = Hl!ToSet(r.messages)
        /\ St!AnswersInFull(r, new, limit) <=> Hl!AnswersInFull(r, new, limit)
    BY SameAnswers
  <2> HIDE DEF r, new
  <2> QED BY <2>1, <2>2, <2>3, <2>4, <2>5
<1> QED BY <1>1, <1>2, ImplementsStore, PTL

\* LoadLatestMessages returns the newest messages of a user, newest first.
THEOREM ServersLatestExact == ASSUME ~EmptyStop PROVE MCSpec => []LatestExact
<1>1. St!Spec => []St!LatestExact
  BY StoreGiven, St!LatestAlwaysExact
<1>2. St!LatestExact => LatestExact
  <2>1. \A u, limit : St!LoadLatestMessages(u, limit) = Hl!LoadLatestMessages(u, limit)
    BY SameQueries, Zenon DEF Hl!LoadLatestMessages, St!LoadLatestMessages
  <2> QED BY <2>1, SameQueries, SameAnswers, Zenon DEF LatestExact, Hl!LatestExact, St!LatestExact
<1> QED BY <1>1, <1>2, ImplementsStore, PTL

\* LoadGroupHistoryMessages returns the newest messages of a group after the sync
\* key, and to a new member none from before it joined, until the store starts again.
THEOREM ServersGroupHistoryExact == MCSpec => []GroupHistoryExact
<1>1. St!Spec => []St!GroupHistoryExact
  BY StoreGiven, St!GroupHistoryAlwaysExact
<1>2. St!GroupHistoryExact => GroupHistoryExact
  <2>1. \A g, k, ts, limit :
          St!LoadGroupHistoryMessages(g, k, ts, limit) = Hl!LoadGroupHistoryMessages(g, k, ts, limit)
    BY SameQueries, Zenon DEF Hl!LoadGroupHistoryMessages, St!LoadGroupHistoryMessages,
       Hl!Larger, St!Larger
  <2> SUFFICES ASSUME St!GroupHistoryExact, phase = "up", starts = 1, NEW g \in Groups,
                      NEW k \in Hl!SyncKeys, NEW ts \in Hl!SyncKeys, NEW limit \in Limits
               PROVE  LET all == Hl!NewFor(Hl!GroupEntries(g, Len(log)), 0)
                          r == Hl!LoadGroupHistoryMessages(g, k, ts, limit)
                          new == {m \in all : m > k}
                      IN /\ Hl!Lists(r.messages,
                                     Hl!NewestOf({m \in new : k = 0 => m >= ts}, Hl!AtLeastOne(limit)))
                         /\ new # {} => r.last_msgid \in new /\ \A m \in new : m <= r.last_msgid
    BY DEF GroupHistoryExact, Hl!GroupHistoryExact
  <2> DEFINE all == St!NewFor(St!GroupEntries(g, Len(log)), 0)
             r == St!LoadGroupHistoryMessages(g, k, ts, limit)
             new == {m \in all : m > k}
             late == {m \in new : k = 0 => m >= ts}
  <2>2. /\ St!Lists(r.messages, St!NewestOf(late, St!AtLeastOne(limit)))
        /\ new # {} => r.last_msgid \in new /\ \A m \in new : m <= r.last_msgid
    <3>1. k \in St!SyncKeys /\ ts \in St!SyncKeys
      BY SameAnswers
    <3> QED BY <3>1 DEF St!GroupHistoryExact
  <2>3. all = Hl!NewFor(Hl!GroupEntries(g, Len(log)), 0)
    BY SameAnswers
  <2>4. r = Hl!LoadGroupHistoryMessages(g, k, ts, limit)
    BY <2>1
  <2>5. St!Lists(r.messages, St!NewestOf(late, St!AtLeastOne(limit)))
          <=> Hl!Lists(r.messages, Hl!NewestOf(late, Hl!AtLeastOne(limit)))
    BY SameQueries, SameAnswers
  <2> HIDE DEF all, r
  <2> QED BY <2>2, <2>3, <2>4, <2>5
<1> QED BY <1>1, <1>2, ImplementsStore, PTL

-----------------------------------------------------------------------------
\* A step of MCServers is one of GroupDeliver or leaves its state alone.
LEMMA ImplementsGroupDeliver == MCSpec => SafetySpec
<1>1. MCInit => Init
  BY DEF MCInit
<1>2. [MCNext]_<<which, vars, storeVars, routeVars, sessionVars>> => [Next]_vars
  BY DEF MCNext, vars
<1> QED BY <1>1, <1>2, PTL DEF MCSpec, SafetySpec

\* GroupMessageDeliver, Channel and Route keep their types, and no count of
\* subscriptions goes below zero.
THEOREM ServersTypes == MCSpec => []ServersTypeOK
<1>1. Rq!SafetySpec => []Rq!TypeOK
  BY RoutingGiven, Rq!RoutingTypes
<1>2. Rq!TypeOK => Rt!TypeOK
  BY DEF Rq!TypeOK, Rt!TypeOK, Rq!Messages, Rt!Messages, Rq!Statuses, Rt!Statuses, Rq!NoMsg, Rt!NoMsg,
     Rq!Cardinality, Rt!Cardinality
<1>3. TypeOK /\ Rt!TypeOK => ServersTypeOK
  BY DEF ServersTypeOK
<1> QED BY <1>1, <1>2, <1>3, ImplementsRouting, ImplementsGroupDeliver, TypeCorrect, PTL
=============================================================================
