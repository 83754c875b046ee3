---------------------------- MODULE StoreProofs ----------------------------
(***************************************************************************)
(* What is proved of MessageStore, for any users, groups, batch and block  *)
(* sizes and bounds, and whatever stops, crashes and lost index files      *)
(* come.  Five parts: type correctness; the personal queues; the queues of *)
(* groups and the number of new messages; the refinement of MessageQueues; *)
(* the answers of the queries of HistoryLoad.                              *)
(***************************************************************************)
EXTENDS MCMessageStore, HistoryLoad, FiniteSetTheorems, WellFoundedInduction, TLAPS

-----------------------------------------------------------------------------
\* Type correctness.

\* Append adds one element behind those there were.
LEMMA SeqAppend ==
  ASSUME NEW S, NEW s \in Seq(S), NEW x \in S
  PROVE  /\ Append(s, x) \in Seq(S)
         /\ Len(Append(s, x)) = Len(s) + 1
         /\ \A i \in 1..Len(s) : Append(s, x)[i] = s[i]
         /\ Append(s, x)[Len(s) + 1] = x
OBVIOUS

\* Append1 adds one record, which differs from rec in the block number only.
LEMMA Append1Type ==
  ASSUME TypeOK, NEW rec \in Record, Append1(rec),
         rec.kind = "peer" => rec.to \in Users,
         rec.kind = "group" => rec.to \in Groups
  PROVE  LogTypeOK' /\ Len(log') = Len(log) + 1
<1>1. block_NO' \in Nat
  BY DEF Append1, TypeOK, LogTypeOK
<1>2. PICK r \in Record : /\ log' = Append(log, r)
                          /\ r.kind = rec.kind /\ r.to = rec.to
  <2>1. [rec EXCEPT !.blk = block_NO'] \in Record
    BY <1>1 DEF Record
  <2>2. QED BY <2>1 DEF Append1, Record
<1>3. log \in Seq(Record)
  BY DEF TypeOK, LogTypeOK
<1>4. QED
  BY <1>1, <1>2, <1>3, SeqAppend DEF TypeOK, LogTypeOK

\* execMessage on a record of the personal queue keeps the index typed.
LEMMA ExecPeerType ==
  ASSUME TypeOK, NEW rec \in Record, rec.kind = "peer" => rec.to \in Users,
         NEW id \in Nat, ExecPeer(rec, id)
  PROVE  peer' \in PeerIndexes /\ last_id' \in Nat
<1>1. ASSUME NEW x \in UserIndex
      PROVE  NextUserIndex(x, rec, id) \in UserIndex
  BY DEF NextUserIndex, UserIndex, Record
<1>2. QED
  BY <1>1 DEF ExecPeer, TypeOK, PeerIndexes, Larger

\* execMessage on a record of a group queue keeps the index typed.
LEMMA ExecGroupType ==
  ASSUME TypeOK, NEW rec \in Record, rec.kind = "group" => rec.to \in Groups,
         NEW id \in Nat, ExecGroup(rec, id)
  PROVE  group' \in GroupIndexes /\ last_id' \in Nat
<1>1. ASSUME NEW x \in GroupIndex
      PROVE  NextGroupIndex(x, rec, id) \in GroupIndex
  BY DEF NextGroupIndex, GroupIndex, Record
<1>2. QED
  BY <1>1 DEF ExecGroup, TypeOK, GroupIndexes, Larger

\* The empty indexes of NewPeerStorage and NewGroupStorage are typed.
LEMMA ZeroType == NoUsers \in PeerIndexes /\ NoGroups \in GroupIndexes
BY DEF NoUsers, NoGroups, ZeroUser, ZeroGroup, PeerIndexes, GroupIndexes,
       UserIndex, GroupIndex

\* saveMessage keeps the types.
LEMMA SaveBodyType ==
  ASSUME TypeOK, NEW kind \in Kinds, NEW grp \in BOOLEAN,
         NEW to \in (IF kind = "peer" THEN Users ELSE Groups),
         SaveBody(kind, to, grp)
  PROVE  TypeOK'
<1> DEFINE rec == [kind |-> "body", to |-> to, grp |-> grp, msgid |-> Len(log) + 1,
                   seq |-> 0, prev |-> 0, prevPeer |-> 0, prevBatch |-> 0, blk |-> 0]
<1>1. Len(log) \in Nat
  BY DEF TypeOK, LogTypeOK
<1>2. rec \in Record /\ rec.kind = "body"
  BY <1>1 DEF Record, Kinds
<1>3. Append1(rec)
  BY DEF SaveBody
<1>4. LogTypeOK'
  BY <1>2, <1>3, Append1Type
<1>5. saving' \in Saves
  BY <1>1 DEF SaveBody, Saves, Kinds
<1>6. QED
  BY <1>4, <1>5 DEF SaveBody, TypeOK, indexVars, diskVars

\* The record that SavePeerMessage appends to the queue is typed.
LEMMA PeerEntryType ==
  ASSUME TypeOK, saving.kind = "peer"
  PROVE  /\ saving.to \in Users /\ saving.grp \in BOOLEAN /\ saving.msgid \in Nat
         /\ PeerEntry(saving.to) \in Record
         /\ PeerEntry(saving.to).kind = "peer"
         /\ PeerEntry(saving.to).to = saving.to
<1>1. saving \in [kind : {"peer"}, to : Users, grp : BOOLEAN, msgid : Nat]
  BY DEF TypeOK, Saves, NoSave
<1>2. peer[saving.to] \in UserIndex
  BY <1>1 DEF TypeOK, PeerIndexes
<1>3. QED
  BY <1>1, <1>2 DEF PeerEntry, Record, Kinds, UserIndex

\* The record that SaveGroupMessage appends to the queue is typed.
LEMMA GroupEntryType ==
  ASSUME TypeOK, saving.kind = "group"
  PROVE  /\ saving.to \in Groups
         /\ GroupEntry(saving.to) \in Record
         /\ GroupEntry(saving.to).kind = "group"
         /\ GroupEntry(saving.to).to = saving.to
<1>1. saving \in [kind : {"group"}, to : Groups, grp : BOOLEAN, msgid : Nat]
  BY DEF TypeOK, Saves, NoSave
<1>2. group[saving.to] \in GroupIndex
  BY <1>1 DEF TypeOK, GroupIndexes
<1>3. QED
  BY <1>1, <1>2 DEF GroupEntry, Record, Kinds, GroupIndex

\* SavePeerMessage and SaveGroupMessage keep the types.
LEMMA SaveEntryType ==
  ASSUME TypeOK, SavePeerEntry \/ SaveGroupEntry
  PROVE  TypeOK'
<1>1. Len(log) + 1 \in Nat
  BY DEF TypeOK, LogTypeOK
<1>2. NoSave \in Saves
  BY DEF Saves
<1>3. CASE SavePeerEntry
  <2>1. LogTypeOK'
    BY <1>3, PeerEntryType, Append1Type DEF SavePeerEntry
  <2>2. peer' \in PeerIndexes /\ last_id' \in Nat
    BY <1>1, <1>3, PeerEntryType, ExecPeerType DEF SavePeerEntry
  <2>3. QED
    BY <1>2, <1>3, <2>1, <2>2 DEF SavePeerEntry, TypeOK, diskVars
<1>4. CASE SaveGroupEntry
  <2>1. LogTypeOK'
    BY <1>4, GroupEntryType, Append1Type DEF SaveGroupEntry
  <2>2. group' \in GroupIndexes /\ last_id' \in Nat
    BY <1>1, <1>4, GroupEntryType, ExecGroupType DEF SaveGroupEntry
  <2>3. QED
    BY <1>2, <1>4, <2>1, <2>2 DEF SaveGroupEntry, TypeOK, diskVars
<1>5. QED BY <1>3, <1>4

\* The log does not change in the other actions.
LEMMA FlushType ==
  ASSUME TypeOK, FlushNext
  PROVE  TypeOK'
<1>1. LogTypeOK'
  BY DEF FlushNext, TimerFlush, Stop, BootFlush, SavePeerIndexFile,
         SaveGroupIndexFile, SaveGroupIndexFileAndExit, ProcessEnds, TypeOK,
         LogTypeOK, logVars
<1>2. ASSUME NEW by \in {"timer", "boot", "exit"}, BeginFlush(by)
      PROVE  flush' \in Flushes
  BY <1>2 DEF BeginFlush, TypeOK, Flushes
<1>3. CASE TimerFlush
  BY <1>1, <1>2, <1>3 DEF TimerFlush, TypeOK, logVars, indexVars, diskVars
<1>4. CASE Stop
  BY <1>1, <1>2, <1>4 DEF Stop, TypeOK, logVars, indexVars, diskVars
<1>5. CASE BootFlush
  BY <1>1, <1>2, <1>5 DEF BootFlush, TypeOK, logVars, indexVars, diskVars
<1>6. ASSUME flush # Idle
      PROVE  /\ flush.peer \in PeerIndexes /\ flush.group \in GroupIndexes
             /\ flush.last_id \in Nat
             /\ [flush EXCEPT !.step = "group"] \in Flushes
  <2>1. flush \in [by : {"timer", "boot", "exit"}, step : {"peer", "group"},
                   peer : PeerIndexes, group : GroupIndexes, last_id : Nat]
    BY <1>6 DEF TypeOK, Flushes
  <2>2. QED BY <2>1 DEF Flushes
<1>7. CASE SavePeerIndexFile
  BY <1>1, <1>6, <1>7 DEF SavePeerIndexFile, TypeOK, logVars, indexVars
<1>8. CASE SaveGroupIndexFile
  BY <1>1, <1>6, <1>8 DEF SaveGroupIndexFile, TypeOK, logVars, indexVars, Flushes
<1>9. CASE SaveGroupIndexFileAndExit
  BY <1>1, <1>6, <1>9, ZeroType
  DEF SaveGroupIndexFileAndExit, ProcessEnds, TypeOK, Flushes, Saves
<1>10. QED
  BY <1>3, <1>4, <1>5, <1>7, <1>8, <1>9 DEF FlushNext

\* NewStorage and the stages of its repair keep the types.
LEMMA StartType ==
  ASSUME TypeOK, StartNext
  PROVE  TypeOK'
<1>1. LogTypeOK' /\ log \in Seq(Record)
  BY DEF StartNext, ReadIndexFiles, ScanPeer, ScanGroup, EndStage, BootDone,
         TypeOK, LogTypeOK, logVars
<1>2. CASE ReadIndexFiles
  <2>1. peer' \in PeerIndexes /\ group' \in GroupIndexes
    BY <1>2, ZeroType DEF ReadIndexFiles, TypeOK, r1, r2
  <2>2. ReadIds(peer', group') \subseteq Nat
    BY <2>1 DEF ReadIds, PeerIndexes, GroupIndexes, UserIndex, GroupIndex
  <2>3. last_id' \in Nat /\ last_saved_id' \in Nat /\ scan' \in Nat \ {0}
    BY <1>1, <1>2, <2>2 DEF ReadIndexFiles
  <2>4. QED
    BY <1>1, <1>2, <2>1, <2>3
    DEF ReadIndexFiles, TypeOK, FirstStage, Stages, logVars, diskVars
<1>3. ASSUME scan <= Len(log)
      PROVE  /\ log[scan] \in Record /\ scan \in Nat
             /\ log[scan].kind = "peer" => log[scan].to \in Users
             /\ log[scan].kind = "group" => log[scan].to \in Groups
  BY <1>1, <1>3 DEF TypeOK, LogTypeOK
<1>4. CASE ScanPeer
  BY <1>1, <1>3, <1>4, ExecPeerType DEF ScanPeer, TypeOK, logVars, diskVars
<1>5. CASE ScanGroup
  BY <1>1, <1>3, <1>5, ExecGroupType DEF ScanGroup, TypeOK, logVars, diskVars
<1>6. CASE EndStage
  BY <1>1, <1>6 DEF EndStage, StageAfter, Stages, TypeOK, logVars, indexVars, diskVars
<1>7. CASE BootDone
  BY <1>1, <1>7 DEF BootDone, TypeOK, logVars, indexVars, diskVars
<1>8. QED
  BY <1>2, <1>4, <1>5, <1>6, <1>7 DEF StartNext

\* So do a crash and the removal of an index file.
LEMMA EndType ==
  ASSUME TypeOK, Crash \/ RemovePeerFile \/ RemoveGroupFile
  PROVE  TypeOK'
<1>1. CASE Crash
  BY <1>1, ZeroType DEF Crash, ProcessEnds, TypeOK, LogTypeOK, Flushes, Saves, diskVars
<1>2. CASE RemovePeerFile
  BY <1>2 DEF RemovePeerFile, TypeOK, LogTypeOK, logVars, indexVars
<1>3. CASE RemoveGroupFile
  BY <1>3 DEF RemoveGroupFile, TypeOK, LogTypeOK, logVars, indexVars
<1>4. QED BY <1>1, <1>2, <1>3

\* An empty storage is typed.
LEMMA InitType == ASSUME Init PROVE TypeOK
BY ZeroType DEF Init, TypeOK, LogTypeOK, Flushes, Saves

\* Every step keeps the types.
LEMMA StepType ==
  ASSUME TypeOK, [Next]_vars
  PROVE  TypeOK'
<1>1. CASE SaveNext
  <2>1. ASSUME NEW u \in Users, NEW grp \in BOOLEAN, SaveBody("peer", u, grp)
        PROVE  TypeOK'
    BY <2>1, SaveBodyType DEF Kinds
  <2>2. ASSUME NEW g \in Groups, SaveBody("group", g, TRUE)
        PROVE  TypeOK'
    BY <2>2, SaveBodyType DEF Kinds
  <2>3. QED BY <1>1, <2>1, <2>2, SaveEntryType DEF SaveNext
<1>2. CASE UNCHANGED vars
  BY <1>2 DEF vars, TypeOK, LogTypeOK
<1>3. QED
  BY <1>1, <1>2, FlushType, StartType, EndType DEF Next

\* Every reachable state has the shape the Go structs give it.
THEOREM TypeCorrect == Spec => []TypeOK
BY InitType, StepType, PTL DEF Spec

-----------------------------------------------------------------------------
(***************************************************************************)
(* The personal queues survive every crash, restart and loss of index      *)
(* files, of a store that is not told to stop before it has saved its      *)
(* first personal message.                                                 *)
(***************************************************************************)
\* The index over an explicit log, so that the lemmas apply before and after a
\* step.

EntriesIn(L, u, n) == {i \in 1..Len(L) : i <= n /\ L[i].kind = "peer" /\ L[i].to = u}
DirectIn(L, u, n)  == {i \in EntriesIn(L, u, n) : ~L[i].grp}
MarksIn(L, u, n)   == {i \in EntriesIn(L, u, n) : L[i].seq % BatchSize = 0}
SeqIn(L, i)   == IF i = 0 THEN 0 ELSE L[i].seq
MsgidIn(L, i) == IF i = 0 THEN 0 ELSE L[i].msgid

ExactIn(L, x, u, n) ==
  /\ IsNewest(x.last_id, EntriesIn(L, u, n))
  /\ IsNewest(x.last_peer_id, DirectIn(L, u, n))
  /\ IsNewest(x.last_batch_id, MarksIn(L, u, n))
  /\ x.last_seq_id = SeqIn(L, x.last_id)
  /\ x.last_msgid = MsgidIn(L, x.last_id)

EntryIn(L, i) ==
  /\ IsNewest(L[i].prev, EntriesIn(L, L[i].to, i - 1))
  /\ IsNewest(L[i].prevPeer, DirectIn(L, L[i].to, i - 1))
  /\ IsNewest(L[i].prevBatch, MarksIn(L, L[i].to, i - 1))
  /\ L[i].seq = SeqIn(L, L[i].prev) + 1
  /\ i > 1 /\ L[i].msgid = i - 1 /\ L[i - 1].kind = "body"

\* p is the peer index over the first n records of L.
ExactPeers(L, p, n) == \A u \in Users : ExactIn(L, p[u], u, n)

\* Every peer entry of L links to the newest earlier entries of its queue.
Chained(L) == \A i \in 1..Len(L) : L[i].kind = "peer" => EntryIn(L, i)

-----------------------------------------------------------------------------
\* The inductive invariant.

\* No record is in a later block file than the one being written.
BlocksKnown == \A i \in 1..Len(log) : log[i].blk <= block_NO

\* The mutex holder has just written its body.
SavingOK ==
  saving # NoSave =>
    /\ phase = "up"
    /\ Len(log) >= 1 /\ saving.msgid = Len(log) /\ log[Len(log)].kind = "body"

\* The ids in memory point into the log, and last_id is not below them.
IdsOK ==
  /\ last_id <= Len(log) /\ last_saved_id <= Len(log)
  /\ \A u \in Users : peer[u].last_id <= last_id
  /\ \A g \in Groups : group[g].LastId <= last_id

\* How much of the log the peer index in memory reflects.
MemoryOK ==
  /\ phase \in {"up", "boot", "createGroup"} => ExactPeers(log, peer, Len(log))
  /\ phase = "createPeer" => ExactPeers(log, peer, scan - 1)
  /\ phase = "repairPeer" =>
       /\ r1 /\ (scan <= last_id => scan = last_id)
       /\ ExactPeers(log, peer, Larger(last_id, scan - 1))
  /\ phase = "repairGroup" => (r1 => ExactPeers(log, peer, Len(log)))
  /\ phase = "repairGroup" => (~r1 => peer = NoUsers)
  /\ phase \in Stages => scan \in 1..Len(log) + 1

\* No id of the group index g is above n.
GroupIdsUpTo(g, n) == \A k \in Groups : g[k].LastId <= n

\* The peer index p is empty only if block 0 holds no peer entry and never will.
EmptyIsHarmless(p) ==
  (\A u \in Users : p[u].last_id = 0) =>
    /\ block_NO >= 1
    /\ \A i \in 1..Len(log) : log[i].kind = "peer" => log[i].blk >= 1

\* The peer file is the index of some prefix of the log, not a shorter one than
\* the group file reaches into.
DiskOK ==
  /\ diskPeer # NoFile =>
       /\ EmptyIsHarmless(diskPeer)
       /\ \E n \in 0..Len(log) :
            /\ ExactPeers(log, diskPeer, n)
            /\ diskGroup # NoFile => GroupIdsUpTo(diskGroup, n)
  /\ diskGroup # NoFile => GroupIdsUpTo(diskGroup, Len(log))

\* The same of the clones of a flush in progress, and of the file that is
\* still to be replaced.
FlushOK ==
  flush # Idle =>
    /\ phase = (IF flush.by = "boot" THEN "boot" ELSE "up")
    /\ flush.last_id <= Len(log)
    /\ flush.step = "group" => diskPeer = flush.peer
    /\ EmptyIsHarmless(flush.peer)
    /\ \E n \in 0..Len(log) :
         /\ ExactPeers(log, flush.peer, n)
         /\ GroupIdsUpTo(flush.group, n)
         /\ diskGroup # NoFile => GroupIdsUpTo(diskGroup, n)

IInv ==
  /\ TypeOK
  /\ BlocksKnown
  /\ Chained(log)
  /\ SavingOK
  /\ IdsOK
  /\ MemoryOK
  /\ DiskOK
  /\ FlushOK

-----------------------------------------------------------------------------
\* Exact indexes over a log.

\* M is L with records added.
Grows(L, M) == Len(L) <= Len(M) /\ \A i \in 1..Len(L) : M[i] = L[i]

\* ExactUser is ExactIn of the log there is.
LEMMA SameExact ==
  ASSUME NEW x, NEW u, NEW n
  PROVE  ExactUser(x, u, n) <=> ExactIn(log, x, u, n)
BY DEF ExactUser, ExactIn, PeerEntries, DirectEntries, PeerMarks, SeqNo, MsgidOf,
       EntriesIn, DirectIn, MarksIn, SeqIn, MsgidIn

\* ExactEntry is EntryIn of the log there is.
LEMMA SameEntry ==
  ASSUME NEW i
  PROVE  ExactEntry(i) <=> EntryIn(log, i)
BY DEF ExactEntry, EntryIn, PeerEntries, DirectEntries, PeerMarks, SeqNo, MsgidOf,
       EntriesIn, DirectIn, MarksIn, SeqIn, MsgidIn

\* Records that are added do not matter to the first n.
LEMMA GrowsEntries ==
  ASSUME NEW L \in Seq(Record), NEW M \in Seq(Record), Grows(L, M), NEW u,
         NEW n \in 0..Len(L)
  PROVE  /\ EntriesIn(L, u, n) = EntriesIn(M, u, n)
         /\ DirectIn(L, u, n) = DirectIn(M, u, n)
         /\ MarksIn(L, u, n) = MarksIn(M, u, n)
<1>1. EntriesIn(L, u, n) = EntriesIn(M, u, n)
  BY DEF EntriesIn, Grows
<1>2. \A i \in EntriesIn(M, u, n) : L[i] = M[i]
  BY DEF EntriesIn, Grows
<1>3. QED BY <1>1, <1>2 DEF DirectIn, MarksIn

\* A log that grows keeps what an index says of its first n records.
LEMMA GrowsExact ==
  ASSUME NEW L \in Seq(Record), NEW M \in Seq(Record), Grows(L, M), NEW u,
         NEW n \in 0..Len(L), NEW x, ExactIn(L, x, u, n)
  PROVE  ExactIn(M, x, u, n)
<1>1. x.last_id = 0 \/ x.last_id \in EntriesIn(L, u, n)
  BY DEF ExactIn, IsNewest
<1>2. x.last_id = 0 \/ L[x.last_id] = M[x.last_id]
  BY <1>1 DEF EntriesIn, Grows
<1>3. QED BY <1>2, GrowsEntries DEF ExactIn, SeqIn, MsgidIn

\* A log that grows keeps what its queue records say.
LEMMA GrowsEntry ==
  ASSUME NEW L \in Seq(Record), NEW M \in Seq(Record), Grows(L, M),
         NEW i \in 1..Len(L), EntryIn(L, i)
  PROVE  EntryIn(M, i)
<1>1. i > 1 /\ i - 1 \in 0..Len(L) /\ M[i] = L[i] /\ M[i - 1] = L[i - 1]
  BY DEF EntryIn, Grows
<1>2. L[i].prev = 0 \/ L[i].prev \in EntriesIn(L, L[i].to, i - 1)
  BY DEF EntryIn, IsNewest
<1>3. L[i].prev = 0 \/ L[L[i].prev] = M[L[i].prev]
  BY <1>2 DEF EntriesIn, Grows
<1>4. QED BY <1>1, <1>3, GrowsEntries DEF EntryIn, SeqIn

\* A record that is no entry of u leaves the index of u exact.
LEMMA OtherRecord ==
  ASSUME NEW L \in Seq(Record), NEW k \in 1..Len(L), NEW u, NEW x,
         ~(L[k].kind = "peer" /\ L[k].to = u), ExactIn(L, x, u, k - 1)
  PROVE  ExactIn(L, x, u, k)
<1>1. EntriesIn(L, u, k) = EntriesIn(L, u, k - 1)
  BY DEF EntriesIn
<1>2. QED BY <1>1 DEF ExactIn, DirectIn, MarksIn

\* The newest position is unique.
LEMMA NewestUnique ==
  ASSUME NEW S \in SUBSET Nat, NEW i \in Nat, NEW j \in Nat, 0 \notin S,
         IsNewest(i, S), IsNewest(j, S)
  PROVE  i = j
BY DEF IsNewest

\* NextUserIndex keeps an exact index exact.
LEMMA NextExact ==
  ASSUME NEW L \in Seq(Record), NEW k \in 1..Len(L), NEW u, NEW x \in UserIndex,
         L[k].kind = "peer", L[k].to = u, EntryIn(L, k), ExactIn(L, x, u, k - 1)
  PROVE  ExactIn(L, NextUserIndex(x, L[k], k), u, k)
<1> DEFINE y == NextUserIndex(x, L[k], k)
           E == EntriesIn(L, u, k - 1)
<1>1. /\ E \in SUBSET Nat /\ 0 \notin E /\ \A j \in E : j < k
      /\ DirectIn(L, u, k - 1) \subseteq E /\ MarksIn(L, u, k - 1) \subseteq E
  BY DEF EntriesIn, DirectIn, MarksIn
<1>2. EntriesIn(L, u, k) = E \cup {k}
  BY DEF EntriesIn
<1>3. DirectIn(L, u, k) = IF L[k].grp THEN DirectIn(L, u, k - 1)
                          ELSE DirectIn(L, u, k - 1) \cup {k}
  BY <1>2 DEF DirectIn
<1>4. MarksIn(L, u, k) = IF L[k].seq % BatchSize = 0 THEN MarksIn(L, u, k - 1) \cup {k}
                         ELSE MarksIn(L, u, k - 1)
  BY <1>2 DEF MarksIn
<1>5. L[k].prev \in Nat /\ x.last_id \in Nat
  <2>1. L[k] \in Record
    OBVIOUS
  <2>2. QED BY <2>1 DEF Record, UserIndex
<1>6. L[k].prev = x.last_id
  BY <1>1, <1>5, NewestUnique DEF EntryIn, ExactIn
<1>7. L[k].seq = x.last_seq_id + 1
  BY <1>6 DEF EntryIn, ExactIn
<1>8. /\ IsNewest(k, E \cup {k})
      /\ IsNewest(k, DirectIn(L, u, k - 1) \cup {k})
      /\ IsNewest(k, MarksIn(L, u, k - 1) \cup {k})
  <2>1. k \in Nat \ {0} /\ \A j \in DirectIn(L, u, k - 1) \cup MarksIn(L, u, k - 1) : j < k
    BY <1>1
  <2>2. QED BY <1>1, <2>1 DEF IsNewest
<1>9. y.last_peer_id = (IF L[k].grp THEN x.last_peer_id ELSE k)
      /\ y.last_batch_id = (IF L[k].seq % BatchSize = 0 THEN k ELSE x.last_batch_id)
  BY <1>7 DEF NextUserIndex
<1>10. /\ IsNewest(y.last_id, EntriesIn(L, u, k))
       /\ IsNewest(y.last_peer_id, DirectIn(L, u, k))
       /\ IsNewest(y.last_batch_id, MarksIn(L, u, k))
  <2>1. IsNewest(y.last_id, EntriesIn(L, u, k))
    BY <1>2, <1>8 DEF NextUserIndex
  <2>2. IsNewest(y.last_peer_id, DirectIn(L, u, k))
    BY <1>3, <1>8, <1>9 DEF ExactIn
  <2>3. IsNewest(y.last_batch_id, MarksIn(L, u, k))
    BY <1>4, <1>8, <1>9 DEF ExactIn
  <2>4. QED BY <2>1, <2>2, <2>3
<1>11. y.last_seq_id = SeqIn(L, k) /\ y.last_msgid = MsgidIn(L, k) /\ y.last_id = k
  BY <1>7 DEF NextUserIndex, SeqIn, MsgidIn
<1>12. QED BY <1>10, <1>11 DEF ExactIn

\* An index that is exact up to n is so up to any m that is not before its last record.
LEMMA ShorterExact ==
  ASSUME NEW L \in Seq(Record), NEW u, NEW x \in UserIndex, NEW n \in 0..Len(L),
         NEW m \in 0..n, x.last_id <= m, ExactIn(L, x, u, n)
  PROVE  ExactIn(L, x, u, m)
<1>1. EntriesIn(L, u, m) = {i \in EntriesIn(L, u, n) : i <= m}
  BY DEF EntriesIn
<1>2. \A i \in EntriesIn(L, u, n) : i <= m
  BY DEF ExactIn, IsNewest, UserIndex, EntriesIn
<1>3. EntriesIn(L, u, m) = EntriesIn(L, u, n)
  BY <1>1, <1>2
<1>4. QED BY <1>3 DEF ExactIn, DirectIn, MarksIn

\* An index without entries is exact as long as there is no entry.
LEMMA EmptyExact ==
  ASSUME NEW L \in Seq(Record), NEW u, NEW x, NEW n, NEW m \in 0..Len(L),
         x.last_id = 0, ExactIn(L, x, u, n),
         \A i \in 1..m : L[i].kind # "peer"
  PROVE  ExactIn(L, x, u, m)
<1>1. EntriesIn(L, u, n) = {} /\ EntriesIn(L, u, m) = {}
  BY DEF ExactIn, IsNewest, EntriesIn
<1>2. QED BY <1>1 DEF ExactIn, DirectIn, MarksIn

\* The empty index is exact of no record.
LEMMA ZeroExact ==
  ASSUME NEW L \in Seq(Record)
  PROVE  ExactPeers(L, NoUsers, 0)
<1>1. \A u : EntriesIn(L, u, 0) = {}
  BY DEF EntriesIn
<1>2. QED BY <1>1 DEF ExactPeers, ExactIn, DirectIn, MarksIn, IsNewest, SeqIn, MsgidIn,
                      NoUsers, ZeroUser

\* GrowsExact for the index of all users.
LEMMA GrowsPeers ==
  ASSUME NEW L \in Seq(Record), NEW M \in Seq(Record), Grows(L, M),
         NEW n \in 0..Len(L), NEW p, ExactPeers(L, p, n)
  PROVE  ExactPeers(M, p, n)
BY GrowsExact DEF ExactPeers

\* A log stays chained if the queue records added to it are.
LEMMA GrowsChained ==
  ASSUME NEW L \in Seq(Record), NEW M \in Seq(Record), Grows(L, M), Chained(L),
         \A i \in 1..Len(M) : i > Len(L) /\ M[i].kind = "peer" => EntryIn(M, i)
  PROVE  Chained(M)
<1>1. SUFFICES ASSUME NEW i \in 1..Len(M), i <= Len(L), M[i].kind = "peer"
               PROVE  EntryIn(M, i)
  BY DEF Chained
<1>2. i \in 1..Len(L) /\ M[i] = L[i]
  BY <1>1 DEF Grows
<1>3. QED BY <1>1, <1>2, GrowsEntry DEF Chained

\* Replaying record k makes the index over k - 1 records the one over k.
LEMMA ReplayExact ==
  ASSUME NEW L \in Seq(Record), NEW k \in 1..Len(L), NEW p \in PeerIndexes,
         Chained(L), L[k].kind = "peer" => L[k].to \in Users,
         ExactPeers(L, p, k - 1),
         NEW q, q = IF L[k].kind = "peer"
                      THEN [p EXCEPT ![L[k].to] = NextUserIndex(@, L[k], k)] ELSE p
  PROVE  ExactPeers(L, q, k)
<1>1. SUFFICES ASSUME NEW u \in Users PROVE ExactIn(L, q[u], u, k)
  BY DEF ExactPeers
<1>2. ExactIn(L, p[u], u, k - 1) /\ p[u] \in UserIndex
  BY DEF ExactPeers, PeerIndexes
<1>3. CASE L[k].kind = "peer" /\ L[k].to = u
  <2>1. q[u] = NextUserIndex(p[u], L[k], k)
    BY <1>3 DEF PeerIndexes
  <2>2. EntryIn(L, k)
    BY <1>3 DEF Chained
  <2>3. QED BY <1>2, <1>3, <2>1, <2>2, NextExact
<1>4. CASE ~(L[k].kind = "peer" /\ L[k].to = u)
  <2>1. q[u] = p[u]
    BY <1>4 DEF PeerIndexes
  <2>2. QED BY <1>2, <1>4, <2>1, OtherRecord
<1>5. QED BY <1>3, <1>4

-----------------------------------------------------------------------------
\* Saving a message.

\* The fields of a flush in progress.
LEMMA FlushFields ==
  ASSUME TypeOK, flush # Idle
  PROVE  /\ flush.by \in {"timer", "boot", "exit"} /\ flush.step \in {"peer", "group"}
         /\ flush.peer \in PeerIndexes /\ flush.group \in GroupIndexes
         /\ flush.last_id \in Nat
<1>1. flush \in [by : {"timer", "boot", "exit"}, step : {"peer", "group"},
                 peer : PeerIndexes, group : GroupIndexes, last_id : Nat]
  BY DEF TypeOK, Flushes
<1>2. QED BY <1>1

\* What Append1 does to the log.
LEMMA AppendGrows ==
  ASSUME TypeOK, NEW rec \in Record, Append1(rec),
         rec.kind = "peer" => rec.to \in Users,
         rec.kind = "group" => rec.to \in Groups
  PROVE  /\ log \in Seq(Record) /\ log' \in Seq(Record)
         /\ Len(log') = Len(log) + 1 /\ Grows(log, log')
         /\ log'[Len(log) + 1] = [rec EXCEPT !.blk = block_NO']
         /\ block_NO \in Nat /\ block_NO' \in Nat /\ block_NO <= block_NO'
<1>1. log \in Seq(Record) /\ block_NO \in Nat
  BY DEF TypeOK, LogTypeOK
<1>2. block_NO' \in Nat /\ block_NO <= block_NO'
  BY <1>1 DEF Append1
<1>3. [rec EXCEPT !.blk = block_NO'] \in Record
  BY <1>2 DEF Record
<1>4. log' = Append(log, [rec EXCEPT !.blk = block_NO'])
  BY DEF Append1
<1> HIDE DEF Record
<1>5. /\ log' \in Seq(Record) /\ Len(log') = Len(log) + 1
      /\ \A i \in 1..Len(log) : log'[i] = log[i]
      /\ log'[Len(log) + 1] = [rec EXCEPT !.blk = block_NO']
  BY <1>1, <1>3, <1>4, SeqAppend
<1>6. QED BY <1>1, <1>2, <1>5 DEF Grows

\* The same, with the block number of the new record.
LEMMA AppendBlock ==
  ASSUME TypeOK, NEW rec \in Record, Append1(rec),
         rec.kind = "peer" => rec.to \in Users,
         rec.kind = "group" => rec.to \in Groups
  PROVE  /\ log'[Len(log) + 1].blk = block_NO' /\ log'[Len(log) + 1].kind = rec.kind
         /\ \A i \in 1..Len(log') : i = Len(log) + 1 \/ (i \in 1..Len(log) /\ log'[i] = log[i])
         /\ \A i \in 1..Len(log) : log[i].blk \in Nat
<1>1. log'[Len(log) + 1] = [rec EXCEPT !.blk = block_NO']
  BY AppendGrows
<1>2. log'[Len(log) + 1].blk = block_NO' /\ log'[Len(log) + 1].kind = rec.kind
  BY <1>1 DEF Record
<1>3. log \in Seq(Record) /\ Len(log') = Len(log) + 1 /\ Grows(log, log')
  BY AppendGrows
<1>4. ASSUME NEW i \in 1..Len(log)
      PROVE  log[i].blk \in Nat
  <2>1. log[i] \in Record
    BY <1>3
  <2>2. QED BY <2>1 DEF Record
<1>5. \A i \in 1..Len(log') : i = Len(log) + 1 \/ (i \in 1..Len(log) /\ log'[i] = log[i])
  BY <1>3 DEF Grows
<1>6. QED BY <1>2, <1>4, <1>5

\* An index that is harmless stays so: what is added comes in later blocks.
LEMMA HarmlessGrows ==
  ASSUME TypeOK, NEW rec \in Record, Append1(rec),
         rec.kind = "peer" => rec.to \in Users,
         rec.kind = "group" => rec.to \in Groups,
         NEW p, EmptyIsHarmless(p)
  PROVE  (\A u \in Users : p[u].last_id = 0) =>
           /\ block_NO' >= 1
           /\ \A i \in 1..Len(log') : log'[i].kind = "peer" => log'[i].blk >= 1
<1>1. /\ block_NO \in Nat /\ block_NO' \in Nat /\ block_NO <= block_NO'
      /\ log'[Len(log) + 1].blk = block_NO'
      /\ \A i \in 1..Len(log') : i = Len(log) + 1 \/ (i \in 1..Len(log) /\ log'[i] = log[i])
  BY AppendGrows, AppendBlock
<1>2. QED BY <1>1 DEF EmptyIsHarmless

\* An append leaves the files and the flush in progress as good as they were.
LEMMA FilesGrow ==
  ASSUME TypeOK, BlocksKnown, DiskOK, FlushOK, NEW rec \in Record, Append1(rec),
         rec.kind = "peer" => rec.to \in Users,
         rec.kind = "group" => rec.to \in Groups,
         UNCHANGED <<diskVars, flush, phase>>
  PROVE  BlocksKnown' /\ DiskOK' /\ FlushOK'
<1>1. BlocksKnown'
  <2>1. /\ block_NO \in Nat /\ block_NO' \in Nat /\ block_NO <= block_NO'
        /\ log'[Len(log) + 1].blk = block_NO'
        /\ \A i \in 1..Len(log') : i = Len(log) + 1 \/ (i \in 1..Len(log) /\ log'[i] = log[i])
        /\ \A i \in 1..Len(log) : log[i].blk \in Nat
    BY AppendGrows, AppendBlock
  <2>2. QED BY <2>1 DEF BlocksKnown
<1>2. /\ log \in Seq(Record) /\ log' \in Seq(Record) /\ Grows(log, log')
      /\ Len(log) \in Nat /\ Len(log') = Len(log) + 1
  <2>1. /\ log \in Seq(Record) /\ log' \in Seq(Record) /\ Grows(log, log')
        /\ Len(log') = Len(log) + 1
    BY AppendGrows
  <2>2. QED BY <2>1
<1>3. ASSUME NEW p, NEW n \in 0..Len(log), ExactPeers(log, p, n)
      PROVE  n \in 0..Len(log') /\ ExactPeers(log', p, n)
  <2>1. n \in 0..Len(log')
    BY <1>2
  <2>2. QED BY <1>2, <1>3, <2>1, GrowsPeers
<1>4. diskPeer' = diskPeer /\ diskGroup' = diskGroup /\ flush' = flush /\ phase' = phase
  BY DEF diskVars
<1>5. DiskOK'
  <2>1. ASSUME diskPeer # NoFile
        PROVE  /\ EmptyIsHarmless(diskPeer)'
               /\ \E n \in 0..Len(log') :
                    /\ ExactPeers(log', diskPeer, n)
                    /\ diskGroup # NoFile => GroupIdsUpTo(diskGroup, n)
    <3>1. EmptyIsHarmless(diskPeer)'
      BY <1>4, <2>1, HarmlessGrows DEF DiskOK, EmptyIsHarmless
    <3>2. QED BY <1>3, <2>1, <3>1 DEF DiskOK
  <2>2. ASSUME diskGroup # NoFile, NEW k \in Groups
        PROVE  diskGroup[k].LastId <= Len(log')
    <3>1. diskGroup[k] \in GroupIndex
      BY <2>2 DEF TypeOK, GroupIndexes
    <3>2. diskGroup[k].LastId \in Nat /\ diskGroup[k].LastId <= Len(log)
      BY <2>2, <3>1 DEF DiskOK, GroupIdsUpTo, GroupIndex
    <3>3. QED BY <1>2, <3>2
  <2>3. QED BY <1>4, <2>1, <2>2 DEF DiskOK, GroupIdsUpTo, EmptyIsHarmless
<1>6. FlushOK'
  <2>1. SUFFICES ASSUME flush # Idle PROVE FlushOK'
    BY <1>4 DEF FlushOK
  <2>2. PICK n \in 0..Len(log) :
          /\ ExactPeers(log, flush.peer, n)
          /\ GroupIdsUpTo(flush.group, n)
          /\ diskGroup # NoFile => GroupIdsUpTo(diskGroup, n)
    BY <2>1 DEF FlushOK
  <2>3. EmptyIsHarmless(flush.peer)'
    BY <1>4, <2>1, HarmlessGrows DEF FlushOK, EmptyIsHarmless
  <2>4. flush.last_id <= Len(log')
    <3>1. flush.last_id \in Nat /\ flush.last_id <= Len(log)
      BY <2>1, FlushFields DEF FlushOK
    <3>2. QED BY <1>2, <3>1
  <2>5. n \in 0..Len(log') /\ ExactPeers(log', flush.peer, n)
    BY <1>3, <2>2
  <2>6. QED BY <1>4, <2>1, <2>2, <2>3, <2>4, <2>5 DEF FlushOK, GroupIdsUpTo
<1>7. QED BY <1>1, <1>5, <1>6

\* Types of the parts of a state, as the steps below need them.
LEMMA Parts ==
  ASSUME TypeOK
  PROVE  /\ log \in Seq(Record) /\ Len(log) \in Nat /\ block_NO \in Nat
         /\ last_id \in Nat /\ last_saved_id \in Nat /\ scan \in Nat \ {0}
         /\ \A u \in Users : peer[u] \in UserIndex /\ peer[u].last_id \in Nat
         /\ \A g \in Groups : group[g] \in GroupIndex /\ group[g].LastId \in Nat
<1>1. log \in Seq(Record) /\ block_NO \in Nat /\ last_id \in Nat /\ last_saved_id \in Nat
      /\ scan \in Nat \ {0}
  BY DEF TypeOK, LogTypeOK
<1>2. Len(log) \in Nat
  BY <1>1
<1>3. \A u \in Users : peer[u] \in UserIndex
  BY DEF TypeOK, PeerIndexes
<1>4. \A g \in Groups : group[g] \in GroupIndex
  BY DEF TypeOK, GroupIndexes
<1>5. QED BY <1>1, <1>2, <1>3, <1>4 DEF UserIndex, GroupIndex

\* ExecPeer and ExecGroup keep last_id the largest id of the indexes.
LEMMA ExecPeerIds ==
  ASSUME TypeOK, IdsOK, NEW rec, rec.kind = "peer" => rec.to \in Users,
         NEW id \in Nat, ExecPeer(rec, id)
  PROVE  /\ last_id' \in {last_id, id} /\ last_id <= last_id'
         /\ \A u \in Users : peer'[u].last_id <= last_id'
<1>1. /\ last_id \in Nat /\ \A u \in Users : peer[u].last_id \in Nat
      /\ \A u \in Users : peer[u].last_id <= last_id
  BY Parts DEF IdsOK
<1>2. CASE rec.kind = "peer"
  <2>1. last_id' = Larger(last_id, id)
    BY <1>2 DEF ExecPeer
  <2>2. last_id' \in {last_id, id} /\ last_id <= last_id' /\ id <= last_id' /\ last_id' \in Nat
    BY <1>1, <2>1 DEF Larger
  <2>3. \A u \in Users : peer'[u] = (IF u = rec.to THEN NextUserIndex(peer[u], rec, id) ELSE peer[u])
    BY <1>2 DEF ExecPeer, TypeOK, PeerIndexes
  <2>4. \A u \in Users : peer'[u].last_id = id \/ peer'[u].last_id = peer[u].last_id
    <3>1. \A u \in Users : NextUserIndex(peer[u], rec, id).last_id = id
      BY DEF NextUserIndex
    <3>2. QED BY <2>3, <3>1
  <2>5. QED BY <1>1, <2>2, <2>4
<1>3. CASE rec.kind # "peer"
  BY <1>1, <1>3 DEF ExecPeer
<1>4. QED BY <1>2, <1>3

\* execMessage on a record of a group queue moves last_id on, and no last id beyond it.
LEMMA ExecGroupIds ==
  ASSUME TypeOK, IdsOK, NEW rec, rec.kind = "group" => rec.to \in Groups,
         NEW id \in Nat, ExecGroup(rec, id)
  PROVE  /\ last_id' \in {last_id, id} /\ last_id <= last_id'
         /\ \A g \in Groups : group'[g].LastId <= last_id'
<1>1. /\ last_id \in Nat /\ \A g \in Groups : group[g].LastId \in Nat
      /\ \A g \in Groups : group[g].LastId <= last_id
  BY Parts DEF IdsOK
<1>2. CASE rec.kind = "group"
  <2>1. last_id' = Larger(last_id, id)
    BY <1>2 DEF ExecGroup
  <2>2. last_id' \in {last_id, id} /\ last_id <= last_id' /\ id <= last_id' /\ last_id' \in Nat
    BY <1>1, <2>1 DEF Larger
  <2>3. \A g \in Groups : group'[g] = (IF g = rec.to THEN NextGroupIndex(group[g], rec, id) ELSE group[g])
    BY <1>2 DEF ExecGroup, TypeOK, GroupIndexes
  <2>4. \A g \in Groups : group'[g].LastId = id \/ group'[g].LastId = group[g].LastId
    <3>1. \A g \in Groups : NextGroupIndex(group[g], rec, id).LastId = id
      BY DEF NextGroupIndex
    <3>2. QED BY <2>3, <3>1
  <2>5. QED BY <1>1, <2>2, <2>4
<1>3. CASE rec.kind # "group"
  BY <1>1, <1>3 DEF ExecGroup
<1>4. QED BY <1>2, <1>3

\* saveMessage keeps the invariant.
LEMMA SaveBodyStep ==
  ASSUME IInv, TypeOK', NEW kind \in Kinds, NEW grp \in BOOLEAN,
         NEW to \in (IF kind = "peer" THEN Users ELSE Groups),
         SaveBody(kind, to, grp)
  PROVE  IInv'
<1> DEFINE rec == [kind |-> "body", to |-> to, grp |-> grp, msgid |-> Len(log) + 1,
                   seq |-> 0, prev |-> 0, prevPeer |-> 0, prevBatch |-> 0, blk |-> 0]
<1>1. TypeOK /\ Len(log) \in Nat
  BY Parts DEF IInv
<1>2. rec \in Record /\ rec.kind = "body" /\ Append1(rec)
  BY <1>1 DEF Record, Kinds, SaveBody
<1> HIDE DEF rec
<1>3. BlocksKnown' /\ DiskOK' /\ FlushOK'
  <2>1. UNCHANGED <<diskVars, flush, phase>>
    BY DEF SaveBody
  <2>2. QED BY <1>1, <1>2, <2>1, FilesGrow DEF IInv
<1>4. /\ log \in Seq(Record) /\ log' \in Seq(Record) /\ Grows(log, log')
      /\ Len(log') = Len(log) + 1 /\ log'[Len(log) + 1].kind = "body"
  BY <1>1, <1>2, AppendGrows, AppendBlock
<1>5. Chained(log')
  <2>1. \A i \in 1..Len(log') : i > Len(log) => i = Len(log) + 1
    BY <1>1, <1>4
  <2>2. QED BY <1>4, <2>1, GrowsChained DEF IInv
<1>6. SavingOK'
  BY <1>1, <1>4 DEF SaveBody, SavingOK
<1>7. IdsOK'
  BY <1>1, <1>4, Parts DEF SaveBody, IdsOK, IInv, indexVars
<1>8. MemoryOK'
  <2>1. phase = "up" /\ phase' = "up" /\ peer' = peer
    BY DEF SaveBody, indexVars
  <2>2. ExactPeers(log, peer, Len(log))
    BY <2>1 DEF IInv, MemoryOK
  <2>3. ExactPeers(log', peer, Len(log) + 1 - 1)
    BY <1>1, <1>4, <2>2, GrowsPeers
  <2>4. ExactPeers(log', peer, Len(log) + 1)
    <3>1. Len(log) + 1 \in 1..Len(log') /\ peer \in PeerIndexes
      BY <1>1, <1>4 DEF TypeOK
    <3>2. QED BY <1>4, <1>5, <2>3, <3>1, ReplayExact
  <2>5. QED BY <1>4, <2>1, <2>4 DEF MemoryOK, Stages
<1>9. QED BY <1>3, <1>5, <1>6, <1>7, <1>8 DEF IInv

\* The entry that SavePeerMessage appends links correctly.
LEMMA PeerEntryLinks ==
  ASSUME IInv, saving.kind = "peer", NEW e, Len(log') = Len(log) + 1,
         log' \in Seq(Record), Grows(log, log'), log'[Len(log) + 1] = e,
         NEW b, e = [PeerEntry(saving.to) EXCEPT !.blk = b]
  PROVE  EntryIn(log', Len(log) + 1)
<1> DEFINE u == saving.to
           n == Len(log)
<1>1. TypeOK /\ n \in Nat /\ log \in Seq(Record)
  BY Parts DEF IInv
<1>2. saving # NoSave /\ u \in Users
  BY <1>1, PeerEntryType DEF NoSave
<1>3. /\ phase = "up" /\ n >= 1 /\ saving.msgid = n /\ log[n].kind = "body"
      /\ ExactIn(log, peer[u], u, n)
  BY <1>2 DEF IInv, SavingOK, MemoryOK, ExactPeers
<1>4. /\ e.to = u /\ e.prev = peer[u].last_id /\ e.prevPeer = peer[u].last_peer_id
      /\ e.prevBatch = peer[u].last_batch_id /\ e.seq = peer[u].last_seq_id + 1
      /\ e.msgid = n
  BY <1>3 DEF PeerEntry
<1> HIDE DEF u, n
<1>5. ExactIn(log', peer[u], u, n)
  <2>1. n \in 0..Len(log)
    BY <1>1 DEF n
  <2>2. QED BY <1>1, <1>3, <2>1, GrowsExact
<1>6. n + 1 > 1 /\ (n + 1) - 1 = n /\ log'[n].kind = "body"
  BY <1>1, <1>3 DEF n, Grows
<1>7. log'[n + 1] = e
  BY DEF n
<1>8. EntryIn(log', n + 1)
  BY <1>4, <1>5, <1>6, <1>7 DEF EntryIn, ExactIn
<1>9. QED BY <1>8 DEF n

\* SavePeerMessage keeps the invariant.
LEMMA SavePeerEntryStep ==
  ASSUME IInv, TypeOK', SavePeerEntry
  PROVE  IInv'
<1> DEFINE rec == PeerEntry(saving.to)
           e == [rec EXCEPT !.blk = block_NO']
           k == Len(log) + 1
<1>1. TypeOK /\ Len(log) \in Nat /\ k \in Nat /\ saving.to \in Users /\ saving # NoSave
  BY Parts, PeerEntryType DEF IInv, SavePeerEntry, NoSave
<1>2. rec \in Record /\ rec.kind = "peer" /\ rec.to = saving.to /\ Append1(rec)
      /\ ExecPeer(rec, k)
  BY <1>1, PeerEntryType DEF SavePeerEntry
<1>3. e.kind = "peer" /\ e.to = saving.to /\ e.grp = rec.grp /\ e.msgid = rec.msgid
  BY <1>2 DEF Record
<1>4. /\ log \in Seq(Record) /\ log' \in Seq(Record) /\ Grows(log, log')
      /\ Len(log') = k /\ log'[k] = e
  BY <1>1, <1>2, AppendGrows
<1>5. EntryIn(log', k)
  BY <1>2, <1>4, PeerEntryLinks DEF SavePeerEntry
<1>6. \A x : NextUserIndex(x, rec, k) = NextUserIndex(x, e, k)
  BY <1>3 DEF NextUserIndex
<1> HIDE DEF rec, e
<1>7. BlocksKnown' /\ DiskOK' /\ FlushOK'
  <2>1. UNCHANGED <<diskVars, flush, phase>>
    BY DEF SavePeerEntry
  <2>2. QED BY <1>1, <1>2, <2>1, FilesGrow DEF IInv
<1>8. Chained(log')
  <2>1. \A i \in 1..Len(log') : i > Len(log) => i = k
    BY <1>1, <1>4
  <2>2. QED BY <1>4, <1>5, <2>1, GrowsChained DEF IInv
<1>9. SavingOK'
  BY DEF SavePeerEntry, SavingOK
<1>10. IdsOK'
  <2>1. IdsOK
    BY DEF IInv
  <2>2. /\ last_id' \in {last_id, k} /\ last_id <= last_id'
        /\ \A u \in Users : peer'[u].last_id <= last_id'
    BY <1>1, <1>2, <2>1, ExecPeerIds
  <2>3. group' = group /\ last_saved_id' = last_saved_id
    BY DEF SavePeerEntry
  <2>4. last_id' \in Nat
    BY DEF TypeOK
  <2>5. QED BY <1>1, <1>4, <2>1, <2>2, <2>3, <2>4, Parts DEF IdsOK
<1>11. MemoryOK'
  <2>1. phase = "up" /\ phase' = "up"
    BY DEF SavePeerEntry
  <2>2. ExactPeers(log, peer, Len(log))
    BY <2>1 DEF IInv, MemoryOK
  <2>3. ExactPeers(log', peer, k - 1)
    BY <1>1, <1>4, <2>2, GrowsPeers
  <2>4. k \in 1..Len(log') /\ peer \in PeerIndexes
    BY <1>1, <1>4 DEF TypeOK
  <2>5. peer' = [peer EXCEPT ![e.to] = NextUserIndex(@, e, k)]
    BY <1>2, <1>3, <1>6 DEF ExecPeer
  <2>6. ExactPeers(log', peer', k)
    BY <1>1, <1>3, <1>4, <1>8, <2>3, <2>4, <2>5, ReplayExact
  <2>7. QED BY <1>4, <2>1, <2>6 DEF MemoryOK, Stages
<1>12. QED BY <1>7, <1>8, <1>9, <1>10, <1>11 DEF IInv

\* SaveGroupMessage keeps the invariant.
LEMMA SaveGroupEntryStep ==
  ASSUME IInv, TypeOK', SaveGroupEntry
  PROVE  IInv'
<1> DEFINE rec == GroupEntry(saving.to)
           k == Len(log) + 1
<1>1. TypeOK /\ Len(log) \in Nat /\ k \in Nat /\ saving.to \in Groups
  BY Parts, GroupEntryType DEF IInv, SaveGroupEntry
<1>2. rec \in Record /\ rec.kind = "group" /\ rec.to = saving.to /\ Append1(rec)
      /\ ExecGroup(rec, k)
  BY <1>1, GroupEntryType DEF SaveGroupEntry
<1> HIDE DEF rec
<1>3. /\ log \in Seq(Record) /\ log' \in Seq(Record) /\ Grows(log, log')
      /\ Len(log') = k /\ log'[k].kind = "group"
  BY <1>1, <1>2, AppendGrows, AppendBlock
<1>4. BlocksKnown' /\ DiskOK' /\ FlushOK'
  <2>1. UNCHANGED <<diskVars, flush, phase>>
    BY DEF SaveGroupEntry
  <2>2. QED BY <1>1, <1>2, <2>1, FilesGrow DEF IInv
<1>5. Chained(log')
  <2>1. \A i \in 1..Len(log') : i > Len(log) => i = k
    BY <1>1, <1>3
  <2>2. QED BY <1>3, <2>1, GrowsChained DEF IInv
<1>6. SavingOK'
  BY DEF SaveGroupEntry, SavingOK
<1>7. IdsOK'
  <2>1. IdsOK
    BY DEF IInv
  <2>2. /\ last_id' \in {last_id, k} /\ last_id <= last_id'
        /\ \A g \in Groups : group'[g].LastId <= last_id'
    BY <1>1, <1>2, <2>1, ExecGroupIds
  <2>3. peer' = peer /\ last_saved_id' = last_saved_id
    BY DEF SaveGroupEntry
  <2>4. last_id' \in Nat
    BY DEF TypeOK
  <2>5. QED BY <1>1, <1>3, <2>1, <2>2, <2>3, <2>4, Parts DEF IdsOK
<1>8. MemoryOK'
  <2>1. phase = "up" /\ phase' = "up" /\ peer' = peer
    BY DEF SaveGroupEntry
  <2>2. ExactPeers(log, peer, Len(log))
    BY <2>1 DEF IInv, MemoryOK
  <2>3. ExactPeers(log', peer, k - 1)
    BY <1>1, <1>3, <2>2, GrowsPeers
  <2>4. k \in 1..Len(log') /\ peer \in PeerIndexes
    BY <1>1, <1>3 DEF TypeOK
  <2>5. ExactPeers(log', peer, k)
    BY <1>3, <1>5, <2>3, <2>4, ReplayExact
  <2>6. QED BY <1>3, <2>1, <2>5 DEF MemoryOK, Stages
<1>9. QED BY <1>4, <1>5, <1>6, <1>7, <1>8 DEF IInv

-----------------------------------------------------------------------------
\* Flushing the indexes.

\* A flush of an exact index may begin.
LEMMA BeginFlushStep ==
  ASSUME IInv, NEW by \in {"timer", "boot", "exit"}, BeginFlush(by),
         phase = (IF by = "boot" THEN "boot" ELSE "up"),
         UNCHANGED <<logVars, indexVars, last_saved_id, diskVars, phase, scan>>,
         ~EmptyStop, by = "exit" => EmptyStop \/ \E u \in Users : peer[u].last_id > 0,
         by # "exit" => MayFlush
  PROVE  FlushOK'
<1>1. TypeOK /\ Len(log) \in Nat /\ Len(log) \in 0..Len(log)
  BY Parts DEF IInv
<1>2. ExactPeers(log, peer, Len(log))
  BY DEF IInv, MemoryOK
<1>3. /\ flush' # Idle /\ flush'.by = by /\ flush'.step = "peer" /\ flush'.peer = peer
      /\ flush'.group = group /\ flush'.last_id = last_id
  BY DEF BeginFlush, Idle
<1>4. UNCHANGED <<log, block_NO, diskGroup, phase>>
  BY DEF logVars, diskVars
<1>5. GroupIdsUpTo(group, Len(log)) /\ last_id <= Len(log)
      /\ (diskGroup # NoFile => GroupIdsUpTo(diskGroup, Len(log)))
  <2>1. \A g \in Groups : group[g].LastId \in Nat /\ group[g].LastId <= last_id
    BY <1>1, Parts DEF IInv, IdsOK
  <2>2. last_id \in Nat /\ last_id <= Len(log)
    BY <1>1, Parts DEF IInv, IdsOK
  <2>3. QED BY <1>1, <2>1, <2>2 DEF IInv, DiskOK, GroupIdsUpTo
<1>6. EmptyIsHarmless(peer)
  <2>1. CASE by = "exit"
    <3>1. \E u \in Users : peer[u].last_id # 0
      BY <1>1, <2>1, Parts
    <3>2. QED BY <3>1 DEF EmptyIsHarmless
  <2>2. CASE by # "exit"
    <3>1. SUFFICES ASSUME \A u \in Users : peer[u].last_id = 0
                   PROVE  /\ block_NO >= 1
                          /\ \A i \in 1..Len(log) : log[i].kind = "peer" => log[i].blk >= 1
      BY DEF EmptyIsHarmless
    <3>2. ASSUME NEW i \in 1..Len(log), log[i].kind = "peer"
          PROVE  FALSE
      <4>1. log[i].to \in Users
        BY <1>1, <3>2 DEF TypeOK, LogTypeOK
      <4>2. EntriesIn(log, log[i].to, Len(log)) = {}
        BY <1>2, <3>1, <4>1 DEF ExactPeers, ExactIn, IsNewest
      <4>3. QED BY <3>2, <4>2 DEF EntriesIn
    <3>3. block_NO >= 1
      <4>1. last_id \in 0..Len(log) /\ last_saved_id \in 0..Len(log) /\ block_NO \in Nat
        BY <1>1, Parts DEF IInv, IdsOK
      <4>2. \A i \in 1..Len(log) : log[i].blk \in Nat /\ log[i].blk <= block_NO
        <5>1. ASSUME NEW i \in 1..Len(log) PROVE log[i].blk \in Nat
          <6>1. log[i] \in Record
            BY <1>1, Parts
          <6>2. QED BY <6>1 DEF Record
        <5>2. QED BY <5>1 DEF IInv, BlocksKnown
      <4>3. BlockOf(last_id) \in Nat /\ BlockOf(last_id) <= block_NO /\ BlockOf(last_saved_id) \in Nat
        BY <4>1, <4>2 DEF BlockOf
      <4>4. QED BY <2>2, <4>1, <4>3 DEF MayFlush
    <3>4. QED BY <3>2, <3>3
  <2>3. QED BY <2>1, <2>2
<1>7. QED
  BY <1>1, <1>2, <1>3, <1>4, <1>5, <1>6 DEF FlushOK, EmptyIsHarmless, GroupIdsUpTo

\* The parts of the invariant that a change of the flush or of the files only
\* does not touch.
LEMMA SameMemory ==
  ASSUME IInv, UNCHANGED <<logVars, indexVars, phase, scan>>,
         last_saved_id' <= Len(log)
  PROVE  BlocksKnown' /\ Chained(log)' /\ SavingOK' /\ IdsOK'
         /\ (phase \notin {"repairPeer", "repairGroup"} \/ UNCHANGED diskPeer => MemoryOK')
BY DEF IInv, BlocksKnown, SavingOK, IdsOK, MemoryOK, r1, logVars, indexVars

\* flushIndex, up to the file of the groups, keeps the invariant.
LEMMA FlushStep ==
  ASSUME IInv, TypeOK', ~EmptyStop, TimerFlush \/ Stop \/ BootFlush \/ SavePeerIndexFile
  PROVE  IInv'
<1>1. last_saved_id <= Len(log)
  BY DEF IInv, IdsOK
<1>2. ASSUME NEW by \in {"timer", "boot", "exit"}, BeginFlush(by),
             phase = (IF by = "boot" THEN "boot" ELSE "up"),
             UNCHANGED <<logVars, indexVars, last_saved_id, diskVars, phase, scan>>,
             by = "exit" => EmptyStop \/ \E u \in Users : peer[u].last_id > 0,
             by # "exit" => MayFlush
      PROVE  IInv'
  <2>1. FlushOK'
    BY <1>2, BeginFlushStep
  <2>2. BlocksKnown' /\ Chained(log)' /\ SavingOK' /\ IdsOK' /\ MemoryOK'
    BY <1>1, <1>2, SameMemory DEF diskVars
  <2>3. DiskOK'
    BY <1>2 DEF IInv, DiskOK, EmptyIsHarmless, GroupIdsUpTo, diskVars, logVars
  <2>4. QED BY <2>1, <2>2, <2>3 DEF IInv
<1>3. CASE TimerFlush
  BY <1>2, <1>3 DEF TimerFlush
<1>4. CASE Stop
  BY <1>2, <1>4 DEF Stop
<1>5. CASE BootFlush
  BY <1>2, <1>5 DEF BootFlush
<1>6. CASE SavePeerIndexFile
  <2>1. /\ flush # Idle /\ flush.step = "peer" /\ diskPeer' = flush.peer
        /\ flush' = [flush EXCEPT !.step = "group"]
        /\ UNCHANGED <<logVars, indexVars, last_saved_id, diskGroup, phase, scan>>
    BY <1>6 DEF SavePeerIndexFile
  <2>2. phase \in {"boot", "up"}
    BY <2>1 DEF IInv, FlushOK
  <2>3. BlocksKnown' /\ Chained(log)' /\ SavingOK' /\ IdsOK' /\ MemoryOK'
    BY <1>1, <2>1, <2>2, SameMemory
  <2>4. PICK n \in 0..Len(log) :
          /\ ExactPeers(log, flush.peer, n)
          /\ GroupIdsUpTo(flush.group, n)
          /\ diskGroup # NoFile => GroupIdsUpTo(diskGroup, n)
    BY <2>1 DEF IInv, FlushOK
  <2>5. EmptyIsHarmless(flush.peer)
    BY <2>1 DEF IInv, FlushOK
  <2>6. UNCHANGED <<log, block_NO, diskGroup, phase>>
    BY <2>1 DEF logVars
  <2>7. DiskOK'
    BY <2>1, <2>4, <2>5, <2>6 DEF DiskOK, EmptyIsHarmless, GroupIdsUpTo, IInv
  <2>8. FlushOK'
    <3>1. /\ flush'.by = flush.by /\ flush'.peer = flush.peer /\ flush'.group = flush.group
          /\ flush'.last_id = flush.last_id
      <4>1. flush \in [by : {"timer", "boot", "exit"}, step : {"peer", "group"},
                       peer : PeerIndexes, group : GroupIndexes, last_id : Nat]
        BY <2>1 DEF IInv, TypeOK, Flushes
      <4>2. QED BY <2>1, <4>1
    <3>2. flush.last_id <= Len(log) /\ phase = (IF flush.by = "boot" THEN "boot" ELSE "up")
      BY <2>1 DEF IInv, FlushOK
    <3>3. QED BY <2>1, <2>4, <2>5, <2>6, <3>1, <3>2 DEF FlushOK, EmptyIsHarmless, GroupIdsUpTo
  <2>9. QED BY <2>3, <2>7, <2>8 DEF IInv
<1>7. QED BY <1>3, <1>4, <1>5, <1>6

\* What a flush leaves in the two files once the group file is replaced.
LEMMA FlushedFiles ==
  ASSUME IInv, flush # Idle, flush.step = "group", diskGroup' = flush.group,
         UNCHANGED <<log, block_NO, diskPeer>>
  PROVE  DiskOK'
<1>1. TypeOK /\ Len(log) \in Nat
  BY Parts DEF IInv
<1>2. diskPeer = flush.peer /\ EmptyIsHarmless(flush.peer)
  BY DEF IInv, FlushOK
<1>3. PICK n \in 0..Len(log) :
        ExactPeers(log, flush.peer, n) /\ GroupIdsUpTo(flush.group, n)
  BY DEF IInv, FlushOK
<1>4. GroupIdsUpTo(flush.group, Len(log))
  <2>1. \A g \in Groups : flush.group[g].LastId \in Nat
    BY <1>1, FlushFields DEF GroupIndexes, GroupIndex
  <2>2. QED BY <1>1, <1>3, <2>1 DEF GroupIdsUpTo
<1>5. QED BY <1>2, <1>3, <1>4 DEF DiskOK, EmptyIsHarmless, GroupIdsUpTo

\* The file of the groups, the last of a flush, keeps the invariant.
LEMMA SaveGroupIndexFileStep ==
  ASSUME IInv, TypeOK', SaveGroupIndexFile
  PROVE  IInv'
<1>1. /\ flush # Idle /\ flush.step = "group" /\ diskGroup' = flush.group
      /\ last_saved_id' = flush.last_id /\ flush' = Idle /\ phase' = "up"
      /\ UNCHANGED <<log, block_NO, saving, peer, group, last_id, diskPeer, scan>>
  BY DEF SaveGroupIndexFile, logVars, indexVars
<1>2. phase \in {"boot", "up"} /\ flush.last_id <= Len(log)
  BY <1>1 DEF IInv, FlushOK
<1>3. DiskOK'
  BY <1>1, FlushedFiles
<1>4. MemoryOK'
  BY <1>1, <1>2 DEF IInv, MemoryOK, Stages
<1>5. BlocksKnown' /\ Chained(log)' /\ SavingOK' /\ IdsOK' /\ FlushOK'
  BY <1>1, <1>2 DEF IInv, BlocksKnown, SavingOK, IdsOK, FlushOK
<1>6. QED BY <1>3, <1>4, <1>5 DEF IInv

-----------------------------------------------------------------------------
\* The end of the process.

\* The end of the process keeps the invariant if the files do.
LEMMA ProcessEndsStep ==
  ASSUME IInv, TypeOK', ProcessEnds, DiskOK'
  PROVE  IInv'
<1>1. /\ phase' = "down" /\ saving' = NoSave /\ flush' = Idle /\ peer' = NoUsers
      /\ group' = NoGroups /\ last_id' = 0 /\ last_saved_id' = 0
      /\ UNCHANGED <<log, block_NO>>
  BY DEF ProcessEnds
<1>2. Len(log) \in Nat
  BY Parts DEF IInv
<1>3. IdsOK'
  BY <1>1, <1>2 DEF IdsOK, NoUsers, NoGroups, ZeroUser, ZeroGroup
<1>4. MemoryOK'
  BY <1>1 DEF MemoryOK, Stages
<1>5. BlocksKnown' /\ Chained(log)' /\ SavingOK' /\ FlushOK'
  BY <1>1 DEF IInv, BlocksKnown, SavingOK, FlushOK
<1>6. QED BY <1>3, <1>4, <1>5 DEF IInv

\* A stop after its flush and a crash keep the invariant.
LEMMA EndStep ==
  ASSUME IInv, TypeOK', SaveGroupIndexFileAndExit \/ Crash
  PROVE  IInv'
<1>1. CASE SaveGroupIndexFileAndExit
  BY <1>1, FlushedFiles, ProcessEndsStep DEF SaveGroupIndexFileAndExit, ProcessEnds
<1>2. CASE Crash
  <2>1. DiskOK'
    BY <1>2 DEF Crash, ProcessEnds, IInv, DiskOK, EmptyIsHarmless, GroupIdsUpTo, diskVars
  <2>2. QED BY <1>2, <2>1, ProcessEndsStep DEF Crash
<1>3. QED BY <1>1, <1>2

\* The removal of an index file keeps the invariant.
LEMMA RemoveStep ==
  ASSUME IInv, TypeOK', RemovePeerFile \/ RemoveGroupFile
  PROVE  IInv'
<1>1. /\ phase = "down" /\ UNCHANGED <<logVars, indexVars, last_saved_id, flush, phase, scan>>
      /\ \/ diskPeer' = NoFile /\ diskGroup' = diskGroup
         \/ diskGroup' = NoFile /\ diskPeer' = diskPeer
  BY DEF RemovePeerFile, RemoveGroupFile
<1>2. flush = Idle
  BY <1>1 DEF IInv, FlushOK
<1>3. last_saved_id <= Len(log)
  BY DEF IInv, IdsOK
<1>4. BlocksKnown' /\ Chained(log)' /\ SavingOK' /\ IdsOK' /\ MemoryOK'
  BY <1>1, <1>3, SameMemory
<1>5. DiskOK'
  BY <1>1 DEF IInv, DiskOK, EmptyIsHarmless, GroupIdsUpTo, logVars
<1>6. FlushOK'
  BY <1>1, <1>2 DEF FlushOK
<1>7. QED BY <1>4, <1>5, <1>6 DEF IInv

-----------------------------------------------------------------------------
\* NewStorage.

\* The parts of the invariant that do not depend on the stage of NewStorage.
LEMMA StartFrame ==
  ASSUME IInv, phase \notin {"boot", "up"} \/ flush = Idle,
         UNCHANGED <<logVars, diskVars, flush>>, saving = NoSave
  PROVE  BlocksKnown' /\ Chained(log)' /\ SavingOK' /\ DiskOK' /\ FlushOK'
<1>1. flush = Idle
  BY DEF IInv, FlushOK
<1>2. UNCHANGED <<log, block_NO, saving, diskPeer, diskGroup, flush>>
  BY DEF logVars, diskVars
<1>3. QED
  BY <1>1, <1>2
  DEF IInv, BlocksKnown, SavingOK, DiskOK, FlushOK, EmptyIsHarmless, GroupIdsUpTo

\* The records before the one a scan is at.
LEMMA Before ==
  ASSUME NEW n \in Nat, NEW s \in 1..n + 1
  PROVE  /\ s - 1 \in 0..n /\ ~(s <= 0)
         /\ \A i \in 1..s - 1 : i \in 1..n /\ i < s
OBVIOUS

\* NewStorage reading the index files establishes what its repair needs.
LEMMA ReadStep ==
  ASSUME IInv, TypeOK', ReadIndexFiles
  PROVE  IInv'
<1>1. TypeOK /\ log \in Seq(Record) /\ Len(log) \in Nat
  BY Parts DEF IInv
<1>2. /\ phase = "down" /\ phase' = FirstStage
      /\ peer' = (IF r1 THEN diskPeer ELSE NoUsers)
      /\ group' = (IF r2 THEN diskGroup ELSE NoGroups)
      /\ last_id' \in ReadIds(peer', group') /\ last_saved_id' = last_id'
      /\ \A other \in ReadIds(peer', group') : other <= last_id'
      /\ scan' \in 1..Len(log) + 1 /\ StartsAt(FirstStage, last_id', scan')
      /\ UNCHANGED <<logVars, diskVars, flush>>
  BY DEF ReadIndexFiles
<1>3. UNCHANGED <<log, diskPeer, diskGroup>>
  BY <1>2 DEF logVars, diskVars
<1>4. saving = NoSave
  BY <1>2 DEF IInv, SavingOK
<1>5. BlocksKnown' /\ Chained(log)' /\ SavingOK' /\ DiskOK' /\ FlushOK'
  BY <1>2, <1>4, StartFrame
<1>6. /\ \A u \in Users : peer'[u] \in UserIndex /\ peer'[u].last_id \in Nat
      /\ \A g \in Groups : group'[g].LastId \in Nat
  BY DEF TypeOK, PeerIndexes, GroupIndexes, UserIndex, GroupIndex
<1>7. /\ \A u \in Users : peer'[u].last_id <= last_id'
      /\ \A g \in Groups : group'[g].LastId <= last_id'
  BY <1>2 DEF ReadIds
\* The ids read do not exceed n if those of the files do not.
<1>8. ASSUME NEW n \in 0..Len(log), \A u \in Users : peer'[u].last_id <= n,
             \A g \in Groups : group'[g].LastId <= n
      PROVE  last_id' \in 0..n
  BY <1>2, <1>6, <1>8 DEF ReadIds
<1>9. \A g \in Groups : group'[g].LastId <= Len(log)
  BY <1>1, <1>2 DEF r2, IInv, DiskOK, GroupIdsUpTo, NoGroups, ZeroGroup
<1>10. ASSUME r1
       PROVE  \E n \in 0..Len(log) :
                /\ ExactPeers(log, peer', n) /\ last_id' \in 0..n
                /\ \A u \in Users : peer'[u].last_id <= n
  <2>1. PICK n \in 0..Len(log) :
          /\ ExactPeers(log, diskPeer, n)
          /\ diskGroup # NoFile => GroupIdsUpTo(diskGroup, n)
    BY <1>10 DEF r1, IInv, DiskOK
  <2>2. \A u \in Users : peer'[u].last_id <= n
    BY <1>2, <1>10, <2>1 DEF ExactPeers, ExactIn, IsNewest, EntriesIn
  <2>3. \A g \in Groups : group'[g].LastId <= n
    BY <1>2, <2>1 DEF r2, GroupIdsUpTo, NoGroups, ZeroGroup
  <2>4. QED BY <1>2, <1>8, <1>10, <2>1, <2>2, <2>3
<1>11. last_id' \in 0..Len(log)
  <2>1. CASE r1
    BY <1>1, <1>10, <2>1
  <2>2. CASE ~r1
    <3>1. \A u \in Users : peer'[u].last_id <= Len(log)
      BY <1>1, <1>2, <2>2 DEF NoUsers, ZeroUser
    <3>2. QED BY <1>1, <1>8, <1>9, <3>1
  <2>3. QED BY <2>1, <2>2
<1>12. IdsOK'
  BY <1>2, <1>3, <1>7, <1>11 DEF IdsOK
<1>13. MemoryOK'
  <2>1. CASE r1
    <3>1. PICK n \in 0..Len(log) : /\ ExactPeers(log, peer', n) /\ last_id' \in 0..n
      BY <1>10, <2>1
    <3>2. phase' = "repairPeer" /\ StartsAt("repairPeer", last_id', scan')
      BY <1>2, <2>1 DEF FirstStage
    <3>3. CASE last_id' > 0
      <4>1. scan' = last_id' /\ Larger(last_id', scan' - 1) = last_id'
        BY <3>1, <3>2, <3>3 DEF StartsAt, Larger
      <4>2. ExactPeers(log, peer', last_id')
        BY <1>1, <1>6, <1>7, <3>1, ShorterExact DEF ExactPeers
      <4>3. QED BY <1>2, <1>3, <2>1, <3>2, <4>1, <4>2 DEF MemoryOK, Stages, r1
    <3>4. CASE last_id' = 0
      <4>1. \A i \in 1..Len(log) : (i < scan') <=> (log[i].blk = 0)
        BY <3>2, <3>4 DEF StartsAt
      <4>2. \A u \in Users : peer'[u].last_id = 0
        BY <1>6, <1>7, <3>4
      <4>3. \A i \in 1..Len(log) : log[i].kind = "peer" => log[i].blk >= 1
        BY <1>2, <2>1, <4>2 DEF r1, IInv, DiskOK, EmptyIsHarmless
      <4>4. Larger(last_id', scan' - 1) = scan' - 1 /\ scan' - 1 \in 0..Len(log)
            /\ ~(scan' <= last_id')
        <5>1. scan' \in 1..Len(log) + 1
          BY <1>2
        <5>2. scan' - 1 \in 0..Len(log) /\ ~(scan' <= 0)
          BY <1>1, <5>1, Before
        <5>3. QED BY <3>4, <5>2 DEF Larger
      <4>5. \A i \in 1..scan' - 1 : log[i].kind # "peer"
        <5>1. \A i \in 1..scan' - 1 : i \in 1..Len(log) /\ i < scan'
          BY <1>1, <1>2, Before
        <5>2. QED BY <4>1, <4>3, <5>1
      <4>6. ExactPeers(log, peer', scan' - 1)
        BY <1>1, <3>1, <4>2, <4>4, <4>5, EmptyExact DEF ExactPeers
      <4>7. QED BY <1>2, <1>3, <2>1, <3>2, <4>4, <4>6 DEF MemoryOK, Stages, r1
    <3>5. QED BY <1>11, <3>3, <3>4
  <2>2. CASE ~r1
    <3>1. peer' = NoUsers /\ ~r1'
      BY <1>2, <1>3, <2>2 DEF r1
    <3>2. CASE r2
      <4>1. phase' = "repairGroup"
        BY <1>2, <2>2, <3>2 DEF FirstStage
      <4>2. QED BY <1>2, <1>3, <3>1, <4>1 DEF MemoryOK, Stages
    <3>3. CASE ~r2
      <4>1. phase' = "createPeer" /\ scan' = 1
        BY <1>2, <2>2, <3>3 DEF FirstStage, StartsAt
      <4>2. ExactPeers(log, peer', scan' - 1)
        BY <1>1, <3>1, <4>1, ZeroExact
      <4>3. QED BY <1>2, <1>3, <4>1, <4>2 DEF MemoryOK, Stages
    <3>4. QED BY <3>2, <3>3
  <2>3. QED BY <2>1, <2>2
<1>14. QED BY <1>5, <1>12, <1>13 DEF IInv

\* The record that a stage of NewStorage reads.
LEMMA ScannedRecord ==
  ASSUME IInv, phase \in Stages, scan <= Len(log)
  PROVE  /\ TypeOK /\ log \in Seq(Record) /\ Len(log) \in Nat /\ saving = NoSave
         /\ scan \in Nat /\ scan \in 1..Len(log) /\ scan + 1 \in 1..Len(log) + 1
         /\ scan + 1 - 1 = scan /\ log[scan] \in Record
         /\ log[scan].kind = "peer" => log[scan].to \in Users
         /\ log[scan].kind = "group" => log[scan].to \in Groups
<1>1. TypeOK /\ log \in Seq(Record) /\ Len(log) \in Nat /\ scan \in Nat \ {0}
  BY Parts DEF IInv
<1>2. scan \in 1..Len(log) /\ scan + 1 \in 1..Len(log) + 1 /\ scan + 1 - 1 = scan
  BY <1>1
<1>3. log[scan] \in Record
  BY <1>1, <1>2
<1>4. saving = NoSave
  BY DEF IInv, SavingOK, Stages
<1>5. QED BY <1>1, <1>2, <1>3, <1>4 DEF TypeOK, LogTypeOK

\* One record of a scan for the personal queues keeps the invariant.
LEMMA ScanPeerStep ==
  ASSUME IInv, TypeOK', ScanPeer
  PROVE  IInv'
<1>1. /\ phase \in {"repairPeer", "createPeer"} /\ phase \in Stages /\ scan <= Len(log)
      /\ scan' = scan + 1
      /\ UNCHANGED <<logVars, group, last_saved_id, diskVars, flush, phase>>
  BY DEF ScanPeer, Stages
<1>2. /\ TypeOK /\ log \in Seq(Record) /\ Len(log) \in Nat /\ saving = NoSave
      /\ scan \in Nat /\ scan \in 1..Len(log) /\ scan + 1 \in 1..Len(log) + 1
      /\ scan + 1 - 1 = scan
      /\ log[scan].kind = "peer" => log[scan].to \in Users
      /\ peer \in PeerIndexes /\ last_id \in Nat
  BY <1>1, ScannedRecord, Parts DEF TypeOK
<1>3. UNCHANGED <<log, diskPeer>>
  BY <1>1 DEF logVars, diskVars
<1>4. BlocksKnown' /\ Chained(log)' /\ SavingOK' /\ DiskOK' /\ FlushOK'
  BY <1>1, <1>2, StartFrame
<1>5. ASSUME ExecPeer(log[scan], scan), ExactPeers(log, peer, scan - 1)
      PROVE  ExactPeers(log, peer', scan)
  <2>1. peer' = IF log[scan].kind = "peer"
                  THEN [peer EXCEPT ![log[scan].to] = NextUserIndex(@, log[scan], scan)]
                  ELSE peer
    BY <1>5 DEF ExecPeer
  <2>2. QED BY <1>2, <1>5, <2>1, ReplayExact DEF IInv
<1>6. CASE phase = "repairPeer" /\ scan = last_id
  <2>1. UNCHANGED <<peer, group, last_id, last_saved_id, log>>
    BY <1>1, <1>3, <1>6 DEF ScanPeer
  <2>2. IdsOK'
    BY <2>1 DEF IInv, IdsOK
  <2>3. ExactPeers(log, peer, last_id) /\ r1
    <3>1. Larger(last_id, scan - 1) = last_id
      BY <1>2, <1>6 DEF Larger
    <3>2. QED BY <1>6, <3>1 DEF IInv, MemoryOK
  <2>4. Larger(last_id, scan) = last_id /\ ~(scan + 1 <= last_id)
    BY <1>2, <1>6 DEF Larger
  <2>5. MemoryOK'
    BY <1>1, <1>2, <1>3, <1>6, <2>1, <2>3, <2>4 DEF MemoryOK, Stages, r1
  <2>6. QED BY <1>4, <2>2, <2>5 DEF IInv
<1>7. CASE ~(phase = "repairPeer" /\ scan = last_id)
  <2>1. ExecPeer(log[scan], scan)
    BY <1>7 DEF ScanPeer
  <2>2. /\ last_id' \in {last_id, scan} /\ last_id <= last_id'
        /\ \A u \in Users : peer'[u].last_id <= last_id'
    BY <1>2, <2>1, ExecPeerIds DEF IInv
  <2>3. IdsOK'
    <3>1. last_id' \in Nat /\ last_id' <= Len(log)
      BY <1>2, <2>2 DEF IInv, IdsOK
    <3>2. QED BY <1>1, <1>2, <1>3, <2>2, <3>1, Parts DEF IInv, IdsOK
  <2>4. CASE phase = "repairPeer"
    <3>1. ~(scan <= last_id) /\ Larger(last_id, scan - 1) = scan - 1 /\ r1
      BY <1>2, <1>7, <2>4 DEF IInv, MemoryOK, Larger
    <3>2. ExactPeers(log, peer', scan)
      BY <1>5, <2>1, <2>4, <3>1 DEF IInv, MemoryOK
    <3>3. Larger(last_id', scan) = scan /\ ~(scan + 1 <= last_id')
      BY <1>2, <2>2, <3>1 DEF Larger
    <3>4. MemoryOK'
      BY <1>1, <1>2, <1>3, <2>4, <3>1, <3>2, <3>3 DEF MemoryOK, Stages, r1
    <3>5. QED BY <1>4, <2>3, <3>4 DEF IInv
  <2>5. CASE phase = "createPeer"
    <3>1. ExactPeers(log, peer', scan)
      BY <1>5, <2>1, <2>5 DEF IInv, MemoryOK
    <3>2. MemoryOK'
      BY <1>1, <1>2, <1>3, <2>5, <3>1 DEF MemoryOK, Stages
    <3>3. QED BY <1>4, <2>3, <3>2 DEF IInv
  <2>6. QED BY <1>1, <2>4, <2>5
<1>8. QED BY <1>6, <1>7

\* One record of a scan for the group queues keeps the invariant.
LEMMA ScanGroupStep ==
  ASSUME IInv, TypeOK', ScanGroup
  PROVE  IInv'
<1>1. /\ phase \in {"repairGroup", "createGroup"} /\ phase \in Stages /\ scan <= Len(log)
      /\ scan' = scan + 1 /\ ExecGroup(log[scan], scan)
      /\ UNCHANGED <<logVars, peer, last_saved_id, diskVars, flush, phase>>
  BY DEF ScanGroup, Stages
<1>2. /\ TypeOK /\ Len(log) \in Nat /\ saving = NoSave
      /\ scan \in Nat /\ scan \in 1..Len(log) /\ scan + 1 \in 1..Len(log) + 1
      /\ log[scan].kind = "group" => log[scan].to \in Groups
      /\ last_id \in Nat
  BY <1>1, ScannedRecord, Parts
<1>3. UNCHANGED <<log, diskPeer>>
  BY <1>1 DEF logVars, diskVars
<1>4. BlocksKnown' /\ Chained(log)' /\ SavingOK' /\ DiskOK' /\ FlushOK'
  BY <1>1, <1>2, StartFrame
<1>5. /\ last_id' \in {last_id, scan} /\ last_id <= last_id'
      /\ \A g \in Groups : group'[g].LastId <= last_id'
  BY <1>1, <1>2, ExecGroupIds DEF IInv
<1>6. IdsOK'
  <2>1. last_id' \in Nat /\ last_id' <= Len(log)
    BY <1>2, <1>5 DEF IInv, IdsOK
  <2>2. QED BY <1>1, <1>2, <1>3, <1>5, <2>1, Parts DEF IInv, IdsOK
<1>7. MemoryOK'
  BY <1>1, <1>2, <1>3 DEF IInv, MemoryOK, Stages, r1
<1>8. QED BY <1>4, <1>6, <1>7 DEF IInv

\* The end of a scan keeps the invariant.
LEMMA EndStageStep ==
  ASSUME IInv, TypeOK', EndStage \/ BootDone
  PROVE  IInv'
<1>1. /\ TypeOK /\ log \in Seq(Record) /\ Len(log) \in Nat
      /\ scan \in Nat \ {0} /\ last_id \in Nat
  BY Parts DEF IInv
<1>2. /\ phase \in Stages \cup {"boot"}
      /\ phase = "boot" => flush = Idle /\ phase' = "up"
      /\ UNCHANGED <<logVars, indexVars, last_saved_id, diskVars, flush>>
  BY DEF EndStage, BootDone, Stages
<1>3. saving = NoSave
  BY <1>2 DEF IInv, SavingOK, Stages
<1>4. UNCHANGED <<log, peer, group, last_id, last_saved_id, diskPeer, diskGroup>>
  BY <1>2 DEF logVars, indexVars, diskVars
<1>5. BlocksKnown' /\ Chained(log)' /\ SavingOK' /\ DiskOK' /\ FlushOK'
  BY <1>2, <1>3, StartFrame DEF Stages
<1>6. IdsOK'
  BY <1>4 DEF IInv, IdsOK
<1>7. MemoryOK'
  <2>1. CASE BootDone
    BY <2>1, <1>4 DEF BootDone, IInv, MemoryOK, Stages
  <2>2. CASE EndStage
    <3>1. /\ phase \in Stages /\ scan > Len(log) /\ phase' = StageAfter(phase)
          /\ scan' \in 1..Len(log) + 1
          /\ phase' \in Stages => StartsAt(phase', last_id, scan')
      BY <2>2 DEF EndStage
    <3>2. scan - 1 = Len(log)
      BY <1>1, <3>1 DEF IInv, MemoryOK
    <3>3. CASE phase = "repairPeer"
      <4>1. Larger(last_id, scan - 1) = Len(log)
        BY <1>1, <3>2 DEF IInv, IdsOK, Larger
      <4>2. ExactPeers(log, peer, Len(log)) /\ r1 /\ phase' \in {"repairGroup", "createGroup"}
        BY <3>1, <3>3, <4>1 DEF IInv, MemoryOK, StageAfter
      <4>3. QED BY <1>4, <3>1, <4>2 DEF MemoryOK, Stages, r1
    <3>4. CASE phase = "repairGroup" /\ r1
      <4>1. ExactPeers(log, peer, Len(log)) /\ phase' = "boot"
        BY <3>1, <3>4 DEF IInv, MemoryOK, StageAfter
      <4>2. QED BY <1>4, <3>1, <4>1 DEF MemoryOK, Stages
    <3>5. CASE phase = "repairGroup" /\ ~r1
      <4>1. peer = NoUsers /\ phase' = "createPeer" /\ scan' = 1
        BY <3>1, <3>5 DEF IInv, MemoryOK, StageAfter, StartsAt, Stages
      <4>2. ExactPeers(log, peer, scan' - 1)
        BY <1>1, <4>1, ZeroExact
      <4>3. QED BY <1>4, <3>1, <4>1, <4>2 DEF MemoryOK, Stages
    <3>6. CASE phase = "createPeer"
      <4>1. ExactPeers(log, peer, Len(log)) /\ phase' \in {"boot", "createGroup"}
        BY <3>1, <3>2, <3>6 DEF IInv, MemoryOK, StageAfter
      <4>2. QED BY <1>4, <3>1, <4>1 DEF MemoryOK, Stages
    <3>7. CASE phase = "createGroup"
      <4>1. ExactPeers(log, peer, Len(log)) /\ phase' = "boot"
        BY <3>1, <3>7 DEF IInv, MemoryOK, StageAfter
      <4>2. QED BY <1>4, <3>1, <4>1 DEF MemoryOK, Stages
    <3>8. QED BY <3>1, <3>3, <3>4, <3>5, <3>6, <3>7 DEF Stages
  <2>3. QED BY <2>1, <2>2
<1>8. QED BY <1>5, <1>6, <1>7 DEF IInv

-----------------------------------------------------------------------------
\* The theorems.

\* The invariant holds of an empty storage.
LEMMA InitInvariant == ASSUME Init PROVE IInv
<1>1. TypeOK
  BY InitType
<1>2. Len(log) = 0
  BY DEF Init
<1>3. QED
  BY <1>1, <1>2
  DEF Init, IInv, BlocksKnown, Chained, SavingOK, IdsOK, MemoryOK, DiskOK, FlushOK,
      NoUsers, NoGroups, ZeroUser, ZeroGroup, Stages

\* Every step keeps the invariant.
LEMMA StepInvariant ==
  ASSUME ~EmptyStop, IInv, [Next]_vars
  PROVE  IInv'
<1>1. TypeOK'
  BY StepType DEF IInv
<1>2. CASE UNCHANGED vars
  BY <1>1, <1>2
  DEF vars, IInv, BlocksKnown, SavingOK, IdsOK, MemoryOK, DiskOK, FlushOK,
      EmptyIsHarmless, GroupIdsUpTo, r1
<1>3. CASE SaveNext
  <2>1. ASSUME NEW u \in Users, NEW grp \in BOOLEAN, SaveBody("peer", u, grp)
        PROVE  IInv'
    BY <1>1, <2>1, SaveBodyStep DEF Kinds
  <2>2. ASSUME NEW g \in Groups, SaveBody("group", g, TRUE)
        PROVE  IInv'
    BY <1>1, <2>2, SaveBodyStep DEF Kinds
  <2>3. QED BY <1>1, <1>3, <2>1, <2>2, SavePeerEntryStep, SaveGroupEntryStep DEF SaveNext
<1>4. CASE FlushNext
  BY <1>1, <1>4, FlushStep, SaveGroupIndexFileStep, EndStep DEF FlushNext
<1>5. CASE StartNext
  BY <1>1, <1>5, ReadStep, ScanPeerStep, ScanGroupStep, EndStageStep DEF StartNext
<1>6. CASE Crash \/ RemovePeerFile \/ RemoveGroupFile
  BY <1>1, <1>6, EndStep, RemoveStep
<1>7. QED BY <1>2, <1>3, <1>4, <1>5, <1>6 DEF Next

\* The invariant implies the two properties.
LEMMA InvariantMeans == ASSUME IInv PROVE PeerIndexExact /\ PeerChainsComplete
<1>1. PeerIndexExact
  BY SameExact DEF IInv, MemoryOK, ExactPeers, PeerIndexExact
<1>2. PeerChainsComplete
  BY SameEntry DEF IInv, Chained, PeerChainsComplete
<1>3. QED BY <1>1, <1>2

\* The invariant holds in every reachable state.
THEOREM Invariant == ASSUME ~EmptyStop PROVE Spec => []IInv
<1>1. Init => IInv
  BY InitInvariant
<1>2. IInv /\ [Next]_vars => IInv'
  BY StepInvariant
<1>3. QED BY <1>1, <1>2, PTL DEF Spec

\* Whenever the store serves requests, the index of every user is what the log
\* says: repairPeerIndex and createPeerIndex restore it after every stop and
\* crash, from whichever index files there are.
THEOREM PeerIndexAlwaysExact == ASSUME ~EmptyStop PROVE Spec => []PeerIndexExact
BY Invariant, InvariantMeans, PTL

\* The back links that SavePeerMessage writes never skip an entry of the queue.
THEOREM PeerChainsAlwaysComplete == ASSUME ~EmptyStop PROVE Spec => []PeerChainsComplete
BY Invariant, InvariantMeans, PTL

-----------------------------------------------------------------------------
(***************************************************************************)
(* The queues of groups are never mixed up, and a missing index file is    *)
(* rebuilt exactly.  The number of new messages that is reported to a user *)
(* is the number of entries of the queue.                                  *)
(***************************************************************************)
\* The queues of groups, over an explicit log.

GroupIn(L, g, n) == {i \in 1..Len(L) : i <= n /\ L[i].kind = "group" /\ L[i].to = g}

\* i is 0 or an entry of g among the first n records.
GroupAt(L, i, g, n) == i = 0 \/ i \in GroupIn(L, g, n)

\* The index x of groups points at entries of these groups.
Sound(L, x) ==
  \A g \in Groups :
    /\ GroupAt(L, x[g].LastId, g, Len(L))
    /\ GroupAt(L, x[g].LastBatchId, g, x[g].LastId)
    /\ x[g].LastMsgid = MsgidIn(L, x[g].LastId)

\* So does the back link of the entry at i, which follows its body.
LinkIn(L, i) ==
  /\ i > 1 /\ L[i].msgid = i - 1 /\ L[i - 1].kind = "body"
  /\ GroupAt(L, L[i].prev, L[i].to, i - 1)

Linked(L) == \A i \in 1..Len(L) : L[i].kind = "group" => LinkIn(L, i)

\* The index of g is that of the entries among the first n records.
RecreatedIn(L, x, g, n) ==
  /\ IsNewest(x.LastId, GroupIn(L, g, n))
  /\ x.LastSeqId = Cardinality(GroupIn(L, g, n))
  /\ x.LastMsgid = MsgidIn(L, x.LastId)

-----------------------------------------------------------------------------
\* The inductive invariant.  It needs nothing of the personal queues, nor that
\* the store has saved a message before it is told to stop.

\* A rebuild starts with an empty index; a repair at an entry that is not older
\* than those the index knows.
ScanOK ==
  /\ phase \in {"repairPeer", "createPeer"} /\ ~r2 => group = NoGroups
  /\ phase = "repairGroup" => r2 /\ \A g \in Groups : group[g].LastId <= scan
  /\ phase \in Stages => scan \in 1..Len(log) + 1
  /\ phase = "createGroup" => \A g \in Groups : RecreatedIn(log, group[g], g, scan - 1)

\* Memory, the file, and the clone of a flush in progress.
IndexesSound ==
  /\ Sound(log, group)
  /\ diskGroup # NoFile => Sound(log, diskGroup)
  /\ flush # Idle => Sound(log, flush.group)
  /\ \A g \in Groups : group[g].LastId <= last_id

GInv == TypeOK /\ SavingOK /\ Linked(log) /\ IndexesSound /\ ScanOK

-----------------------------------------------------------------------------
\* Growing logs.

\* A position of a queue stays one when the log grows.
LEMMA GrowsAt ==
  ASSUME NEW L \in Seq(Record), NEW M \in Seq(Record), Grows(L, M), NEW g,
         NEW i, NEW n, GroupAt(L, i, g, n)
  PROVE  GroupAt(M, i, g, n)
BY DEF GroupAt, GroupIn, Grows

\* A sound group index stays sound when the log grows.
LEMMA GrowsSound ==
  ASSUME NEW L \in Seq(Record), NEW M \in Seq(Record), Grows(L, M), NEW x, Sound(L, x)
  PROVE  Sound(M, x)
<1> SUFFICES ASSUME NEW g \in Groups
             PROVE  /\ GroupAt(M, x[g].LastId, g, Len(M))
                    /\ GroupAt(M, x[g].LastBatchId, g, x[g].LastId)
                    /\ x[g].LastMsgid = MsgidIn(M, x[g].LastId)
  BY DEF Sound
<1>1. /\ GroupAt(L, x[g].LastId, g, Len(L))
      /\ GroupAt(L, x[g].LastBatchId, g, x[g].LastId)
      /\ x[g].LastMsgid = MsgidIn(L, x[g].LastId)
  BY DEF Sound
<1>2. x[g].LastId = 0 \/ M[x[g].LastId] = L[x[g].LastId]
  BY <1>1 DEF GroupAt, GroupIn, Grows
<1>3. GroupAt(M, x[g].LastId, g, Len(M))
  BY <1>1 DEF GroupAt, GroupIn, Grows
<1>4. QED BY <1>1, <1>2, <1>3, GrowsAt DEF MsgidIn

\* So do the links of the group entries, when those that are added link well.
LEMMA GrowsLinked ==
  ASSUME NEW L \in Seq(Record), NEW M \in Seq(Record), Grows(L, M), Linked(L),
         \A i \in 1..Len(M) : i > Len(L) /\ M[i].kind = "group" => LinkIn(M, i)
  PROVE  Linked(M)
<1> SUFFICES ASSUME NEW i \in 1..Len(M), i <= Len(L), M[i].kind = "group"
             PROVE  LinkIn(M, i)
  BY DEF Linked
<1>1. i \in 1..Len(L) /\ M[i] = L[i]
  BY DEF Grows
<1>2. LinkIn(L, i)
  BY <1>1 DEF Linked
<1>3. i - 1 \in 1..Len(L) /\ M[i - 1] = L[i - 1]
  BY <1>1, <1>2 DEF LinkIn, Grows
<1>4. QED BY <1>1, <1>2, <1>3, GrowsAt DEF LinkIn

\* NextGroupIndex of an entry of g keeps the index sound, if it knew nothing
\* newer.
LEMMA NextSound ==
  ASSUME NEW L \in Seq(Record), NEW k \in 1..Len(L), NEW x \in GroupIndexes, Sound(L, x),
         L[k].kind = "group", L[k].to \in Groups, x[L[k].to].LastId <= k
  PROVE  Sound(L, [x EXCEPT ![L[k].to] = NextGroupIndex(@, L[k], k)])
<1> DEFINE h == L[k].to
           y == [x EXCEPT ![h] = NextGroupIndex(@, L[k], k)]
<1>1. y[h] = NextGroupIndex(x[h], L[k], k) /\ \A g \in Groups \ {h} : y[g] = x[g]
  BY DEF GroupIndexes
<1>2. k \in GroupIn(L, h, Len(L)) /\ k \in GroupIn(L, h, k) /\ k # 0
  BY DEF GroupIn
<1>3. /\ y[h].LastId = k /\ y[h].LastMsgid = L[k].msgid
      /\ y[h].LastBatchId \in {k, x[h].LastBatchId}
  BY <1>1 DEF NextGroupIndex
<1>4. GroupAt(L, x[h].LastBatchId, h, k)
  <2>1. x[h].LastId \in Nat /\ GroupAt(L, x[h].LastBatchId, h, x[h].LastId)
    BY DEF Sound, GroupIndexes, GroupIndex
  <2>2. QED BY <2>1 DEF GroupAt, GroupIn
<1>5. /\ GroupAt(L, y[h].LastId, h, Len(L))
      /\ GroupAt(L, y[h].LastBatchId, h, y[h].LastId)
      /\ y[h].LastMsgid = MsgidIn(L, y[h].LastId)
  BY <1>2, <1>3, <1>4 DEF GroupAt, MsgidIn
<1> HIDE DEF y, h
<1>6. Sound(L, y)
  BY <1>1, <1>5 DEF Sound
<1>7. QED BY <1>6 DEF y, h

\* The empty group index is sound, and exact over no records.
LEMMA ZeroSound ==
  ASSUME NEW L \in Seq(Record)
  PROVE  Sound(L, NoGroups) /\ \A g \in Groups : RecreatedIn(L, NoGroups[g], g, 0)
<1>1. \A g : GroupIn(L, g, 0) = {}
  BY DEF GroupIn
<1>2. Cardinality({}) = 0
  BY FS_EmptySet
<1>3. \A g \in Groups : NoGroups[g] = ZeroGroup
  BY DEF NoGroups
<1>4. ZeroGroup.LastId = 0 /\ ZeroGroup.LastBatchId = 0 /\ ZeroGroup.LastSeqId = 0
      /\ ZeroGroup.LastMsgid = 0
  BY DEF ZeroGroup
<1>5. QED BY <1>1, <1>2, <1>3, <1>4 DEF Sound, GroupAt, RecreatedIn, IsNewest, MsgidIn

\* The positions of a log are finitely many.
LEMMA EntriesFinite ==
  ASSUME NEW L \in Seq(Record), NEW S \in SUBSET (1..Len(L))
  PROVE  IsFiniteSet(S) /\ Cardinality(S) \in Nat
<1>1. Len(L) \in Int
  OBVIOUS
<1>2. IsFiniteSet(1..Len(L))
  BY <1>1, FS_Interval
<1>3. IsFiniteSet(S)
  BY <1>2, FS_Subset
<1>4. QED BY <1>3, FS_CardinalityType

\* createGroupIndex reads one record more.
LEMMA NextRecreated ==
  ASSUME NEW L \in Seq(Record), NEW k \in 1..Len(L), NEW x \in GroupIndexes,
         NEW g \in Groups, RecreatedIn(L, x[g], g, k - 1),
         L[k].kind = "group" => L[k].to \in Groups,
         NEW y, y = IF L[k].kind = "group"
                      THEN [x EXCEPT ![L[k].to] = NextGroupIndex(@, L[k], k)] ELSE x
  PROVE  RecreatedIn(L, y[g], g, k)
<1> DEFINE S == GroupIn(L, g, k - 1)
<1>1. S \in SUBSET (1..Len(L)) /\ k \notin S /\ \A j \in S : j < k
  BY DEF GroupIn
<1>2. CASE L[k].kind = "group" /\ L[k].to = g
  <2>1. GroupIn(L, g, k) = S \cup {k}
    BY <1>2 DEF GroupIn
  <2>2. y[g] = NextGroupIndex(x[g], L[k], k)
    BY <1>2 DEF GroupIndexes
  <2>3. /\ y[g].LastId = k /\ y[g].LastSeqId = x[g].LastSeqId + 1
        /\ y[g].LastMsgid = L[k].msgid
    BY <2>2 DEF NextGroupIndex
  <2>4. Cardinality(S \cup {k}) = Cardinality(S) + 1
    BY <1>1, EntriesFinite, FS_AddElement
  <2>5. IsNewest(k, S \cup {k})
    BY <1>1 DEF IsNewest
  <2>6. QED BY <2>1, <2>3, <2>4, <2>5 DEF RecreatedIn, MsgidIn
<1>3. CASE ~(L[k].kind = "group" /\ L[k].to = g)
  <2>1. GroupIn(L, g, k) = S
    BY <1>3 DEF GroupIn
  <2>2. y[g] = x[g]
    BY <1>3 DEF GroupIndexes
  <2>3. QED BY <2>1, <2>2 DEF RecreatedIn
<1>4. QED BY <1>2, <1>3

-----------------------------------------------------------------------------
\* Saving a message.

\* An append leaves every index as sound as it was.
LEMMA SaveKeeps ==
  ASSUME GInv, NEW rec \in Record, Append1(rec),
         rec.kind = "peer" => rec.to \in Users,
         rec.kind = "group" => rec.to \in Groups,
         rec.kind = "group" => LinkIn(log', Len(log) + 1)
  PROVE  /\ Linked(log') /\ Sound(log', group)
         /\ diskGroup # NoFile => Sound(log', diskGroup)
         /\ flush # Idle => Sound(log', flush.group)
<1>1. /\ log \in Seq(Record) /\ log' \in Seq(Record) /\ Grows(log, log')
      /\ Len(log') = Len(log) + 1 /\ log'[Len(log) + 1].kind = rec.kind /\ Len(log) \in Nat
  BY AppendGrows, AppendBlock, Parts DEF GInv
<1>2. \A i \in 1..Len(log') : i > Len(log) => i = Len(log) + 1
  BY <1>1
<1>3. Linked(log')
  BY <1>1, <1>2, GrowsLinked DEF GInv
<1>4. QED BY <1>1, <1>3, GrowsSound DEF GInv, IndexesSound

\* SaveBody preserves the invariant.
LEMMA GroupSaveBody ==
  ASSUME GInv, TypeOK', NEW kind \in Kinds, NEW grp \in BOOLEAN,
         NEW to \in (IF kind = "peer" THEN Users ELSE Groups),
         SaveBody(kind, to, grp)
  PROVE  GInv'
<1> DEFINE rec == [kind |-> "body", to |-> to, grp |-> grp, msgid |-> Len(log) + 1,
                   seq |-> 0, prev |-> 0, prevPeer |-> 0, prevBatch |-> 0, blk |-> 0]
<1>1. TypeOK /\ Len(log) \in Nat
  BY Parts DEF GInv
<1>2. rec \in Record /\ rec.kind = "body" /\ Append1(rec)
  BY <1>1 DEF Record, Kinds, SaveBody
<1> HIDE DEF rec
<1>3. /\ Linked(log') /\ Sound(log', group)
      /\ diskGroup # NoFile => Sound(log', diskGroup)
      /\ flush # Idle => Sound(log', flush.group)
  BY <1>2, SaveKeeps
<1>4. /\ phase = "up" /\ phase' = "up" /\ group' = group /\ last_id' = last_id
      /\ diskGroup' = diskGroup /\ flush' = flush
  BY DEF SaveBody, indexVars, diskVars
<1>5. IndexesSound'
  BY <1>3, <1>4 DEF GInv, IndexesSound
<1>6. SavingOK'
  <2>1. Len(log') = Len(log) + 1 /\ log'[Len(log) + 1].kind = "body"
    BY <1>1, <1>2, AppendGrows, AppendBlock
  <2>2. QED BY <1>1, <1>4, <2>1 DEF SaveBody, SavingOK
<1>7. ScanOK'
  BY <1>4 DEF ScanOK, Stages
<1>8. QED BY <1>3, <1>5, <1>6, <1>7 DEF GInv

\* SavePeerEntry preserves it.
LEMMA GroupSavePeerEntry ==
  ASSUME GInv, TypeOK', SavePeerEntry
  PROVE  GInv'
<1> DEFINE rec == PeerEntry(saving.to)
<1>1. TypeOK
  BY DEF GInv
<1>2. rec \in Record /\ rec.kind = "peer" /\ rec.to \in Users /\ Append1(rec)
      /\ ExecPeer(rec, Len(log) + 1)
  BY <1>1, PeerEntryType DEF SavePeerEntry
<1> HIDE DEF rec
<1>3. /\ Linked(log') /\ Sound(log', group)
      /\ diskGroup # NoFile => Sound(log', diskGroup)
      /\ flush # Idle => Sound(log', flush.group)
  BY <1>2, SaveKeeps
<1>4. /\ phase = "up" /\ phase' = "up" /\ group' = group /\ saving' = NoSave
      /\ diskGroup' = diskGroup /\ flush' = flush
  BY DEF SavePeerEntry, diskVars
<1>5. \A g \in Groups : group[g].LastId <= last_id'
  <2>1. last_id \in Nat /\ Len(log) + 1 \in Nat /\ \A g \in Groups : group[g].LastId \in Nat
    BY <1>1, Parts
  <2>2. last_id' = Larger(last_id, Len(log) + 1)
    BY <1>2 DEF ExecPeer
  <2>3. last_id <= last_id' /\ last_id' \in Nat
    BY <2>1, <2>2 DEF Larger
  <2>4. QED BY <2>1, <2>3 DEF GInv, IndexesSound
<1>6. IndexesSound' /\ SavingOK' /\ ScanOK'
  BY <1>3, <1>4, <1>5 DEF IndexesSound, SavingOK, ScanOK, Stages
<1>7. QED BY <1>3, <1>6 DEF GInv

\* SaveGroupEntry preserves it: the new entry links to the one the index named.
LEMMA GroupSaveGroupEntry ==
  ASSUME GInv, TypeOK', SaveGroupEntry
  PROVE  GInv'
<1> DEFINE rec == GroupEntry(saving.to)
           e == [rec EXCEPT !.blk = block_NO']
           k == Len(log) + 1
<1>1. TypeOK /\ Len(log) \in Nat /\ k \in Nat /\ saving.to \in Groups /\ saving # NoSave
  BY Parts, GroupEntryType DEF GInv, SaveGroupEntry, NoSave
<1>2. rec \in Record /\ rec.kind = "group" /\ rec.to = saving.to /\ Append1(rec)
      /\ ExecGroup(rec, k)
  BY <1>1, GroupEntryType DEF SaveGroupEntry
<1>3. e.kind = "group" /\ e.to = saving.to /\ e.msgid = rec.msgid /\ e.prev = rec.prev
  BY <1>2 DEF Record
<1>4. rec.msgid = saving.msgid /\ rec.prev = group[saving.to].LastId
  BY DEF GroupEntry
<1>5. /\ log \in Seq(Record) /\ log' \in Seq(Record) /\ Grows(log, log')
      /\ Len(log') = k /\ log'[k] = e /\ k \in 1..Len(log')
  BY <1>1, <1>2, AppendGrows
<1> HIDE DEF rec, e
<1>6. LinkIn(log', k)
  <2>1. Len(log) >= 1 /\ saving.msgid = Len(log) /\ log[Len(log)].kind = "body"
    BY <1>1 DEF GInv, SavingOK
  <2>2. k > 1 /\ k - 1 = Len(log) /\ log'[k - 1].kind = "body"
    BY <1>1, <1>5, <2>1 DEF Grows
  <2>3. GroupAt(log, group[saving.to].LastId, saving.to, k - 1)
    BY <1>1, <2>2 DEF GInv, IndexesSound, Sound
  <2>4. GroupAt(log', group[saving.to].LastId, saving.to, k - 1)
    BY <1>5, <2>3, GrowsAt
  <2>5. QED BY <1>3, <1>4, <1>5, <2>1, <2>2, <2>4 DEF LinkIn
<1>7. /\ Linked(log') /\ Sound(log', group)
      /\ diskGroup # NoFile => Sound(log', diskGroup)
      /\ flush # Idle => Sound(log', flush.group)
  BY <1>1, <1>2, <1>6, SaveKeeps
<1>8. /\ phase = "up" /\ phase' = "up" /\ saving' = NoSave /\ diskGroup' = diskGroup
      /\ flush' = flush
  BY DEF SaveGroupEntry, diskVars
<1>9. Sound(log', group')
  <2>1. \A x : NextGroupIndex(x, rec, k) = NextGroupIndex(x, e, k)
    BY <1>3 DEF NextGroupIndex
  <2>2. group' = [group EXCEPT ![e.to] = NextGroupIndex(@, e, k)]
    BY <1>2, <1>3, <2>1 DEF ExecGroup
  <2>3. group \in GroupIndexes
    BY <1>1 DEF TypeOK
  <2>4. group[e.to].LastId <= k
    <3>1. GroupAt(log, group[e.to].LastId, e.to, Len(log))
      BY <1>1, <1>3 DEF GInv, IndexesSound, Sound
    <3>2. QED BY <1>1, <3>1 DEF GroupAt, GroupIn
  <2>5. QED BY <1>1, <1>3, <1>5, <1>7, <2>2, <2>3, <2>4, NextSound
<1>10. \A g \in Groups : group'[g].LastId <= last_id'
  <2>1. last_id \in Nat /\ \A g \in Groups : group[g] \in GroupIndex /\ group[g].LastId \in Nat
    BY <1>1, Parts
  <2>2. last_id' = Larger(last_id, k) /\ group' = [group EXCEPT ![rec.to] = NextGroupIndex(@, rec, k)]
    BY <1>2 DEF ExecGroup
  <2>3. last_id <= last_id' /\ k <= last_id' /\ last_id' \in Nat
    BY <1>1, <2>1, <2>2 DEF Larger
  <2>4. \A g \in Groups : group'[g].LastId = k \/ group'[g].LastId = group[g].LastId
    <3>1. \A x : NextGroupIndex(x, rec, k).LastId = k
      BY DEF NextGroupIndex
    <3>2. group \in GroupIndexes
      BY <1>1 DEF TypeOK
    <3>3. QED BY <2>2, <3>1, <3>2 DEF GroupIndexes
  <2>5. QED BY <1>1, <2>1, <2>3, <2>4 DEF GInv, IndexesSound
<1>11. IndexesSound' /\ SavingOK' /\ ScanOK'
  BY <1>7, <1>8, <1>9, <1>10 DEF IndexesSound, SavingOK, ScanOK, Stages
<1>12. QED BY <1>7, <1>11 DEF GInv

-----------------------------------------------------------------------------
\* Flushing the indexes, and the end of the process.

\* A flush takes a clone of the group index.
LEMMA FlushKinds ==
  ASSUME NEW by \in {"timer", "boot", "exit"}, BeginFlush(by)
  PROVE  flush' # Idle /\ flush'.group = group
BY DEF BeginFlush, Idle

\* The steps of a flush preserve it.
LEMMA GroupFlush ==
  ASSUME GInv, TypeOK', FlushNext
  PROVE  GInv'
<1>1. TypeOK
  BY DEF GInv
<1>2. ASSUME NEW by \in {"timer", "boot", "exit"}, BeginFlush(by),
             UNCHANGED <<logVars, indexVars, diskVars, phase, scan>>
      PROVE  GInv'
  <2>1. flush' # Idle /\ flush'.group = group
    BY <1>2, FlushKinds
  <2>2. UNCHANGED <<log, saving, group, last_id, diskGroup, phase, scan>>
    BY <1>2 DEF logVars, indexVars, diskVars
  <2>3. QED BY <2>1, <2>2 DEF GInv, SavingOK, IndexesSound, ScanOK, r2
<1>3. CASE TimerFlush \/ Stop \/ BootFlush
  BY <1>2, <1>3 DEF TimerFlush, Stop, BootFlush
<1>4. CASE SavePeerIndexFile
  <2>1. flush # Idle /\ flush' = [flush EXCEPT !.step = "group"]
    BY <1>4 DEF SavePeerIndexFile
  <2>2. flush'.group = flush.group
    <3>1. flush \in [by : {"timer", "boot", "exit"}, step : {"peer", "group"},
                     peer : PeerIndexes, group : GroupIndexes, last_id : Nat]
      BY <1>1, <2>1 DEF TypeOK, Flushes
    <3>2. QED BY <2>1, <3>1
  <2>3. UNCHANGED <<log, saving, group, last_id, diskGroup, phase, scan>>
    BY <1>4 DEF SavePeerIndexFile, logVars, indexVars
  <2>4. QED BY <2>1, <2>2, <2>3 DEF GInv, SavingOK, IndexesSound, ScanOK, r2
<1>5. CASE SaveGroupIndexFile
  <2>1. /\ flush # Idle /\ diskGroup' = flush.group /\ flush' = Idle /\ phase' = "up"
        /\ UNCHANGED <<log, saving, group, last_id>>
    BY <1>5 DEF SaveGroupIndexFile, logVars, indexVars
  <2>2. QED BY <2>1 DEF GInv, SavingOK, IndexesSound, ScanOK, Stages
<1>6. CASE SaveGroupIndexFileAndExit
  <2>1. /\ flush # Idle /\ diskGroup' = flush.group /\ flush' = Idle /\ phase' = "down"
        /\ saving' = NoSave /\ group' = NoGroups /\ last_id' = 0 /\ log' = log
    BY <1>6 DEF SaveGroupIndexFileAndExit, ProcessEnds
  <2>2. Sound(log, NoGroups) /\ \A g \in Groups : NoGroups[g].LastId = 0
    BY <1>1, Parts, ZeroSound DEF NoGroups, ZeroGroup
  <2>3. QED BY <2>1, <2>2 DEF GInv, SavingOK, IndexesSound, ScanOK, Stages
<1>7. QED BY <1>3, <1>4, <1>5, <1>6 DEF FlushNext

\* The end of the process and the loss of a file preserve it.
LEMMA GroupEnd ==
  ASSUME GInv, TypeOK', Crash \/ RemovePeerFile \/ RemoveGroupFile
  PROVE  GInv'
<1>1. CASE Crash
  <2>1. /\ diskGroup' = diskGroup /\ flush' = Idle /\ phase' = "down"
        /\ saving' = NoSave /\ group' = NoGroups /\ last_id' = 0 /\ log' = log
    BY <1>1 DEF Crash, ProcessEnds, diskVars
  <2>2. Sound(log, NoGroups) /\ \A g \in Groups : NoGroups[g].LastId = 0
    BY Parts, ZeroSound DEF NoGroups, ZeroGroup, GInv
  <2>3. QED BY <2>1, <2>2 DEF GInv, SavingOK, IndexesSound, ScanOK, Stages
<1>2. CASE RemovePeerFile \/ RemoveGroupFile
  <2>1. /\ diskGroup' \in {diskGroup, NoFile} /\ phase = "down"
        /\ UNCHANGED <<log, saving, group, last_id, flush, phase, scan>>
    BY <1>2 DEF RemovePeerFile, RemoveGroupFile, logVars, indexVars
  <2>2. QED BY <2>1 DEF GInv, SavingOK, IndexesSound, ScanOK, Stages
<1>3. QED BY <1>1, <1>2

-----------------------------------------------------------------------------
\* NewStorage.

\* The first record that repairGroupIndex reads is not older than any entry
\* the index knows.
LEMMA RepairStart ==
  ASSUME NEW id \in Nat, NEW s \in Nat, StartsAt("repairGroup", id, s),
         NEW x \in GroupIndexes, \A g \in Groups : x[g].LastId <= id
  PROVE  \A g \in Groups : x[g].LastId <= s
<1>1. \A g \in Groups : x[g].LastId \in Nat
  BY DEF GroupIndexes, GroupIndex
<1>2. QED BY <1>1 DEF StartsAt

\* readPeerIndex and readGroupIndex preserve it.
LEMMA GroupRead ==
  ASSUME GInv, TypeOK', ReadIndexFiles
  PROVE  GInv'
<1>1. TypeOK /\ log \in Seq(Record) /\ Len(log) \in Nat
  BY Parts DEF GInv
<1>2. /\ phase = "down" /\ phase' = FirstStage
      /\ group' = (IF r2 THEN diskGroup ELSE NoGroups)
      /\ last_id' \in ReadIds(peer', group')
      /\ \A other \in ReadIds(peer', group') : other <= last_id'
      /\ scan' \in 1..Len(log) + 1 /\ StartsAt(FirstStage, last_id', scan')
      /\ UNCHANGED <<log, saving, diskGroup, diskPeer, flush>>
  BY DEF ReadIndexFiles, logVars, diskVars
<1>3. Sound(log, group')
  BY <1>1, <1>2, ZeroSound DEF GInv, IndexesSound, r2
<1>4. last_id' \in Nat /\ group' \in GroupIndexes
  BY DEF TypeOK
<1>5. \A g \in Groups : group'[g].LastId <= last_id'
  BY <1>2 DEF ReadIds
<1>6. IndexesSound'
  BY <1>2, <1>3, <1>5 DEF GInv, IndexesSound
<1>7. SavingOK'
  BY <1>2 DEF GInv, SavingOK
<1>8. phase' = "repairGroup" => r2 /\ \A g \in Groups : group'[g].LastId <= scan'
  <2>1. SUFFICES ASSUME phase' = "repairGroup" PROVE r2 /\ \A g \in Groups : group'[g].LastId <= scan'
    OBVIOUS
  <2>2. r2
    BY <1>2, <2>1 DEF FirstStage
  <2>3. scan' \in Nat
    BY <1>1, <1>2
  <2>4. QED BY <1>2, <1>4, <1>5, <2>1, <2>2, <2>3, RepairStart
<1>9. phase' # "createGroup" /\ (~r2 => group' = NoGroups)
  BY <1>2 DEF FirstStage
<1>10. ScanOK'
  BY <1>2, <1>8, <1>9 DEF ScanOK, r2
<1>11. QED BY <1>2, <1>6, <1>7, <1>10 DEF GInv

\* A turn of a repair or of a rebuild preserves it.
LEMMA GroupScan ==
  ASSUME GInv, TypeOK', ScanPeer \/ ScanGroup
  PROVE  GInv'
<1>1. /\ phase \in Stages /\ scan <= Len(log) /\ scan' = scan + 1 /\ phase' = phase
      /\ UNCHANGED <<log, saving, diskGroup, diskPeer, flush>>
  BY DEF ScanPeer, ScanGroup, Stages, logVars, diskVars
<1>2. /\ TypeOK /\ log \in Seq(Record) /\ Len(log) \in Nat /\ last_id \in Nat
      /\ scan \in 1..Len(log) /\ scan + 1 \in 1..Len(log) + 1 /\ scan \in Nat /\ scan + 1 - 1 = scan
      /\ group \in GroupIndexes
      /\ \A g \in Groups : group[g].LastId \in Nat
  BY <1>1, Parts DEF GInv, TypeOK
<1>3. /\ log[scan].kind = "peer" => log[scan].to \in Users
      /\ log[scan].kind = "group" => log[scan].to \in Groups
  BY <1>2 DEF TypeOK, LogTypeOK
<1>4. SavingOK'
  BY <1>1 DEF GInv, SavingOK
<1>5. CASE ScanPeer
  <2>1. group' = group /\ phase \in {"repairPeer", "createPeer"}
        /\ last_id' \in {last_id, Larger(last_id, scan)}
    BY <1>5 DEF ScanPeer, ExecPeer
  <2>2. \A g \in Groups : group[g].LastId <= last_id'
    BY <1>2, <2>1 DEF GInv, IndexesSound, Larger
  <2>3. IndexesSound'
    BY <1>1, <2>1, <2>2 DEF GInv, IndexesSound
  <2>4. ScanOK'
    BY <1>1, <1>2, <2>1 DEF GInv, ScanOK, r2
  <2>5. QED BY <1>1, <1>4, <2>3, <2>4 DEF GInv
<1>6. CASE ScanGroup
  <2>1. phase \in {"repairGroup", "createGroup"} /\ ExecGroup(log[scan], scan)
    BY <1>6 DEF ScanGroup
  <2>2. /\ group' = IF log[scan].kind = "group"
                      THEN [group EXCEPT ![log[scan].to] = NextGroupIndex(@, log[scan], scan)]
                      ELSE group
        /\ last_id' = IF log[scan].kind = "group" THEN Larger(last_id, scan) ELSE last_id
    BY <2>1 DEF ExecGroup
  <2>3. \A g \in Groups : group[g].LastId <= scan
    <3>1. CASE phase = "repairGroup"
      BY <3>1 DEF GInv, ScanOK
    <3>2. CASE phase = "createGroup"
      <4>1. \A g \in Groups : IsNewest(group[g].LastId, GroupIn(log, g, scan - 1))
        BY <3>2 DEF GInv, ScanOK, RecreatedIn
      <4>2. \A g \in Groups : \A i \in GroupIn(log, g, scan - 1) : i <= scan
        BY <1>2 DEF GroupIn
      <4>3. QED BY <1>2, <4>1, <4>2 DEF IsNewest
    <3>3. QED BY <2>1, <3>1, <3>2
  <2>4. Sound(log, group')
    <3>1. Sound(log, group)
      BY DEF GInv, IndexesSound
    <3>2. QED BY <1>2, <1>3, <2>2, <2>3, <3>1, NextSound
  <2>5. \A g \in Groups : group'[g].LastId = scan \/ group'[g].LastId = group[g].LastId
    <3>1. \A x : NextGroupIndex(x, log[scan], scan).LastId = scan
      BY DEF NextGroupIndex
    <3>2. QED BY <1>2, <2>2, <3>1 DEF GroupIndexes
  <2>6. \A g \in Groups : group'[g].LastId <= last_id'
    <3>1. CASE log[scan].kind = "group"
      <4>1. last_id <= last_id' /\ scan <= last_id' /\ last_id' \in Nat
        BY <1>2, <2>2, <3>1 DEF Larger
      <4>2. QED BY <1>2, <2>5, <4>1 DEF GInv, IndexesSound
    <3>2. CASE log[scan].kind # "group"
      BY <2>2, <3>2 DEF GInv, IndexesSound
    <3>3. QED BY <3>1, <3>2
  <2>7. IndexesSound'
    BY <1>1, <2>4, <2>6 DEF GInv, IndexesSound
  <2>8. phase = "repairGroup" => r2 /\ \A g \in Groups : group'[g].LastId <= scan + 1
    BY <1>2, <2>3, <2>5 DEF GInv, ScanOK
  <2>9. phase = "createGroup" => \A g \in Groups : RecreatedIn(log, group'[g], g, scan)
    BY <1>2, <1>3, <2>2, NextRecreated DEF GInv, ScanOK
  <2>10. ScanOK'
    BY <1>1, <1>2, <2>1, <2>8, <2>9 DEF ScanOK, r2
  <2>11. QED BY <1>1, <1>4, <2>7, <2>10 DEF GInv
<1>7. QED BY <1>5, <1>6

\* The change from one stage of NewStorage to the next preserves it.
LEMMA GroupEndStage ==
  ASSUME GInv, TypeOK', EndStage \/ BootDone
  PROVE  GInv'
<1>1. UNCHANGED <<log, saving, group, last_id, diskGroup, diskPeer, flush>>
  BY DEF EndStage, BootDone, logVars, indexVars, diskVars
<1>2. IndexesSound' /\ Linked(log)'
  BY <1>1 DEF GInv, IndexesSound
<1>3. phase \in Stages \cup {"boot"}
  BY DEF EndStage, BootDone
<1>4. SavingOK'
  BY <1>1, <1>3 DEF GInv, SavingOK, Stages
<1>5. ScanOK'
  <2>1. CASE BootDone
    BY <2>1 DEF BootDone, ScanOK, Stages
  <2>2. CASE EndStage
    <3>1. /\ phase \in Stages /\ phase' = StageAfter(phase) /\ scan' \in 1..Len(log) + 1
          /\ phase' \in Stages => StartsAt(phase', last_id, scan')
      BY <2>2 DEF EndStage
    <3>2. TypeOK /\ log \in Seq(Record) /\ Len(log) \in Nat /\ last_id \in Nat /\ scan' \in Nat
          /\ group \in GroupIndexes
      BY <3>1, Parts DEF GInv, TypeOK
    <3>3. ASSUME phase' = "createGroup"
          PROVE  \A g \in Groups : RecreatedIn(log, group[g], g, scan' - 1)
      <4>1. phase \in {"repairPeer", "createPeer"} /\ ~r2
        BY <3>1, <3>3 DEF StageAfter, Stages
      <4>2. group = NoGroups
        BY <4>1 DEF GInv, ScanOK
      <4>3. scan' = 1
        BY <3>1, <3>3 DEF StartsAt, Stages
      <4>4. QED BY <3>2, <4>2, <4>3, ZeroSound
    <3>4. ASSUME phase' = "repairGroup"
          PROVE  r2 /\ \A g \in Groups : group[g].LastId <= scan'
      <4>1. r2
        BY <3>1, <3>4 DEF StageAfter, Stages
      <4>2. StartsAt("repairGroup", last_id, scan')
        BY <3>1, <3>4 DEF Stages
      <4>3. QED BY <3>2, <4>1, <4>2, RepairStart DEF GInv, IndexesSound
    <3>5. ASSUME phase' \in {"repairPeer", "createPeer"}
          PROVE  r2
      BY <3>1, <3>5 DEF StageAfter, Stages, GInv, ScanOK
    <3>6. QED BY <1>1, <3>1, <3>3, <3>4, <3>5 DEF ScanOK, r2
  <2>3. QED BY <2>1, <2>2
<1>6. QED BY <1>2, <1>4, <1>5 DEF GInv

-----------------------------------------------------------------------------
\* It holds at first.
LEMMA GroupInit == ASSUME Init PROVE GInv
<1>1. TypeOK
  BY InitType
<1>2. Sound(log, NoGroups) /\ \A g \in Groups : NoGroups[g].LastId = 0
  BY <1>1, Parts, ZeroSound DEF NoGroups, ZeroGroup
<1>3. QED
  BY <1>1, <1>2 DEF Init, GInv, SavingOK, Linked, IndexesSound, ScanOK, Stages

\* Every step preserves it.
LEMMA GroupStep ==
  ASSUME GInv, [Next]_vars
  PROVE  GInv'
<1>1. TypeOK'
  BY StepType DEF GInv
<1>2. CASE UNCHANGED vars
  BY <1>1, <1>2 DEF vars, GInv, SavingOK, IndexesSound, ScanOK, r2
<1>3. CASE SaveNext
  <2>1. ASSUME NEW u \in Users, NEW grp \in BOOLEAN, SaveBody("peer", u, grp)
        PROVE  GInv'
    BY <1>1, <2>1, GroupSaveBody DEF Kinds
  <2>2. ASSUME NEW g \in Groups, SaveBody("group", g, TRUE)
        PROVE  GInv'
    BY <1>1, <2>2, GroupSaveBody DEF Kinds
  <2>3. QED BY <1>1, <1>3, <2>1, <2>2, GroupSavePeerEntry, GroupSaveGroupEntry DEF SaveNext
<1>4. CASE FlushNext
  BY <1>1, <1>4, GroupFlush
<1>5. CASE StartNext
  BY <1>1, <1>5, GroupRead, GroupScan, GroupEndStage DEF StartNext
<1>6. CASE Crash \/ RemovePeerFile \/ RemoveGroupFile
  BY <1>1, <1>6, GroupEnd
<1>7. QED BY <1>2, <1>3, <1>4, <1>5, <1>6 DEF Next

\* It implies the two properties of group queues.
LEMMA GroupInvariantMeans == ASSUME GInv PROVE GroupQueuesSound /\ GroupIndexRecreated
<1>1. \A g, n : GroupEntries(g, n) = GroupIn(log, g, n)
  BY DEF GroupEntries, GroupIn
<1>2. \A i : MsgidOf(i) = MsgidIn(log, i)
  BY DEF MsgidOf, MsgidIn
<1>3. GroupQueuesSound
  BY <1>1, <1>2 DEF GInv, IndexesSound, Sound, GroupAt, Linked, LinkIn, GroupQueuesSound
<1>4. GroupIndexRecreated
  BY <1>1, <1>2 DEF GInv, ScanOK, RecreatedIn, GroupIndexRecreated
<1>5. QED BY <1>3, <1>4

\* It holds of every execution.
LEMMA GroupInvariant == Spec => []GInv
<1>1. Init => GInv
  BY GroupInit
<1>2. GInv /\ [Next]_vars => GInv'
  BY GroupStep
<1>3. QED BY <1>1, <1>2, PTL DEF Spec

\* SaveGroupMessage, repairGroupIndex and createGroupIndex never mix up the
\* queues of groups nor link to what was written later, whichever index files a
\* start finds.
THEOREM GroupQueuesAlwaysSound == Spec => []GroupQueuesSound
BY GroupInvariant, GroupInvariantMeans, PTL

\* createGroupIndex rebuilds the index of every group from all block files.
THEOREM GroupIndexAlwaysRecreated == Spec => []GroupIndexRecreated
BY GroupInvariant, GroupInvariantMeans, PTL

-----------------------------------------------------------------------------
\* The number of new messages.  Sequence numbers count the entries of a queue.

Numbered(L) ==
  \A i \in 1..Len(L) : L[i].kind = "peer" => L[i].seq = Cardinality(EntriesIn(L, L[i].to, i))

\* Numbered entries stay so when the log grows by numbered ones.
LEMMA GrowsNumbered ==
  ASSUME NEW L \in Seq(Record), NEW M \in Seq(Record), Grows(L, M), Numbered(L),
         \A i \in 1..Len(M) : i > Len(L) /\ M[i].kind = "peer" =>
           M[i].seq = Cardinality(EntriesIn(M, M[i].to, i))
  PROVE  Numbered(M)
<1> SUFFICES ASSUME NEW i \in 1..Len(M), i <= Len(L), M[i].kind = "peer"
             PROVE  M[i].seq = Cardinality(EntriesIn(M, M[i].to, i))
  BY DEF Numbered
<1>1. i \in 1..Len(L) /\ M[i] = L[i]
  BY DEF Grows
<1>2. L[i].seq = Cardinality(EntriesIn(L, L[i].to, i))
  BY <1>1 DEF Numbered
<1>3. EntriesIn(L, L[i].to, i) = EntriesIn(M, L[i].to, i)
  BY <1>1, GrowsEntries
<1>4. QED BY <1>1, <1>2, <1>3

\* The sequence number of the newest entry is the number of entries.
LEMMA NewestCounts ==
  ASSUME NEW L \in Seq(Record), Numbered(L), NEW u, NEW n \in 0..Len(L), NEW i,
         IsNewest(i, EntriesIn(L, u, n))
  PROVE  SeqIn(L, i) = Cardinality(EntriesIn(L, u, n))
<1>1. CASE i = 0
  <2>1. EntriesIn(L, u, n) = {} /\ Cardinality({}) = 0
    BY <1>1, FS_EmptySet DEF IsNewest
  <2>2. QED BY <1>1, <2>1 DEF SeqIn
<1>2. CASE i # 0
  <2>1. i \in EntriesIn(L, u, n) /\ \A j \in EntriesIn(L, u, n) : j <= i
    BY <1>2 DEF IsNewest
  <2>2. i \in 1..Len(L) /\ i <= n /\ L[i].kind = "peer" /\ L[i].to = u
    BY <2>1 DEF EntriesIn
  <2>3. EntriesIn(L, u, i) = EntriesIn(L, u, n)
    BY <2>1, <2>2 DEF EntriesIn
  <2>4. QED BY <1>2, <2>2, <2>3 DEF Numbered, SeqIn
<1>3. QED BY <1>1, <1>2

\* SavePeerEntry numbers its entry; no other step appends one.
LEMMA NumberedStep ==
  ASSUME IInv, IInv', Numbered(log), [Next]_vars
  PROVE  Numbered(log')
<1>1. TypeOK /\ Len(log) \in Nat /\ log \in Seq(Record) /\ log' \in Seq(Record)
  BY Parts DEF IInv, TypeOK, LogTypeOK
<1>2. CASE log' = log
  BY <1>2
<1>3. ASSUME NEW rec \in Record, Append1(rec),
             rec.kind = "peer" => rec.to \in Users,
             rec.kind = "group" => rec.to \in Groups
      PROVE  Numbered(log')
  <2> DEFINE k == Len(log) + 1
  <2>1. Grows(log, log') /\ Len(log') = k /\ k \in 1..Len(log')
    <3>1. Grows(log, log') /\ Len(log') = k
      BY <1>1, <1>3, AppendGrows
    <3>2. QED BY <1>1, <3>1
  <2>2. \A i \in 1..Len(log') : i > Len(log) => i = k
    BY <1>1, <2>1
  <2>3. ASSUME log'[k].kind = "peer"
        PROVE  log'[k].seq = Cardinality(EntriesIn(log', log'[k].to, k))
    <3> DEFINE u == log'[k].to
               S == EntriesIn(log', u, k - 1)
    <3>1. EntryIn(log', k)
      BY <2>1, <2>3 DEF IInv, Chained
    <3>2. k - 1 \in 0..Len(log) /\ k - 1 = Len(log)
      BY <1>1
    <3>3. S = EntriesIn(log, u, k - 1)
      BY <1>1, <2>1, <3>2, GrowsEntries
    <3>4. log'[k].prev = 0 \/ log'[log'[k].prev] = log[log'[k].prev]
      BY <2>1, <3>1, <3>3 DEF EntryIn, IsNewest, EntriesIn, Grows
    <3>5. SeqIn(log', log'[k].prev) = SeqIn(log, log'[k].prev)
      BY <3>4 DEF SeqIn
    <3>6. SeqIn(log, log'[k].prev) = Cardinality(S)
      BY <1>1, <3>1, <3>2, <3>3, NewestCounts DEF EntryIn
    <3>7. EntriesIn(log', u, k) = S \cup {k} /\ k \notin S /\ S \in SUBSET (1..Len(log'))
      BY <2>1, <2>3 DEF EntriesIn
    <3>8. Cardinality(S \cup {k}) = Cardinality(S) + 1
      BY <1>1, <3>7, EntriesFinite, FS_AddElement
    <3>9. QED BY <3>1, <3>5, <3>6, <3>7, <3>8 DEF EntryIn
  <2>4. QED BY <1>1, <2>1, <2>2, <2>3, GrowsNumbered
<1>4. ASSUME NEW kind \in Kinds, NEW grp \in BOOLEAN,
             NEW to \in (IF kind = "peer" THEN Users ELSE Groups), SaveBody(kind, to, grp)
      PROVE  Numbered(log')
  <2> DEFINE rec == [kind |-> "body", to |-> to, grp |-> grp, msgid |-> Len(log) + 1,
                     seq |-> 0, prev |-> 0, prevPeer |-> 0, prevBatch |-> 0, blk |-> 0]
  <2>1. rec \in Record /\ rec.kind = "body" /\ Append1(rec)
    BY <1>1, <1>4 DEF Record, Kinds, SaveBody
  <2> HIDE DEF rec
  <2>2. QED BY <1>3, <2>1
<1>5. CASE SavePeerEntry
  BY <1>1, <1>3, <1>5, PeerEntryType DEF SavePeerEntry
<1>6. CASE SaveGroupEntry
  BY <1>1, <1>3, <1>6, GroupEntryType DEF SaveGroupEntry
<1>7. CASE SaveNext
  <2>1. ASSUME NEW u \in Users, NEW grp \in BOOLEAN, SaveBody("peer", u, grp)
        PROVE  Numbered(log')
    BY <1>4, <2>1 DEF Kinds
  <2>2. ASSUME NEW g \in Groups, SaveBody("group", g, TRUE)
        PROVE  Numbered(log')
    BY <1>4, <2>2 DEF Kinds
  <2>3. QED BY <1>5, <1>6, <1>7, <2>1, <2>2 DEF SaveNext
<1>8. CASE ~SaveNext
  <2>1. log' = log
    BY <1>8 DEF Next, FlushNext, TimerFlush, Stop, BootFlush, SavePeerIndexFile,
       SaveGroupIndexFile, SaveGroupIndexFileAndExit, StartNext, ReadIndexFiles, ScanPeer,
       ScanGroup, EndStage, BootDone, Crash, ProcessEnds, RemovePeerFile, RemoveGroupFile,
       logVars, vars
  <2>2. QED BY <1>2, <2>1
<1>9. QED BY <1>7, <1>8

\* In a numbered log, GetNewCount counts the entries after the one received.
LEMMA CountMeans == ASSUME IInv, Numbered(log) PROVE NewCountExact
<1> SUFFICES ASSUME phase = "up", NEW u \in Users
             PROVE  LET mine == PeerEntries(u, Len(log)) IN
                      /\ GetNewCount(u, 0) = Cardinality(mine)
                      /\ \A i \in mine : GetNewCount(u, log[i].msgid)
                                         = Cardinality({j \in mine : j > i})
  BY DEF NewCountExact
<1> DEFINE mine == EntriesIn(log, u, Len(log))
<1>1. TypeOK /\ Len(log) \in Nat /\ log \in Seq(Record) /\ Len(log) \in 0..Len(log)
  BY Parts DEF IInv
<1>2. PeerEntries(u, Len(log)) = mine
  BY DEF PeerEntries, EntriesIn
<1>3. ExactIn(log, peer[u], u, Len(log))
  BY DEF IInv, MemoryOK, ExactPeers
<1>4. peer[u].last_seq_id = Cardinality(mine)
  BY <1>1, <1>3, NewestCounts DEF ExactIn
<1>5. mine \in SUBSET (1..Len(log)) /\ IsFiniteSet(mine) /\ Cardinality(mine) \in Nat
  <2>1. mine \in SUBSET (1..Len(log))
    BY DEF EntriesIn
  <2>2. QED BY <1>1, <2>1, EntriesFinite
<1>6. ASSUME NEW i \in mine
      PROVE  GetNewCount(u, log[i].msgid) = Cardinality({j \in mine : j > i})
  <2> DEFINE old == EntriesIn(log, u, i)
             new == {j \in mine : j > i}
  <2>1. i \in 1..Len(log) /\ log[i].kind = "peer" /\ log[i].to = u
    BY DEF EntriesIn
  <2>2. i > 1 /\ log[i].msgid = i - 1
    BY <2>1 DEF IInv, Chained, EntryIn
  <2>3. log[i].seq = Cardinality(old)
    BY <2>1 DEF Numbered
  <2>4. /\ old \in SUBSET (1..Len(log)) /\ new \in SUBSET (1..Len(log))
        /\ old \cup new = mine /\ old \cap new = {}
    BY <2>1 DEF EntriesIn
  <2>5. /\ IsFiniteSet(old) /\ IsFiniteSet(new)
        /\ Cardinality(old) \in Nat /\ Cardinality(new) \in Nat
    BY <1>1, <2>4, EntriesFinite
  <2>6. Cardinality(mine) = Cardinality(old) + Cardinality(new)
    <3>1. Cardinality(old \cup new)
          = Cardinality(old) + Cardinality(new) - Cardinality(old \cap new)
      BY <2>5, FS_Union
    <3>2. Cardinality(old \cap new) = 0
      BY <2>4, FS_EmptySet
    <3> HIDE DEF old, new, mine
    <3>3. Cardinality(mine) = Cardinality(old \cup new)
      BY <2>4, Zenon
    <3>4. QED BY <2>5, <3>1, <3>2, <3>3
  <2> HIDE DEF old, new, mine
  <2>7. log[i].msgid # 0 /\ log[i].msgid + 1 = i /\ ~(i > Len(log))
    BY <1>1, <2>1, <2>2
  <2>8. ~(peer[u].last_seq_id < log[i].seq)
        /\ peer[u].last_seq_id - log[i].seq = Cardinality(new)
    BY <1>4, <2>3, <2>5, <2>6
  <2>9. GetNewCount(u, log[i].msgid) = Cardinality(new)
    BY <2>1, <2>7, <2>8 DEF GetNewCount
  <2>10. QED BY <2>9 DEF new
<1>7. GetNewCount(u, 0) = Cardinality(mine)
  BY <1>4 DEF GetNewCount
<1>8. QED BY <1>2, <1>6, <1>7

\* GetNewCount tells a client how many entries of its queue follow the last
\* message it received, restarts included.
THEOREM NewCountAlwaysExact == ASSUME ~EmptyStop PROVE Spec => []NewCountExact
<1>1. Init => Numbered(log)
  BY DEF Init, Numbered
<1>2. IInv /\ IInv' /\ Numbered(log) /\ [Next]_vars => Numbered(log)'
  BY NumberedStep
<1>3. IInv /\ Numbered(log) => NewCountExact
  BY CountMeans
<1>4. Spec => []IInv
  BY Invariant
<1>5. QED BY <1>1, <1>2, <1>3, <1>4, PTL DEF Spec

-----------------------------------------------------------------------------
(***************************************************************************)
(* MessageStore implements MessageQueues: what the back links of a user's  *)
(* queue lead to is a queue that only grows at its end, with ids that grow *)
(* over the whole store.                                                   *)
(*                                                                         *)
(* The queue is a recursive function of the log (QueueTo).  That it exists *)
(* and is the same for a longer log is shown at a smallest counterexample, *)
(* for the links lead backwards (Backward).                                *)
(***************************************************************************)
\* Recursive functions of a log.

\* The links of a log lead backwards, and no message id is larger than the
\* position of its record; that of an entry is smaller.
Backward(L) ==
  \A j \in 1..Len(L) :
    /\ L[j].prev \in 0..j - 1
    /\ L[j].msgid \in 1..j
    /\ L[j].kind # "body" => L[j].msgid # j

\* q gives for every position up to n what its links lead to.
Follows(q, L, n) ==
  q = [j \in 0..n |-> IF j = 0 THEN << >> ELSE Append(q[L[j].prev], L[j].msgid)]

\* A non-empty set of numbers has a least element.
LEMMA LeastElement ==
  ASSUME NEW T \in SUBSET Nat, T # {}
  PROVE  \E x \in T : \A y \in T : x <= y
<1> DEFINE R == OpToRel(<, Nat)
<1>1. IsWellFoundedOn(R, Nat)
  BY NatLessThanWellFounded
<1>2. ASSUME NEW x \in Nat, NEW y \in Nat, y < x PROVE <<y, x>> \in R
  BY <1>2 DEF OpToRel
<1> HIDE DEF R
<1>3. PICK x \in T : \A y \in T : ~ (<<y, x>> \in R)
  BY <1>1, WFMin, Zenon
<1>4. ASSUME NEW y \in T PROVE x <= y
  <2>1. x \in Nat /\ y \in Nat
    OBVIOUS
  <2>2. ~ (y < x)
    BY <1>2, <1>3, <2>1
  <2> QED BY <2>1, <2>2
<1> QED BY <1>4

\* What is not true of every number up to n is false of a first one.
LEMMA FirstFailure ==
  ASSUME NEW n \in Nat, NEW S \in SUBSET (0..n), S # 0..n
  PROVE  \E m \in 0..n : m \notin S /\ \A k \in 0..n : k < m => k \in S
<1> DEFINE T == (0..n) \ S
<1>1. T \in SUBSET Nat /\ T # {}
  <2>1. ASSUME T = {} PROVE S = 0..n
    BY <2>1
  <2> QED BY <2>1
<1>2. PICK m \in T : \A k \in T : m <= k
  BY <1>1, LeastElement
<1> QED BY <1>2

\* The function that follows the links exists.
LEMMA FollowsExists ==
  ASSUME NEW L, NEW l \in Nat, \A j \in 1..l : L[j].prev \in 0..j - 1
  PROVE  \E q : Follows(q, L, l)
<1> DEFINE S == {n \in 0..l : \E q : Follows(q, L, n)}
<1>1. SUFFICES ASSUME S # 0..l PROVE FALSE
  <2>1. l \in 0..l
    OBVIOUS
  <2> QED BY <2>1
<1>2. PICK m \in 0..l : m \notin S /\ \A k \in 0..l : k < m => k \in S
  <2>1. S \in SUBSET (0..l)
    OBVIOUS
  <2> HIDE DEF S
  <2> QED BY <1>1, <2>1, FirstFailure
<1>3. CASE m = 0
  <2> DEFINE q == [j \in 0..0 |-> << >>]
  <2>1. Follows(q, L, 0)
    BY DEF Follows
  <2> QED BY <1>2, <1>3, <2>1
<1>4. CASE m # 0
  <2>1. m - 1 \in 0..l /\ m - 1 < m
    BY <1>4
  <2>2. PICK q : Follows(q, L, m - 1)
    BY <1>2, <2>1
  <2> DEFINE r == [j \in 0..m |-> IF j = m THEN Append(q[L[m].prev], L[m].msgid) ELSE q[j]]
  <2>3. ASSUME NEW j \in 0..m
        PROVE  r[j] = IF j = 0 THEN << >> ELSE Append(r[L[j].prev], L[j].msgid)
    <3>1. CASE j = 0
      BY <1>4, <2>2, <3>1 DEF Follows
    <3>2. CASE j # 0
      <4>1. j \in 1..l /\ L[j].prev \in 0..j - 1
        BY <3>2
      <4>2. L[j].prev \in 0..m /\ L[j].prev # m /\ L[j].prev \in 0..m - 1
        BY <4>1
      <4>3. r[L[j].prev] = q[L[j].prev]
        BY <4>2
      <4>4. CASE j = m
        BY <3>2, <4>3, <4>4
      <4>5. CASE j # m
        <5>1. j \in 0..m - 1
          BY <4>5
        <5>2. q[j] = Append(q[L[j].prev], L[j].msgid)
          BY <2>2, <3>2, <5>1 DEF Follows
        <5> QED BY <3>2, <4>3, <4>5, <5>2
      <4> QED BY <4>4, <4>5
    <3> QED BY <3>1, <3>2
  <2>4. Follows(r, L, m)
    <3>1. DOMAIN r = 0..m /\ r = [j \in 0..m |-> r[j]]
      OBVIOUS
    <3> HIDE DEF r
    <3>2. [j \in 0..m |-> r[j]] =
            [j \in 0..m |-> IF j = 0 THEN << >> ELSE Append(r[L[j].prev], L[j].msgid)]
      BY <2>3
    <3> QED BY <3>1, <3>2 DEF Follows
  <2> QED BY <1>2, <2>4
<1> QED BY <1>3, <1>4

\* QueueTo is that function.
LEMMA QueueToFollows ==
  ASSUME NEW l \in Nat, l = Len(log), \A j \in 1..l : log[j].prev \in 0..j - 1
  PROVE  \E q : Follows(q, log, l) /\ \A i \in 0..l : QueueTo(i) = q[i]
<1> DEFINE q == CHOOSE q : Follows(q, log, l)
<1>1. Follows(q, log, l)
  BY FollowsExists
<1>2. ASSUME NEW i \in 0..l PROVE QueueTo(i) = q[i]
  BY DEF QueueTo, Follows
<1> HIDE DEF q
<1> QED BY <1>1, <1>2

\* The first l links of L lead backwards, and M has the same first l records.
Extends(L, M, l) == \A j \in 1..l : L[j].prev \in 0..j - 1 /\ M[j] = L[j]

\* A longer log has the same function on the positions of the shorter one.
LEMMA FollowsSame ==
  ASSUME NEW L, NEW M, NEW l \in Nat, NEW m \in Nat, l <= m,
         Extends(L, M, l),
         NEW q, NEW r, Follows(q, L, l), Follows(r, M, m)
  PROVE  \A i \in 0..l : r[i] = q[i]
<1> DEFINE S == {i \in 0..l : r[i] = q[i]}
<1>1. SUFFICES ASSUME S # 0..l PROVE FALSE
  OBVIOUS
<1>2. PICK i \in 0..l : i \notin S /\ \A k \in 0..l : k < i => k \in S
  <2>1. S \in SUBSET (0..l)
    OBVIOUS
  <2> HIDE DEF S
  <2> QED BY <1>1, <2>1, FirstFailure
<1>3. /\ q[i] = IF i = 0 THEN << >> ELSE Append(q[L[i].prev], L[i].msgid)
      /\ r[i] = IF i = 0 THEN << >> ELSE Append(r[M[i].prev], M[i].msgid)
  <2>1. i \in 0..m
    OBVIOUS
  <2>2. q[i] = IF i = 0 THEN << >> ELSE Append(q[L[i].prev], L[i].msgid)
    BY DEF Follows
  <2>3. r[i] = IF i = 0 THEN << >> ELSE Append(r[M[i].prev], M[i].msgid)
    BY <2>1 DEF Follows
  <2> QED BY <2>2, <2>3
<1>4. CASE i = 0
  BY <1>2, <1>3, <1>4
<1>5. CASE i # 0
  <2>1. i \in 1..l /\ M[i] = L[i] /\ L[i].prev \in 0..i - 1
    BY <1>5 DEF Extends
  <2>2. L[i].prev \in 0..l /\ L[i].prev < i
    BY <2>1
  <2>3. r[L[i].prev] = q[L[i].prev]
    BY <1>2, <2>2
  <2> QED BY <1>2, <1>3, <1>5, <2>1, <2>3
<1> QED BY <1>4, <1>5

\* The links lead to a sequence of ids, none larger than the position.
LEMMA FollowsBounds ==
  ASSUME NEW L, NEW l \in Nat, l = Len(L), Backward(L), NEW q, Follows(q, L, l)
  PROVE  \A i \in 0..l : q[i] \in Seq(Nat) /\ \A k \in 1..Len(q[i]) : q[i][k] <= i
<1> DEFINE S == {i \in 0..l : q[i] \in Seq(Nat) /\ \A k \in 1..Len(q[i]) : q[i][k] <= i}
<1>1. SUFFICES ASSUME S # 0..l PROVE FALSE
  OBVIOUS
<1>2. PICK i \in 0..l : i \notin S /\ \A k \in 0..l : k < i => k \in S
  <2>1. S \in SUBSET (0..l)
    OBVIOUS
  <2> HIDE DEF S
  <2> QED BY <1>1, <2>1, FirstFailure
<1>3. q[i] = IF i = 0 THEN << >> ELSE Append(q[L[i].prev], L[i].msgid)
  BY DEF Follows
<1>4. CASE i = 0
  <2>1. q[i] = << >> /\ << >> \in Seq(Nat) /\ Len(<< >>) = 0
    BY <1>3, <1>4
  <2>2. \A k \in 1..0 : q[i][k] <= i
    OBVIOUS
  <2>3. i \in S
    BY <2>1, <2>2
  <2> QED BY <1>2, <2>3
<1>5. CASE i # 0
  <2>1. i \in 1..l /\ L[i].prev \in 0..i - 1 /\ L[i].msgid \in 1..i
    BY <1>5 DEF Backward
  <2> PICK p \in 0..i - 1 : p = L[i].prev
    BY <2>1
  <2> PICK id \in Nat : id = L[i].msgid /\ id <= i
    BY <2>1
  <2>2. q[p] \in Seq(Nat) /\ \A k \in 1..Len(q[p]) : q[p][k] <= p
    <3>1. p \in S
      BY <1>2
    <3> QED BY <3>1
  <2>3. q[i] = Append(q[p], id)
    BY <1>3, <1>5
  <2>4. q[i] \in Seq(Nat) /\ Len(q[i]) = Len(q[p]) + 1
    BY <2>2, <2>3
  <2>5. ASSUME NEW k \in 1..Len(q[i]) PROVE q[i][k] <= i
    <3>1. CASE k = Len(q[p]) + 1
      BY <2>2, <2>3, <3>1
    <3>2. CASE k # Len(q[p]) + 1
      <4>1. k \in 1..Len(q[p])
        BY <2>2, <2>4, <3>2
      <4>2. q[p] \in Seq(Nat) /\ q[p][k] <= p
        BY <2>2, <4>1
      <4>3. q[p][k] \in Nat
        BY <4>1, <4>2
      <4>4. q[i][k] = q[p][k]
        BY <2>3, <4>1, <4>2
      <4> QED BY <4>2, <4>3, <4>4
    <3> QED BY <3>1, <3>2
  <2> QED BY <1>2, <2>4, <2>5
<1> QED BY <1>4, <1>5

-----------------------------------------------------------------------------
\* What the refinement needs to know of the log.

\* A body names itself and links to nothing.
Bodies(L) == \A i \in 1..Len(L) : L[i].kind = "body" => L[i].prev = 0 /\ L[i].msgid = i

\* There is room for the entry of a save in progress.
RoomLeft == Len(log) + (IF saving = NoSave THEN 0 ELSE 1) <= MaxLog

RInv == IInv /\ GInv /\ Bodies(log) /\ RoomLeft

\* What a step does to the log.
LEMMA LogStep ==
  ASSUME TypeOK, [Next]_vars
  PROVE  \/ log' = log
         \/ /\ Grows(log, log') /\ Len(log') = Len(log) + 1 /\ log' \in Seq(Record)
            /\ phase = "up" /\ phase' = "up"
            /\ \/ SavePeerEntry /\ saving.to \in Users /\ saving # NoSave
                  /\ log'[Len(log) + 1] = [PeerEntry(saving.to) EXCEPT !.blk = block_NO']
               \/ /\ SaveGroupEntry /\ saving.to \in Groups /\ saving # NoSave
                  /\ log'[Len(log) + 1] = [GroupEntry(saving.to) EXCEPT !.blk = block_NO']
                  /\ log'[Len(log) + 1].kind = "group"
               \/ /\ log'[Len(log) + 1].kind = "body" /\ log'[Len(log) + 1].prev = 0
                  /\ log'[Len(log) + 1].prevPeer = 0 /\ log'[Len(log) + 1].prevBatch = 0
                  /\ log'[Len(log) + 1].msgid = Len(log) + 1
                  /\ UNCHANGED <<peer, group>>
<1>1. TypeOK /\ Len(log) \in Nat /\ log \in Seq(Record)
  BY Parts
<1>2. ASSUME NEW kind \in Kinds, NEW grp \in BOOLEAN,
             NEW to \in (IF kind = "peer" THEN Users ELSE Groups), SaveBody(kind, to, grp)
      PROVE  /\ Grows(log, log') /\ Len(log') = Len(log) + 1 /\ log' \in Seq(Record)
             /\ phase = "up" /\ phase' = "up"
             /\ log'[Len(log) + 1].kind = "body" /\ log'[Len(log) + 1].prev = 0
             /\ log'[Len(log) + 1].prevPeer = 0 /\ log'[Len(log) + 1].prevBatch = 0
             /\ log'[Len(log) + 1].msgid = Len(log) + 1 /\ UNCHANGED <<peer, group>>
  <2> DEFINE rec == [kind |-> "body", to |-> to, grp |-> grp, msgid |-> Len(log) + 1,
                     seq |-> 0, prev |-> 0, prevPeer |-> 0, prevBatch |-> 0, blk |-> 0]
             rec2 == [rec EXCEPT !.blk = block_NO']
  <2>1. /\ rec \in Record /\ rec.kind = "body" /\ Append1(rec) /\ phase = "up" /\ phase' = "up"
        /\ UNCHANGED <<peer, group>>
    BY <1>1, <1>2 DEF Record, Kinds, SaveBody, indexVars
  <2>2. /\ rec2.kind = "body" /\ rec2.prev = 0 /\ rec2.prevPeer = 0 /\ rec2.prevBatch = 0
        /\ rec2.msgid = Len(log) + 1
    OBVIOUS
  <2> HIDE DEF rec
  <2>3. /\ Grows(log, log') /\ Len(log') = Len(log) + 1 /\ log' \in Seq(Record)
        /\ log'[Len(log) + 1] = rec2
    BY <1>1, <2>1, AppendGrows
  <2> HIDE DEF rec2
  <2> QED BY <2>1, <2>2, <2>3
<1>3. CASE SavePeerEntry
  <2>1. saving.to \in Users /\ saving # NoSave
    BY <1>1, <1>3, PeerEntryType DEF SavePeerEntry, NoSave
  <2>2. PeerEntry(saving.to) \in Record /\ Append1(PeerEntry(saving.to)) /\ phase = "up" /\ phase' = "up"
    BY <1>1, <1>3, PeerEntryType DEF SavePeerEntry
  <2>3. PeerEntry(saving.to).kind = "peer" /\ PeerEntry(saving.to).to \in Users
    BY <2>1 DEF PeerEntry
  <2> QED BY <1>1, <1>3, <2>1, <2>2, <2>3, AppendGrows
<1>4. CASE SaveGroupEntry
  <2> DEFINE e == [GroupEntry(saving.to) EXCEPT !.blk = block_NO']
  <2>1. GroupEntry(saving.to) \in Record /\ saving.to \in Groups /\ saving # NoSave
    BY <1>1, <1>4, GroupEntryType DEF SaveGroupEntry, NoSave
  <2>2. Append1(GroupEntry(saving.to)) /\ phase = "up" /\ phase' = "up"
    BY <1>4 DEF SaveGroupEntry
  <2>3. GroupEntry(saving.to).kind = "group" /\ GroupEntry(saving.to).to \in Groups /\ e.kind = "group"
    BY <2>1 DEF GroupEntry
  <2>4. Grows(log, log') /\ Len(log') = Len(log) + 1 /\ log' \in Seq(Record) /\ log'[Len(log) + 1] = e
    BY <1>1, <2>1, <2>2, <2>3, AppendGrows
  <2> HIDE DEF e
  <2>5. log'[Len(log) + 1] = [GroupEntry(saving.to) EXCEPT !.blk = block_NO']
    BY <2>4 DEF e
  <2> QED BY <1>4, <2>1, <2>2, <2>3, <2>4, <2>5
<1>5. CASE SaveNext
  <2>1. ASSUME NEW u \in Users, NEW grp \in BOOLEAN, SaveBody("peer", u, grp)
        PROVE  /\ Grows(log, log') /\ Len(log') = Len(log) + 1 /\ log' \in Seq(Record)
               /\ phase = "up" /\ phase' = "up"
               /\ log'[Len(log) + 1].kind = "body" /\ log'[Len(log) + 1].prev = 0
               /\ log'[Len(log) + 1].prevPeer = 0 /\ log'[Len(log) + 1].prevBatch = 0
               /\ log'[Len(log) + 1].msgid = Len(log) + 1 /\ UNCHANGED <<peer, group>>
    BY <1>2, <2>1 DEF Kinds
  <2>2. ASSUME NEW g \in Groups, SaveBody("group", g, TRUE)
        PROVE  /\ Grows(log, log') /\ Len(log') = Len(log) + 1 /\ log' \in Seq(Record)
               /\ phase = "up" /\ phase' = "up"
               /\ log'[Len(log) + 1].kind = "body" /\ log'[Len(log) + 1].prev = 0
               /\ log'[Len(log) + 1].prevPeer = 0 /\ log'[Len(log) + 1].prevBatch = 0
               /\ log'[Len(log) + 1].msgid = Len(log) + 1 /\ UNCHANGED <<peer, group>>
    BY <1>2, <2>2 DEF Kinds
  <2> QED BY <1>3, <1>4, <1>5, <2>1, <2>2 DEF SaveNext
<1>6. CASE ~SaveNext
  <2>1. log' = log
    BY <1>6 DEF Next, FlushNext, TimerFlush, Stop, BootFlush, SavePeerIndexFile,
       SaveGroupIndexFile, SaveGroupIndexFileAndExit, StartNext, ReadIndexFiles, ScanPeer,
       ScanGroup, EndStage, BootDone, Crash, ProcessEnds, RemovePeerFile, RemoveGroupFile,
       logVars, vars
  <2> QED BY <2>1
<1> QED BY <1>5, <1>6

-----------------------------------------------------------------------------
\* The invariant of the refinement.

\* A step keeps bodies in shape and, between the two appends of a save, room
\* for the second.
LEMMA RoomStep ==
  ASSUME RInv, [Next]_vars
  PROVE  Bodies(log') /\ RoomLeft'
<1>1. TypeOK /\ Len(log) \in Nat /\ log \in Seq(Record) /\ MaxLog \in Nat
  BY Parts, StoreAssumption DEF RInv, IInv
<1>2. Bodies(log')
  <2>1. CASE log' = log
    BY <2>1 DEF RInv
  <2>2. CASE log' # log
    <3>1. /\ Grows(log, log') /\ Len(log') = Len(log) + 1
          /\ log'[Len(log) + 1].kind = "body" =>
               log'[Len(log) + 1].prev = 0 /\ log'[Len(log) + 1].msgid = Len(log) + 1
      <4>1. ASSUME log'[Len(log) + 1] = [PeerEntry(saving.to) EXCEPT !.blk = block_NO']
            PROVE  log'[Len(log) + 1].kind # "body"
        BY <4>1 DEF PeerEntry
      <4> QED BY <1>1, <2>2, <4>1, LogStep
    <3>2. \A i \in 1..Len(log') : i = Len(log) + 1 \/ (i \in 1..Len(log) /\ log'[i] = log[i])
      BY <1>1, <3>1 DEF Grows
    <3> QED BY <3>1, <3>2 DEF RInv, Bodies
  <2> QED BY <2>1, <2>2
<1>3. RoomLeft'
  <2>1. \A rec : Append1(rec) => Len(log') = Len(log) + 1
    BY <1>1 DEF Append1
  <2>2. ASSUME NEW kind, NEW to, NEW grp, SaveBody(kind, to, grp)
        PROVE  RoomLeft'
    BY <1>1, <2>1, <2>2 DEF SaveBody, RoomLeft
  <2>3. CASE SavePeerEntry \/ SaveGroupEntry
    <3>1. saving # NoSave /\ saving' = NoSave /\ Len(log') = Len(log) + 1
      BY <2>1, <2>3 DEF SavePeerEntry, SaveGroupEntry, NoSave
    <3> QED BY <1>1, <3>1 DEF RInv, RoomLeft
  <2>4. CASE SaveNext
    BY <2>2, <2>3, <2>4 DEF SaveNext
  <2>5. CASE ~SaveNext
    <3>1. log' = log /\ (saving' = saving \/ saving' = NoSave)
      BY <2>5 DEF Next, FlushNext, TimerFlush, Stop, BootFlush, SavePeerIndexFile,
         SaveGroupIndexFile, SaveGroupIndexFileAndExit, StartNext, ReadIndexFiles, ScanPeer,
         ScanGroup, EndStage, BootDone, Crash, ProcessEnds, RemovePeerFile, RemoveGroupFile,
         logVars, vars
    <3> QED BY <1>1, <3>1 DEF RInv, RoomLeft
  <2> QED BY <2>4, <2>5
<1> QED BY <1>2, <1>3

\* The invariant of the refinement, for a store not told to stop before its first message.
LEMMA RefinementInvariant == ASSUME ~EmptyStop PROVE Spec => []RInv
<1>1. Init => Bodies(log) /\ RoomLeft
  BY StoreAssumption DEF Init, Bodies, RoomLeft
<1>2. IInv /\ IInv' /\ GInv /\ GInv' /\ Bodies(log) /\ RoomLeft /\ [Next]_vars
        => Bodies(log)' /\ RoomLeft'
  BY RoomStep DEF RInv
<1>3. Spec => []IInv
  BY Invariant
<1>4. Spec => []GInv
  BY GroupInvariant
<1>5. IInv /\ GInv /\ Bodies(log) /\ RoomLeft => RInv
  BY DEF RInv
<1> QED BY <1>1, <1>2, <1>3, <1>4, <1>5, PTL DEF Spec

\* All links lead backwards.
LEMMA LogBackward == ASSUME RInv PROVE Backward(log)
<1> SUFFICES ASSUME NEW j \in 1..Len(log)
             PROVE  /\ log[j].prev \in 0..j - 1 /\ log[j].msgid \in 1..j
                    /\ log[j].kind # "body" => log[j].msgid # j
  BY DEF Backward
<1>1. log \in Seq(Record) /\ Len(log) \in Nat /\ log[j] \in Record
  BY Parts DEF RInv, IInv
<1>2. log[j].kind \in {"peer", "group", "body"} /\ log[j].prev \in Nat
  BY <1>1 DEF Record, Kinds
<1>3. CASE log[j].kind = "body"
  BY <1>3 DEF RInv, Bodies
<1>4. CASE log[j].kind = "peer"
  <2>1. EntryIn(log, j)
    BY <1>4 DEF RInv, IInv, Chained
  <2>2. log[j].prev = 0 \/ log[j].prev \in EntriesIn(log, log[j].to, j - 1)
    BY <2>1 DEF EntryIn, IsNewest
  <2>3. log[j].prev \in 0..j - 1
    BY <1>2, <2>2 DEF EntriesIn
  <2>4. j > 1 /\ log[j].msgid = j - 1
    BY <2>1 DEF EntryIn
  <2> QED BY <2>3, <2>4
<1>5. CASE log[j].kind = "group"
  <2>1. LinkIn(log, j)
    BY <1>5 DEF RInv, GInv, Linked
  <2>2. log[j].prev \in 0..j - 1
    BY <1>2, <2>1 DEF LinkIn, GroupAt, GroupIn
  <2>3. j > 1 /\ log[j].msgid = j - 1
    BY <2>1 DEF LinkIn
  <2> QED BY <2>2, <2>3
<1> QED BY <1>2, <1>3, <1>4, <1>5

\* Every user has a newest position.
LEMMA NewestExists ==
  ASSUME NEW n \in Nat, NEW S \in SUBSET (1..n)
  PROVE  \E i \in 0..n : IsNewest(i, S)
<1>1. CASE S = {}
  BY <1>1 DEF IsNewest
<1>2. CASE S # {}
  <2> DEFINE T == {n - j : j \in S}
  <2>1. T \in SUBSET Nat /\ T # {}
    <3>1. PICK j \in S : TRUE
      BY <1>2
    <3>2. n - j \in T
      OBVIOUS
    <3>3. \A k \in S : n - k \in Nat
      OBVIOUS
    <3> QED BY <3>2, <3>3
  <2> HIDE DEF T
  <2>2. PICK x \in T : \A y \in T : x <= y
    BY <2>1, LeastElement
  <2>3. PICK i \in S : x = n - i
    BY <2>2 DEF T
  <2>4. ASSUME NEW j \in S PROVE j <= i
    <3>1. n - j \in T
      BY DEF T
    <3>2. n - i <= n - j
      BY <2>2, <2>3, <3>1
    <3> QED BY <3>2
  <2> QED BY <2>4 DEF IsNewest
<1> QED BY <1>1, <1>2

\* The queue of every user is what the function that follows the links says of
\* its newest entry.
Mapped ==
  \E q : /\ Follows(q, log, Len(log))
         /\ \A u \in Users : \E i \in 0..Len(log) :
              IsNewest(i, EntriesIn(log, u, Len(log))) /\ queue[u] = q[i]

\* The invariant implies what the refinement mapping needs.
LEMMA InvariantMaps == ASSUME RInv PROVE Mapped
<1>1. TypeOK /\ log \in Seq(Record) /\ Len(log) \in Nat /\ Backward(log)
  BY Parts, LogBackward DEF RInv, IInv
<1>2. PICK q : Follows(q, log, Len(log)) /\ \A i \in 0..Len(log) : QueueTo(i) = q[i]
  BY <1>1, QueueToFollows DEF Backward
<1>3. ASSUME NEW u \in Users
      PROVE  \E i \in 0..Len(log) : IsNewest(i, EntriesIn(log, u, Len(log))) /\ queue[u] = q[i]
  <2>1. PeerEntries(u, Len(log)) = EntriesIn(log, u, Len(log))
    BY DEF PeerEntries, EntriesIn
  <2>2. CASE phase = "up"
    <3>1. IsNewest(peer[u].last_id, EntriesIn(log, u, Len(log)))
      BY <2>2 DEF RInv, IInv, MemoryOK, ExactPeers, ExactIn
    <3>2. peer[u].last_id \in 0..Len(log)
      BY <1>1, <3>1, Parts DEF IsNewest, EntriesIn
    <3>3. queue[u] = QueueTo(peer[u].last_id)
      BY <2>2 DEF queue
    <3> QED BY <1>2, <3>1, <3>2, <3>3
  <2>3. CASE phase # "up"
    <3> DEFINE i == CHOOSE i \in 0..Len(log) : IsNewest(i, PeerEntries(u, Len(log)))
    <3>1. \E k \in 0..Len(log) : IsNewest(k, PeerEntries(u, Len(log)))
      <4>1. PeerEntries(u, Len(log)) \in SUBSET (1..Len(log))
        BY DEF PeerEntries
      <4> QED BY <1>1, <4>1, NewestExists
    <3>2. i \in 0..Len(log) /\ IsNewest(i, PeerEntries(u, Len(log)))
      BY <3>1
    <3>3. queue[u] = QueueTo(i)
      BY <2>3 DEF queue
    <3> HIDE DEF i
    <3> QED BY <1>2, <2>1, <3>2, <3>3
  <2> QED BY <2>2, <2>3
<1> QED BY <1>2, <1>3 DEF Mapped

-----------------------------------------------------------------------------
\* Every step is one of MessageQueues, or leaves its state alone.

\* A longer log that has no new entry of u has the same queue of u.
LEMMA QueueKept ==
  ASSUME RInv, RInv', Mapped, Mapped', Grows(log, log'), NEW u \in Users,
         EntriesIn(log', u, Len(log')) = EntriesIn(log, u, Len(log))
  PROVE  queue'[u] = queue[u]
<1>1. /\ Len(log) \in Nat /\ Len(log') \in Nat /\ Len(log) <= Len(log') /\ Backward(log)
  <2>1. log \in Seq(Record) /\ log' \in Seq(Record)
    BY Parts DEF RInv, IInv, TypeOK, LogTypeOK
  <2>2. Len(log) \in Nat /\ Len(log') \in Nat
    BY <2>1
  <2> QED BY <2>2, LogBackward DEF Grows
<1>2. PICK q : /\ Follows(q, log, Len(log))
               /\ \A v \in Users : \E i \in 0..Len(log) :
                    IsNewest(i, EntriesIn(log, v, Len(log))) /\ queue[v] = q[i]
  BY DEF Mapped
<1>3. PICK r : /\ Follows(r, log', Len(log'))
               /\ \A v \in Users : \E i \in 0..Len(log') :
                    IsNewest(i, EntriesIn(log', v, Len(log'))) /\ queue'[v] = r[i]
  BY DEF Mapped
<1>4. PICK i \in 0..Len(log) : IsNewest(i, EntriesIn(log, u, Len(log))) /\ queue[u] = q[i]
  BY <1>2
<1>5. PICK j \in 0..Len(log') : IsNewest(j, EntriesIn(log', u, Len(log'))) /\ queue'[u] = r[j]
  BY <1>3
<1>6. i = j
  <2>1. EntriesIn(log, u, Len(log)) \in SUBSET Nat /\ 0 \notin EntriesIn(log, u, Len(log))
    BY <1>1 DEF EntriesIn
  <2>2. i \in Nat /\ j \in Nat
    BY <1>1
  <2>3. IsNewest(j, EntriesIn(log, u, Len(log)))
    BY <1>5
  <2> QED BY <1>4, <2>1, <2>2, <2>3, NewestUnique
<1>7. r[i] = q[i]
  <2>1. Extends(log, log', Len(log))
    BY <1>1 DEF Backward, Grows, Extends
  <2>2. Follows(q, log, Len(log)) /\ Follows(r, log', Len(log'))
    BY <1>2, <1>3
  <2>3. \A k \in 0..Len(log) : r[k] = q[k]
    BY <1>1, <2>1, <2>2, FollowsSame
  <2> QED BY <2>3
<1> QED BY <1>4, <1>5, <1>6, <1>7

\* During a save, all ids of a queue are below that of the body just written.
LEMMA QueueBounds ==
  ASSUME RInv, Mapped, saving # NoSave, NEW u \in Users
  PROVE  queue[u] \in Seq(Nat) /\ \A k \in DOMAIN queue[u] : queue[u][k] < Len(log)
<1>1. Len(log) \in Nat /\ Backward(log)
  BY Parts, LogBackward DEF RInv, IInv
<1>2. PICK q : /\ Follows(q, log, Len(log))
               /\ \A v \in Users : \E i \in 0..Len(log) :
                    IsNewest(i, EntriesIn(log, v, Len(log))) /\ queue[v] = q[i]
  BY DEF Mapped
<1>3. PICK i \in 0..Len(log) : IsNewest(i, EntriesIn(log, u, Len(log))) /\ queue[u] = q[i]
  BY <1>2
<1>4. i < Len(log)
  <2>1. Len(log) >= 1 /\ log[Len(log)].kind = "body"
    BY DEF RInv, IInv, SavingOK
  <2>2. CASE i = 0
    BY <1>1, <2>1, <2>2
  <2>3. CASE i # 0
    <3>1. log[i].kind = "peer"
      BY <1>3, <2>3 DEF IsNewest, EntriesIn
    <3>2. i # Len(log)
      BY <2>1, <3>1
    <3> QED BY <1>1, <3>2
  <2> QED BY <2>2, <2>3
<1>5. q[i] \in Seq(Nat) /\ \A k \in 1..Len(q[i]) : q[i][k] <= i
  BY <1>1, <1>2, FollowsBounds
<1> DEFINE s == queue[u]
<1>6. s \in Seq(Nat) /\ \A k \in 1..Len(s) : s[k] <= i
  BY <1>3, <1>5
<1>7. DOMAIN s = 1..Len(s) /\ \A k \in 1..Len(s) : s[k] \in Nat
  BY <1>6
<1>8. \A k \in 1..Len(s) : s[k] < Len(log)
  BY <1>1, <1>4, <1>6, <1>7
<1> QED BY <1>6, <1>7, <1>8

\* A step that appends no entry leaves all queues alone.
LEMMA QueuesKept ==
  ASSUME RInv, RInv', Mapped, Mapped', Grows(log, log'),
         \A u \in Users : EntriesIn(log', u, Len(log')) = EntriesIn(log, u, Len(log))
  PROVE  queue' = queue
<1>1. \A u \in Users : queue'[u] = queue[u]
  BY QueueKept
<1>2. queue = [u \in Users |-> queue[u]] /\ queue' = [u \in Users |-> queue'[u]]
  BY DEF queue
<1> QED BY <1>1, <1>2

\* SavePeerEntry appends the message to the queue of its receiver.
LEMMA EntryAppends ==
  ASSUME RInv, RInv', Mapped, Mapped', SavePeerEntry, phase' = "up",
         Grows(log, log'), Len(log') = Len(log) + 1, saving.to \in Users, saving # NoSave,
         log'[Len(log) + 1] = [PeerEntry(saving.to) EXCEPT !.blk = block_NO']
  PROVE  queue' = [queue EXCEPT ![saving.to] = Append(@, Len(log))]
<1> DEFINE l == Len(log)
<1> PICK u \in Users : u = saving.to
  OBVIOUS
<1>1. /\ l \in Nat /\ log \in Seq(Record) /\ log' \in Seq(Record) /\ Backward(log)
  BY Parts, LogBackward DEF RInv, IInv, TypeOK, LogTypeOK
<1>2. phase = "up" /\ saving.msgid = l
  BY DEF SavePeerEntry, RInv, IInv, SavingOK
<1>3. /\ log'[l + 1].kind = "peer" /\ log'[l + 1].to = u
      /\ log'[l + 1].prev = peer[u].last_id /\ log'[l + 1].msgid = l
  BY <1>2 DEF PeerEntry
<1>4. \A i \in 1..l + 1 : i = l + 1 \/ (i \in 1..l /\ log'[i] = log[i])
  BY <1>1 DEF Grows
<1>5. ASSUME NEW v \in Users, v # u PROVE queue'[v] = queue[v]
  <2>1. PICK m \in Nat : m = l
    BY <1>1
  <2>2. /\ Len(log) = m /\ Len(log') = m + 1 /\ log'[m + 1].to # v
        /\ \A i \in 1..m + 1 : i = m + 1 \/ (i \in 1..m /\ log'[i] = log[i])
    BY <1>3, <1>4, <1>5, <2>1
  <2> HIDE DEF l
  <2>3. EntriesIn(log', v, m + 1) = EntriesIn(log, v, m)
    BY <2>2 DEF EntriesIn
  <2>4. EntriesIn(log', v, Len(log')) = EntriesIn(log, v, Len(log))
    BY <2>2, <2>3
  <2> QED BY <2>4, QueueKept
<1>6. queue'[u] = Append(queue[u], l)
  <2>1. PICK q : /\ Follows(q, log, l)
                 /\ \A v \in Users : \E i \in 0..l :
                      IsNewest(i, EntriesIn(log, v, l)) /\ queue[v] = q[i]
    BY DEF Mapped
  <2>2. PICK r : /\ Follows(r, log', Len(log'))
                 /\ \A v \in Users : \E i \in 0..Len(log') :
                      IsNewest(i, EntriesIn(log', v, Len(log'))) /\ queue'[v] = r[i]
    BY DEF Mapped
  <2>3. PICK i \in 0..l : IsNewest(i, EntriesIn(log, u, l)) /\ queue[u] = q[i]
    BY <2>1
  <2>4. PICK j \in 0..l + 1 : IsNewest(j, EntriesIn(log', u, l + 1)) /\ queue'[u] = r[j]
    BY <2>2
  <2>5. peer[u].last_id = i
    <3>1. EntriesIn(log, u, l) \in SUBSET Nat /\ 0 \notin EntriesIn(log, u, l)
      BY <1>1 DEF EntriesIn
    <3>2. IsNewest(peer[u].last_id, EntriesIn(log, u, l)) /\ peer[u].last_id \in Nat
      BY <1>2, Parts DEF RInv, IInv, MemoryOK, ExactPeers, ExactIn
    <3>3. i \in Nat
      BY <1>1
    <3> QED BY <2>3, <3>1, <3>2, <3>3, NewestUnique
  <2>6. j = l + 1
    <3>1. l + 1 \in EntriesIn(log', u, l + 1)
      <4>1. l + 1 \in 1..Len(log') /\ l + 1 <= l + 1
        BY <1>1
      <4> QED BY <1>3, <4>1 DEF EntriesIn
    <3> QED BY <1>1, <2>4, <3>1 DEF IsNewest
  <2>7. r[l + 1] = Append(r[i], l)
    <3>1. l + 1 \in 0..Len(log') /\ l + 1 # 0
      BY <1>1
    <3>2. r[l + 1] = Append(r[log'[l + 1].prev], log'[l + 1].msgid)
      BY <2>2, <3>1 DEF Follows
    <3> QED BY <1>3, <2>5, <3>2
  <2>8. r[i] = q[i]
    <3>1. Extends(log, log', l)
      BY <1>1 DEF Backward, Grows, Extends
    <3>2. Follows(q, log, l) /\ Follows(r, log', Len(log')) /\ Len(log') \in Nat /\ l <= Len(log')
      BY <1>1, <2>1, <2>2
    <3>3. \A k \in 0..l : r[k] = q[k]
      BY <1>1, <3>1, <3>2, FollowsSame
    <3> QED BY <3>3
  <2> QED BY <2>3, <2>4, <2>6, <2>7, <2>8
<1>7. queue = [v \in Users |-> queue[v]] /\ queue' = [v \in Users |-> queue'[v]]
  BY DEF queue
<1> QED BY <1>5, <1>6, <1>7

\* Every step of the store is one of MessageQueues.
\* Every step of the store is one of MessageQueues, or leaves its state alone.
LEMMA StepRefines ==
  ASSUME RInv, RInv', Mapped, Mapped', [Next]_vars
  PROVE  [Queues!Next]_(Queues!qvars)
<1>1. TypeOK /\ Len(log) \in Nat /\ log \in Seq(Record) /\ MaxLog \in Nat
  BY Parts, StoreAssumption DEF RInv, IInv
<1>2. CASE log' = log
  <2>1. Grows(log, log')
    BY <1>1, <1>2 DEF Grows
  <2>2. queue' = queue
    BY <1>2, <2>1, QueuesKept
  <2> QED BY <2>2 DEF Queues!Next, Queues!Start, Queues!End, Queues!qvars
<1>3. CASE log' # log
  <2>1. /\ Grows(log, log') /\ Len(log') = Len(log) + 1 /\ log' \in Seq(Record)
        /\ phase = "up" /\ phase' = "up"
        /\ \/ SavePeerEntry /\ saving.to \in Users /\ saving # NoSave
              /\ log'[Len(log) + 1] = [PeerEntry(saving.to) EXCEPT !.blk = block_NO']
           \/ log'[Len(log) + 1].kind \in {"group", "body"}
    BY <1>1, <1>3, LogStep
  <2>2. CASE log'[Len(log) + 1].kind \in {"group", "body"}
    <3>1. \A i \in 1..Len(log) + 1 : i = Len(log) + 1 \/ (i \in 1..Len(log) /\ log'[i] = log[i])
      BY <1>1, <2>1 DEF Grows
    <3>2. log'[Len(log) + 1].kind # "peer"
      BY <2>2
    <3>3. \A u \in Users : EntriesIn(log', u, Len(log')) = EntriesIn(log, u, Len(log))
      BY <1>1, <2>1, <3>1, <3>2 DEF EntriesIn, Grows
    <3>4. queue' = queue
      BY <2>1, <3>3, QueuesKept
    <3> QED BY <2>1, <3>4 DEF Queues!qvars
  <2>3. CASE /\ SavePeerEntry /\ saving.to \in Users /\ saving # NoSave
             /\ log'[Len(log) + 1] = [PeerEntry(saving.to) EXCEPT !.blk = block_NO']
    <3>1. queue' = [queue EXCEPT ![saving.to] = Append(@, Len(log))]
      BY <2>1, <2>3, EntryAppends
    <3>2. \A v \in Users : \A i \in DOMAIN queue[v] : queue[v][i] < Len(log)
      BY <2>3, QueueBounds
    <3>3. Len(log) \in 1..MaxLog
      BY <1>1, <2>3 DEF RInv, RoomLeft, IInv, SavingOK
    <3>4. Queues!Save(saving.to, Len(log))
      BY <2>1, <3>1, <3>2 DEF Queues!Save
    <3>5. Queues!Next
      BY <2>3, <3>3, <3>4 DEF Queues!Next
    <3> QED BY <3>5
  <2> QED BY <2>1, <2>2, <2>3
<1> QED BY <1>2, <1>3

\* An empty store is an empty set of queues that is not served.
LEMMA InitRefines == ASSUME Init, Mapped PROVE Queues!Init
<1>1. log = << >> /\ Len(log) = 0 /\ phase # "up"
  BY DEF Init
<1>2. PICK q : /\ Follows(q, log, 0)
               /\ \A u \in Users : \E i \in 0..0 : queue[u] = q[i]
  BY <1>1 DEF Mapped
<1>3. q[0] = << >>
  BY <1>2 DEF Follows
<1>4. \A u \in Users : queue[u] = << >>
  BY <1>2, <1>3
<1>5. queue = [u \in Users |-> queue[u]]
  BY DEF queue
<1>6. queue = [u \in Users |-> << >>]
  BY <1>4, <1>5
<1> QED BY <1>1, <1>6 DEF Queues!Init

\* SavePeerMessage appends a message to the queue its receiver reads, with an
\* id above all of the store, and nothing else ever changes a queue: not a
\* flush, a crash, a start from whichever index files, nor a rebuild.
THEOREM StoreImplementsQueues == ASSUME ~EmptyStop PROVE Spec => ImplementsQueues
<1>1. Spec => []RInv
  BY RefinementInvariant
<1>2. RInv => Mapped
  BY InvariantMaps
<1>3. Init /\ Mapped => Queues!Init
  BY InitRefines
<1>4. RInv /\ RInv' /\ Mapped /\ Mapped' /\ [Next]_vars => [Queues!Next]_(Queues!qvars)
  BY StepRefines
<1> QED BY <1>1, <1>2, <1>3, <1>4, PTL DEF Spec, ImplementsQueues, Queues!Spec

-----------------------------------------------------------------------------
(***************************************************************************)
(* The queries of HistoryLoad return what they should.  A query follows    *)
(* one of the three back links from an entry until the message is not      *)
(* newer than the client's sync key: Follow, a recursive function over the *)
(* log.  When the link of every entry of a set leads to the entry of the   *)
(* set before it (Chain), Follow lists the set, newest first.  The         *)
(* invariants of the queues say which sets the links chain.                *)
(***************************************************************************)
\* s lists the numbers of T, the largest first.
Listing(s, T) ==
  /\ s \in Seq(T)
  /\ \A x \in T : \E a \in 1..Len(s) : s[a] = x
  /\ \A a, b \in 1..Len(s) : a < b => s[a] > s[b]

\* One more in front.
LEMMA InFront ==
  ASSUME NEW S, NEW s \in Seq(S), NEW m \in S
  PROVE  /\ <<m>> \o s \in Seq(S) /\ Len(<<m>> \o s) = Len(s) + 1
         /\ (<<m>> \o s)[1] = m /\ Len(s) \in Nat
         /\ \A a \in 1..Len(s) : (<<m>> \o s)[a + 1] = s[a]
<1>1. <<m>> \in Seq(S) /\ Len(<<m>>) = 1 /\ <<m>>[1] = m /\ Len(s) \in Nat
  OBVIOUS
<1>2. <<m>> \o s \in Seq(S) /\ Len(<<m>> \o s) = Len(s) + 1
  BY <1>1
<1>3. \A a \in 1..Len(s) + 1 : (<<m>> \o s)[a] = IF a <= 1 THEN <<m>>[a] ELSE s[a - 1]
  BY <1>1
<1> QED BY <1>1, <1>2, <1>3

\* A number above all that are listed goes to the front of the list.
LEMMA ListMore ==
  ASSUME NEW T \in SUBSET Nat, NEW s, Listing(s, T), NEW m \in Nat, \A x \in T : x < m
  PROVE  Listing(<<m>> \o s, T \cup {m})
<1> DEFINE U == T \cup {m}
           r == <<m>> \o s
<1>1. s \in Seq(U) /\ s \in Seq(T) /\ Len(s) \in Nat
  BY DEF Listing
<1>2. /\ r \in Seq(U) /\ Len(r) = Len(s) + 1 /\ r[1] = m
      /\ \A a \in 1..Len(s) : r[a + 1] = s[a]
  BY <1>1, InFront
<1> HIDE DEF r
<1>3. ASSUME NEW a \in 1..Len(r) PROVE a = 1 \/ (a - 1 \in 1..Len(s) /\ r[a] = s[a - 1])
  <2>1. CASE a = 1 BY <2>1
  <2>2. CASE a # 1
    <3>1. a - 1 \in 1..Len(s) /\ (a - 1) + 1 = a BY <1>1, <1>2, <2>2
    <3> QED BY <1>2, <3>1
  <2> QED BY <2>1, <2>2
<1>4. \A x \in U : \E a \in 1..Len(r) : r[a] = x
  <2>1. ASSUME NEW x \in T PROVE \E a \in 1..Len(r) : r[a] = x
    <3>1. PICK a \in 1..Len(s) : s[a] = x BY DEF Listing
    <3>2. a + 1 \in 1..Len(r) BY <1>1, <1>2
    <3> QED BY <1>2, <3>1, <3>2
  <2>2. 1 \in 1..Len(r) BY <1>1, <1>2
  <2> QED BY <1>2, <2>1, <2>2
<1>5. ASSUME NEW a \in 1..Len(r), NEW b \in 1..Len(r), a < b PROVE r[a] > r[b]
  <2>1. b # 1 /\ b - 1 \in 1..Len(s) /\ r[b] = s[b - 1] BY <1>1, <1>2, <1>3, <1>5
  <2>2. s[b - 1] \in T BY <1>1, <2>1
  <2>3. CASE a = 1 BY <1>2, <2>1, <2>2, <2>3
  <2>4. CASE a # 1
    <3>1. a - 1 \in 1..Len(s) /\ r[a] = s[a - 1] /\ a - 1 < b - 1 BY <1>1, <1>2, <1>3, <1>5, <2>4
    <3> QED BY <2>1, <3>1 DEF Listing
  <2> QED BY <2>3, <2>4
<1>6. Listing(r, U)
  <2> HIDE DEF U
  <2> QED BY <1>2, <1>4, <1>5 DEF Listing
<1> QED BY <1>6 DEF r

\* What a query follows: link l from record to record of L, while the message is
\* newer than sync, from every position up to n.
WalkIn(w, L, l, sync, n) ==
  w = [i \in 0..n |-> IF i = 0 \/ MsgidIn(L, i) <= sync THEN << >> ELSE <<i>> \o w[L[i][l]]]

\* That function exists.
LEMMA WalkExists ==
  ASSUME NEW L, NEW l, NEW sync, NEW n \in Nat, \A j \in 1..n : L[j][l] \in 0..j - 1
  PROVE  \E w : WalkIn(w, L, l, sync, n)
<1> DEFINE S == {k \in 0..n : \E w : WalkIn(w, L, l, sync, k)}
           Over(i) == i = 0 \/ MsgidIn(L, i) <= sync
<1>1. SUFFICES ASSUME S # 0..n PROVE FALSE
  <2>1. n \in 0..n
    OBVIOUS
  <2> QED BY <2>1
<1>2. PICK m \in 0..n : m \notin S /\ \A k \in 0..n : k < m => k \in S
  <2>1. S \in SUBSET (0..n)
    OBVIOUS
  <2> HIDE DEF S
  <2> QED BY <1>1, <2>1, FirstFailure
<1>3. CASE m = 0
  <2> DEFINE w == [j \in 0..0 |-> << >>]
  <2>1. WalkIn(w, L, l, sync, 0)
    BY DEF WalkIn
  <2> QED BY <1>2, <1>3, <2>1
<1>4. CASE m # 0
  <2>1. m - 1 \in 0..n /\ m - 1 < m
    BY <1>4
  <2>2. PICK w : WalkIn(w, L, l, sync, m - 1)
    BY <1>2, <2>1
  <2> HIDE DEF S
  <2>3. w = [i \in 0..m - 1 |-> IF Over(i) THEN << >> ELSE <<i>> \o w[L[i][l]]]
    BY <2>2 DEF WalkIn
  <2> DEFINE r == [j \in 0..m |-> IF j = m THEN IF Over(m) THEN << >> ELSE <<m>> \o w[L[m][l]]
                                  ELSE w[j]]
  <2> HIDE DEF Over
  <2>4. ASSUME NEW j \in 0..m
        PROVE  r[j] = IF Over(j) THEN << >> ELSE <<j>> \o r[L[j][l]]
    <3>1. CASE j = 0
      <4>1. Over(0) BY DEF Over
      <4> QED BY <1>4, <2>3, <3>1, <4>1
    <3>2. CASE j # 0
      <4>1. j \in 1..n /\ L[j][l] \in 0..j - 1
        BY <3>2
      <4>2. L[j][l] \in 0..m /\ L[j][l] # m /\ L[j][l] \in 0..m - 1
        BY <4>1
      <4>3. r[L[j][l]] = w[L[j][l]]
        BY <4>2
      <4>4. CASE j = m
        BY <4>3, <4>4
      <4>5. CASE j # m
        <5>1. j \in 0..m - 1
          BY <4>5
        <5>2. w[j] = IF Over(j) THEN << >> ELSE <<j>> \o w[L[j][l]]
          BY <2>3, <5>1
        <5>3. r[j] = w[j] BY <4>5
        <5> HIDE DEF r
        <5> QED BY <4>3, <5>2, <5>3
      <4> QED BY <4>4, <4>5
    <3> QED BY <3>1, <3>2
  <2>5. WalkIn(r, L, l, sync, m)
    <3>1. r = [j \in 0..m |-> r[j]]
      OBVIOUS
    <3> HIDE DEF r
    <3>2. [j \in 0..m |-> r[j]] = [j \in 0..m |-> IF Over(j) THEN << >> ELSE <<j>> \o r[L[j][l]]]
      BY <2>4
    <3> QED BY <3>1, <3>2 DEF WalkIn, Over
  <2> QED BY <1>2, <2>5 DEF S
<1> QED BY <1>3, <1>4

\* The links named l lead backwards.
Back(l) == \A j \in 1..Len(log) : log[j][l] \in 0..j - 1

\* Follow is that function.
LEMMA FollowWalks ==
  ASSUME NEW l, NEW sync, Len(log) \in Nat, Back(l)
  PROVE  \E w : WalkIn(w, log, l, sync, Len(log)) /\ \A i \in 0..Len(log) : Follow(i, l, sync) = w[i]
<1> DEFINE w == CHOOSE w : WalkIn(w, log, l, sync, Len(log))
<1>1. WalkIn(w, log, l, sync, Len(log))
  BY WalkExists DEF Back
<1>2. \A i : MsgidOf(i) = MsgidIn(log, i)
  BY DEF MsgidOf, MsgidIn
<1>3. ASSUME NEW i \in 0..Len(log) PROVE Follow(i, l, sync) = w[i]
  BY <1>2 DEF Follow, WalkIn
<1> HIDE DEF w
<1> QED BY <1>1, <1>3

\* The links named l of L chain the entries of S, whose ids name the records
\* before them.
Chain(L, l, S) == \A i \in S : MsgidIn(L, i) = i - 1 /\ IsNewest(L[i][l], {j \in S : j < i})

\* The elements of S up to start whose messages are newer than sync.
Newer(S, start, sync) == {j \in S : j <= start /\ j - 1 > sync}

\* The ids of the messages of entries.
IdsOf(T) == {j - 1 : j \in T}

\* Following links that each lead to the newest earlier element of S lists the
\* elements of S that are newer than sync.
LEMMA WalkLists ==
  ASSUME NEW L, NEW l, NEW sync \in Nat, NEW n \in Nat, NEW w, WalkIn(w, L, l, sync, n),
         NEW S \in SUBSET (1..n), Chain(L, l, S)
  PROVE  \A i \in S \cup {0} : Listing(w[i], Newer(S, i, sync))
<1> DEFINE To(i) == {j \in S : j <= i /\ j - 1 > sync}
           G == {k \in 0..n : k \in S \cup {0} => Listing(w[k], To(k))}
<1>0. \A i \in S : i \in Nat /\ i \in 1..n /\ MsgidIn(L, i) = i - 1
  <2>1. \A i \in S : i \in 1..n OBVIOUS
  <2>2. \A i \in 1..n : i \in Nat OBVIOUS
  <2>3. \A i \in S : MsgidIn(L, i) = i - 1 BY DEF Chain
  <2> QED BY <2>1, <2>2, <2>3
<1>8. \A i : To(i) = Newer(S, i, sync)
  BY DEF Newer
<1> HIDE DEF To
<1>1. SUFFICES ASSUME G # 0..n PROVE FALSE
  <2>1. ASSUME G = 0..n, NEW i \in S \cup {0} PROVE Listing(w[i], To(i))
    <3>1. i \in G BY <2>1
    <3> QED BY <3>1
  <2> HIDE DEF G
  <2> QED BY <1>8, <2>1
<1>2. PICK m \in 0..n : m \notin G /\ \A k \in 0..n : k < m => k \in G
  <2>1. G \in SUBSET (0..n)
    OBVIOUS
  <2> HIDE DEF G
  <2> QED BY <1>1, <2>1, FirstFailure
<1>3. m \in S \cup {0} /\ ~Listing(w[m], To(m))
  BY <1>2
<1>4. \A k \in S \cup {0} : k < m => Listing(w[k], To(k))
  BY <1>2
<1> HIDE DEF G
<1>5. w[m] = IF m = 0 \/ MsgidIn(L, m) <= sync THEN << >> ELSE <<m>> \o w[L[m][l]]
  BY DEF WalkIn
<1>6. CASE m = 0 \/ MsgidIn(L, m) <= sync
  <2>1. To(m) = {}
    <3>1. CASE m = 0
      <4>1. \A j \in S : ~(j <= 0) BY <1>0
      <4> QED BY <3>1, <4>1 DEF To
    <3>2. CASE m \in S
      <4>0. m # 0 /\ MsgidIn(L, m) <= sync BY <1>0, <1>6, <3>2
      <4>1. m \in Nat /\ m - 1 <= sync BY <1>0, <3>2, <4>0
      <4>2. \A j \in S : ~(j <= m /\ j - 1 > sync) BY <1>0, <4>1
      <4> QED BY <4>2 DEF To
    <3> QED BY <1>3, <3>1, <3>2
  <2>2. w[m] = << >> BY <1>5, <1>6
  <2>3. Listing(<< >>, {}) BY DEF Listing
  <2> QED BY <1>3, <2>1, <2>2, <2>3
<1>7. CASE ~(m = 0 \/ MsgidIn(L, m) <= sync)
  <2>0. m # 0 /\ ~(MsgidIn(L, m) <= sync) /\ m \in S BY <1>3, <1>7
  <2>1. m \in S /\ m \in Nat /\ MsgidIn(L, m) = m - 1 /\ m - 1 > sync BY <1>0, <2>0
  <2> DEFINE p == L[m][l]
  <2>2. IsNewest(p, {j \in S : j < m}) BY <2>1, Zenon DEF Chain
  <2> HIDE DEF p
  <2>3. p \in S \cup {0} /\ p \in Nat /\ p < m
    <3>1. p = 0 \/ p \in {j \in S : j < m} BY <2>2 DEF IsNewest
    <3>2. ASSUME p \in {j \in S : j < m} PROVE p \in S /\ p < m BY <3>2
    <3>3. 0 < m BY <2>0, <2>1
    <3>4. p \in S => p \in Nat BY <1>0
    <3> QED BY <3>1, <3>2, <3>3, <3>4
  <2>4. Listing(w[p], To(p)) BY <1>4, <2>3
  <2>5. To(m) = To(p) \cup {m}
    <3>1. \A j \in S : j < m <=> j <= p
      <4>1. CASE p = 0 BY <1>0, <2>1, <2>2, <4>1 DEF IsNewest
      <4>2. CASE p # 0 BY <1>0, <2>1, <2>2, <2>3, <4>2 DEF IsNewest
      <4> QED BY <4>1, <4>2
    <3>2. \A j \in S : j <= m <=> j <= p \/ j = m BY <1>0, <2>1, <3>1
    <3> QED BY <2>1, <3>2 DEF To
  <2>6. To(p) \in SUBSET Nat /\ \A x \in To(p) : x < m
    <3>1. \A x \in To(p) : x \in S /\ x <= p BY DEF To
    <3>2. \A x \in To(p) : x \in Nat BY <1>0, <3>1
    <3> QED BY <2>1, <2>3, <3>1, <3>2
  <2>7. w[m] = <<m>> \o w[p] BY <1>5, <1>7 DEF p
  <2>8. Listing(<<m>> \o w[p], To(p) \cup {m}) BY <2>1, <2>4, <2>6, ListMore
  <2> QED BY <1>3, <2>5, <2>7, <2>8
<1> QED BY <1>6, <1>7

-----------------------------------------------------------------------------
\* Lists.

\* The first n of a list.
FirstIn(s, n) == {s[a] : a \in 1..n}

\* The first n of a list are listed, and so are the newest n of the set.
LEMMA ListFirst ==
  ASSUME NEW T \in SUBSET Nat, NEW s, Listing(s, T), NEW n \in 0..Len(s)
  PROVE  /\ SubSeq(s, 1, n) \in Seq(Nat) /\ Len(SubSeq(s, 1, n)) = n
         /\ Listing(SubSeq(s, 1, n), FirstIn(s, n))
         /\ n < Len(s) => FirstIn(s, n) = {x \in T : x > s[n + 1]}
<1> DEFINE r == SubSeq(s, 1, n)
           U == {s[a] : a \in 1..n}
<1>1. s \in Seq(T) /\ Len(s) \in Nat /\ s \in Seq(Nat)
  <2>1. s \in Seq(T) BY DEF Listing
  <2>2. Len(s) \in Nat /\ s \in [1..Len(s) -> T] BY <2>1
  <2>3. s \in [1..Len(s) -> Nat] BY <2>2
  <2> QED BY <2>1, <2>2, <2>3
<1>2. \A a \in 1..n : s[a] \in U /\ s[a] \in Nat
  BY <1>1
<1>3. /\ r = [a \in 1..n |-> s[a]] /\ r \in Seq(U) /\ r \in Seq(Nat) /\ Len(r) = n
  <2>1. r = [a \in 1..n |-> s[a]] BY <1>1
  <2> HIDE DEF r, U
  <2>2. r \in [1..n -> U] /\ r \in [1..n -> Nat] BY <1>2, <2>1
  <2>3. n \in Nat BY <1>1
  <2> QED BY <2>1, <2>2, <2>3
<1>4. Listing(r, U)
  <2>1. \A a \in 1..n : r[a] = s[a] BY <1>3
  <2>2. \A x \in U : \E a \in 1..n : r[a] = x BY <2>1
  <2>3. ASSUME NEW a \in 1..n, NEW b \in 1..n, a < b PROVE r[a] > r[b]
    <3>1. a \in 1..Len(s) /\ b \in 1..Len(s) BY <1>1
    <3>2. s[a] > s[b] BY <2>3, <3>1 DEF Listing
    <3> HIDE DEF r
    <3> QED BY <2>1, <3>2
  <2> HIDE DEF r, U
  <2> QED BY <1>3, <2>2, <2>3 DEF Listing
<1>5. ASSUME n < Len(s) PROVE U = {x \in T : x > s[n + 1]}
  <2>1. n + 1 \in 1..Len(s) /\ n \in Nat /\ s[n + 1] \in Nat BY <1>1, <1>5
  <2>2. \A x \in U : x \in T /\ x > s[n + 1]
    <3> SUFFICES ASSUME NEW a \in 1..n PROVE s[a] \in T /\ s[a] > s[n + 1] OBVIOUS
    <3>1. a \in 1..Len(s) /\ a < n + 1 BY <1>1, <2>1
    <3> QED BY <1>1, <2>1, <3>1 DEF Listing
  <2>3. ASSUME NEW x \in T, x > s[n + 1] PROVE x \in U
    <3>1. PICK a \in 1..Len(s) : s[a] = x BY DEF Listing
    <3>2. ~(a >= n + 1)
      <4>1. a = n + 1 => s[a] = s[n + 1] OBVIOUS
      <4>2. n + 1 < a => s[n + 1] > s[a] BY <2>1 DEF Listing
      <4> QED BY <1>1, <2>1, <2>3, <3>1, <4>1, <4>2
    <3>3. a \in 1..n BY <1>1, <2>1, <3>2
    <3> QED BY <3>1, <3>3
  <2> QED BY <2>2, <2>3
<1> QED BY <1>3, <1>4, <1>5 DEF FirstIn

\* A list is as long as its set is large.
LEMMA ListCount ==
  ASSUME NEW T \in SUBSET Nat, NEW s, Listing(s, T)
  PROVE  IsFiniteSet(T) /\ Cardinality(T) = Len(s) /\ Len(s) \in Nat
<1>1. s \in Seq(T) /\ Len(s) \in Nat /\ s \in [1..Len(s) -> T]
  BY DEF Listing
<1>2. IsFiniteSet(1..Len(s)) /\ Cardinality(1..Len(s)) = Len(s)
  <2>1. 1 \in Int /\ Len(s) \in Int BY <1>1
  <2>2. IsFiniteSet(1..Len(s)) /\ Cardinality(1..Len(s)) = IF 1 > Len(s) THEN 0 ELSE Len(s) - 1 + 1
    BY <1>1, <2>1, FS_Interval
  <2> QED BY <1>1, <2>2
<1>3. \A a, b \in 1..Len(s) : s[a] = s[b] => a = b
  <2> SUFFICES ASSUME NEW a \in 1..Len(s), NEW b \in 1..Len(s), s[a] = s[b], a # b PROVE FALSE
    OBVIOUS
  <2>1. s[a] \in Nat /\ s[b] \in Nat BY <1>1
  <2>2. a < b \/ b < a BY <1>1
  <2> QED BY <2>1, <2>2 DEF Listing
<1>4. \A x \in T : \E a \in 1..Len(s) : s[a] = x
  BY DEF Listing
<1>5. ExistsBijection(1..Len(s), T)
  BY <1>1, <1>3, <1>4 DEF ExistsBijection, Bijection, Injection, Surjection, IsInjective
<1> QED BY <1>1, <1>2, <1>5, FS_Bijection

\* Above the a-th of a list there are a - 1 elements.
LEMMA ListRank ==
  ASSUME NEW T \in SUBSET Nat, NEW s, Listing(s, T), NEW a \in 1..Len(s)
  PROVE  Cardinality({x \in T : x > s[a]}) = a - 1
<1>1. Len(s) \in Nat
  BY ListCount
<1>2. a - 1 \in 0..Len(s) /\ a - 1 < Len(s) /\ (a - 1) + 1 = a
  BY <1>1
<1> DEFINE U == {x \in T : x > s[a]}
<1>3. Listing(SubSeq(s, 1, a - 1), U) /\ Len(SubSeq(s, 1, a - 1)) = a - 1
  <2>1. /\ Len(SubSeq(s, 1, a - 1)) = a - 1
        /\ Listing(SubSeq(s, 1, a - 1), FirstIn(s, a - 1))
        /\ FirstIn(s, a - 1) = {x \in T : x > s[(a - 1) + 1]}
    BY <1>2, ListFirst
  <2> QED BY <1>2, <2>1
<1>4. U \in SUBSET Nat
  OBVIOUS
<1> HIDE DEF U
<1>5. Cardinality(U) = a - 1
  BY <1>3, <1>4, ListCount
<1> QED BY <1>5 DEF U

\* FirstOf of the list of a set lists its newest elements.
LEMMA FirstNewest ==
  ASSUME NEW T \in SUBSET Nat, NEW s, Listing(s, T), NEW n \in Nat \ {0}
  PROVE  Listing(FirstOf(s, n), NewestOf(T, n)) /\ Len(FirstOf(s, n)) <= n
<1>1. s \in Seq(T) /\ Len(s) \in Nat
  BY ListCount DEF Listing
<1>2. \A a \in 1..Len(s) : s[a] \in T /\ (s[a] \in NewestOf(T, n) <=> a <= n)
  <2> TAKE a \in 1..Len(s)
  <2>1. s[a] \in T BY <1>1
  <2>2. s[a] \in NewestOf(T, n) <=> a - 1 < n BY <2>1, ListRank DEF NewestOf
  <2> QED BY <1>1, <2>1, <2>2
<1>3. \A x \in T : \E a \in 1..Len(s) : s[a] = x
  BY DEF Listing
<1>4. NewestOf(T, n) \subseteq T
  BY DEF NewestOf
<1> DEFINE U == NewestOf(T, n)
<1> HIDE DEF U
<1>5. CASE Len(s) > n
  <2>1. n \in 0..Len(s) /\ FirstOf(s, n) = SubSeq(s, 1, n) BY <1>1, <1>5 DEF FirstOf
  <2>2. U = {s[a] : a \in 1..n}
    <3>1. \A a \in 1..n : a \in 1..Len(s) /\ a <= n BY <1>1, <1>5
    <3>2. \A a \in 1..n : s[a] \in U BY <1>2, <3>1 DEF U
    <3>3. ASSUME NEW x \in U PROVE \E a \in 1..n : s[a] = x
      <4>1. PICK a \in 1..Len(s) : s[a] = x BY <1>3, <1>4 DEF U
      <4>2. a <= n BY <1>2, <4>1 DEF U
      <4>3. a \in 1..n BY <1>1, <4>2
      <4> QED BY <4>1, <4>3
    <3> QED BY <3>2, <3>3
  <2>3. /\ Len(SubSeq(s, 1, n)) = n
        /\ Listing(SubSeq(s, 1, n), FirstIn(s, n))
    BY <2>1, ListFirst
  <2> QED BY <2>1, <2>2, <2>3 DEF U, FirstIn
<1>6. CASE ~(Len(s) > n)
  <2>1. FirstOf(s, n) = s /\ Len(s) <= n BY <1>1, <1>6 DEF FirstOf
  <2>2. \A a \in 1..Len(s) : a <= n BY <1>1, <2>1
  <2>3. U = T BY <1>2, <1>3, <1>4, <2>2 DEF U
  <2> QED BY <2>1, <2>3 DEF U
<1> QED BY <1>5, <1>6

\* A listing is what the properties call one.
LEMMA ListingLists ==
  ASSUME NEW T \in SUBSET Nat, NEW s, Listing(s, T)
  PROVE  Lists(s, T)
<1>1. s \in Seq(T) /\ Len(s) \in Nat /\ DOMAIN s = 1..Len(s)
  <2>1. s \in Seq(T) BY DEF Listing
  <2> QED BY <2>1
<1>2. ToSet(s) = T
  <2>1. ToSet(s) = {s[a] : a \in 1..Len(s)} BY <1>1 DEF ToSet
  <2>2. \A a \in 1..Len(s) : s[a] \in T BY <1>1
  <2>3. \A x \in T : \E a \in 1..Len(s) : s[a] = x BY DEF Listing
  <2> QED BY <2>1, <2>2, <2>3
<1>3. ASSUME NEW i \in 1..Len(s) - 1 PROVE s[i] > s[i + 1]
  <2>1. i \in 1..Len(s) /\ i + 1 \in 1..Len(s) /\ i < i + 1 BY <1>1
  <2> QED BY <2>1 DEF Listing
<1> QED BY <1>2, <1>3 DEF Lists

\* The message ids of entries, of which each is one below its position.
LEMMA MsgidsList ==
  ASSUME NEW T \in SUBSET Nat, NEW s, Listing(s, T),
         \A i \in T : i > 0 /\ log[i].msgid = i - 1
  PROVE  /\ Listing(Msgids(s), {i - 1 : i \in T}) /\ Len(Msgids(s)) = Len(s)
         /\ {i - 1 : i \in T} \in SUBSET Nat
<1> DEFINE M == {i - 1 : i \in T}
           r == Msgids(s)
<1>1. s \in Seq(T) /\ Len(s) \in Nat /\ DOMAIN s = 1..Len(s) /\ \A a \in 1..Len(s) : s[a] \in T
  <2>1. s \in Seq(T) BY DEF Listing
  <2> QED BY <2>1
<1>2. \A i \in T : i - 1 \in M /\ i - 1 \in Nat
  OBVIOUS
<1>3. r = [a \in 1..Len(s) |-> s[a] - 1]
  BY <1>1 DEF Msgids
<1> HIDE DEF r
<1>4. r \in Seq(M) /\ Len(r) = Len(s) /\ \A a \in 1..Len(s) : r[a] = s[a] - 1
  <2>1. r \in [1..Len(s) -> M] BY <1>1, <1>2, <1>3
  <2> HIDE DEF M
  <2> QED BY <1>1, <1>3, <2>1
<1>5. \A x \in M : \E a \in 1..Len(s) : r[a] = x
  <2> SUFFICES ASSUME NEW i \in T PROVE \E a \in 1..Len(s) : r[a] = i - 1 OBVIOUS
  <2>1. PICK a \in 1..Len(s) : s[a] = i BY DEF Listing
  <2> QED BY <1>4, <2>1
<1>6. ASSUME NEW a \in 1..Len(s), NEW b \in 1..Len(s), a < b PROVE r[a] > r[b]
  <2>1. s[a] > s[b] BY <1>6 DEF Listing
  <2>2. s[a] \in Nat /\ s[b] \in Nat BY <1>1
  <2> QED BY <1>4, <2>1, <2>2
<1>7. Listing(r, M)
  <2> HIDE DEF M
  <2> QED BY <1>4, <1>5, <1>6 DEF Listing
<1>8. M \in SUBSET Nat
  BY <1>2
<1> HIDE DEF M
<1> QED BY <1>4, <1>7, <1>8 DEF M, r

\* It is the same whether a list is cut before or after.
LEMMA MsgidsFirst ==
  ASSUME NEW S, NEW s \in Seq(S), NEW n \in Nat
  PROVE  Msgids(FirstOf(s, n)) = FirstOf(Msgids(s), n)
<1>1. Len(s) \in Nat /\ DOMAIN s = 1..Len(s)
  OBVIOUS
<1> DEFINE r == Msgids(s)
<1>2. r = [a \in 1..Len(s) |-> log[s[a]].msgid]
  BY <1>1 DEF Msgids
<1> HIDE DEF r
<1>3. Len(r) = Len(s) /\ DOMAIN r = 1..Len(s)
  BY <1>1, <1>2
<1>4. CASE n > 0 /\ Len(s) > n
  <2>1. FirstOf(s, n) = SubSeq(s, 1, n) /\ FirstOf(r, n) = SubSeq(r, 1, n)
    BY <1>3, <1>4 DEF FirstOf
  <2>2. SubSeq(s, 1, n) = [a \in 1..n |-> s[a]] BY <1>1, <1>4
  <2>3. SubSeq(r, 1, n) = [a \in 1..n |-> r[a]] BY <1>1, <1>3, <1>4
  <2>4. Msgids(SubSeq(s, 1, n)) = [a \in 1..n |-> log[s[a]].msgid] BY <2>2 DEF Msgids
  <2>5. \A a \in 1..n : r[a] = log[s[a]].msgid BY <1>1, <1>2, <1>4
  <2>6. [a \in 1..n |-> log[s[a]].msgid] = [a \in 1..n |-> r[a]] BY <2>5
  <2> QED BY <2>1, <2>3, <2>4, <2>6 DEF r
<1>5. CASE ~(n > 0 /\ Len(s) > n)
  BY <1>3, <1>5 DEF FirstOf, r
<1> QED BY <1>4, <1>5

\* What Follow finds from an element of S, or from none.
LEMMA FollowLists ==
  ASSUME NEW l, NEW sync \in Nat, Len(log) \in Nat, Back(l),
         NEW S \in SUBSET (1..Len(log)), Chain(log, l, S), NEW start \in S \cup {0}
  PROVE  Listing(Follow(start, l, sync), Newer(S, start, sync))
<1>1. PICK w : WalkIn(w, log, l, sync, Len(log)) /\ \A i \in 0..Len(log) : Follow(i, l, sync) = w[i]
  BY FollowWalks
<1>2. start \in 0..Len(log)
  OBVIOUS
<1>3. \A i \in S \cup {0} : Listing(w[i], Newer(S, i, sync))
  BY <1>1, WalkLists
<1> QED BY <1>1, <1>2, <1>3

\* The ids of what Follow finds: all of them, and the newest n.
LEMMA QueryLists ==
  ASSUME NEW l, NEW sync \in Nat, Len(log) \in Nat, Back(l),
         NEW S \in SUBSET (1..Len(log)), Chain(log, l, S), NEW start \in S \cup {0}
  PROVE  LET T == Newer(S, start, sync)
             found == Follow(start, l, sync)
         IN /\ Listing(Msgids(found), IdsOf(T)) /\ IdsOf(T) \in SUBSET Nat
            /\ Len(found) \in Nat /\ IsFiniteSet(T) /\ Cardinality(T) = Len(found)
            /\ \A n \in Nat \ {0} : Listing(Msgids(FirstOf(found, n)), NewestOf(IdsOf(T), n))
<1> DEFINE T == Newer(S, start, sync)
           found == Follow(start, l, sync)
<1>1. Listing(found, T)
  BY FollowLists
<1>2. T \in SUBSET Nat /\ \A i \in T : i > 0 /\ log[i].msgid = i - 1
  <2>1. \A i \in S : i \in 1..Len(log) OBVIOUS
  <2>2. \A i \in 1..Len(log) : i \in Nat /\ i > 0 OBVIOUS
  <2>3. \A i \in S : i # 0 BY <2>1, <2>2
  <2>4. \A i \in S : log[i].msgid = i - 1 BY <2>3, Zenon DEF Chain, MsgidIn
  <2> QED BY <2>1, <2>2, <2>4 DEF Newer
<1> HIDE DEF T, found
<1>3. IsFiniteSet(T) /\ Cardinality(T) = Len(found) /\ Len(found) \in Nat /\ found \in Seq(T)
  BY <1>1, <1>2, ListCount DEF Listing
<1>4. Listing(Msgids(found), IdsOf(T)) /\ IdsOf(T) \in SUBSET Nat
  BY <1>1, <1>2, MsgidsList DEF IdsOf
<1>5. ASSUME NEW n \in Nat \ {0} PROVE Listing(Msgids(FirstOf(found, n)), NewestOf(IdsOf(T), n))
  <2>1. Msgids(FirstOf(found, n)) = FirstOf(Msgids(found), n)
    BY <1>3, MsgidsFirst
  <2> QED BY <1>4, <2>1, FirstNewest
<1> QED BY <1>3, <1>4, <1>5 DEF T, found

\* All links lead backwards.
Backs == Back("prev") /\ Back("prevPeer") /\ Back("prevBatch")

\* An entry with the direct messages before it.
WithDirect(D, e) == {j \in D : j < e} \cup {e}

\* The entries of a user are chained by prev, its batch marks by prevBatch, and
\* an entry with the direct messages before it by prevPeer.
LEMMA QueueChains ==
  ASSUME IInv, NEW u \in Users
  PROVE  LET E == EntriesIn(log, u, Len(log))
             D == DirectIn(log, u, Len(log))
             B == MarksIn(log, u, Len(log))
         IN /\ Len(log) \in Nat /\ E \in SUBSET (1..Len(log))
            /\ B \subseteq E /\ D \subseteq E
            /\ Chain(log, "prev", E) /\ Chain(log, "prevBatch", B)
            /\ \A e \in E : Chain(log, "prevPeer", WithDirect(D, e))
            /\ \A i \in E : i > 1 /\ i \in Nat
<1> DEFINE n == Len(log)
           E == EntriesIn(log, u, n)
           D == DirectIn(log, u, n)
           B == MarksIn(log, u, n)
<1>1. n \in Nat /\ log \in Seq(Record)
  BY Parts DEF IInv
<1>2. /\ E \in SUBSET (1..n) /\ B \subseteq E /\ D \subseteq E
      /\ \A i \in E : i \in 1..n /\ log[i].kind = "peer" /\ log[i].to = u
  BY DEF EntriesIn, MarksIn, DirectIn
<1>3. \A i \in E : EntryIn(log, i)
  BY <1>2 DEF IInv, Chained
<1>4. \A i \in E : i > 1 /\ i \in Nat /\ log[i].msgid = i - 1 /\ MsgidIn(log, i) = i - 1
  BY <1>2, <1>3 DEF EntryIn, MsgidIn
<1>5. ASSUME NEW i \in E
      PROVE  /\ EntriesIn(log, u, i - 1) = {j \in E : j < i}
             /\ DirectIn(log, u, i - 1) = {j \in D : j < i}
             /\ MarksIn(log, u, i - 1) = {j \in B : j < i}
  <2>1. i \in 1..n BY <1>2
  <2>2. EntriesIn(log, u, i - 1) = {j \in E : j < i}
    BY <1>1, <2>1 DEF EntriesIn
  <2>3. DirectIn(log, u, i - 1) = {j \in D : j < i}
    BY <2>2 DEF DirectIn
  <2>4. MarksIn(log, u, i - 1) = {j \in B : j < i}
    BY <2>2 DEF MarksIn
  <2> QED BY <2>2, <2>3, <2>4
<1> HIDE DEF E, D, B
<1>6. \A i \in E : IsNewest(log[i].prev, {j \in E : j < i})
  <2> TAKE i \in E
  <2>1. IsNewest(log[i].prev, EntriesIn(log, u, i - 1))
    BY <1>2, <1>3 DEF EntryIn
  <2> QED BY <1>5, <2>1, Zenon
<1>7. \A i \in B : IsNewest(log[i].prevBatch, {j \in B : j < i})
  <2> TAKE i \in B
  <2>1. i \in E BY <1>2
  <2>2. IsNewest(log[i].prevBatch, MarksIn(log, u, i - 1))
    BY <1>2, <1>3, <2>1 DEF EntryIn
  <2> QED BY <1>5, <2>1, <2>2, Zenon
<1>8. ASSUME NEW e \in E, NEW i \in WithDirect(D, e)
      PROVE  IsNewest(log[i].prevPeer, {j \in WithDirect(D, e) : j < i})
  <2>1. i \in E /\ i <= e BY <1>2, <1>4 DEF WithDirect
  <2>2. {j \in WithDirect(D, e) : j < i} = {j \in D : j < i}
    <3>1. \A j \in D : j \in Nat /\ i \in Nat /\ e \in Nat BY <1>2, <1>4, <2>1
    <3> QED BY <2>1, <3>1, <1>4 DEF WithDirect
  <2>3. IsNewest(log[i].prevPeer, DirectIn(log, u, i - 1))
    BY <1>2, <1>3, <2>1 DEF EntryIn
  <2> QED BY <1>5, <2>1, <2>2, <2>3, Zenon
<1>9. Chain(log, "prev", E) /\ Chain(log, "prevBatch", B)
  <2>1. \A i \in B : MsgidIn(log, i) = i - 1 BY <1>2, <1>4
  <2> QED BY <1>4, <1>6, <1>7, <2>1, Zenon DEF Chain
<1>10. ASSUME NEW e \in E PROVE Chain(log, "prevPeer", WithDirect(D, e))
  <2>1. \A i \in WithDirect(D, e) : MsgidIn(log, i) = i - 1 BY <1>2, <1>4 DEF WithDirect
  <2> QED BY <1>8, <2>1, Zenon DEF Chain
<1> QED BY <1>1, <1>2, <1>4, <1>9, <1>10 DEF E, D, B

\* What is new for a client, in terms of the positions of the entries.
LEMMA NewIds ==
  ASSUME Len(log) \in Nat, NEW S \in SUBSET (1..Len(log)),
         \A i \in S : i > 0 /\ i \in Nat /\ log[i].msgid = i - 1,
         NEW sync \in Nat, NEW start \in S \cup {0}
  PROVE  /\ NewFor(S, sync) = {j - 1 : j \in {i \in S : i - 1 > sync}}
         /\ NewFor(S, sync) \in SUBSET Nat
         /\ IdsOf(Newer(S, start, sync)) = {m \in NewFor(S, sync) : m <= MsgidOf(start)}
         /\ IsNewest(start, S) => IdsOf(Newer(S, start, sync)) = NewFor(S, sync)
         /\ start # 0 => MsgidOf(start) = start - 1
<1>1. NewFor(S, sync) = {j - 1 : j \in {i \in S : i - 1 > sync}}
  <2>1. {log[i].msgid : i \in S} = {i - 1 : i \in S} OBVIOUS
  <2> QED BY <2>1 DEF NewFor
<1> DEFINE N == {i \in S : i - 1 > sync}
<1>2. NewFor(S, sync) \in SUBSET Nat
  <2>1. \A j \in N : j - 1 \in Nat OBVIOUS
  <2> QED BY <1>1, <2>1
<1>3. start \in Nat /\ (start # 0 => start \in S /\ MsgidOf(start) = start - 1)
      /\ (start = 0 => MsgidOf(start) = 0)
  BY DEF MsgidOf
<1>4. IdsOf(Newer(S, start, sync)) = {m \in NewFor(S, sync) : m <= MsgidOf(start)}
  <2>1. \A j \in N : j <= start <=> j - 1 <= MsgidOf(start)
    <3>1. CASE start = 0 BY <1>3, <3>1
    <3>2. CASE start # 0 BY <1>3, <3>2
    <3> QED BY <3>1, <3>2
  <2>2. Newer(S, start, sync) = {j \in N : j - 1 <= MsgidOf(start)}
    BY <2>1 DEF Newer
  <2>3. {m \in NewFor(S, sync) : m <= MsgidOf(start)} = {j - 1 : j \in {i \in N : i - 1 <= MsgidOf(start)}}
    BY <1>1
  <2> QED BY <2>2, <2>3 DEF IdsOf
<1>5. ASSUME IsNewest(start, S) PROVE IdsOf(Newer(S, start, sync)) = NewFor(S, sync)
  <2>1. \A j \in S : j <= start
    BY <1>3, <1>5 DEF IsNewest
  <2>2. Newer(S, start, sync) = N BY <2>1 DEF Newer
  <2> QED BY <1>1, <2>2 DEF IdsOf
<1> QED BY <1>1, <1>2, <1>3, <1>4, <1>5

\* The n newest numbers of a set, with at least one asked for.
LEMMA AtLeast ==
  ASSUME LimitsAssumption, NEW limit \in Limits
  PROVE  limit \in Nat /\ AtLeastOne(limit) \in Nat \ {0}
BY DEF LimitsAssumption, AtLeastOne

\* LoadLatestMessages follows the chain of all entries from the newest.
LEMMA LatestMeans ==
  ASSUME IInv, Backs, LimitsAssumption
  PROVE  LatestExact
<1> SUFFICES ASSUME phase = "up", NEW u \in Users, NEW limit \in Limits
             PROVE  Lists(LoadLatestMessages(u, limit),
                          NewestOf(NewFor(PeerEntries(u, Len(log)), 0), AtLeastOne(limit)))
  BY DEF LatestExact
<1> DEFINE E == EntriesIn(log, u, Len(log))
           start == peer[u].last_id
           n == AtLeastOne(limit)
           M == IdsOf(Newer(E, start, 0))
<1>1. /\ Len(log) \in Nat /\ E \in SUBSET (1..Len(log)) /\ Chain(log, "prev", E)
      /\ \A i \in E : i > 0 /\ i \in Nat
  BY QueueChains
<1>2. IsNewest(start, E) /\ start \in E \cup {0}
  <2>1. ExactIn(log, peer[u], u, Len(log))
    BY DEF IInv, MemoryOK, ExactPeers
  <2> QED BY <2>1 DEF ExactIn, IsNewest
<1>3. PeerEntries(u, Len(log)) = E
  BY DEF PeerEntries, EntriesIn
<1>4. \A i \in E : i > 0 /\ i \in Nat /\ log[i].msgid = i - 1
  <2>1. \A i \in E : i # 0 BY <1>1
  <2> QED BY <1>1, <2>1, Zenon DEF Chain, MsgidIn
<1>5. n \in Nat \ {0} /\ Back("prev")
  BY AtLeast DEF Backs
<1> HIDE DEF E, start, n
<1>6. M = NewFor(E, 0) /\ M \in SUBSET Nat
  <2>1. 0 \in Nat OBVIOUS
  <2>2. /\ NewFor(E, 0) \in SUBSET Nat
        /\ IsNewest(start, E) => IdsOf(Newer(E, start, 0)) = NewFor(E, 0)
    BY <1>1, <1>2, <1>4, <2>1, NewIds
  <2> QED BY <1>2, <2>2
<1>7. Listing(Msgids(FirstOf(Follow(start, "prev", 0), n)), NewestOf(M, n))
  BY <1>1, <1>2, <1>5, QueryLists
<1> HIDE DEF M
<1>8. NewestOf(M, n) \in SUBSET Nat
  BY <1>6 DEF NewestOf
<1>9. Lists(Msgids(FirstOf(Follow(start, "prev", 0), n)), NewestOf(M, n))
  BY <1>7, <1>8, ListingLists
<1> QED BY <1>3, <1>6, <1>9 DEF LoadLatestMessages, start, n

-----------------------------------------------------------------------------
\* LoadLatestMessages: that all links of all records lead backwards is invariant.

\* No id of the peer index p is above n.
IdsBelow(p, n) ==
  \A u \in Users : /\ p[u].last_id \in 0..n /\ p[u].last_peer_id \in 0..n
                   /\ p[u].last_batch_id \in 0..n

\* No index, in memory or in a file, names an id above the log.
PeersBelow ==
  /\ IdsBelow(peer, Len(log))
  /\ diskPeer # NoFile => IdsBelow(diskPeer, Len(log))
  /\ flush # Idle => IdsBelow(flush.peer, Len(log))

\* With it, that the links lead backwards is inductive.
BInv == GInv /\ PeersBelow /\ Backs

\* Where the peer indexes of the next state come from.
LEMMA PeersFrom ==
  ASSUME TypeOK, [Next]_vars
  PROVE  /\ \/ peer' \in {peer, NoUsers} \/ (peer' = diskPeer /\ diskPeer # NoFile)
            \/ \E v \in Users, rec \in Record, id \in 0..Len(log') :
                 peer' = [peer EXCEPT ![v] = NextUserIndex(@, rec, id)]
         /\ diskPeer' \in {diskPeer, NoFile} \/ (flush # Idle /\ diskPeer' = flush.peer)
         /\ flush' \in {flush, Idle} \/ flush'.peer = peer
            \/ (flush # Idle /\ flush'.peer = flush.peer)
<1>1. log \in Seq(Record) /\ Len(log) \in Nat /\ scan \in Nat \ {0}
  BY Parts
<1> DEFINE A == \/ peer' \in {peer, NoUsers} \/ (peer' = diskPeer /\ diskPeer # NoFile)
                \/ \E v \in Users, rec \in Record, id \in 0..Len(log') :
                     peer' = [peer EXCEPT ![v] = NextUserIndex(@, rec, id)]
           B == diskPeer' \in {diskPeer, NoFile} \/ (flush # Idle /\ diskPeer' = flush.peer)
           C == flush' \in {flush, Idle} \/ flush'.peer = peer
                \/ (flush # Idle /\ flush'.peer = flush.peer)
<1> SUFFICES A /\ B /\ C
  OBVIOUS
<1>2. ASSUME NEW kind, NEW to, NEW grp, SaveBody(kind, to, grp) PROVE A /\ B /\ C
  BY <1>2 DEF SaveBody, indexVars, diskVars
<1>3. CASE SavePeerEntry
  <2>1. saving.to \in Users /\ PeerEntry(saving.to).kind = "peer"
        /\ PeerEntry(saving.to).to = saving.to /\ PeerEntry(saving.to) \in Record
    BY <1>3, PeerEntryType DEF SavePeerEntry
  <2>2. Len(log') = Len(log) + 1
    BY <1>1, <1>3, <2>1, AppendGrows DEF SavePeerEntry
  <2>3. peer' = [peer EXCEPT ![saving.to] = NextUserIndex(@, PeerEntry(saving.to), Len(log) + 1)]
    BY <1>3, <2>1 DEF SavePeerEntry, ExecPeer
  <2>4. Len(log) + 1 \in 0..Len(log')
    BY <1>1, <2>2
  <2>5. A
    BY <2>1, <2>3, <2>4
  <2> QED BY <1>3, <2>5 DEF SavePeerEntry, diskVars
<1>4. CASE SaveGroupEntry
  BY <1>4 DEF SaveGroupEntry, diskVars
<1>5. CASE FlushNext
  <2>1. ASSUME NEW by, BeginFlush(by) PROVE flush'.peer = peer
    BY <2>1 DEF BeginFlush
  <2>2. CASE TimerFlush \/ Stop \/ BootFlush
    BY <2>1, <2>2 DEF TimerFlush, Stop, BootFlush, indexVars, diskVars
  <2>3. CASE SavePeerIndexFile
    <3>1. flush # Idle /\ flush' = [flush EXCEPT !.step = "group"] /\ diskPeer' = flush.peer
          /\ peer' = peer
      BY <2>3 DEF SavePeerIndexFile, indexVars
    <3>2. flush'.peer = flush.peer
      <4>1. flush \in [by : {"timer", "boot", "exit"}, step : {"peer", "group"},
                       peer : PeerIndexes, group : GroupIndexes, last_id : Nat]
        BY <3>1 DEF TypeOK, Flushes
      <4> QED BY <3>1, <4>1
    <3> QED BY <3>1, <3>2
  <2>4. CASE SaveGroupIndexFile \/ SaveGroupIndexFileAndExit
    BY <2>4 DEF SaveGroupIndexFile, SaveGroupIndexFileAndExit, ProcessEnds, indexVars
  <2> QED BY <1>5, <2>2, <2>3, <2>4 DEF FlushNext
<1>6. CASE ScanPeer
  <2>1. scan \in 1..Len(log) /\ log' = log /\ UNCHANGED <<diskPeer, flush>>
    BY <1>1, <1>6 DEF ScanPeer, logVars, diskVars
  <2>2. log[scan] \in Record /\ (log[scan].kind = "peer" => log[scan].to \in Users)
    BY <1>1, <2>1 DEF TypeOK, LogTypeOK
  <2>3. A
    <3>1. CASE peer' = peer BY <3>1
    <3>2. CASE peer' # peer
      <4>1. log[scan].to \in Users
            /\ peer' = [peer EXCEPT ![log[scan].to] = NextUserIndex(@, log[scan], scan)]
        BY <1>6, <2>2, <3>2 DEF ScanPeer, ExecPeer
      <4>2. scan \in 0..Len(log')
        BY <2>1
      <4> QED BY <2>2, <4>1, <4>2
    <3> QED BY <3>1, <3>2
  <2> QED BY <2>1, <2>3
<1>7. CASE StartNext /\ ~ScanPeer
  BY <1>7 DEF StartNext, ReadIndexFiles, r1, ScanGroup, EndStage, BootDone, logVars, indexVars,
     diskVars
<1>8. CASE Crash \/ RemovePeerFile \/ RemoveGroupFile
  BY <1>8 DEF Crash, ProcessEnds, RemovePeerFile, RemoveGroupFile, indexVars, diskVars
<1>9. CASE UNCHANGED vars
  BY <1>9 DEF vars
<1> HIDE DEF A, B, C
<1>10. CASE SaveNext
  BY <1>2, <1>3, <1>4, <1>10, Zenon DEF SaveNext
<1> QED BY <1>5, <1>6, <1>7, <1>8, <1>9, <1>10 DEF Next

\* NewestIds stay below the end of the log.
LEMMA BelowStep ==
  ASSUME TypeOK, PeersBelow, [Next]_vars
  PROVE  PeersBelow'
<1>1. log \in Seq(Record) /\ Len(log) \in Nat /\ peer \in PeerIndexes
  BY Parts DEF TypeOK
<1>2. Len(log') \in Nat /\ Len(log) <= Len(log')
  <2>1. CASE log' = log BY <1>1, <2>1
  <2>2. CASE log' # log BY <1>1, <2>2, LogStep
  <2> QED BY <2>1, <2>2
<1>3. ASSUME NEW p, IdsBelow(p, Len(log)) PROVE IdsBelow(p, Len(log'))
  <2>1. \A i \in 0..Len(log) : i \in 0..Len(log') BY <1>1, <1>2
  <2> QED BY <1>3, <2>1 DEF IdsBelow
<1>4. IdsBelow(NoUsers, Len(log'))
  BY <1>2 DEF IdsBelow, NoUsers, ZeroUser
<1>5. IdsBelow(peer, Len(log')) /\ (diskPeer # NoFile => IdsBelow(diskPeer, Len(log')))
      /\ (flush # Idle => IdsBelow(flush.peer, Len(log')))
  BY <1>3 DEF PeersBelow
<1>6. ASSUME NEW v \in Users, NEW rec \in Record, NEW id \in 0..Len(log')
      PROVE  IdsBelow([peer EXCEPT ![v] = NextUserIndex(@, rec, id)], Len(log'))
  <2> DEFINE x == NextUserIndex(peer[v], rec, id)
             q == [peer EXCEPT ![v] = x]
  <2>1. x.last_id = id /\ x.last_peer_id \in {id, peer[v].last_peer_id}
        /\ x.last_batch_id \in {id, peer[v].last_batch_id}
    BY DEF NextUserIndex
  <2> HIDE DEF x
  <2>2. \A u \in Users : q[u] = IF u = v THEN x ELSE peer[u]
    BY <1>1 DEF PeerIndexes
  <2> HIDE DEF q
  <2>3. IdsBelow(q, Len(log'))
    BY <1>5, <2>1, <2>2 DEF IdsBelow
  <2> QED BY <2>3 DEF q, x
<1>7. IdsBelow(peer', Len(log'))
  BY <1>4, <1>5, <1>6, PeersFrom
<1>8. diskPeer' # NoFile => IdsBelow(diskPeer', Len(log'))
  BY <1>5, PeersFrom
<1>9. flush' # Idle => IdsBelow(flush'.peer, Len(log'))
  BY <1>5, PeersFrom
<1> QED BY <1>7, <1>8, <1>9 DEF PeersBelow

\* A record that is added links backwards.
LEMMA BacksStep ==
  ASSUME BInv, [Next]_vars
  PROVE  Backs'
<1>1. log \in Seq(Record) /\ Len(log) \in Nat /\ TypeOK
  BY Parts DEF BInv, GInv
<1> DEFINE k == Len(log) + 1
           Low(e, j) == e.prev \in 0..j - 1 /\ e.prevPeer \in 0..j - 1 /\ e.prevBatch \in 0..j - 1
<1>2. \A j \in 1..Len(log) : Low(log[j], j)
  BY DEF BInv, Backs, Back
<1>3. SUFFICES \A j \in 1..Len(log') : Low(log'[j], j)
  BY DEF Backs, Back
<1>4. CASE log' = log
  BY <1>2, <1>4
<1>5. CASE log' # log
  <2>1. Grows(log, log') /\ Len(log') = k
    BY <1>1, <1>5, LogStep
  <2>2. \A j \in 1..Len(log') : j = k \/ (j \in 1..Len(log) /\ log'[j] = log[j])
    BY <1>1, <2>1 DEF Grows
  <2>3. k - 1 = Len(log)
    BY <1>1
  <2>4. ASSUME saving.to \in Users, log'[k] = [PeerEntry(saving.to) EXCEPT !.blk = block_NO']
        PROVE  Low(log'[k], k)
    <3> DEFINE u == saving.to
    <3>1. /\ peer[u].last_id \in 0..Len(log) /\ peer[u].last_peer_id \in 0..Len(log)
          /\ peer[u].last_batch_id \in 0..Len(log)
      BY <2>4 DEF BInv, PeersBelow, IdsBelow
    <3>2. /\ log'[k].prev = peer[u].last_id /\ log'[k].prevPeer = peer[u].last_peer_id
          /\ log'[k].prevBatch = peer[u].last_batch_id
      BY <2>4 DEF PeerEntry
    <3> QED BY <2>3, <3>1, <3>2
  <2>5. ASSUME saving.to \in Groups, log'[k] = [GroupEntry(saving.to) EXCEPT !.blk = block_NO']
        PROVE  Low(log'[k], k)
    <3> DEFINE g == saving.to
    <3>1. group[g].LastId \in 0..Len(log) /\ group[g].LastBatchId \in 0..Len(log)
      <4>1. GroupAt(log, group[g].LastId, g, Len(log))
            /\ GroupAt(log, group[g].LastBatchId, g, group[g].LastId)
        BY <2>5 DEF BInv, GInv, IndexesSound, Sound
      <4> QED BY <1>1, <4>1 DEF GroupAt, GroupIn
    <3>2. /\ log'[k].prev = group[g].LastId /\ log'[k].prevPeer = 0
          /\ log'[k].prevBatch = group[g].LastBatchId
      BY <2>5 DEF GroupEntry
    <3> QED BY <1>1, <2>3, <3>1, <3>2
  <2>6. ASSUME log'[k].prev = 0, log'[k].prevPeer = 0, log'[k].prevBatch = 0
        PROVE  Low(log'[k], k)
    BY <1>1, <2>6
  <2> HIDE DEF k, Low
  <2>7. Low(log'[k], k)
    BY <1>1, <1>5, <2>4, <2>5, <2>6, LogStep DEF k
  <2>8. ASSUME NEW j \in 1..Len(log') PROVE Low(log'[j], j)
    <3>1. CASE j = k BY <2>7, <3>1
    <3>2. CASE j # k
      <4>1. j \in 1..Len(log) /\ log'[j] = log[j] BY <2>2, <3>2
      <4> QED BY <1>2, <4>1
    <3> QED BY <3>1, <3>2
  <2> QED BY <2>8
<1> QED BY <1>4, <1>5

\* It holds of every execution.
LEMMA BackInvariant == Spec => []BInv
<1>1. Init => BInv
  <2>1. Init => PeersBelow
    BY DEF Init, PeersBelow, IdsBelow, NoUsers, ZeroUser
  <2>2. Init => Backs
    BY DEF Init, Backs, Back
  <2> QED BY <2>1, <2>2, GroupInit DEF BInv
<1>2. BInv /\ [Next]_vars => BInv'
  <2> SUFFICES ASSUME BInv, [Next]_vars PROVE BInv'
    OBVIOUS
  <2>1. GInv' BY GroupStep DEF BInv
  <2>2. PeersBelow' BY BelowStep DEF BInv, GInv
  <2>3. Backs' BY BacksStep
  <2> QED BY <2>1, <2>2, <2>3 DEF BInv
<1>3. QED BY <1>1, <1>2, PTL DEF Spec

\* LoadLatestMessages returns the newest messages of a user's queue, newest first.
THEOREM LatestAlwaysExact ==
  ASSUME ~EmptyStop, LimitsAssumption PROVE Spec => []LatestExact
<1>1. IInv /\ BInv => LatestExact
  BY LatestMeans DEF BInv
<1>2. Spec => []IInv
  BY Invariant
<1> QED BY <1>1, <1>2, BackInvariant, PTL

-----------------------------------------------------------------------------
\* LoadGroupHistoryMessages, up to a second start of the store.

\* The group index x is that of the whole log L, and the queues of groups in L
\* are chained without a gap.
GroupsWhole(L, x) ==
  /\ \A g \in Groups : IsNewest(x[g].LastId, GroupIn(L, g, Len(L)))
  /\ \A i \in 1..Len(L) : L[i].kind = "group" =>
       IsNewest(L[i].prev, GroupIn(L, L[i].to, i - 1))

\* Up to a second start: nothing is saved before the store serves, and from then
\* on no group has lost an entry.
FirstRun ==
  starts <= 1 =>
    /\ starts = 0 => phase = "down" /\ log = << >> /\ diskPeer = NoFile /\ diskGroup = NoFile
    /\ phase \in Stages \cup {"boot"} => log = << >> /\ group = NoGroups
    /\ phase = "up" => GroupsWhole(log, group)

\* It is inductive; no flush runs before the store serves.
FInv == /\ TypeOK /\ FirstRun
        /\ flush # Idle => phase \in {"boot", "up"}

\* Saving keeps the queues of groups whole.
LEMMA WholeSave ==
  ASSUME TypeOK, SaveNext, GroupsWhole(log, group)
  PROVE  GroupsWhole(log', group')
<1> DEFINE n == Len(log)
           k == n + 1
<1>1. log \in Seq(Record) /\ n \in Nat /\ [Next]_vars
      /\ \A g \in Groups : group[g] \in GroupIndex /\ group[g].LastId \in Nat
  BY Parts DEF Next
<1>2. log' # log
  <2>1. \A rec : Append1(rec) => \E r : log' = Append(log, r)
    BY DEF Append1
  <2>2. \A r : Append(log, r) # log
    BY <1>1
  <2> QED BY <2>1, <2>2 DEF SaveNext, SaveBody, SavePeerEntry, SaveGroupEntry
<1>3. Grows(log, log') /\ Len(log') = k /\ log' \in Seq(Record)
  BY <1>1, <1>2, LogStep
<1>4. /\ \A i \in 1..n : log'[i] = log[i]
      /\ \A i \in 1..k : i = k \/ i \in 1..n
  BY <1>1, <1>3 DEF Grows
<1>5. ASSUME NEW g, NEW i \in 0..n PROVE GroupIn(log', g, i) = GroupIn(log, g, i)
  <2>1. \A j \in 1..k : j <= i => j \in 1..n BY <1>1
  <2>2. \A j \in 1..n : j \in 1..k BY <1>1
  <2> QED BY <1>3, <1>4, <2>1, <2>2 DEF GroupIn
<1>6. \A i \in 1..n : log'[i].kind = "group" => IsNewest(log'[i].prev, GroupIn(log', log'[i].to, i - 1))
  <2> TAKE i \in 1..n
  <2>1. i - 1 \in 0..n /\ log'[i] = log[i] BY <1>1, <1>4
  <2>2. log[i].kind = "group" => IsNewest(log[i].prev, GroupIn(log, log[i].to, i - 1))
    BY DEF GroupsWhole
  <2> QED BY <1>5, <2>1, <2>2
<1>7. ASSUME NEW g, ~(log'[k].kind = "group" /\ log'[k].to = g)
      PROVE  GroupIn(log', g, k) = GroupIn(log, g, n)
  <2>1. GroupIn(log', g, k) = GroupIn(log', g, n)
    <3>1. \A j \in 1..k : j <= k BY <1>1
    <3>2. \A j \in 1..k : j # k => j <= n BY <1>1
    <3>3. ~(k <= n) BY <1>1
    <3> QED BY <1>3, <1>7, <3>1, <3>2, <3>3 DEF GroupIn
  <2>2. n \in 0..n BY <1>1
  <2> QED BY <1>5, <2>1, <2>2
<1>8. \A g \in Groups : IsNewest(group[g].LastId, GroupIn(log, g, n))
  BY DEF GroupsWhole
<1>9. CASE SaveGroupEntry
  <2> DEFINE h == saving.to
             e == [GroupEntry(h) EXCEPT !.blk = block_NO']
  <2>1. h \in Groups /\ GroupEntry(h) \in Record /\ GroupEntry(h).kind = "group"
        /\ GroupEntry(h).to = h
    BY <1>9, GroupEntryType DEF SaveGroupEntry
  <2>2. log'[k] = e
    BY <1>1, <1>9, <2>1, AppendGrows DEF SaveGroupEntry
  <2>3. e.kind = "group" /\ e.to = h /\ e.prev = group[h].LastId
    BY <2>1 DEF GroupEntry
  <2>4. group' = [group EXCEPT ![h] = NextGroupIndex(@, GroupEntry(h), k)]
    BY <1>9, <2>1 DEF SaveGroupEntry, ExecGroup
  <2>5. group'[h].LastId = k /\ \A g \in Groups \ {h} : group'[g] = group[g]
    BY <2>1, <2>4 DEF TypeOK, GroupIndexes, NextGroupIndex
  <2> HIDE DEF e, h
  <2>6. IsNewest(k, GroupIn(log', h, k))
    <3>1. k \in GroupIn(log', h, k) BY <1>1, <1>3, <2>2, <2>3 DEF GroupIn
    <3>2. \A j \in GroupIn(log', h, k) : j <= k BY DEF GroupIn
    <3>3. k # 0 BY <1>1
    <3> QED BY <3>1, <3>2, <3>3 DEF IsNewest
  <2>7. \A g \in Groups : IsNewest(group'[g].LastId, GroupIn(log', g, k))
    <3> TAKE g \in Groups
    <3>1. CASE g = h BY <2>5, <2>6, <3>1
    <3>2. CASE g # h BY <1>7, <1>8, <2>2, <2>3, <2>5, <3>2
    <3> QED BY <3>1, <3>2
  <2>8. IsNewest(log'[k].prev, GroupIn(log', log'[k].to, k - 1))
    <3>1. k - 1 = n /\ n \in 0..n BY <1>1
    <3> QED BY <1>5, <1>8, <2>1, <2>2, <2>3, <3>1
  <2>9. \A i \in 1..Len(log') : log'[i].kind = "group" => IsNewest(log'[i].prev, GroupIn(log', log'[i].to, i - 1))
    BY <1>3, <1>4, <1>6, <2>8
  <2> QED BY <1>3, <2>7, <2>9 DEF GroupsWhole
<1>10. CASE ~SaveGroupEntry
  <2>1. log'[k].kind # "group" /\ group' = group
    <3>1. ASSUME NEW u, log'[k] = [PeerEntry(u) EXCEPT !.blk = block_NO'] PROVE log'[k].kind # "group"
      BY <3>1 DEF PeerEntry
    <3>2. SavePeerEntry => group' = group BY DEF SavePeerEntry
    <3> QED BY <1>1, <1>2, <1>10, <3>1, <3>2, LogStep
  <2>2. \A g \in Groups : IsNewest(group'[g].LastId, GroupIn(log', g, k))
    BY <1>7, <1>8, <2>1
  <2>3. \A i \in 1..Len(log') : log'[i].kind = "group" => IsNewest(log'[i].prev, GroupIn(log', log'[i].to, i - 1))
    BY <1>3, <1>4, <1>6, <2>1
  <2> QED BY <1>3, <2>2, <2>3 DEF GroupsWhole
<1> QED BY <1>9, <1>10

\* The empty index of an empty log.
LEMMA WholeEmpty == GroupsWhole(<< >>, NoGroups)
<1>1. \A g, n : GroupIn(<< >>, g, n) = {}
  BY DEF GroupIn
<1>2. \A g \in Groups : NoGroups[g].LastId = 0
  BY DEF NoGroups, ZeroGroup
<1>3. \A i \in 1..Len(<< >>) : FALSE
  OBVIOUS
<1> QED BY <1>1, <1>2, <1>3 DEF GroupsWhole, IsNewest

\* Every step keeps the groups of a first run whole.
LEMMA FirstStep ==
  ASSUME FInv, [Next]_vars
  PROVE  FInv'
<1>1. TypeOK' /\ TypeOK
  BY StepType DEF FInv
<1>2. scan \in Nat \ {0} /\ starts \in Nat
  BY Parts, <1>1 DEF TypeOK
<1> DEFINE Flushing == flush # Idle => phase \in {"boot", "up"}
<1> SUFFICES FirstRun' /\ Flushing'
  BY <1>1 DEF FInv
<1>3. CASE SaveNext
  <2>1. phase = "up" /\ UNCHANGED <<phase, starts, flush, diskPeer, diskGroup>>
    BY <1>3 DEF SaveNext, SaveBody, SavePeerEntry, SaveGroupEntry, diskVars
  <2>2. starts <= 1 => GroupsWhole(log', group')
    BY <1>1, <1>3, <2>1, WholeSave DEF FInv, FirstRun
  <2>3. starts <= 1 => starts # 0
    BY <2>1 DEF FInv, FirstRun
  <2> QED BY <2>1, <2>2, <2>3 DEF FInv, FirstRun, Stages
<1>4. CASE FlushNext
  <2>1. ASSUME NEW by, BeginFlush(by), phase \in {"boot", "up"},
               UNCHANGED <<log, group, phase, starts, diskPeer, diskGroup>>
        PROVE  FirstRun' /\ Flushing'
    BY <2>1 DEF FInv, FirstRun
  <2>2. CASE TimerFlush \/ Stop \/ BootFlush
    BY <2>1, <2>2 DEF TimerFlush, Stop, BootFlush, logVars, indexVars, diskVars
  <2>3. CASE SavePeerIndexFile
    <3>1. /\ flush # Idle /\ UNCHANGED <<log, group, phase, starts>>
      BY <2>3 DEF SavePeerIndexFile, logVars, indexVars
    <3>2. phase \in {"boot", "up"} /\ phase # "down"
      BY <3>1 DEF FInv
    <3> QED BY <3>1, <3>2 DEF FInv, FirstRun
  <2>4. CASE SaveGroupIndexFile
    <3>1. /\ flush # Idle /\ UNCHANGED <<log, group, starts>> /\ phase' = "up" /\ flush' = Idle
      BY <2>4 DEF SaveGroupIndexFile, logVars, indexVars
    <3>2. phase \in {"boot", "up"} /\ phase # "down"
      BY <3>1 DEF FInv
    <3>3. starts <= 1 => GroupsWhole(log, group)
      BY <3>2, WholeEmpty DEF FInv, FirstRun
    <3> QED BY <3>1, <3>2, <3>3 DEF FInv, FirstRun, Stages
  <2>5. CASE SaveGroupIndexFileAndExit
    <3>1. /\ flush # Idle /\ starts' = starts /\ phase' = "down" /\ flush' = Idle
      BY <2>5 DEF SaveGroupIndexFileAndExit, ProcessEnds
    <3>2. phase \in {"boot", "up"} /\ phase # "down"
      BY <3>1 DEF FInv
    <3> QED BY <3>1, <3>2 DEF FInv, FirstRun, Stages
  <2> QED BY <1>4, <2>2, <2>3, <2>4, <2>5 DEF FlushNext
<1>5. CASE ReadIndexFiles
  <2>1. /\ starts' = starts + 1 /\ phase' = FirstStage /\ UNCHANGED <<log, diskPeer, diskGroup, flush>>
        /\ phase = "down" /\ group' = IF r2 THEN diskGroup ELSE NoGroups
    BY <1>5 DEF ReadIndexFiles, logVars, diskVars
  <2>2. flush' = Idle /\ FirstStage \in Stages /\ FirstStage \notin {"down", "up"}
    BY <2>1 DEF FInv, FirstStage, Stages
  <2>3. starts' <= 1 => log = << >> /\ group' = NoGroups
    BY <1>2, <2>1 DEF FInv, FirstRun, r2
  <2> QED BY <1>2, <2>1, <2>2, <2>3 DEF FirstRun
<1>6. CASE ScanPeer \/ ScanGroup
  <2>1. /\ UNCHANGED <<log, starts, phase, flush>> /\ phase \in Stages /\ phase # "up" /\ phase # "down"
        /\ scan <= Len(log)
    BY <1>6 DEF ScanPeer, ScanGroup, logVars, Stages
  <2>2. ~(starts <= 1)
    <3>1. starts <= 1 => Len(log) = 0
      BY <2>1 DEF FInv, FirstRun
    <3> QED BY <1>2, <2>1, <3>1
  <2> QED BY <2>1, <2>2 DEF FInv, FirstRun
<1>7. CASE EndStage
  <2>1. UNCHANGED <<log, group, starts, flush>> /\ phase \in Stages /\ phase' = StageAfter(phase)
    BY <1>7 DEF EndStage, logVars, indexVars
  <2>2. phase' \in Stages \cup {"boot"} /\ phase' # "up" /\ phase' # "down" /\ flush = Idle /\ phase # "down"
    BY <2>1 DEF StageAfter, Stages, FInv
  <2> QED BY <2>1, <2>2 DEF FInv, FirstRun
<1>8. CASE BootDone
  <2>1. UNCHANGED <<log, group, starts, flush>> /\ phase = "boot" /\ phase' = "up"
    BY <1>8 DEF BootDone, logVars, indexVars
  <2>2. starts <= 1 => GroupsWhole(log, group)
    BY <2>1, WholeEmpty DEF FInv, FirstRun
  <2> QED BY <2>1, <2>2 DEF FInv, FirstRun, Stages
<1>9. CASE Crash
  <2>1. /\ phase # "down" /\ phase' = "down" /\ flush' = Idle /\ starts' = starts
    BY <1>9 DEF Crash, ProcessEnds
  <2> QED BY <2>1 DEF FInv, FirstRun, Stages
<1>10. CASE RemovePeerFile \/ RemoveGroupFile
  <2>1. /\ phase = "down" /\ UNCHANGED <<log, phase, flush, starts, group>>
        /\ diskPeer' \in {diskPeer, NoFile} /\ diskGroup' \in {diskGroup, NoFile}
    BY <1>10 DEF RemovePeerFile, RemoveGroupFile, logVars, indexVars
  <2> QED BY <2>1 DEF FInv, FirstRun
<1>11. CASE UNCHANGED vars
  BY <1>11 DEF vars, FInv, FirstRun
<1> QED BY <1>3, <1>4, <1>5, <1>6, <1>7, <1>8, <1>9, <1>10, <1>11 DEF Next, StartNext

\* It holds of every execution.
LEMMA FirstInvariant == Spec => []FInv
<1>1. Init => FInv
  BY InitType DEF Init, FInv, FirstRun, Stages
<1>2. FInv /\ [Next]_vars => FInv'
  BY FirstStep
<1>3. QED BY <1>1, <1>2, PTL DEF Spec

\* LoadGroupHistoryMessages follows the chain of a group's entries from the newest.
LEMMA GroupHistoryMeans ==
  ASSUME BInv, FInv, LimitsAssumption
  PROVE  GroupHistoryExact
<1> SUFFICES ASSUME phase = "up", starts = 1, NEW g \in Groups, NEW msgid \in SyncKeys,
                    NEW ts \in SyncKeys, NEW limit \in Limits
             PROVE  LET all == NewFor(GroupEntries(g, Len(log)), 0)
                        r == LoadGroupHistoryMessages(g, msgid, ts, limit)
                        new == {m \in all : m > msgid}
                    IN /\ Lists(r.messages, NewestOf({m \in new : msgid = 0 => m >= ts}, AtLeastOne(limit)))
                       /\ new # {} => r.last_msgid \in new /\ \A m \in new : m <= r.last_msgid
  BY DEF GroupHistoryExact
<1> DEFINE S == GroupIn(log, g, Len(log))
           start == group[g].LastId
           n == AtLeastOne(limit)
           oldest == IF msgid = 0 THEN Larger(0, ts - 1) ELSE msgid
           all == NewFor(S, 0)
           new == {m \in all : m > msgid}
           wanted == {m \in new : msgid = 0 => m >= ts}
<1>1. Len(log) \in Nat /\ n \in Nat \ {0} /\ Back("prev") /\ start \in Nat
      /\ msgid \in Nat /\ ts \in Nat /\ oldest \in Nat
  <2>1. Len(log) \in Nat /\ start \in Nat
    BY Parts DEF FInv
  <2>2. msgid \in Nat /\ ts \in Nat
    BY <2>1 DEF SyncKeys
  <2> QED BY <2>1, <2>2, AtLeast DEF BInv, Backs, Larger
<1>2. /\ S \in SUBSET (1..Len(log))
      /\ \A i \in S : i \in 1..Len(log) /\ log[i].kind = "group" /\ log[i].to = g
  BY DEF GroupIn
<1>3. \A i \in S : i > 0 /\ i > 1 /\ i \in Nat /\ log[i].msgid = i - 1
  BY <1>2 DEF BInv, GInv, Linked, LinkIn
<1>4. GroupsWhole(log, group)
  BY DEF FInv, FirstRun
<1>5. IsNewest(start, S) /\ start \in S \cup {0}
  BY <1>4 DEF GroupsWhole, IsNewest
<1>6. Chain(log, "prev", S)
  <2>1. ASSUME NEW i \in S PROVE GroupIn(log, g, i - 1) = {j \in S : j < i}
    BY <1>1, <1>2 DEF GroupIn
  <2>2. \A i \in S : IsNewest(log[i].prev, GroupIn(log, g, i - 1))
    BY <1>2, <1>4 DEF GroupsWhole
  <2>3. \A i \in S : IsNewest(log[i].prev, {j \in S : j < i})
    BY <2>1, <2>2, Zenon
  <2>4. \A i \in S : MsgidIn(log, i) = i - 1
    BY <1>3 DEF MsgidIn
  <2> QED BY <2>3, <2>4, Zenon DEF Chain
<1>7. GroupEntries(g, Len(log)) = S
  BY DEF GroupEntries, GroupIn
<1> HIDE DEF S, start, n, oldest
<1>8. /\ all = {j - 1 : j \in {i \in S : i - 1 > 0}} /\ all \in SUBSET Nat
      /\ start # 0 => MsgidOf(start) = start - 1
  <2>1. 0 \in Nat OBVIOUS
  <2> QED BY <1>1, <1>2, <1>3, <1>5, <2>1, NewIds
<1>9. /\ NewFor(S, oldest) = {j - 1 : j \in {i \in S : i - 1 > oldest}}
      /\ IdsOf(Newer(S, start, oldest)) = NewFor(S, oldest)
  BY <1>1, <1>2, <1>3, <1>5, NewIds
<1>10. IdsOf(Newer(S, start, oldest)) = wanted
  <2>1. \A j \in S : (j - 1 > 0 /\ j - 1 > msgid /\ (msgid = 0 => j - 1 >= ts)) <=> j - 1 > oldest
    BY <1>1, <1>3 DEF oldest, Larger
  <2>2. wanted = {j - 1 : j \in {i \in S : i - 1 > 0 /\ i - 1 > msgid /\ (msgid = 0 => i - 1 >= ts)}}
    BY <1>8
  <2> QED BY <1>9, <2>1, <2>2
<1>11. Listing(Msgids(FirstOf(Follow(start, "prev", oldest), n)), NewestOf(wanted, n))
  <2>1. Listing(Msgids(FirstOf(Follow(start, "prev", oldest), n)),
                NewestOf(IdsOf(Newer(S, start, oldest)), n))
    BY <1>1, <1>2, <1>5, <1>6, QueryLists
  <2> QED BY <1>10, <2>1
<1>12. Lists(Msgids(FirstOf(Follow(start, "prev", oldest), n)), NewestOf(wanted, n))
  <2>1. NewestOf(wanted, n) \in SUBSET Nat
    BY <1>8 DEF NewestOf
  <2> HIDE DEF wanted
  <2> QED BY <1>11, <2>1, ListingLists
<1>13. new # {} => MsgidOf(start) \in new /\ \A m \in new : m <= MsgidOf(start)
  <2> SUFFICES ASSUME new # {} PROVE MsgidOf(start) \in new /\ \A m \in new : m <= MsgidOf(start)
    OBVIOUS
  <2>1. start # 0 /\ start \in S /\ \A j \in S : j <= start
    BY <1>5, <1>8 DEF IsNewest
  <2>2. MsgidOf(start) \in all /\ \A m \in all : m <= MsgidOf(start)
    BY <1>3, <1>8, <2>1
  <2> QED BY <1>1, <1>8, <2>2
<1>14. /\ LoadGroupHistoryMessages(g, msgid, ts, limit).messages = Msgids(FirstOf(Follow(start, "prev", oldest), n))
       /\ LoadGroupHistoryMessages(g, msgid, ts, limit).last_msgid = MsgidOf(start)
  BY DEF LoadGroupHistoryMessages, start, oldest, n
<1> QED BY <1>7, <1>12, <1>13, <1>14 DEF n

\* LoadGroupHistoryMessages returns the newest messages after the sync key, and
\* to a new member none from before it joined.
THEOREM GroupHistoryAlwaysExact ==
  ASSUME LimitsAssumption PROVE Spec => []GroupHistoryExact
<1>1. BInv /\ FInv => GroupHistoryExact
  BY GroupHistoryMeans
<1> QED BY <1>1, BackInvariant, FirstInvariant, PTL

-----------------------------------------------------------------------------
\* LoadHistoryMessagesV3: what starts at the mark of the k-th batch fits in a limit of
\* k batches.

\* Division with remainder.
LEMMA Division ==
  ASSUME NEW b \in Nat \ {0}, NEW a \in Nat
  PROVE  \E q \in Nat, r \in Nat : a \div b = q /\ a % b = r /\ r < b /\ a = b * q + r
<1>1. PICK q \in Int, r \in Int : q = a \div b /\ r = a % b
  OBVIOUS
<1>2. r \in Nat /\ r < b
  BY <1>1
<1>3. a = b * q + r
  BY <1>1
<1>4. q >= 0
  <2>1. ASSUME q <= -1 PROVE FALSE
    <3>1. b * q <= b * (-1) BY <2>1
    <3> QED BY <1>2, <1>3, <3>1
  <2> QED BY <2>1
<1>5. q \in Nat /\ a \div b = q /\ a % b = r
  BY <1>1, <1>4
<1> QED BY <1>2, <1>3, <1>5, Zenon

\* The multiples of b up to a number.
LEMMA DivLeast ==
  ASSUME NEW b \in Nat \ {0}, NEW q \in Nat, NEW a \in Nat, b * q <= a
  PROVE  a \div b \in Nat /\ q <= a \div b
<1>1. PICK p \in Nat, r \in Nat : a \div b = p /\ r < b /\ a = b * p + r
  BY Division
<1>2. CASE p < q
  <2>1. b * (p + 1) <= b * q BY <1>1, <1>2
  <2>2. b * (p + 1) = b * p + b BY <1>1
  <2> QED BY <1>1, <2>1, <2>2
<1> QED BY <1>1, <1>2

\* A quotient grows by one at the multiples.
LEMMA DivNext ==
  ASSUME NEW b \in Nat \ {0}, NEW c \in Nat
  PROVE  c \div b \in Nat /\ (c + 1) \div b = c \div b + (IF (c + 1) % b = 0 THEN 1 ELSE 0)
<1>1. c \div b \in Nat
  BY Division
<1>2. (c + 1) \div b = c \div b + (IF (c + 1) % b = 0 THEN 1 ELSE 0)
  OBVIOUS
<1> QED BY <1>1, <1>2

\* Every BatchSize-th entry of a queue is a batch mark.
LEMMA MarksCounted ==
  ASSUME IInv, Numbered(log), NEW u \in Users, NEW n \in 0..Len(log)
  PROVE  Cardinality(MarksIn(log, u, n)) = Cardinality(EntriesIn(log, u, n)) \div BatchSize
<1> DEFINE E(i) == EntriesIn(log, u, i)
           M(i) == MarksIn(log, u, i)
           G == {i \in 0..Len(log) : Cardinality(M(i)) = Cardinality(E(i)) \div BatchSize}
<1>1. Len(log) \in Nat /\ log \in Seq(Record) /\ BatchSize \in Nat \ {0}
  BY Parts, StoreAssumption DEF IInv
<1>2. SUFFICES ASSUME G # 0..Len(log) PROVE FALSE
  OBVIOUS
<1>3. PICK m \in 0..Len(log) : m \notin G /\ \A k \in 0..Len(log) : k < m => k \in G
  <2>1. G \in SUBSET (0..Len(log)) OBVIOUS
  <2> HIDE DEF G
  <2> QED BY <1>1, <1>2, <2>1, FirstFailure
<1>4. Cardinality(M(m)) # Cardinality(E(m)) \div BatchSize
  BY <1>3
<1>5. \A i : E(i) \in SUBSET (1..Len(log)) /\ M(i) \subseteq E(i)
  BY DEF EntriesIn, MarksIn
<1>6. \A i : IsFiniteSet(E(i)) /\ Cardinality(E(i)) \in Nat /\ IsFiniteSet(M(i)) /\ Cardinality(M(i)) \in Nat
  <2> TAKE i
  <2>1. M(i) \in SUBSET (1..Len(log)) BY <1>5
  <2> HIDE DEF E, M
  <2> QED BY <1>1, <1>5, <2>1, EntriesFinite
<1>7. CASE m = 0
  <2>1. E(m) = {} BY <1>7 DEF EntriesIn
  <2>2. M(m) = {} BY <1>5, <2>1
  <2>3. Cardinality({}) = 0 BY FS_EmptySet
  <2>4. 0 \div BatchSize = 0 BY <1>1
  <2> QED BY <1>4, <2>1, <2>2, <2>3, <2>4
<1>8. CASE m # 0
  <2> DEFINE p == m - 1
             c == Cardinality(E(p))
  <2>1. p \in 0..Len(log) /\ p < m /\ m \in 1..Len(log) BY <1>1, <1>8
  <2>2. Cardinality(M(p)) = c \div BatchSize BY <1>3, <2>1
  <2>3. CASE ~(log[m].kind = "peer" /\ log[m].to = u)
    <3>1. E(m) = E(p)
      <4>1. \A j \in 1..Len(log) : j <= m <=> j <= p \/ j = m BY <2>1
      <4> QED BY <2>3, <4>1 DEF EntriesIn
    <3>2. M(m) = M(p) BY <3>1 DEF MarksIn
    <3> QED BY <1>4, <2>2, <3>1, <3>2
  <2>4. CASE log[m].kind = "peer" /\ log[m].to = u
    <3>1. E(m) = E(p) \cup {m} /\ m \notin E(p)
      <4>1. \A j \in 1..Len(log) : j <= m <=> j <= p \/ j = m BY <2>1
      <4>2. ~(m <= p) BY <2>1
      <4> QED BY <2>1, <2>4, <4>1, <4>2 DEF EntriesIn
    <3>2. Cardinality(E(m)) = c + 1
      <4> HIDE DEF E
      <4> QED BY <1>6, <3>1, FS_AddElement
    <3>3. log[m].seq = Cardinality(E(m))
      BY <2>1, <2>4 DEF Numbered
    <3>4. M(m) = IF (c + 1) % BatchSize = 0 THEN M(p) \cup {m} ELSE M(p)
      <4>1. log[m].seq % BatchSize = (c + 1) % BatchSize BY <3>2, <3>3
      <4> QED BY <3>1, <4>1 DEF MarksIn
    <3>5. m \notin M(p) BY <1>5, <3>1
    <3>6. Cardinality(M(m)) = Cardinality(M(p)) + (IF (c + 1) % BatchSize = 0 THEN 1 ELSE 0)
      <4> HIDE DEF M, c
      <4>1. CASE (c + 1) % BatchSize = 0
        BY <1>6, <3>4, <3>5, <4>1, FS_AddElement
      <4>2. CASE (c + 1) % BatchSize # 0
        <5>1. Cardinality(M(m)) = Cardinality(M(p)) BY <3>4, <4>2
        <5> QED BY <1>6, <4>2, <5>1
      <4> QED BY <4>1, <4>2
    <3>7. c \in Nat BY <1>6
    <3> HIDE DEF E, M, c
    <3>8. (c + 1) \div BatchSize = c \div BatchSize + (IF (c + 1) % BatchSize = 0 THEN 1 ELSE 0)
      BY <1>1, <3>7, DivNext
    <3> QED BY <1>4, <2>2, <3>2, <3>6, <3>8
  <2> QED BY <2>3, <2>4
<1> QED BY <1>7, <1>8

\* Sets without a common element.
LEMMA DisjointCount ==
  ASSUME NEW S, NEW T, IsFiniteSet(S), IsFiniteSet(T), S \cap T = {}
  PROVE  Cardinality(S \cup T) = Cardinality(S) + Cardinality(T)
<1>1. Cardinality(S \cup T) = Cardinality(S) + Cardinality(T) - Cardinality(S \cap T)
  BY FS_Union
<1>2. Cardinality(S \cap T) = 0
  BY FS_EmptySet
<1>3. Cardinality(S) \in Nat /\ Cardinality(T) \in Nat
  BY FS_CardinalityType
<1> QED BY <1>1, <1>2, <1>3

\* Among the entries after sync up to start there is at most one batch more
\* than there are marks, and none more when start is a mark.
LEMMA BatchWindow ==
  ASSUME IInv, Numbered(log), NEW u \in Users, NEW sync \in Nat,
         NEW start \in EntriesIn(log, u, Len(log))
  PROVE  LET t == Cardinality(Newer(EntriesIn(log, u, Len(log)), start, sync))
             k == Cardinality(Newer(MarksIn(log, u, Len(log)), start, sync))
         IN /\ t \in Nat /\ k \in Nat /\ t <= BatchSize * (k + 1)
            /\ start \in MarksIn(log, u, Len(log)) => t <= BatchSize * k
<1> DEFINE n == Len(log)
           p == IF sync + 1 <= n THEN sync + 1 ELSE n
           E == EntriesIn(log, u, n)
           M == MarksIn(log, u, n)
           T == Newer(E, start, sync)
           K == Newer(M, start, sync)
           Es == EntriesIn(log, u, start)
           Ms == MarksIn(log, u, start)
           Ep == EntriesIn(log, u, p)
           Mp == MarksIn(log, u, p)
<1>1. n \in Nat /\ log \in Seq(Record) /\ BatchSize \in Nat \ {0}
  BY Parts, StoreAssumption DEF IInv
<1>2. /\ E \in SUBSET (1..n) /\ M \subseteq E /\ start \in 1..n /\ p \in 0..n
      /\ Es = {j \in E : j <= start} /\ Ep = {j \in E : j <= p}
  BY <1>1 DEF EntriesIn, MarksIn
<1>3. Ms = {j \in M : j <= start} /\ Mp = {j \in M : j <= p}
  BY <1>2 DEF MarksIn
<1>4. /\ T \in SUBSET (1..n) /\ K \in SUBSET (1..n) /\ Es \in SUBSET (1..n) /\ Ms \in SUBSET (1..n)
      /\ Ep \in SUBSET (1..n) /\ Mp \in SUBSET (1..n)
  BY <1>2, <1>3 DEF Newer
<1>5. \A X \in SUBSET (1..n) : IsFiniteSet(X) /\ Cardinality(X) \in Nat
  BY <1>1, EntriesFinite
<1>6. CASE start - 1 > sync
  <2>1. p = sync + 1 /\ p < start
    BY <1>1, <1>2, <1>6
  <2>2. \A j \in 1..n : (j <= p <=> ~(j - 1 > sync)) /\ (j <= p => j <= start)
    BY <1>1, <1>2, <2>1
  <2>3. Es = Ep \cup T /\ Ep \cap T = {} /\ Ms = Mp \cup K /\ Mp \cap K = {}
    BY <1>2, <1>3, <2>2 DEF Newer
  <2> HIDE DEF E, M, T, K, Es, Ms, Ep, Mp, n
  <2>4. Cardinality(Es) = Cardinality(Ep) + Cardinality(T)
    <3>1. IsFiniteSet(Ep) /\ IsFiniteSet(T) BY <1>4, <1>5
    <3> QED BY <2>3, <3>1, DisjointCount
  <2>5. Cardinality(Ms) = Cardinality(Mp) + Cardinality(K)
    <3>1. IsFiniteSet(Mp) /\ IsFiniteSet(K) BY <1>4, <1>5
    <3> QED BY <2>3, <3>1, DisjointCount
  <2>6. Cardinality(Ms) = Cardinality(Es) \div BatchSize /\ Cardinality(Mp) = Cardinality(Ep) \div BatchSize
    <3>1. start \in 0..Len(log) /\ p \in 0..Len(log) BY <1>1, <1>2 DEF n
    <3> QED BY <3>1, MarksCounted DEF Es, Ms, Ep, Mp
  <2>7. start \in M => Cardinality(Es) % BatchSize = 0
    <3>1. ASSUME start \in M PROVE Cardinality(Es) % BatchSize = 0
      <4>1. log[start].seq % BatchSize = 0 /\ start \in 1..Len(log) /\ log[start].kind = "peer"
            /\ log[start].to = u
        BY <3>1 DEF M, MarksIn, EntriesIn, n
      <4>2. log[start].seq = Cardinality(Es)
        BY <4>1 DEF Numbered, Es
      <4> QED BY <4>1, <4>2
    <3> QED BY <3>1
  <2> DEFINE b == BatchSize
             t == Cardinality(T)
             k == Cardinality(K)
             a == Cardinality(Es)
             c == Cardinality(Ep)
  <2>8. t \in Nat /\ k \in Nat /\ a \in Nat /\ c \in Nat /\ b \in Nat \ {0} /\ a = c + t
        /\ a \div b = c \div b + k /\ (start \in M => a % b = 0)
    BY <1>1, <1>4, <1>5, <2>4, <2>5, <2>6, <2>7
  <2> HIDE DEF b, t, k, a, c
  <2>9. PICK q \in Nat, r \in Nat : a \div b = q /\ a % b = r /\ r < b /\ a = b * q + r
    BY <2>8, Division
  <2>10. PICK v \in Nat, w \in Nat : c \div b = v /\ c % b = w /\ w < b /\ c = b * v + w
    BY <2>8, Division
  <2>11. q = v + k /\ b \in Nat /\ k \in Nat /\ t \in Nat /\ t = a - c
    BY <2>8, <2>9, <2>10
  <2>12. b * q = b * v + b * k /\ b * (k + 1) = b * k + b
    BY <2>11
  <2>13. t = b * k + r - w
    BY <2>9, <2>10, <2>11, <2>12
  <2>14. b * k \in Nat
    BY <2>11
  <2>15. t <= b * (k + 1) /\ (start \in M => t <= b * k)
    <3>1. start \in M => r = 0 BY <2>8, <2>9
    <3> QED BY <2>8, <2>9, <2>10, <2>12, <2>13, <2>14, <3>1
  <2> QED BY <2>8, <2>15 DEF b, t, k, T, K, E, M, n
<1>7. CASE ~(start - 1 > sync)
  <2>1. T = {} /\ K = {}
    <3>1. \A j \in 1..n : ~(j <= start /\ j - 1 > sync) BY <1>2, <1>7
    <3> QED BY <1>2, <3>1 DEF Newer
  <2>2. Cardinality(T) = 0 /\ Cardinality(K) = 0 BY <2>1, FS_EmptySet
  <2>3. 0 <= BatchSize * (0 + 1) /\ 0 <= BatchSize * 0 BY <1>1
  <2> HIDE DEF T, K
  <2>4. /\ Cardinality(T) \in Nat /\ Cardinality(K) \in Nat
        /\ Cardinality(T) <= BatchSize * (Cardinality(K) + 1)
        /\ Cardinality(T) <= BatchSize * Cardinality(K)
    BY <2>2, <2>3
  <2> QED BY <2>4 DEF T, K
<1> QED BY <1>6, <1>7

\* The batch marks of u after sync, newest first.
BatchIds(u, sync) == Follow(peer[u].last_batch_id, "prevBatch", sync)

\* The set of them.
MarksAfter(u, sync) == {j \in MarksIn(log, u, Len(log)) : j - 1 > sync}

\* Where LoadHistoryMessagesV3 starts that looks back k batches among the marks f.
StartAt(u, f, k) == IF Len(f) >= k THEN f[Len(f) - k + 1] ELSE peer[u].last_id

\* What is needed of the entries of a user.
LEMMA Entries ==
  ASSUME IInv, phase = "up", NEW u \in Users
  PROVE  LET E == EntriesIn(log, u, Len(log))
             M == MarksIn(log, u, Len(log))
         IN /\ IsNewest(peer[u].last_id, E) /\ peer[u].last_id \in E \cup {0}
            /\ IsNewest(peer[u].last_batch_id, M) /\ peer[u].last_batch_id \in M \cup {0}
            /\ peer[u].last_id \in Nat /\ Len(log) \in Nat
            /\ E \in SUBSET (1..Len(log)) /\ M \in SUBSET (1..Len(log)) /\ M \subseteq E
            /\ \A i \in E : i > 0 /\ i \in Nat /\ log[i].msgid = i - 1
            /\ PeerEntries(u, Len(log)) = E
<1> DEFINE E == EntriesIn(log, u, Len(log))
           M == MarksIn(log, u, Len(log))
<1>1. /\ Len(log) \in Nat /\ E \in SUBSET (1..Len(log)) /\ M \subseteq E /\ Chain(log, "prev", E)
      /\ \A i \in E : i > 0 /\ i \in Nat
  BY QueueChains
<1>2. M \in SUBSET (1..Len(log))
  BY <1>1
<1>3. IsNewest(peer[u].last_id, E) /\ IsNewest(peer[u].last_batch_id, M)
  <2>1. ExactIn(log, peer[u], u, Len(log))
    BY DEF IInv, MemoryOK, ExactPeers
  <2> QED BY <2>1 DEF ExactIn
<1>4. PeerEntries(u, Len(log)) = E
  BY DEF PeerEntries, EntriesIn
<1> HIDE DEF E, M
<1>5. \A i \in E : i > 0 /\ i \in Nat /\ log[i].msgid = i - 1
  <2>1. \A i \in E : i # 0 BY <1>1
  <2> QED BY <1>1, <2>1, Zenon DEF Chain, MsgidIn
<1>6. peer[u].last_id \in E \cup {0} /\ peer[u].last_batch_id \in M \cup {0}
  BY <1>3 DEF IsNewest
<1>7. peer[u].last_id \in Nat
  BY Parts DEF IInv
<1> QED BY <1>1, <1>2, <1>3, <1>4, <1>5, <1>6, <1>7 DEF E, M

\* The marks after sync, newest first.
LEMMA BatchIdsList ==
  ASSUME IInv, Backs, phase = "up", NEW u \in Users, NEW sync \in Nat
  PROVE  /\ Listing(BatchIds(u, sync), MarksAfter(u, sync))
         /\ MarksAfter(u, sync) \in SUBSET Nat
<1> DEFINE M == MarksIn(log, u, Len(log))
           b == peer[u].last_batch_id
           N == {j \in M : j - 1 > sync}
<1>1. IsNewest(b, M) /\ b \in M \cup {0} /\ M \in SUBSET (1..Len(log)) /\ Len(log) \in Nat
  BY Entries
<1>2. Chain(log, "prevBatch", M) /\ Back("prevBatch")
  BY QueueChains DEF Backs
<1> HIDE DEF M, b
<1>3. Listing(Follow(b, "prevBatch", sync), Newer(M, b, sync))
  BY <1>1, <1>2, FollowLists
<1>4. \A j \in M : j <= b /\ j \in Nat
  BY <1>1 DEF IsNewest
<1>5. Newer(M, b, sync) = N
  BY <1>4 DEF Newer
<1>6. N \in SUBSET Nat
  BY <1>4
<1> QED BY <1>3, <1>5, <1>6 DEF BatchIds, MarksAfter, M, b

\* The answer starts at a mark after sync or at the newest entry; there are k
\* marks up to that mark, or fewer than k in all.
LEMMA StartKinds ==
  ASSUME IInv, Backs, phase = "up", NEW u \in Users, NEW sync \in Nat, NEW k \in Nat \ {0},
         NEW f, Listing(f, MarksAfter(u, sync)),
         NEW start, start = StartAt(u, f, k)
  PROVE  LET M == MarksIn(log, u, Len(log)) IN
         \/ start \in M /\ start - 1 > sync /\ Cardinality(Newer(M, start, sync)) = k
         \/ start = peer[u].last_id /\ Cardinality(Newer(M, start, sync)) + 1 <= k
<1> DEFINE M == MarksIn(log, u, Len(log))
           N == {j \in M : j - 1 > sync}
<1>1. /\ M \in SUBSET (1..Len(log)) /\ Len(log) \in Nat /\ M \subseteq EntriesIn(log, u, Len(log))
      /\ IsNewest(peer[u].last_id, EntriesIn(log, u, Len(log)))
  BY Entries
<1>2. N \in SUBSET Nat /\ \A j \in N : j \in M /\ j \in Nat /\ j - 1 > sync
  BY <1>1
<1> HIDE DEF N
<1>7. Listing(f, N)
  BY DEF MarksAfter, N
<1>3. IsFiniteSet(N) /\ Cardinality(N) = Len(f) /\ Len(f) \in Nat /\ f \in Seq(N)
  BY <1>2, <1>7, ListCount DEF Listing
<1>4. CASE Len(f) >= k
  <2> DEFINE a == Len(f) - k + 1
             U == {x \in N : x > start}
             K == Newer(M, start, sync)
  <2>1. a \in 1..Len(f) /\ start = f[a] /\ start \in N /\ a - 1 = Len(f) - k
    BY <1>3, <1>4 DEF StartAt
  <2>2. Cardinality(U) = Len(f) - k
    <3>1. Cardinality({x \in N : x > f[a]}) = a - 1
      BY <1>2, <1>7, <2>1, ListRank
    <3> QED BY <2>1, <3>1
  <2>3. K = N \ U /\ U \subseteq N
    <3>1. \A j \in M : j \in Nat BY <1>1
    <3>2. \A j \in M : j <= start <=> ~(j > start) BY <1>2, <2>1, <3>1
    <3> QED BY <3>2 DEF Newer, N
  <2> HIDE DEF U, K
  <2>4. IsFiniteSet(U) /\ IsFiniteSet(K)
    <3>1. U \in SUBSET N /\ K \in SUBSET N BY <2>3
    <3> QED BY <1>3, <3>1, FS_Subset
  <2>5. K \cup U = N /\ K \cap U = {}
    BY <2>3
  <2>6. Cardinality(N) = Cardinality(K) + Cardinality(U) /\ Cardinality(K) \in Nat
    BY <2>4, <2>5, DisjointCount, FS_CardinalityType
  <2>7. Cardinality(K) = k
    BY <1>3, <2>2, <2>6
  <2> QED BY <1>2, <2>1, <2>7 DEF K
<1>5. CASE ~(Len(f) >= k)
  <2>1. start = peer[u].last_id
    BY <1>5 DEF StartAt
  <2>2. \A j \in M : j <= start
    BY <1>1, <2>1 DEF IsNewest
  <2>3. Newer(M, start, sync) = N
    BY <2>2 DEF Newer, N
  <2> QED BY <1>3, <1>5, <2>1, <2>3
<1> QED BY <1>4, <1>5

\* An answer ends on a new message, and says whether there are more.
LEMMA Progress ==
  ASSUME IInv, phase = "up", NEW u \in Users, NEW sync \in Nat, NEW start,
         \/ start \in MarksIn(log, u, Len(log)) /\ start - 1 > sync
         \/ start = peer[u].last_id
  PROVE  LET new == NewFor(PeerEntries(u, Len(log)), sync) IN
         /\ new \in SUBSET Nat
         /\ new # {} => MsgidOf(start) \in new
         /\ start > 0 /\ start < peer[u].last_id <=> \E m \in new : m > MsgidOf(start)
<1> DEFINE E == EntriesIn(log, u, Len(log))
           last == peer[u].last_id
           N == {i \in E : i - 1 > sync}
           new == NewFor(PeerEntries(u, Len(log)), sync)
<1>1. /\ IsNewest(last, E) /\ last \in E \cup {0} /\ last \in Nat /\ Len(log) \in Nat
      /\ E \in SUBSET (1..Len(log)) /\ PeerEntries(u, Len(log)) = E
      /\ \A i \in E : i > 0 /\ i \in Nat /\ log[i].msgid = i - 1
  BY Entries
<1>2. start \in E \cup {0} /\ (start # last => start \in N)
  <2>1. MarksIn(log, u, Len(log)) \subseteq E BY DEF MarksIn
  <2> QED BY <1>1, <2>1
<1> HIDE DEF E, last
<1>3. /\ new = {j - 1 : j \in N} /\ new \in SUBSET Nat
      /\ start # 0 => MsgidOf(start) = start - 1
  BY <1>1, <1>2, NewIds
<1>4. start \in Nat /\ (start = 0 => MsgidOf(start) = 0)
  BY <1>1, <1>2 DEF MsgidOf
<1>5. \A j \in E : j <= last /\ last \in E
  BY <1>1 DEF IsNewest
<1>6. ASSUME new # {} PROVE MsgidOf(start) \in new
  <2>1. PICK j \in N : TRUE BY <1>3, <1>6
  <2>2. last \in N BY <1>1, <1>5, <2>1
  <2>3. start \in N /\ start # 0 BY <1>1, <1>2, <2>2
  <2> QED BY <1>3, <2>3
<1>7. ASSUME start > 0, start < last PROVE \E m \in new : m > MsgidOf(start)
  <2>1. start \in N /\ start # 0 BY <1>1, <1>2, <1>4, <1>7
  <2>2. last \in N /\ last - 1 > start - 1 BY <1>1, <1>4, <1>5, <1>7, <2>1
  <2> QED BY <1>3, <2>1, <2>2
<1>8. ASSUME NEW m \in new, m > MsgidOf(start) PROVE start > 0 /\ start < last
  <2>1. PICK j \in N : m = j - 1 BY <1>3
  <2>2. j \in E /\ j \in Nat /\ j <= last /\ last \in E BY <1>1, <1>5, <2>1
  <2>3. start # 0
    <3>1. last # 0 BY <1>1, <2>2
    <3>2. CASE start = last BY <3>1, <3>2
    <3>3. CASE start # last BY <1>1, <1>2, <3>3
    <3> QED BY <3>2, <3>3
  <2>4. j - 1 > start - 1 BY <1>3, <1>8, <2>1, <2>3
  <2> QED BY <1>1, <1>4, <2>2, <2>3, <2>4
<1> QED BY <1>3, <1>6, <1>7, <1>8 DEF last

\* An answer that follows all entries from start is in full, when they are not
\* more than the limit.
LEMMA FullAnswer ==
  ASSUME IInv, Backs, phase = "up", NEW u \in Users, NEW sync \in Nat, NEW limit \in Nat, NEW start,
         \/ start \in MarksIn(log, u, Len(log)) /\ start - 1 > sync
         \/ start = peer[u].last_id,
         limit = 0 \/ Cardinality(Newer(EntriesIn(log, u, Len(log)), start, sync)) <= limit,
         NEW r, r.messages = Msgids(FirstOf(Follow(start, "prev", sync), limit)),
         r.last_msgid = MsgidOf(start),
         r.hasMore <=> start > 0 /\ start < peer[u].last_id
  PROVE  LET new == NewFor(PeerEntries(u, Len(log)), sync) IN
         /\ AnswersInFull(r, new, limit)
         /\ {m \in new : m <= r.last_msgid} \subseteq ToSet(r.messages)
<1> DEFINE E == EntriesIn(log, u, Len(log))
           new == NewFor(PeerEntries(u, Len(log)), sync)
           T == Newer(E, start, sync)
           found == Follow(start, "prev", sync)
           upTo == {m \in new : m <= MsgidOf(start)}
<1>1. /\ Len(log) \in Nat /\ E \in SUBSET (1..Len(log)) /\ PeerEntries(u, Len(log)) = E
      /\ \A i \in E : i > 0 /\ i \in Nat /\ log[i].msgid = i - 1
  BY Entries
<1>2. start \in E \cup {0}
  <2>1. MarksIn(log, u, Len(log)) \subseteq E /\ peer[u].last_id \in E \cup {0} BY Entries
  <2> QED BY <2>1
<1>3. Chain(log, "prev", E) /\ Back("prev")
  BY QueueChains DEF Backs
<1> HIDE DEF E
<1>4. /\ Listing(Msgids(found), IdsOf(T)) /\ IdsOf(T) \in SUBSET Nat
      /\ Len(found) \in Nat /\ Cardinality(T) = Len(found)
  BY <1>1, <1>2, <1>3, QueryLists
<1>5. IdsOf(T) = upTo
  <2>1. IdsOf(T) = {m \in NewFor(E, sync) : m <= MsgidOf(start)}
    BY <1>1, <1>2, NewIds
  <2> QED BY <1>1, <2>1
<1>6. FirstOf(found, limit) = found
  BY <1>4 DEF FirstOf, E
<1> HIDE DEF T, found, upTo
<1>7. Lists(r.messages, upTo)
  BY <1>4, <1>5, <1>6, ListingLists DEF found
<1>8. limit > 0 => Len(r.messages) <= limit
  <2>1. Len(Msgids(found)) = Len(found)
    BY <1>4 DEF Msgids
  <2> QED BY <1>4, <1>6, <2>1 DEF found, T, E
<1>9. /\ new # {} => r.last_msgid \in new
      /\ r.hasMore <=> \E m \in new : m > r.last_msgid
  BY Progress
<1> HIDE DEF new
<1>10. AnswersInFull(r, new, limit)
  BY <1>7, <1>8, <1>9 DEF AnswersInFull, upTo
<1>11. upTo = ToSet(r.messages)
  BY <1>7 DEF Lists
<1> QED BY <1>10, <1>11 DEF new, upTo

\* The answer of LoadHistoryMessagesV3 that follows all links.
LEMMA UnlimitedAnswer ==
  ASSUME IInv, Backs, Numbered(log), phase = "up", NEW u \in Users, NEW sync \in Nat,
         NEW limit \in Nat, limit = 0 \/ limit >= BatchSize,
         NEW k, k = IF limit < BatchSize THEN 1 ELSE limit \div BatchSize,
         NEW start, start = StartAt(u, BatchIds(u, sync), k),
         NEW r, r.messages = Msgids(FirstOf(Follow(start, "prev", sync), limit)),
         r.last_msgid = MsgidOf(start),
         r.hasMore <=> start > 0 /\ start < peer[u].last_id
  PROVE  LET new == NewFor(PeerEntries(u, Len(log)), sync) IN
         /\ AnswersInFull(r, new, limit)
         /\ {m \in new : m <= r.last_msgid} \subseteq ToSet(r.messages)
<1> DEFINE E == EntriesIn(log, u, Len(log))
           M == MarksIn(log, u, Len(log))
           t == Cardinality(Newer(E, start, sync))
           c == Cardinality(Newer(M, start, sync))
<1>1. BatchSize \in Nat \ {0}
  BY StoreAssumption
<1>2. k \in Nat \ {0} /\ (limit # 0 => BatchSize * k <= limit)
  <2>1. CASE limit < BatchSize BY <1>1, <2>1
  <2>2. CASE ~(limit < BatchSize)
    <3>1. PICK q \in Nat, r0 \in Nat : limit \div BatchSize = q /\ r0 < BatchSize /\ limit = BatchSize * q + r0
      BY <1>1, Division
    <3>2. 1 <= limit \div BatchSize
      <4>1. BatchSize * 1 <= limit BY <1>1, <2>2
      <4> QED BY <1>1, <4>1, DivLeast
    <3>3. k = q /\ q >= 1 BY <2>2, <3>1, <3>2
    <3>4. BatchSize * q \in Nat BY <1>1
    <3>5. BatchSize * q <= limit BY <3>1, <3>4
    <3> QED BY <3>3, <3>5
  <2> QED BY <2>1, <2>2
<1>3. \/ start \in M /\ start - 1 > sync /\ c = k
      \/ start = peer[u].last_id /\ c + 1 <= k
  <2>1. Listing(BatchIds(u, sync), MarksAfter(u, sync))
    BY BatchIdsList
  <2> QED BY <1>2, <2>1, StartKinds
<1>4. limit = 0 \/ t <= limit
  <2>1. SUFFICES ASSUME limit # 0 PROVE t <= limit
    OBVIOUS
  <2>2. CASE start \in E
    <3>1. t \in Nat /\ c \in Nat /\ t <= BatchSize * (c + 1) /\ (start \in M => t <= BatchSize * c)
      BY <2>2, BatchWindow
    <3>2. CASE start \in M /\ c = k
      BY <1>1, <1>2, <2>1, <3>1, <3>2
    <3>3. CASE c + 1 <= k
      <4>1. BatchSize * (c + 1) <= BatchSize * k BY <1>1, <1>2, <3>1, <3>3
      <4>2. BatchSize * (c + 1) \in Nat /\ BatchSize * k \in Nat BY <1>1, <1>2, <3>1
      <4> QED BY <1>2, <2>1, <3>1, <4>1, <4>2
    <3> QED BY <1>3, <3>2, <3>3
  <2>3. CASE start \notin E
    <3>1. start = 0
      <4>1. M \subseteq E /\ peer[u].last_id \in E \cup {0} BY Entries
      <4> QED BY <1>3, <2>3, <4>1
    <3>2. Newer(E, start, sync) = {}
      <4>1. \A i \in E : i \in Nat /\ i > 0 BY Entries
      <4> QED BY <3>1, <4>1 DEF Newer
    <3>3. t = 0
      BY <3>2, FS_EmptySet
    <3> QED BY <2>1, <3>3
  <2> QED BY <2>2, <2>3
<1> HIDE DEF t, c, M, E
<1>5. (start \in M /\ start - 1 > sync) \/ start = peer[u].last_id
  BY <1>3
<1> QED BY <1>4, <1>5, FullAnswer DEF t, E, M

\* LoadHistoryMessagesV3 without a hard limit answers in full.
LEMMA SyncMeans ==
  ASSUME IInv, Backs, Numbered(log), LimitsAssumption
  PROVE  SyncLeavesNoGap
<1> SUFFICES ASSUME phase = "up", NEW u \in Users, NEW sync \in SyncKeys, NEW limit \in Limits,
                    limit = 0 \/ limit >= BatchSize
             PROVE  AnswersInFull(LoadHistoryMessagesV3(u, sync, limit, 0),
                                  NewFor(PeerEntries(u, Len(log)), sync), limit)
  BY DEF SyncLeavesNoGap
<1> DEFINE r == LoadHistoryMessagesV3(u, sync, limit, 0)
           k == IF limit < BatchSize THEN 1 ELSE limit \div BatchSize
           f == BatchIds(u, sync)
           start == StartAt(u, f, k)
<1>1. BatchSize \in Nat \ {0} /\ limit \in Nat /\ sync \in Nat /\ 0 \div BatchSize = 0
  <2>1. Len(log) \in Nat BY Parts DEF IInv
  <2> QED BY <2>1, StoreAssumption DEF LimitsAssumption, SyncKeys
<1>2. FirstOf(f, 0 \div BatchSize) = f /\ ~(0 \div BatchSize > 0)
  BY <1>1 DEF FirstOf
<1>3. /\ r.messages = Msgids(FirstOf(Follow(start, "prev", sync), limit))
      /\ r.last_msgid = MsgidOf(start)
      /\ r.hasMore <=> start > 0 /\ start < peer[u].last_id
  BY <1>2 DEF LoadHistoryMessagesV3, StartAt, BatchIds
<1> HIDE DEF r, k, f, start
<1>4. k = IF limit < BatchSize THEN 1 ELSE limit \div BatchSize
  BY DEF k
<1>5. start = StartAt(u, BatchIds(u, sync), k)
  BY DEF start, f
<1> QED BY <1>1, <1>3, <1>4, <1>5, UnlimitedAnswer DEF r

\* LoadHistoryMessagesV3 leaves no gap between an answer and the next.
THEOREM SyncNeverLeavesGap ==
  ASSUME ~EmptyStop, LimitsAssumption PROVE Spec => []SyncLeavesNoGap
<1>1. Init => Numbered(log)
  BY DEF Init, Numbered
<1>2. IInv /\ IInv' /\ Numbered(log) /\ [Next]_vars => Numbered(log)'
  BY NumberedStep
<1>3. IInv /\ BInv /\ Numbered(log) => SyncLeavesNoGap
  BY SyncMeans DEF BInv
<1>4. Spec => []IInv
  BY Invariant
<1> QED BY <1>1, <1>2, <1>3, <1>4, BackInvariant, PTL DEF Spec

\* An element more takes at most the place of one of the newest.
LEMMA NewestKept ==
  ASSUME NEW A, NEW B \in SUBSET Nat, IsFiniteSet(B), A \subseteq B,
         NEW x, B \subseteq A \cup {x}, NEW n \in Nat \ {0}
  PROVE  NewestOf(A, n - 1) \subseteq NewestOf(B, n)
<1> SUFFICES ASSUME NEW m \in NewestOf(A, n - 1) PROVE m \in NewestOf(B, n)
  OBVIOUS
<1> DEFINE P == {k \in A : k > m}
           Q == {k \in B : k > m}
<1>1. m \in A /\ m \in B /\ Cardinality(P) < n - 1
  BY DEF NewestOf
<1>2. P \subseteq Q /\ Q \subseteq P \cup {x} /\ Q \subseteq B
  OBVIOUS
<1> HIDE DEF P, Q
<1>3. IsFiniteSet(Q) /\ IsFiniteSet(P)
  <2>1. Q \in SUBSET B /\ P \in SUBSET B BY <1>2
  <2> QED BY <2>1, FS_Subset
<1>4. Cardinality(P) \in Nat /\ Cardinality(Q) \in Nat
  BY <1>3, FS_CardinalityType
<1>5. IsFiniteSet(P \cup {x}) /\ Cardinality(P \cup {x}) <= Cardinality(P) + 1
        /\ Cardinality(P \cup {x}) \in Nat
  <2>1. IsFiniteSet(P \cup {x})
    BY <1>3, FS_AddElement
  <2>2. Cardinality(P \cup {x}) = IF x \in P THEN Cardinality(P) ELSE Cardinality(P) + 1
    BY <1>3, FS_AddElement
  <2> QED BY <1>4, <2>1, <2>2
<1>6. Cardinality(Q) <= Cardinality(P \cup {x})
  BY <1>2, <1>5, FS_Subset
<1>7. Cardinality(Q) < n
  BY <1>1, <1>4, <1>5, <1>6
<1> QED BY <1>1, <1>7 DEF NewestOf, Q

\* The first n positions of a list.
LEMMA FirstPart ==
  ASSUME NEW T, NEW s \in Seq(T), NEW n \in Nat \ {0}
  PROVE  LET f == FirstOf(s, n) IN
         /\ Len(f) \in Nat /\ Len(f) <= n
         /\ Len(f) < n => f = s
         /\ \A a \in 1..Len(f) : f[a] \in T
<1>1. CASE Len(s) > n
  <2>1. FirstOf(s, n) = SubSeq(s, 1, n) BY <1>1 DEF FirstOf
  <2>2. Len(SubSeq(s, 1, n)) = n /\ \A a \in 1..n : SubSeq(s, 1, n)[a] = s[a] /\ s[a] \in T
    BY <1>1
  <2> QED BY <2>1, <2>2
<1>2. CASE ~(Len(s) > n)
  <2>1. FirstOf(s, n) = s BY <1>2 DEF FirstOf
  <2> QED BY <1>2, <2>1
<1> QED BY <1>1, <1>2

\* A direct message passed over is in the answer that follows prevPeer, when it
\* is one of the newest.
LEMMA DirectKept ==
  ASSUME IInv, Backs, phase = "up", NEW u \in Users, NEW sync \in Nat,
         NEW limit \in Nat \ {0},
         NEW start \in MarksIn(log, u, Len(log)), start - 1 > sync,
         NEW r, r.messages = Msgids(FirstOf(Follow(start, "prevPeer", sync), limit)),
         r.last_msgid = MsgidOf(start)
  PROVE  LET direct == {m \in NewFor(DirectEntries(u, Len(log)), sync) : m <= r.last_msgid}
         IN NewestOf(direct, limit - 1) \subseteq ToSet(r.messages)
<1> DEFINE E == EntriesIn(log, u, Len(log))
           D == DirectIn(log, u, Len(log))
           S == WithDirect(D, start)
           T == Newer(S, start, sync)
           M == IdsOf(T)
           direct == {m \in NewFor(DirectEntries(u, Len(log)), sync) : m <= r.last_msgid}
<1>1. /\ Len(log) \in Nat /\ E \in SUBSET (1..Len(log)) /\ D \subseteq E /\ start \in E
      /\ \A i \in E : i > 0 /\ i \in Nat /\ log[i].msgid = i - 1
      /\ Chain(log, "prevPeer", S) /\ Back("prevPeer")
  BY Entries, QueueChains DEF Backs
<1>2. DirectEntries(u, Len(log)) = D
  BY DEF DirectEntries, DirectIn, PeerEntries, EntriesIn
<1> HIDE DEF E, D
<1>3. S \in SUBSET (1..Len(log)) /\ start \in S \cup {0}
  BY <1>1 DEF WithDirect
<1> HIDE DEF S
<1>4. /\ Listing(Msgids(Follow(start, "prevPeer", sync)), M) /\ M \in SUBSET Nat
      /\ Listing(r.messages, NewestOf(M, limit))
  <2>1. /\ Listing(Msgids(Follow(start, "prevPeer", sync)), M) /\ M \in SUBSET Nat
        /\ \A n \in Nat \ {0} : Listing(Msgids(FirstOf(Follow(start, "prevPeer", sync), n)), NewestOf(M, n))
    BY <1>1, <1>3, QueryLists
  <2> QED BY <2>1
<1>5. IsFiniteSet(M)
  BY <1>4, ListCount
<1>6. ToSet(r.messages) = NewestOf(M, limit)
  <2>1. NewestOf(M, limit) \in SUBSET Nat BY <1>4 DEF NewestOf
  <2>2. Lists(r.messages, NewestOf(M, limit)) BY <1>4, <2>1, ListingLists
  <2> QED BY <2>2 DEF Lists
<1>7. r.last_msgid = start - 1 /\ start \in Nat
  BY <1>1 DEF MsgidOf
<1>8. NewFor(D, sync) = {j - 1 : j \in {i \in D : i - 1 > sync}}
  <2>1. D \in SUBSET (1..Len(log)) /\ \A i \in D : i > 0 /\ i \in Nat /\ log[i].msgid = i - 1
    BY <1>1
  <2> QED BY <1>1, <2>1, NewIds
<1>9. M = {j - 1 : j \in {i \in D : i < start /\ i - 1 > sync} \cup {start}}
  <2>1. T = {i \in D : i < start /\ i - 1 > sync} \cup {start}
    <3>1. \A i \in D : i \in Nat BY <1>1
    <3> QED BY <1>7, <3>1 DEF Newer, S, WithDirect
  <2> QED BY <2>1 DEF IdsOf
<1>10. direct \subseteq M
  <2>1. SUFFICES ASSUME NEW m \in direct PROVE m \in M
    OBVIOUS
  <2>2. m \in NewFor(D, sync) /\ m <= start - 1
    BY <1>2, <1>7
  <2>3. PICK j \in D : j - 1 > sync /\ m = j - 1
    BY <1>8, <2>2
  <2>4. j \in Nat /\ j <= start
    BY <1>1, <1>7, <2>2, <2>3
  <2>5. j \in {i \in D : i < start /\ i - 1 > sync} \cup {start}
    BY <1>7, <2>3, <2>4
  <2> QED BY <1>9, <2>3, <2>5
<1>11. M \subseteq direct \cup {start - 1}
  <2>1. SUFFICES ASSUME NEW j \in {i \in D : i < start /\ i - 1 > sync}
                 PROVE  j - 1 \in direct
    BY <1>9
  <2>2. j \in D /\ j \in Nat /\ j < start /\ j - 1 > sync BY <1>1
  <2>3. j - 1 \in NewFor(D, sync) BY <1>8, <2>2
  <2>4. j - 1 <= r.last_msgid BY <1>7, <2>2
  <2> QED BY <1>2, <2>3, <2>4
<1> HIDE DEF M, direct
<1>12. NewestOf(direct, limit - 1) \subseteq NewestOf(M, limit)
  BY <1>4, <1>5, <1>10, <1>11, NewestKept
<1> QED BY <1>6, <1>12 DEF direct

\* What the counts of batches are.
LEMMA BatchCounts ==
  ASSUME NEW b \in Nat \ {0}, NEW limit \in Nat, NEW hard \in Nat,
         limit >= b, hard >= 2 * limit
  PROVE  /\ limit \div b \in Nat \ {0} /\ hard \div b \in Nat \ {0}
         /\ limit \div b <= hard \div b
<1>1. 1 <= limit \div b /\ limit \div b \in Nat
  <2>1. b * 1 <= limit OBVIOUS
  <2> QED BY <2>1, DivLeast
<1>2. PICK q \in Nat, r \in Nat : limit \div b = q /\ limit = b * q + r
  BY Division
<1>3. b * q \in Nat /\ b * q <= limit
  <2>1. b * q \in Nat OBVIOUS
  <2> QED BY <1>2, <2>1
<1>4. b * q <= hard
  BY <1>3
<1>5. q <= hard \div b /\ hard \div b \in Nat
  BY <1>4, DivLeast
<1> QED BY <1>1, <1>2, <1>5

\* LoadHistoryMessagesV3 with a hard limit makes progress and keeps the newest
\* direct messages.
LEMMA HardMeans ==
  ASSUME IInv, Backs, Numbered(log), LimitsAssumption
  PROVE  HardLimitKeepsDirect
<1> SUFFICES ASSUME phase = "up", NEW u \in Users, NEW sync \in SyncKeys, NEW limit \in Limits,
                    NEW hard \in HardLimits, limit >= BatchSize, hard >= 2 * limit
             PROVE  LET r == LoadHistoryMessagesV3(u, sync, limit, hard)
                        new == NewFor(PeerEntries(u, Len(log)), sync)
                        direct == {m \in NewFor(DirectEntries(u, Len(log)), sync) : m <= r.last_msgid}
                    IN /\ new # {} => r.last_msgid \in new
                       /\ r.hasMore <=> \E m \in new : m > r.last_msgid
                       /\ NewestOf(direct, limit - 1) \subseteq ToSet(r.messages)
                       /\ r.is_peer \/ AnswersInFull(r, new, limit)
  BY DEF HardLimitKeepsDirect
<1> DEFINE r == LoadHistoryMessagesV3(u, sync, limit, hard)
           new == NewFor(PeerEntries(u, Len(log)), sync)
           direct == {m \in NewFor(DirectEntries(u, Len(log)), sync) : m <= r.last_msgid}
           k == limit \div BatchSize
           h == hard \div BatchSize
           f == BatchIds(u, sync)
           some == FirstOf(f, h)
           start == IF Len(some) >= k THEN some[Len(some) - k + 1] ELSE peer[u].last_id
<1>1. BatchSize \in Nat \ {0} /\ limit \in Nat \ {0} /\ sync \in Nat /\ hard \in Nat
  <2>1. Len(log) \in Nat BY Parts DEF IInv
  <2> QED BY <2>1, StoreAssumption DEF LimitsAssumption, SyncKeys
<1>2. k \in Nat \ {0} /\ h \in Nat \ {0} /\ k <= h
  BY <1>1, BatchCounts
<1>3. ~(limit < BatchSize)
  BY <1>1
<1>4. Listing(f, MarksAfter(u, sync))
  BY <1>1, BatchIdsList
<1>5. f \in Seq(MarksAfter(u, sync))
  BY <1>4 DEF Listing
<1>6. /\ r.is_peer <=> Len(some) >= h
      /\ r.messages = Msgids(FirstOf(Follow(start, IF r.is_peer THEN "prevPeer" ELSE "prev", sync), limit))
      /\ r.last_msgid = MsgidOf(start)
      /\ r.hasMore <=> start > 0 /\ start < peer[u].last_id
  <2> HIDE DEF h
  <2>1. /\ r.is_peer <=> h > 0 /\ Len(some) >= h /\ h >= k
        /\ r.messages = Msgids(FirstOf(IF r.is_peer THEN Follow(start, "prevPeer", sync)
                                       ELSE Follow(start, "prev", sync), limit))
        /\ r.last_msgid = MsgidOf(start)
        /\ r.hasMore <=> start > 0 /\ start < peer[u].last_id
    BY <1>3 DEF LoadHistoryMessagesV3, BatchIds, h
  <2> HIDE DEF r, k, start, some
  <2> QED BY <1>2, <2>1
<1> HIDE DEF r, k, h, f
<1>7. /\ Len(some) \in Nat /\ Len(some) <= h
      /\ Len(some) < h => some = f
      /\ \A a \in 1..Len(some) : some[a] \in MarksAfter(u, sync)
  BY <1>2, <1>5, FirstPart
<1> HIDE DEF some, start
<1>8. CASE Len(some) >= h
  <2>1. start \in MarksAfter(u, sync)
    <3>1. Len(some) - k + 1 \in 1..Len(some) /\ Len(some) >= k
      BY <1>2, <1>7, <1>8
    <3> QED BY <1>7, <3>1 DEF start
  <2>2. start \in MarksIn(log, u, Len(log)) /\ start - 1 > sync
    BY <2>1 DEF MarksAfter
  <2>3. (new # {} => MsgidOf(start) \in new)
        /\ (start > 0 /\ start < peer[u].last_id <=> \E m \in new : m > MsgidOf(start))
    BY <1>1, <2>2, Progress
  <2>4. r.is_peer /\ r.messages = Msgids(FirstOf(Follow(start, "prevPeer", sync), limit))
    BY <1>6, <1>8
  <2>5. NewestOf(direct, limit - 1) \subseteq ToSet(r.messages)
    BY <1>1, <1>6, <2>2, <2>4, DirectKept
  <2> QED BY <1>6, <2>3, <2>4, <2>5 DEF r
<1>9. CASE ~(Len(some) >= h)
  <2>1. some = f /\ ~r.is_peer
    BY <1>2, <1>6, <1>7, <1>9
  <2>2. start = StartAt(u, BatchIds(u, sync), k)
    BY <2>1 DEF start, StartAt, f
  <2>3. k = IF limit < BatchSize THEN 1 ELSE limit \div BatchSize
    BY <1>3 DEF k
  <2>4. r.messages = Msgids(FirstOf(Follow(start, "prev", sync), limit))
    BY <1>6, <2>1
  <2>5. AnswersInFull(r, new, limit) /\ {m \in new : m <= r.last_msgid} \subseteq ToSet(r.messages)
    BY <1>1, <1>6, <2>2, <2>3, <2>4, UnlimitedAnswer
  <2>6. direct \subseteq {m \in new : m <= r.last_msgid}
    <3>1. DirectEntries(u, Len(log)) \subseteq PeerEntries(u, Len(log))
      BY DEF DirectEntries
    <3> QED BY <3>1 DEF NewFor
  <2>7. NewestOf(direct, limit - 1) \subseteq direct
    BY DEF NewestOf
  <2>8. /\ new # {} => r.last_msgid \in new
        /\ r.hasMore <=> \E m \in new : m > r.last_msgid
    BY <2>5 DEF AnswersInFull
  <2> HIDE DEF new, direct
  <2>9. NewestOf(direct, limit - 1) \subseteq ToSet(r.messages)
    BY <2>5, <2>6, <2>7
  <2> QED BY <2>5, <2>8, <2>9 DEF r, new, direct
<1> QED BY <1>8, <1>9

\* With a hard limit LoadHistoryMessagesV3 keeps the newest direct messages.
THEOREM HardLimitAlwaysKeepsDirect ==
  ASSUME ~EmptyStop, LimitsAssumption PROVE Spec => []HardLimitKeepsDirect
<1>1. Init => Numbered(log)
  BY DEF Init, Numbered
<1>2. IInv /\ IInv' /\ Numbered(log) /\ [Next]_vars => Numbered(log)'
  BY NumberedStep
<1>3. IInv /\ BInv /\ Numbered(log) => HardLimitKeepsDirect
  BY HardMeans DEF BInv
<1>4. Spec => []IInv
  BY Invariant
<1> QED BY <1>1, <1>2, <1>3, <1>4, BackInvariant, PTL DEF Spec
=============================================================================
