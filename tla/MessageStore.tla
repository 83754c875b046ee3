---------------------------- MODULE MessageStore ----------------------------
(***************************************************************************)
(* The storage engine of one ims process: the append-only message log, the *)
(* in-memory index of the newest entry of every user and of every group,   *)
(* the two index files, and what happens to them when the process is       *)
(* stopped, killed and started again (ims/storage*.go, peer_storage.go,    *)
(* group_storage.go).                                                      *)
(*                                                                         *)
(* A message id is a byte offset in the block files.  Ids are compared and *)
(* followed, never computed with, so the model numbers the log records     *)
(* 1, 2, ... and keeps in each record the number of its block file.  How   *)
(* many records fit in a block is left open: any append may roll over.     *)
(* Deleted blocks, torn writes and log records of older releases           *)
(* (MSG_OFFLINE, _V2, _V3, MSG_GROUP_IM_LIST) are not modelled.            *)
(***************************************************************************)
EXTENDS Integers, Sequences, FiniteSets

CONSTANTS
  Users,      \* receivers of personal queues (appid and uid)
  Groups,     \* super groups, each with one shared queue
  BatchSize,  \* BATCH_SIZE: every BatchSize-th entry of a queue is a batch mark
  MaxLog,     \* bound: records in the log
  MaxBlock,   \* bound: number of the last block file
  MaxStarts,  \* bound: starts of the process
  EmptyStop,  \* may the process be told to stop before any user got a message
  NoFile      \* the index file does not exist

ASSUME StoreAssumption ==
  /\ BatchSize \in Nat \ {0}
  /\ MaxLog \in Nat
  /\ MaxBlock \in Nat
  /\ MaxStarts \in Nat
  /\ EmptyStop \in BOOLEAN
  /\ Users \cap Groups = {}

VARIABLES
  log,        \* the records of all block files, oldest first
  block_NO,   \* number of the block file being written
  saving,     \* the save holding the mutex between its two appends
  peer,       \* PeerStorage.message_index; absent and all-zero are the same
  group,      \* GroupStorage.message_index
  last_id,    \* StorageFile.last_id
  last_saved_id,
  diskPeer,   \* content of the peer index file
  diskGroup,  \* content of the group index file
  flush,      \* the flushIndex in progress and its two clones
  phase,      \* what the process does: down, a stage of NewStorage, or up
  scan,       \* next record a stage of NewStorage reads
  starts      \* how often the process was started

indexVars == <<peer, group, last_id>>
diskVars  == <<diskPeer, diskGroup>>
logVars   == <<log, block_NO, saving>>
vars == <<log, block_NO, saving, peer, group, last_id, last_saved_id,
          diskPeer, diskGroup, flush, phase, scan, starts>>

-----------------------------------------------------------------------------
\* Records.

Stages == {"repairPeer", "repairGroup", "createPeer", "createGroup"}
Kinds  == {"peer", "group"}

\* A log record: a message body, or the queue entry that follows it.  grp is
\* what isGroupMessage says of the message.
Record == [kind : Kinds \cup {"body"}, to : Users \cup Groups, grp : BOOLEAN,
           msgid : Nat, seq : Nat, prev : Nat, prevPeer : Nat,
           prevBatch : Nat, blk : Nat]

UserIndex  == [last_msgid : Nat, last_id : Nat, last_peer_id : Nat,
               last_batch_id : Nat, last_seq_id : Nat]
GroupIndex == [LastMsgid : Nat, LastId : Nat, LastBatchId : Nat,
               LastSeqId : Nat]

ZeroUser  == [last_msgid |-> 0, last_id |-> 0, last_peer_id |-> 0,
              last_batch_id |-> 0, last_seq_id |-> 0]
ZeroGroup == [LastMsgid |-> 0, LastId |-> 0, LastBatchId |-> 0, LastSeqId |-> 0]

PeerIndexes  == [Users -> UserIndex]
GroupIndexes == [Groups -> GroupIndex]

NoUsers  == [u \in Users |-> ZeroUser]
NoGroups == [g \in Groups |-> ZeroGroup]

NoSave == [kind |-> "none"]
Idle   == [by |-> "none"]

Larger(a, b) == IF a > b THEN a ELSE b

-----------------------------------------------------------------------------
\* Appending to the log and advancing an index.

\* saveMessage: when the record does not fit, the next block file is opened.
Append1(rec) ==
  \E roll \in BOOLEAN :
    /\ roll => block_NO < MaxBlock
    /\ block_NO' = IF roll THEN block_NO + 1 ELSE block_NO
    /\ log' = Append(log, [rec EXCEPT !.blk = block_NO'])

\* Mutant of NextUserIndex: the peer chain takes in group messages too.
NextUserIndexIgnoringFlag(x, rec, id) ==
  [last_msgid |-> rec.msgid, last_id |-> id, last_peer_id |-> id,
   last_batch_id |-> IF (x.last_seq_id + 1) % BatchSize = 0
                       THEN id ELSE x.last_batch_id,
   last_seq_id |-> x.last_seq_id + 1]

\* What an entry at position id makes of its receiver's index: the same in
\* SavePeerMessage and, when the log is replayed, in execMessage.
NextUserIndex(x, rec, id) ==
  [last_msgid    |-> rec.msgid,
   last_id       |-> id,
   last_peer_id  |-> IF rec.grp THEN x.last_peer_id ELSE id,
   last_batch_id |-> IF (x.last_seq_id + 1) % BatchSize = 0
                       THEN id ELSE x.last_batch_id,
   last_seq_id   |-> x.last_seq_id + 1]

NextGroupIndex(x, rec, id) ==
  [LastMsgid   |-> rec.msgid,
   LastId      |-> id,
   LastBatchId |-> IF (x.LastSeqId + 1) % BatchSize = 0 THEN id ELSE x.LastBatchId,
   LastSeqId   |-> x.LastSeqId + 1]

\* setPeerIndex after execMessage of a record at position id.
ExecPeer(rec, id) ==
  IF rec.kind = "peer"
    THEN /\ peer' = [peer EXCEPT ![rec.to] = NextUserIndex(@, rec, id)]
         /\ last_id' = Larger(last_id, id)
    ELSE UNCHANGED <<peer, last_id>>

\* setGroupIndex after execMessage of a record at position id.
ExecGroup(rec, id) ==
  IF rec.kind = "group"
    THEN /\ group' = [group EXCEPT ![rec.to] = NextGroupIndex(@, rec, id)]
         /\ last_id' = Larger(last_id, id)
    ELSE UNCHANGED <<group, last_id>>

-----------------------------------------------------------------------------
\* Saving a message.  The mutex is held from the body to the entry, so only a
\* crash can come between the two appends.

SaveBody(kind, to, grp) ==
  /\ phase = "up" /\ saving = NoSave
  /\ Len(log) + 2 <= MaxLog
  /\ Append1([kind |-> "body", to |-> to, grp |-> grp, msgid |-> Len(log) + 1,
              seq |-> 0, prev |-> 0, prevPeer |-> 0, prevBatch |-> 0, blk |-> 0])
  /\ saving' = [kind |-> kind, to |-> to, grp |-> grp, msgid |-> Len(log) + 1]
  /\ UNCHANGED <<indexVars, last_saved_id, diskVars, flush, phase, scan, starts>>

\* Mutant of PeerEntry: the entry links to the newest direct message.
PeerEntryPrevDirect(u) ==
  [kind |-> "peer", to |-> u, grp |-> saving.grp, msgid |-> saving.msgid,
   seq |-> peer[u].last_seq_id + 1, prev |-> peer[u].last_peer_id,
   prevPeer |-> peer[u].last_peer_id, prevBatch |-> peer[u].last_batch_id,
   blk |-> 0]

\* The entry SavePeerMessage appends for user u.
PeerEntry(u) ==
  [kind |-> "peer", to |-> u, grp |-> saving.grp, msgid |-> saving.msgid,
   seq |-> peer[u].last_seq_id + 1, prev |-> peer[u].last_id,
   prevPeer |-> peer[u].last_peer_id, prevBatch |-> peer[u].last_batch_id,
   blk |-> 0]

\* Mutant of GroupEntry: the entry links to the newest entry of the store.
GroupEntryPrevAny(g) ==
  [kind |-> "group", to |-> g, grp |-> saving.grp, msgid |-> saving.msgid,
   seq |-> group[g].LastSeqId + 1, prev |-> last_id, prevPeer |-> 0,
   prevBatch |-> group[g].LastBatchId, blk |-> 0]

\* The entry SaveGroupMessage appends for group g; it has no peer chain.
GroupEntry(g) ==
  [kind |-> "group", to |-> g, grp |-> saving.grp, msgid |-> saving.msgid,
   seq |-> group[g].LastSeqId + 1, prev |-> group[g].LastId, prevPeer |-> 0,
   prevBatch |-> group[g].LastBatchId, blk |-> 0]

SavePeerEntry ==
  /\ phase = "up" /\ saving.kind = "peer"
  /\ Append1(PeerEntry(saving.to))
  /\ ExecPeer(PeerEntry(saving.to), Len(log) + 1)
  /\ saving' = NoSave
  /\ UNCHANGED <<group, last_saved_id, diskVars, flush, phase, scan, starts>>

SaveGroupEntry ==
  /\ phase = "up" /\ saving.kind = "group"
  /\ Append1(GroupEntry(saving.to))
  /\ ExecGroup(GroupEntry(saving.to), Len(log) + 1)
  /\ saving' = NoSave
  /\ UNCHANGED <<peer, last_saved_id, diskVars, flush, phase, scan, starts>>

-----------------------------------------------------------------------------
\* flushIndex: both indexes are cloned under the mutex, then the two files
\* are replaced one after the other (temporary file, fsync, rename).  One
\* flush runs at a time here.

BlockOf(id) == IF id = 0 THEN 0 ELSE log[id].blk

\* last_id - last_saved_id > 2*BLOCK_SIZE.  Two blocks apart it depends on the
\* offsets inside the blocks, which are not modelled: may flush, need not.
MayFlush   == BlockOf(last_id) - BlockOf(last_saved_id) >= 2
MustFlush  == BlockOf(last_id) - BlockOf(last_saved_id) >= 3

BeginFlush(by) ==
  /\ flush = Idle
  /\ flush' = [by |-> by, step |-> "peer", peer |-> peer, group |-> group,
               last_id |-> last_id]

\* FlushIndexLoop.
TimerFlush ==
  /\ phase = "up" /\ saving = NoSave /\ MayFlush
  /\ BeginFlush("timer")
  /\ UNCHANGED <<logVars, indexVars, last_saved_id, diskVars, phase, scan, starts>>

\* waitSignal on SIGTERM or SIGINT.  Requests are served until os.Exit.
Stop ==
  /\ phase = "up" /\ saving = NoSave
  /\ EmptyStop \/ \E u \in Users : peer[u].last_id > 0
  /\ BeginFlush("exit")
  /\ UNCHANGED <<logVars, indexVars, last_saved_id, diskVars, phase, scan, starts>>

\* Mutant of SavePeerIndexFile: the group index is written to the file.
SaveGroupIndexAsPeerFile ==
  /\ flush # Idle /\ flush.step = "peer"
  /\ diskPeer' = flush.group
  /\ flush' = [flush EXCEPT !.step = "group"]
  /\ UNCHANGED <<logVars, indexVars, last_saved_id, diskGroup, phase, scan, starts>>

SavePeerIndexFile ==
  /\ flush # Idle /\ flush.step = "peer"
  /\ diskPeer' = flush.peer
  /\ flush' = [flush EXCEPT !.step = "group"]
  /\ UNCHANGED <<logVars, indexVars, last_saved_id, diskGroup, phase, scan, starts>>

\* saveGroupIndex, then last_saved_id; NewStorage returns after its flush.
SaveGroupIndexFile ==
  /\ flush # Idle /\ flush.step = "group" /\ flush.by # "exit"
  /\ diskGroup' = flush.group
  /\ last_saved_id' = flush.last_id
  /\ flush' = Idle
  /\ phase' = "up"
  /\ UNCHANGED <<logVars, indexVars, diskPeer, scan, starts>>

-----------------------------------------------------------------------------
\* The end of the process, and NewStorage.

\* The files stay, the memory of the process does not.
ProcessEnds ==
  /\ phase' = "down"
  /\ saving' = NoSave
  /\ flush' = Idle
  /\ peer' = NoUsers /\ group' = NoGroups
  /\ last_id' = 0 /\ last_saved_id' = 0
  /\ scan' = 1
  /\ UNCHANGED <<log, block_NO, starts>>

\* SaveIndexFileAndExit: saveGroupIndex, then os.Exit, whatever the other
\* goroutines are doing.
SaveGroupIndexFileAndExit ==
  /\ flush # Idle /\ flush.step = "group" /\ flush.by = "exit"
  /\ diskGroup' = flush.group
  /\ ProcessEnds
  /\ UNCHANGED diskPeer

\* The process is killed.
Crash ==
  /\ phase # "down"
  /\ ProcessEnds
  /\ UNCHANGED diskVars

\* An index file removed by the operator, so that it is rebuilt.
RemovePeerFile ==
  /\ phase = "down" /\ diskPeer # NoFile
  /\ diskPeer' = NoFile
  /\ UNCHANGED <<logVars, indexVars, last_saved_id, diskGroup, flush, phase, scan, starts>>

RemoveGroupFile ==
  /\ phase = "down" /\ diskGroup # NoFile
  /\ diskGroup' = NoFile
  /\ UNCHANGED <<logVars, indexVars, last_saved_id, diskPeer, flush, phase, scan, starts>>

r1 == diskPeer # NoFile
r2 == diskGroup # NoFile

\* The order of the stages of NewStorage.
FirstStage == IF r1 THEN "repairPeer" ELSE IF r2 THEN "repairGroup" ELSE "createPeer"
StageAfter(s) ==
  CASE s = "repairPeer"  -> IF r2 THEN "repairGroup" ELSE "createGroup"
    [] s = "repairGroup" -> IF r1 THEN "boot" ELSE "createPeer"
    [] s = "createPeer"  -> IF r2 THEN "boot" ELSE "createGroup"
    [] s = "createGroup" -> "boot"

\* Mutant of StartsAt: a rebuild starts at last_id too.
StartsAtLastId(stage, id, s) ==
  IF id = 0 THEN \A i \in 1..Len(log) : (i < s) <=> (log[i].blk = 0) ELSE s = id

\* Where a stage starts reading when last_id is id.  A repair starts at the
\* record of last_id.  For id 0 that is the header of block 0, which does not
\* parse as a message: the loop gives up on block 0 and goes on with block 1.
StartsAt(stage, id, s) ==
  IF stage \in {"repairPeer", "repairGroup"}
    THEN IF id = 0
           THEN \A i \in 1..Len(log) : (i < s) <=> (log[i].blk = 0)
           ELSE s = id
    ELSE s = 1

ReadIds(p, g) == {0} \cup {p[u].last_id : u \in Users} \cup {g[k].LastId : k \in Groups}

\* readPeerIndex and readGroupIndex; last_id becomes the largest id read.
ReadIndexFiles ==
  /\ phase = "down"
  /\ starts < MaxStarts /\ starts' = starts + 1
  /\ peer' = IF r1 THEN diskPeer ELSE NoUsers
  /\ group' = IF r2 THEN diskGroup ELSE NoGroups
  /\ \E id \in ReadIds(peer', group') :
       /\ \A other \in ReadIds(peer', group') : other <= id
       /\ last_id' = id
       /\ last_saved_id' = id
       /\ \E s \in 1..Len(log) + 1 : StartsAt(FirstStage, id, s) /\ scan' = s
  /\ phase' = FirstStage
  /\ UNCHANGED <<logVars, diskVars, flush>>

\* Mutant of ScanPeer: the record of last_id is not skipped.
ScanPeerNoSkip ==
  /\ phase \in {"repairPeer", "createPeer"}
  /\ scan <= Len(log)
  /\ ExecPeer(log[scan], scan)
  /\ scan' = scan + 1
  /\ UNCHANGED <<logVars, group, last_saved_id, diskVars, flush, phase, starts>>

\* One turn of the loop of repairPeerIndex or createPeerIndex; only the former
\* skips the record of last_id.
ScanPeer ==
  /\ phase \in {"repairPeer", "createPeer"}
  /\ scan <= Len(log)
  /\ IF phase = "repairPeer" /\ scan = last_id
       THEN UNCHANGED <<peer, last_id>>
       ELSE ExecPeer(log[scan], scan)
  /\ scan' = scan + 1
  /\ UNCHANGED <<logVars, group, last_saved_id, diskVars, flush, phase, starts>>

\* One turn of the loop of repairGroupIndex or createGroupIndex.
ScanGroup ==
  /\ phase \in {"repairGroup", "createGroup"}
  /\ scan <= Len(log)
  /\ ExecGroup(log[scan], scan)
  /\ scan' = scan + 1
  /\ UNCHANGED <<logVars, peer, last_saved_id, diskVars, flush, phase, starts>>

EndStage ==
  /\ phase \in Stages
  /\ scan > Len(log)
  /\ phase' = StageAfter(phase)
  /\ \E s \in 1..Len(log) + 1 :
       /\ phase' \in Stages => StartsAt(phase', last_id, s)
       /\ phase' = "boot" => s = 1
       /\ scan' = s
  /\ UNCHANGED <<logVars, indexVars, last_saved_id, diskVars, flush, starts>>

\* The FlushIndex at the end of NewStorage.
BootFlush ==
  /\ phase = "boot" /\ MayFlush
  /\ BeginFlush("boot")
  /\ UNCHANGED <<logVars, indexVars, last_saved_id, diskVars, phase, scan, starts>>

BootDone ==
  /\ phase = "boot" /\ flush = Idle /\ ~MustFlush
  /\ phase' = "up"
  /\ UNCHANGED <<logVars, indexVars, last_saved_id, diskVars, flush, scan, starts>>

-----------------------------------------------------------------------------
Init ==
  /\ log = << >> /\ block_NO = 0 /\ saving = NoSave
  /\ peer = NoUsers /\ group = NoGroups
  /\ last_id = 0 /\ last_saved_id = 0
  /\ diskPeer = NoFile /\ diskGroup = NoFile
  /\ flush = Idle /\ phase = "down" /\ scan = 1 /\ starts = 0

SaveNext ==
  \/ \E u \in Users, grp \in BOOLEAN : SaveBody("peer", u, grp)
  \/ \E g \in Groups : SaveBody("group", g, TRUE)
  \/ SavePeerEntry
  \/ SaveGroupEntry

FlushNext == TimerFlush \/ Stop \/ BootFlush \/ SavePeerIndexFile
             \/ SaveGroupIndexFile \/ SaveGroupIndexFileAndExit

StartNext == ReadIndexFiles \/ ScanPeer \/ ScanGroup \/ EndStage \/ BootDone

Next == SaveNext \/ FlushNext \/ StartNext \/ Crash \/ RemovePeerFile \/ RemoveGroupFile

Spec == Init /\ [][Next]_vars

-----------------------------------------------------------------------------
LogTypeOK ==
  /\ log \in Seq(Record) /\ block_NO \in Nat
  /\ \A i \in 1..Len(log) :
       /\ log[i].kind = "peer" => log[i].to \in Users
       /\ log[i].kind = "group" => log[i].to \in Groups

\* The save in progress: for a user, or for a group.
Saves == {NoSave}
  \cup [kind : {"peer"}, to : Users, grp : BOOLEAN, msgid : Nat]
  \cup [kind : {"group"}, to : Groups, grp : BOOLEAN, msgid : Nat]

Flushes == {Idle}
  \cup [by : {"timer", "boot", "exit"}, step : {"peer", "group"},
        peer : PeerIndexes, group : GroupIndexes, last_id : Nat]

\* Type invariant: every variable of the storage engine keeps the shape the Go
\* structs give it.
TypeOK ==
  /\ LogTypeOK
  /\ saving \in Saves
  /\ peer \in PeerIndexes /\ group \in GroupIndexes
  /\ last_id \in Nat /\ last_saved_id \in Nat
  /\ diskPeer \in PeerIndexes \cup {NoFile}
  /\ diskGroup \in GroupIndexes \cup {NoFile}
  /\ flush \in Flushes
  /\ phase \in {"down", "boot", "up"} \cup Stages
  /\ scan \in Nat \ {0} /\ starts \in Nat

-----------------------------------------------------------------------------
\* What the indexes should say, in terms of the log alone.

PeerEntries(u, n) == {i \in 1..Len(log) : i <= n /\ log[i].kind = "peer" /\ log[i].to = u}
DirectEntries(u, n) == {i \in PeerEntries(u, n) : ~log[i].grp}
PeerMarks(u, n) == {i \in PeerEntries(u, n) : log[i].seq % BatchSize = 0}

GroupEntries(g, n) == {i \in 1..Len(log) : i <= n /\ log[i].kind = "group" /\ log[i].to = g}

\* i is the newest position in S, 0 when there is none.
IsNewest(i, S) == IF i = 0 THEN S = {} ELSE i \in S /\ \A j \in S : j <= i

SeqNo(i)   == IF i = 0 THEN 0 ELSE log[i].seq
MsgidOf(i) == IF i = 0 THEN 0 ELSE log[i].msgid

\* x is the index of user u over the first n records.
ExactUser(x, u, n) ==
  /\ IsNewest(x.last_id, PeerEntries(u, n))
  /\ IsNewest(x.last_peer_id, DirectEntries(u, n))
  /\ IsNewest(x.last_batch_id, PeerMarks(u, n))
  /\ x.last_seq_id = SeqNo(x.last_id)
  /\ x.last_msgid = MsgidOf(x.last_id)

\* The entry at i links to the newest earlier entries of its queue and
\* carries the next sequence number.
ExactEntry(i) ==
  LET e == log[i] IN
    /\ IsNewest(e.prev, PeerEntries(e.to, i - 1))
    /\ IsNewest(e.prevPeer, DirectEntries(e.to, i - 1))
    /\ IsNewest(e.prevBatch, PeerMarks(e.to, i - 1))
    /\ e.seq = SeqNo(e.prev) + 1
    /\ i > 1 /\ e.msgid = i - 1 /\ log[i - 1].kind = "body"

\* Whenever the store serves requests, the index of every user is what the
\* log says: after any crash, during any flush, whichever index files were
\* there at startup, repairPeerIndex or createPeerIndex has restored it.
PeerIndexExact ==
  phase = "up" => \A u \in Users : ExactUser(peer[u], u, Len(log))

\* The three back links that SavePeerMessage writes into an entry skip
\* nothing, before and after restarts: no message drops out of a user's
\* queue, of its direct-message chain, or of its chain of batch marks.
PeerChainsComplete ==
  \A i \in 1..Len(log) : log[i].kind = "peer" => ExactEntry(i)

\* Mutant of GetNewCount: the last received message is counted as new.
GetNewCountInclusive(u, msgid) ==
  IF msgid = 0 THEN peer[u].last_seq_id
  ELSE IF msgid + 1 > Len(log) THEN 0
  ELSE peer[u].last_seq_id - log[msgid + 1].seq + 1

\* GetNewCount(last_received_id): reads the record of the message and the one
\* after it, which must be the user's entry for that message.
GetNewCount(u, msgid) ==
  IF msgid = 0 THEN peer[u].last_seq_id
  ELSE IF msgid + 1 > Len(log) THEN 0
  ELSE LET off == log[msgid + 1] IN
         IF \/ off.kind = "body" \/ off.msgid # msgid
            \/ off.to # u \/ peer[u].last_seq_id < off.seq
           THEN 0
           ELSE peer[u].last_seq_id - off.seq

\* The number of new messages reported to a client is the number of entries
\* of its queue that follow the last one it received, restarts included.
NewCountExact ==
  phase = "up" => \A u \in Users :
    LET mine == PeerEntries(u, Len(log)) IN
      /\ GetNewCount(u, 0) = Cardinality(mine)
      /\ \A i \in mine : GetNewCount(u, log[i].msgid) = Cardinality({j \in mine : j > i})

\* A group queue may lose its newest entries in a restart, but never mixes
\* queues or time: the index and every link point at an entry of the same
\* group, written earlier, and the entry names the body written before it.
GroupQueuesSound ==
  LET IsEntry(i, g, n) == i = 0 \/ i \in GroupEntries(g, n) IN
  /\ \A g \in Groups : phase = "up" =>
       /\ IsEntry(group[g].LastId, g, Len(log))
       /\ IsEntry(group[g].LastBatchId, g, group[g].LastId)
       /\ group[g].LastMsgid = MsgidOf(group[g].LastId)
  /\ \A i \in 1..Len(log) : log[i].kind = "group" =>
       /\ IsEntry(log[i].prev, log[i].to, i - 1)
       /\ log[i].msgid = i - 1 /\ log[i - 1].kind = "body"

\* createGroupIndex, which runs when the group index file is missing, rebuilds
\* the index of every group from all block files, whatever an earlier start
\* had lost from it.
GroupIndexRecreated ==
  phase = "createGroup" => \A g \in Groups :
    LET read == GroupEntries(g, scan - 1) IN
      /\ IsNewest(group[g].LastId, read)
      /\ group[g].LastSeqId = Cardinality(read)
      /\ group[g].LastMsgid = MsgidOf(group[g].LastId)

\* peer_storage.go:54-55 says of the index that it is rebuilt from the message
\* files when it could not be saved.  For groups: whenever the store serves
\* requests, the index of a group names the newest entry of its queue.
GroupIndexRebuilt ==
  phase = "up" => \A g \in Groups :
    IsNewest(group[g].LastId, GroupEntries(g, Len(log)))
=============================================================================
