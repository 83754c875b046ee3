----------------------------- MODULE Replication -----------------------------
(***************************************************************************)
(* The backup of a storage server: every message the master saves passes   *)
(* through the channel master.ewt to the goroutine Master.Run, which sends *)
(* batches to the connected slaves; a slave that connects first gets what  *)
(* the block files hold after its cursor (ims/storage_sync.go, storage.go).*)
(* One master, one slave, and every connection the slave makes.            *)
(*                                                                         *)
(* A message id is block * BlockSize + offset, as in the code; a message   *)
(* takes one unit, the file header the unit at offset 0.  Which message    *)
(* does not fit in its block is left open.  BlockSize exceeds what the     *)
(* runs write in one block, so no block is filled to its last byte.        *)
(***************************************************************************)
EXTENDS Integers, Sequences, FiniteSets, Functions

CONSTANTS
  BlockSize,    \* BLOCK_SIZE
  ChanSize,     \* capacity of master.ewt and of the ewt of a SyncClient
  CacheSize,    \* messages at which Run sends a batch without waiting
  LiveRollover, \* may a block be full while Run collects a batch
  MaxMsgs,      \* bound: messages saved
  MaxBlock,     \* bound: number of the last block file
  MaxConns      \* bound: connections of the slave

ASSUME ReplicationAssumption ==
  /\ BlockSize \in Nat /\ MaxMsgs \in Nat /\ MaxMsgs + 1 < BlockSize
  /\ ChanSize \in Nat \ {0} /\ CacheSize \in Nat \ {0}
  /\ LiveRollover \in BOOLEAN
  /\ MaxBlock \in Nat /\ MaxConns \in Nat

Conns == 1..MaxConns

VARIABLES
  mlog,     \* the ids of the messages in the master's files, oldest first
  block_NO, \* the block the master writes
  pending,  \* id that saveMessage has yet to put into master.ewt, or 0
  ewt,      \* master.ewt
  cache,    \* the batch that Run collects
  sendTo,   \* clients that SendBatch has yet to send the cache to
  busy,     \* Run is inside SendBatch
  clients,  \* master.clients
  phase,    \* of every connection on the master's side: what RunLoop does
  cursor,   \* of every connection: the id the slave asked for
  loading,  \* of every connection: next block of LoadSyncMessagesInBackground
  cewt,     \* of every connection: SyncClient.ewt
  taken,    \* of every connection: the batch RunLoop has taken from it
  wire,     \* of every connection: batches under way to the slave
  conn,     \* the slave's connection, or 0
  slog,     \* records of the slave's files: what was stored, and where
  send,     \* end of the slave's last file
  inbox,    \* rest of the batch the slave is saving
  atRisk    \* ids that a connection may have passed over while it was set up

runVars   == <<ewt, cache, sendTo, busy>>
connVars  == <<clients, phase, cursor, loading, cewt, taken>>
slaveVars == <<slog, send, inbox>>
vars == <<mlog, block_NO, pending, ewt, cache, sendTo, busy, clients, phase,
          cursor, loading, cewt, taken, wire, conn, slog, send, inbox, atRisk>>

HEADER == 1   \* HEADER_SIZE

BlockNO(id) == id \div BlockSize
Offset(id)  == id % BlockSize
InBlock(n)  == {i \in 1..Len(mlog) : BlockNO(mlog[i]) = n}
\* Size of block file n of the master.
FileSize(n) == HEADER + Cardinality(InBlock(n))

Batch(first, msgs) == [first |-> first, msgs |-> msgs]
NoBatch == Batch(0, << >>)

-----------------------------------------------------------------------------
\* The master saves a message.  The mutex is held until the message is in
\* master.ewt.

SaveMessage ==
  /\ pending = 0 /\ Len(mlog) < MaxMsgs
  /\ \E roll \in BOOLEAN :
       /\ roll => /\ block_NO < MaxBlock /\ InBlock(block_NO) # {}
                  /\ LiveRollover \/ (ewt = << >> /\ cache = << >>)
       /\ block_NO' = IF roll THEN block_NO + 1 ELSE block_NO
       /\ pending' = block_NO' * BlockSize
                       + (IF roll THEN HEADER ELSE FileSize(block_NO))
  /\ mlog' = Append(mlog, pending')
  /\ atRisk' = IF \E c \in Conns : phase[c] = "load" THEN atRisk \cup {pending'} ELSE atRisk
  /\ UNCHANGED <<runVars, connVars, wire, conn, slaveVars>>

\* master.ewt <- emsg
SendEwt ==
  /\ pending # 0 /\ Len(ewt) < ChanSize
  /\ ewt' = Append(ewt, pending) /\ pending' = 0
  /\ UNCHANGED <<mlog, block_NO, cache, sendTo, busy, connVars, wire, conn, slaveVars, atRisk>>

-----------------------------------------------------------------------------
\* Master.Run and SendBatch.

BeginBatch(msgs) == busy' = (msgs # << >>) /\ sendTo' = IF msgs # << >> THEN clients ELSE {}

\* Mutant of Collect: messages are taken from the channel for a client only.
CollectForClients ==
  /\ ~busy /\ ewt # << >> /\ clients # {}
  /\ cache' = Append(cache, Head(ewt)) /\ ewt' = Tail(ewt)
  /\ BeginBatch(IF Len(cache') >= CacheSize THEN cache' ELSE << >>)
  /\ UNCHANGED <<mlog, block_NO, pending, connVars, wire, conn, slaveVars, atRisk>>

Collect ==
  /\ ~busy /\ ewt # << >>
  /\ cache' = Append(cache, Head(ewt)) /\ ewt' = Tail(ewt)
  /\ BeginBatch(IF Len(cache') >= CacheSize THEN cache' ELSE << >>)
  /\ UNCHANGED <<mlog, block_NO, pending, connVars, wire, conn, slaveVars, atRisk>>

\* A second after the first message of the batch.
Timeout ==
  /\ ~busy /\ cache # << >>
  /\ BeginBatch(cache)
  /\ UNCHANGED <<mlog, block_NO, pending, ewt, cache, connVars, wire, conn, slaveVars, atRisk>>

\* c.ewt <- m, which waits while the channel is full; after the last client the
\* cache is emptied.
SendBatchTo(c) ==
  /\ busy /\ c \in sendTo /\ Len(cewt[c]) < ChanSize
  /\ cewt' = [cewt EXCEPT ![c] = Append(@, Batch(cache[1], cache))]
  /\ sendTo' = sendTo \ {c}
  /\ UNCHANGED <<mlog, block_NO, pending, ewt, cache, busy, clients, phase, cursor,
                 loading, taken, wire, conn, slaveVars, atRisk>>

\* Mutant of SendBatchDone: the cache is not emptied.
SendBatchDoneKeeping ==
  /\ busy /\ sendTo = {}
  /\ busy' = FALSE
  /\ UNCHANGED <<mlog, block_NO, pending, ewt, cache, sendTo, connVars, wire, conn, slaveVars,
                 atRisk>>

SendBatchDone ==
  /\ busy /\ sendTo = {}
  /\ busy' = FALSE /\ cache' = << >>
  /\ UNCHANGED <<mlog, block_NO, pending, ewt, sendTo, connVars, wire, conn, slaveVars, atRisk>>

-----------------------------------------------------------------------------
\* SyncClient.RunLoop of connection c.  What is sent on a connection that the
\* slave has left is lost; an error is seen sooner or later.

Transmit(c, batch) == wire' = IF conn = c THEN [wire EXCEPT ![c] = Append(@, batch)] ELSE wire

\* One block of LoadSyncMessagesInBackground: all it holds, in one batch.  (The
\* split into batches of BATCH_COUNT does not change where they are stored.)
\* The size of every block is compared with the offset of the cursor.
LoadBlock(c) ==
  LET n == loading[c]
      first == IF n = BlockNO(cursor[c]) THEN Offset(cursor[c]) ELSE HEADER
      found == {i \in InBlock(n) : Offset(mlog[i]) >= first}
  IN
  /\ phase[c] = "load" /\ n <= block_NO
  /\ FileSize(n) >= Offset(cursor[c])
  /\ IF found = {} THEN wire' = wire
     ELSE \E i \in found : /\ \A j \in found : i <= j
                           /\ Transmit(c, Batch(mlog[i], SubSeq(mlog, i, i + Cardinality(found) - 1)))
  /\ loading' = [loading EXCEPT ![c] = n + 1]
  /\ UNCHANGED <<mlog, block_NO, pending, runVars, clients, phase, cursor, cewt, taken, conn,
                 slaveVars, atRisk>>

\* No more block file, or a short one: AddClient.
AddClient(c) ==
  LET n == loading[c]
      short == n <= block_NO /\ FileSize(n) < Offset(cursor[c])
  IN
  /\ phase[c] = "load" /\ (n > block_NO \/ short)
  /\ phase' = [phase EXCEPT ![c] = "live"]
  /\ clients' = clients \cup {c}
  /\ atRisk' = IF short THEN atRisk \cup {mlog[i] : i \in UNION {InBlock(k) : k \in n..block_NO}}
               ELSE atRisk
  /\ UNCHANGED <<mlog, block_NO, pending, runVars, cursor, loading, cewt, taken, wire, conn,
                 slaveVars>>

\* A batch from the channel to the connection.
TakeBatch(c) ==
  /\ phase[c] = "live" /\ taken[c] = NoBatch /\ cewt[c] # << >>
  /\ taken' = [taken EXCEPT ![c] = Head(cewt[c])]
  /\ cewt' = [cewt EXCEPT ![c] = Tail(@)]
  /\ UNCHANGED <<mlog, block_NO, pending, runVars, clients, phase, cursor, loading, wire, conn,
                 slaveVars, atRisk>>

ForwardBatch(c) ==
  /\ phase[c] = "live" /\ taken[c] # NoBatch
  /\ Transmit(c, taken[c])
  /\ taken' = [taken EXCEPT ![c] = NoBatch]
  /\ UNCHANGED <<mlog, block_NO, pending, runVars, clients, phase, cursor, loading, cewt, conn,
                 slaveVars, atRisk>>

\* SendMessage fails: RemoveClient.  Nobody reads client.ewt any more.
RemoveClient(c) ==
  /\ phase[c] = "live" /\ taken[c] # NoBatch /\ conn # c
  /\ taken' = [taken EXCEPT ![c] = NoBatch]
  /\ phase' = [phase EXCEPT ![c] = "end"]
  /\ clients' = clients \ {c}
  /\ UNCHANGED <<mlog, block_NO, pending, runVars, cursor, loading, cewt, wire, conn, slaveVars, atRisk>>

-----------------------------------------------------------------------------
\* The slave.

\* Mutant of NextMessageID: the id after the next one.
NextMessageIDSkipping == send + 1

NextMessageID == send

\* Slaver.RunOnce connects and sends its cursor.
Connect(c) ==
  /\ conn = 0 /\ inbox = NoBatch
  /\ phase[c] = "none" /\ \A d \in 1..c - 1 : phase[d] # "none"
  /\ conn' = c
  /\ phase' = [phase EXCEPT ![c] = "load"]
  /\ cursor' = [cursor EXCEPT ![c] = NextMessageID]
  /\ loading' = [loading EXCEPT ![c] = BlockNO(NextMessageID)]
  /\ UNCHANGED <<mlog, block_NO, pending, runVars, clients, cewt, taken, wire, slaveVars, atRisk>>

ReceiveBatch ==
  /\ conn # 0 /\ inbox = NoBatch /\ wire[conn] # << >>
  /\ inbox' = Head(wire[conn])
  /\ wire' = [wire EXCEPT ![conn] = Tail(@)]
  /\ UNCHANGED <<mlog, block_NO, pending, runVars, connVars, conn, slog, send, atRisk>>

\* Mutant of SaveSyncMessage: no padding is written.
SaveSyncMessageUnpadded(id, m) ==
  LET n == BlockNO(id) - BlockNO(send)
      end == IF n = 1 THEN BlockNO(id) * BlockSize + HEADER ELSE send
  IN IF n \in {0, 1}
       THEN IF id < end THEN send' = end /\ slog' = slog
            ELSE slog' = slog \cup {[at |-> end, msg |-> m]} /\ send' = end + 1
       ELSE UNCHANGED <<slog, send>>

\* Mutant of SaveSyncMessage: a message at the end of the file is skipped too.
SaveSyncMessageAfterEnd(id, m) ==
  LET n == BlockNO(id) - BlockNO(send)
      end == IF n = 1 THEN BlockNO(id) * BlockSize + HEADER ELSE send
  IN IF n \in {0, 1}
       THEN IF id <= end THEN send' = end /\ slog' = slog
            ELSE slog' = slog \cup {[at |-> id, msg |-> m]} /\ send' = id + 1
       ELSE UNCHANGED <<slog, send>>

\* Message m for id.  A message for a block that is not the one being written,
\* or the one after it, is skipped; one before the end of the file too; up to
\* one after the end, padding is written.
SaveSyncMessage(id, m) ==
  LET n == BlockNO(id) - BlockNO(send)
      end == IF n = 1 THEN BlockNO(id) * BlockSize + HEADER ELSE send
  IN IF n \in {0, 1}
       THEN IF id < end THEN send' = end /\ slog' = slog
            ELSE slog' = slog \cup {[at |-> id, msg |-> m]} /\ send' = id + 1
       ELSE UNCHANGED <<slog, send>>

\* SaveSyncMessageBatch: the next message of the batch.  Its id is the one
\* before it plus its length.
SaveNextOfBatch ==
  /\ inbox # NoBatch
  /\ SaveSyncMessage(inbox.first, Head(inbox.msgs))
  /\ inbox' = IF Len(inbox.msgs) = 1 THEN NoBatch ELSE Batch(inbox.first + 1, Tail(inbox.msgs))
  /\ UNCHANGED <<mlog, block_NO, pending, runVars, connVars, wire, conn, atRisk>>

-----------------------------------------------------------------------------
\* Failures.

\* The connection breaks; a batch that has been received is still saved.
Disconnect ==
  /\ conn # 0 /\ conn' = 0
  /\ wire' = [wire EXCEPT ![conn] = << >>]
  /\ UNCHANGED <<mlog, block_NO, pending, runVars, connVars, slaveVars, atRisk>>

\* The slave is killed, possibly in the middle of a batch.
SlaveCrash ==
  /\ conn # 0 /\ conn' = 0
  /\ wire' = [wire EXCEPT ![conn] = << >>]
  /\ inbox' = NoBatch
  /\ UNCHANGED <<mlog, block_NO, pending, runVars, connVars, slog, send, atRisk>>

\* The master is killed: what the channels held is gone, the files are not.
MasterCrash ==
  /\ \E c \in Conns : phase[c] \in {"load", "live"}
  /\ pending' = 0 /\ ewt' = << >> /\ cache' = << >> /\ sendTo' = {} /\ busy' = FALSE
  /\ clients' = {}
  /\ phase' = [c \in Conns |-> IF phase[c] = "none" THEN "none" ELSE "end"]
  /\ cewt' = [c \in Conns |-> << >>] /\ taken' = [c \in Conns |-> NoBatch]
  /\ wire' = [c \in Conns |-> << >>]
  /\ conn' = 0
  /\ UNCHANGED <<mlog, block_NO, cursor, loading, slaveVars, atRisk>>

-----------------------------------------------------------------------------
Init ==
  /\ mlog = << >> /\ block_NO = 0 /\ pending = 0
  /\ ewt = << >> /\ cache = << >> /\ sendTo = {} /\ busy = FALSE
  /\ clients = {}
  /\ phase = [c \in Conns |-> "none"]
  /\ cursor = [c \in Conns |-> 0] /\ loading = [c \in Conns |-> 0]
  /\ cewt = [c \in Conns |-> << >>] /\ taken = [c \in Conns |-> NoBatch]
  /\ wire = [c \in Conns |-> << >>]
  /\ conn = 0 /\ slog = {} /\ send = HEADER /\ inbox = NoBatch
  /\ atRisk = {}

MasterNext == SendEwt \/ Collect \/ Timeout \/ SendBatchDone
ClientNext(c) == SendBatchTo(c) \/ LoadBlock(c) \/ AddClient(c) \/ TakeBatch(c)
                 \/ ForwardBatch(c) \/ RemoveClient(c)
SlaveNext == ReceiveBatch \/ SaveNextOfBatch

Next ==
  \/ SaveMessage \/ MasterNext \/ SlaveNext
  \/ \E c \in Conns : ClientNext(c) \/ Connect(c)
  \/ Disconnect \/ SlaveCrash \/ MasterCrash

\* The goroutines and the slave's receive loop keep running; messages need not
\* be saved, connections need not be made or break.
Fairness ==
  /\ WF_vars(SendEwt) /\ WF_vars(Collect) /\ WF_vars(Timeout) /\ WF_vars(SendBatchDone)
  /\ \A c \in Conns : /\ WF_vars(SendBatchTo(c)) /\ WF_vars(LoadBlock(c))
                      /\ WF_vars(AddClient(c)) /\ WF_vars(TakeBatch(c))
                      /\ WF_vars(ForwardBatch(c) \/ RemoveClient(c))
  /\ WF_vars(SlaveNext)

Spec == Init /\ [][Next]_vars /\ Fairness

-----------------------------------------------------------------------------
MsgIds  == 1..((MaxBlock + 1) * BlockSize)
Batches == [first : MsgIds, msgs : Seq(MsgIds)]

\* Type invariant: the variables of master, connections and slave keep their
\* shape, and the channels their capacity.
TypeOK ==
  /\ mlog \in Seq(MsgIds) /\ block_NO \in 0..MaxBlock /\ pending \in MsgIds \cup {0}
  /\ ewt \in Seq(MsgIds) /\ Len(ewt) <= ChanSize
  /\ cache \in Seq(MsgIds) /\ Len(cache) <= CacheSize
  /\ clients \subseteq Conns /\ sendTo \subseteq Conns /\ busy \in BOOLEAN
  /\ phase \in [Conns -> {"none", "load", "live", "end"}]
  /\ cursor \in [Conns -> MsgIds \cup {0}]
  /\ loading \in [Conns -> 0..MaxBlock + 1]
  /\ \A c \in Conns : cewt[c] \in Seq(Batches) /\ Len(cewt[c]) <= ChanSize
  /\ \A c \in Conns : wire[c] \in Seq(Batches) /\ taken[c] \in Batches \cup {NoBatch}
  /\ conn \in Conns \cup {0}
  /\ slog \subseteq [at : MsgIds, msg : MsgIds] /\ send \in MsgIds
  /\ inbox = NoBatch \/ inbox \in Batches
  /\ atRisk \subseteq MsgIds

Saved  == {mlog[i] : i \in 1..Len(mlog)}
Stored == {r.msg : r \in slog}

\* A slave stores every message under the id it has on the master, however
\* the connections broke, batches were repeated or a crash cut one short: the
\* ids that clients hold as sync keys mean the same message on both.
\* Stated for batches that come from one block (LiveRollover = FALSE).
SlaveFaithful == \A r \in slog : r.at = r.msg

\* What is missing between the messages of the slave was passed over while a
\* connection was set up: saved between the end of the background load and
\* AddClient, or in a block file shorter than the offset of the cursor.  No
\* broken connection, crash or repeated batch leaves any other hole.
HolesExplained == {id \in Saved : id < send} \subseteq Stored \cup atRisk

\* storage.go:89 says of a batch: all messages come from one block.  The slave
\* relies on it: it computes every id but the first from the length of the
\* messages before.  SendBatch puts whatever a second brought into one batch.
BatchFromOneBlock ==
  \A c \in Conns : \A i \in 1..Len(wire[c]) : \A id \in Range(wire[c][i].msgs) :
    BlockNO(id) = BlockNO(wire[c][i].first)

\* SendBatch waits for a client whose RunLoop is gone.
DeadClientBlocks == \E c \in sendTo : phase[c] = "end" /\ Len(cewt[c]) >= ChanSize

\* A save in progress returns, unless SendBatch waits for a dead client: slow
\* or broken slaves only delay the storage server.
SaveReturns == pending # 0 ~> (pending = 0 \/ DeadClientBlocks)

\* A message on its way to a slave that is connected and past the background
\* load is stored there, unless the connection breaks first or SendBatch waits
\* for a dead client.
LiveDelivered ==
  \A i \in 1..MaxMsgs, c \in Conns :
    LET OnItsWay == i <= Len(mlog) /\ mlog[i] \in {pending} \cup Range(ewt)
        Arrived  == i <= Len(mlog) /\ mlog[i] \in Stored
    IN (conn = c /\ phase[c] = "live" /\ OnItsWay) ~> (Arrived \/ conn # c \/ DeadClientBlocks)
=============================================================================
