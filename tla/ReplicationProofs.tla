-------------------------- MODULE ReplicationProofs --------------------------
(***************************************************************************)
(* Proofs about Replication, for every block size, channel and batch size, *)
(* any number of messages, blocks and connections.                         *)
(*                                                                         *)
(* What the master has yet to hand to its clients is the end of its log:   *)
(* cache, ewt and the message that saveMessage holds, in this order        *)
(* (QueueOK).  Every batch, wherever it is, stands for a stretch of ids of *)
(* one block (BatchesOK), and when no block is filled while a batch is     *)
(* collected its messages are the ones with these ids (Faithful).          *)
(*                                                                         *)
(* HoleInv follows the connection of the slave: the batches on their way   *)
(* to it, in order, leave no hole (Gapless), or what is on its way is      *)
(* beyond the block after the one the slave writes, and the slave skips it *)
(* (Beyond).                                                               *)
(***************************************************************************)
EXTENDS Replication, SequenceTheorems, FiniteSetTheorems, WellFoundedInduction, TLAPS

-----------------------------------------------------------------------------
\* The inductive invariant.

\* The log of the master: ids of a block follow each other, blocks ascend, the
\* last message is in the block that is written.
LogOK ==
  /\ mlog \in Seq(MsgIds) /\ Len(mlog) <= MaxMsgs /\ block_NO \in 0..MaxBlock
  /\ \A i \in 1..Len(mlog) : Offset(mlog[i]) \in 1..i /\ BlockNO(mlog[i]) \in 0..block_NO
  /\ \A i, j \in 1..Len(mlog) : i <= j =>
       /\ BlockNO(mlog[i]) <= BlockNO(mlog[j])
       /\ BlockNO(mlog[i]) = BlockNO(mlog[j]) => mlog[j] = mlog[i] + (j - i)
  /\ mlog # << >> => BlockNO(mlog[Len(mlog)]) = block_NO
  /\ mlog = << >> => block_NO = 0
  /\ Cardinality(InBlock(block_NO)) = IF mlog = << >> THEN 0 ELSE Offset(mlog[Len(mlog)])

\* How many messages of the log have left the queues of the master.
HandedOver == Len(mlog) - Len(cache) - Len(ewt) - (IF pending = 0 THEN 0 ELSE 1)

\* cache, ewt and the message that saveMessage holds are the end of the log.
QueueOK ==
  /\ cache \in Seq(MsgIds) /\ ewt \in Seq(MsgIds) /\ pending \in MsgIds \cup {0}
  /\ Len(ewt) <= ChanSize /\ Len(cache) <= CacheSize /\ busy \in BOOLEAN
  /\ busy => cache # << >>
  /\ ~busy => Len(cache) < CacheSize /\ sendTo = {}
  /\ HandedOver \in Nat
  /\ \A k \in 1..Len(cache) : cache[k] = mlog[HandedOver + k]
  /\ \A k \in 1..Len(ewt) : ewt[k] = mlog[HandedOver + Len(cache) + k]
  /\ pending # 0 => pending = mlog[Len(mlog)]

\* Unless blocks are filled while Run collects, what it has to hand over is from
\* the block that is written.
OneBlock == ~LiveRollover => \A i \in HandedOver + 1..Len(mlog) : BlockNO(mlog[i]) = block_NO

\* The messages of a batch have consecutive ids and are in the log.
Faithful(b) == \A k \in 1..Len(b.msgs) : b.msgs[k] = b.first + (k - 1) /\ b.msgs[k] \in Saved

\* A batch: the ids it stands for fit in the block of the first one.
Stretch(b) ==
  /\ b \in Batches /\ Len(b.msgs) > 0
  /\ Offset(b.first) >= 1 /\ Offset(b.first) + Len(b.msgs) - 1 <= MaxMsgs
  /\ ~LiveRollover => Faithful(b)

ClientsOK ==
  /\ phase \in [Conns -> {"none", "load", "live", "end"}]
  /\ clients \subseteq Conns /\ sendTo \subseteq Conns
  /\ \A c \in Conns : phase[c] = "live" => c \in clients
  /\ \A c \in Conns : phase[c] \in {"none", "load"} => c \notin clients /\ c \notin sendTo
  /\ \A c \in Conns : phase[c] \in {"none", "load"} => cewt[c] = << >> /\ taken[c] = NoBatch
  /\ conn \in Conns \cup {0}
  /\ conn # 0 => phase[conn] \in {"load", "live"}
  /\ loading \in [Conns -> 0..MaxBlock + 1]
  /\ cursor \in [Conns -> MsgIds \cup {0}]

BatchesOK ==
  /\ wire \in [Conns -> Seq(Batches)] /\ cewt \in [Conns -> Seq(Batches)]
  /\ taken \in [Conns -> Batches \cup {NoBatch}]
  /\ \A c \in Conns : Len(cewt[c]) <= ChanSize
  /\ \A c \in Conns : c # conn => wire[c] = << >>
  /\ \A c \in Conns : \A j \in 1..Len(wire[c]) : Stretch(wire[c][j])
  /\ \A c \in Conns : \A j \in 1..Len(cewt[c]) : Stretch(cewt[c][j])
  /\ \A c \in Conns : taken[c] # NoBatch => Stretch(taken[c])
  /\ inbox = NoBatch \/ Stretch(inbox)

SlaveOK ==
  /\ slog \subseteq [at : MsgIds, msg : MsgIds]
  /\ send \in MsgIds /\ Offset(send) \in 1..MaxMsgs + 1
  /\ atRisk \subseteq MsgIds
  /\ ~LiveRollover => SlaveFaithful

IInv == LogOK /\ QueueOK /\ OneBlock /\ ClientsOK /\ BatchesOK /\ SlaveOK

\* Batch b has the message id.
Has(b, id) == b.first <= id /\ id < b.first + Len(b.msgs)

Kept(id)      == id \in Stored \cup atRisk
\* id is kept, or in what is received and not yet saved, or in one of the first
\* n batches on the wire, or in the batch that RunLoop has taken, or in one of
\* the first n batches of SyncClient.ewt.
AtSlave(id)        == Kept(id) \/ Has(inbox, id)
OnWire(c, id, n)   == AtSlave(id) \/ \E k \in 1..n : Has(wire[c][k], id)
Written(c, id)     == OnWire(c, id, Len(wire[c]))
Taken(c, id)       == Written(c, id) \/ Has(taken[c], id)
InChan(c, id, n)   == Taken(c, id) \/ \E k \in 1..n : Has(cewt[c][k], id)
OnItsWay(c, id)    == InChan(c, id, Len(cewt[c]))

\* How many messages of the log SendBatch need not send to c any more.
SentTo(c) == IF busy /\ c \notin sendTo THEN HandedOver + Len(cache) ELSE HandedOver

GaplessInbox == inbox # NoBatch => \A id \in Saved : id < inbox.first => Kept(id)
GaplessWire(c) == \A j \in 1..Len(wire[c]) : \A id \in Saved :
                    id < wire[c][j].first => OnWire(c, id, j - 1)
GaplessTaken(c) == taken[c] # NoBatch => \A id \in Saved : id < taken[c].first => Written(c, id)
GaplessChan(c) == \A j \in 1..Len(cewt[c]) : \A id \in Saved :
                    id < cewt[c][j].first => InChan(c, id, j - 1)
GaplessLoad(c) == phase[c] = "load" => \A id \in Saved : BlockNO(id) < loading[c] => Written(c, id)
GaplessLive(c) == phase[c] = "live" => \A i \in 1..SentTo(c) : OnItsWay(c, mlog[i])

Flow(c) == GaplessWire(c) /\ GaplessTaken(c) /\ GaplessChan(c) /\ GaplessLoad(c) /\ GaplessLive(c)

Gapless == GaplessInbox /\ \A c \in Conns : c = conn => Flow(c)

\* The blocks of the batches ascend.
Ascending(c) ==
  /\ \A j \in 1..Len(wire[c]) :
       /\ inbox # NoBatch => BlockNO(inbox.first) <= BlockNO(wire[c][j].first)
       /\ \A k \in j..Len(wire[c]) : BlockNO(wire[c][j].first) <= BlockNO(wire[c][k].first)
       /\ taken[c] # NoBatch => BlockNO(wire[c][j].first) <= BlockNO(taken[c].first)
       /\ \A k \in 1..Len(cewt[c]) : BlockNO(wire[c][j].first) <= BlockNO(cewt[c][k].first)
       /\ phase[c] = "load" => BlockNO(wire[c][j].first) < loading[c]
  /\ inbox # NoBatch =>
       /\ taken[c] # NoBatch => BlockNO(inbox.first) <= BlockNO(taken[c].first)
       /\ \A k \in 1..Len(cewt[c]) : BlockNO(inbox.first) <= BlockNO(cewt[c][k].first)
       /\ phase[c] = "load" => BlockNO(inbox.first) < loading[c]
  /\ \A j \in 1..Len(cewt[c]) :
       /\ taken[c] # NoBatch => BlockNO(taken[c].first) <= BlockNO(cewt[c][j].first)
       /\ \A k \in j..Len(cewt[c]) : BlockNO(cewt[c][j].first) <= BlockNO(cewt[c][k].first)

\* The slave skips whatever is on its way.
TooFar(n) == n >= BlockNO(send) + 2
BeyondInbox == inbox # NoBatch => TooFar(BlockNO(inbox.first))
BeyondFlow(c) ==
  /\ \A j \in 1..Len(wire[c]) : TooFar(BlockNO(wire[c][j].first))
  /\ taken[c] # NoBatch => TooFar(BlockNO(taken[c].first))
  /\ \A j \in 1..Len(cewt[c]) : TooFar(BlockNO(cewt[c][j].first))
  /\ phase[c] = "load" => TooFar(loading[c])
  /\ TooFar(block_NO)

Beyond == BeyondInbox /\ \A c \in Conns : c = conn => BeyondFlow(c)

\* The slave's file ends with a message of the master, or is empty.
EndOK == send = HEADER \/ send - 1 \in Saved

HoleInv ==
  /\ HolesExplained /\ EndOK
  /\ \A c \in Conns : cursor[c] <= send
  /\ \A c \in Conns : c = conn => Ascending(c)
  /\ Gapless \/ Beyond

-----------------------------------------------------------------------------
\* Ids, blocks and offsets.

USE ReplicationAssumption DEF HEADER

\* An id is its block and its offset.
LEMMA IdParts ==
  ASSUME NEW id \in Nat
  PROVE  /\ BlockNO(id) \in Nat /\ Offset(id) \in 0..BlockSize - 1
         /\ id = BlockNO(id) * BlockSize + Offset(id)
BY DEF BlockNO, Offset

\* The block of an id is determined by its parts.
LEMMA IdOf ==
  ASSUME NEW n \in Nat, NEW o \in 0..BlockSize - 1
  PROVE  /\ n * BlockSize + o \in Nat
         /\ BlockNO(n * BlockSize + o) = n /\ Offset(n * BlockSize + o) = o
<1> DEFINE id == n * BlockSize + o
           q  == BlockNO(id)
           r  == Offset(id)
<1>1. id \in Nat
  OBVIOUS
<1>2. q \in Nat /\ r \in 0..BlockSize - 1 /\ n * BlockSize + o = q * BlockSize + r
  BY <1>1, IdParts
<1> HIDE DEF q, r
<1>3. ASSUME NEW x \in Nat, NEW y \in Nat, x < y
      PROVE  x * BlockSize + BlockSize <= y * BlockSize
  <2>1. PICK d \in Nat : y = x + 1 + d
    <3>1. y - x - 1 \in Nat /\ y = x + 1 + (y - x - 1)
      BY <1>3
    <3> QED BY <3>1
  <2>2. y * BlockSize = x * BlockSize + BlockSize + d * BlockSize /\ d * BlockSize >= 0
    BY <2>1
  <2> QED BY <2>2
<1>4. ~ (q < n)
  <2>1. q < n => q * BlockSize + BlockSize <= n * BlockSize
    BY <1>2, <1>3
  <2> QED BY <1>2, <2>1
<1>5. ~ (n < q)
  <2>1. n < q => n * BlockSize + BlockSize <= q * BlockSize
    BY <1>2, <1>3
  <2> QED BY <1>2, <2>1
<1>6. q = n
  BY <1>2, <1>4, <1>5
<1>7. r = o
  BY <1>2, <1>6
<1> QED BY <1>1, <1>6, <1>7 DEF q, r

\* Ids are ordered by block.
LEMMA BlockOrder ==
  ASSUME NEW x \in Nat, NEW y \in Nat, BlockNO(x) < BlockNO(y)
  PROVE  x < y
<1>1. /\ BlockNO(x) \in Nat /\ Offset(x) \in 0..BlockSize - 1
      /\ BlockNO(y) \in Nat /\ Offset(y) \in 0..BlockSize - 1
      /\ x = BlockNO(x) * BlockSize + Offset(x) /\ y = BlockNO(y) * BlockSize + Offset(y)
  BY IdParts
<1> DEFINE p == BlockNO(x)
           q == BlockNO(y)
<1>2. PICK d \in Nat : q = p + 1 + d
  <2>1. q - p - 1 \in Nat /\ q = p + 1 + (q - p - 1)
    BY <1>1
  <2> QED BY <2>1
<1>3. q * BlockSize = p * BlockSize + BlockSize + d * BlockSize /\ d * BlockSize >= 0
  BY <1>1, <1>2
<1> HIDE DEF p, q
<1>4. /\ p * BlockSize \in Nat /\ q * BlockSize \in Nat
  BY <1>1 DEF p, q
<1> QED BY <1>1, <1>3, <1>4 DEF p, q

\* Ids of one block differ like their offsets.
LEMMA SameBlock ==
  ASSUME NEW x \in Nat, NEW y \in Nat, BlockNO(x) = BlockNO(y)
  PROVE  y - x = Offset(y) - Offset(x)
BY IdParts

\* The ids after an id, up to the end of its block.
LEMMA IdPlus ==
  ASSUME NEW id \in Nat, NEW k \in Nat, Offset(id) + k < BlockSize
  PROVE  BlockNO(id + k) = BlockNO(id) /\ Offset(id + k) = Offset(id) + k
<1>1. /\ BlockNO(id) \in Nat /\ Offset(id) \in 0..BlockSize - 1
      /\ id + k = BlockNO(id) * BlockSize + (Offset(id) + k)
  <2> DEFINE p == BlockNO(id) * BlockSize
  <2>1. /\ BlockNO(id) \in Nat /\ Offset(id) \in 0..BlockSize - 1
        /\ id = p + Offset(id)
    BY IdParts
  <2>2. p \in Nat
    BY <2>1
  <2> HIDE DEF p
  <2>3. id + k = p + (Offset(id) + k)
    BY <2>1, <2>2
  <2> QED BY <2>1, <2>3 DEF p
<1>2. Offset(id) + k \in 0..BlockSize - 1
  BY <1>1
<1> QED BY <1>1, <1>2, IdOf

\* What the ids of the model are.
LEMMA MsgIdsAre ==
  ASSUME NEW id \in Nat
  PROVE  /\ id \in MsgIds => BlockNO(id) \in 0..MaxBlock + 1
         /\ id \in MsgIds /\ Offset(id) >= 1 => BlockNO(id) \in 0..MaxBlock
         /\ id >= 1 /\ BlockNO(id) \in 0..MaxBlock => id \in MsgIds
<1>1. /\ BlockNO(id) \in Nat /\ Offset(id) \in 0..BlockSize - 1
      /\ id = BlockNO(id) * BlockSize + Offset(id)
  BY IdParts
<1> DEFINE n == BlockNO(id)
           m == MaxBlock + 1
<1> HIDE DEF n
<1>2. m \in Nat /\ m * BlockSize \in Nat /\ n * BlockSize \in Nat
  BY <1>1 DEF n
<1>3. BlockNO(m * BlockSize) = m /\ Offset(m * BlockSize) = 0
  <2>1. m * BlockSize = m * BlockSize + 0 /\ 0 \in 0..BlockSize - 1
    BY <1>2
  <2> QED BY <1>2, <2>1, IdOf
<1> HIDE DEF m
<1>4. MsgIds = 1..(m * BlockSize)
  BY DEF MsgIds, m
<1>5. n > m => id \notin MsgIds
  BY <1>1, <1>2, <1>3, <1>4, BlockOrder DEF n
<1>6. id \in MsgIds /\ Offset(id) >= 1 => n # m
  <2>1. n = m => id - m * BlockSize = Offset(id)
    BY <1>1, <1>2 DEF n
  <2> QED BY <1>1, <1>2, <1>4, <2>1
<1>7. n < m => id < m * BlockSize
  BY <1>1, <1>2, <1>3, BlockOrder DEF n
<1> QED BY <1>1, <1>2, <1>4, <1>5, <1>6, <1>7 DEF n, m

-----------------------------------------------------------------------------
\* saveMessage: the id it gives, and the log after it.

\* The id of the next message follows the newest one, or begins a block.
LEMMA NewId ==
  ASSUME LogOK, SaveMessage
  PROVE  /\ Len(mlog) < MaxMsgs /\ mlog' = Append(mlog, pending')
         /\ pending' \in MsgIds /\ BlockNO(pending') = block_NO' /\ block_NO' \in 0..MaxBlock
         /\ block_NO' # block_NO => block_NO' = block_NO + 1 /\ mlog # << >>
         /\ Offset(pending') = IF block_NO' = block_NO THEN Cardinality(InBlock(block_NO)) + 1 ELSE 1
         /\ Offset(pending') \in 1..Len(mlog) + 1
         /\ mlog # << >> /\ block_NO' = block_NO => pending' = mlog[Len(mlog)] + 1
<1>1. /\ mlog \in Seq(MsgIds) /\ Len(mlog) < MaxMsgs /\ block_NO \in 0..MaxBlock
      /\ MaxBlock \in Nat /\ MsgIds \subseteq Nat
  BY DEF LogOK, SaveMessage, MsgIds
<1>2. PICK roll \in BOOLEAN :
        /\ roll => block_NO < MaxBlock /\ InBlock(block_NO) # {}
        /\ block_NO' = IF roll THEN block_NO + 1 ELSE block_NO
        /\ pending' = block_NO' * BlockSize + (IF roll THEN HEADER ELSE FileSize(block_NO))
  BY DEF SaveMessage
<1>3. mlog' = Append(mlog, pending')
  BY DEF SaveMessage
<1>4. mlog = << >> => InBlock(block_NO) = {}
  BY DEF InBlock
<1> DEFINE o == IF roll THEN 1 ELSE Cardinality(InBlock(block_NO)) + 1
<1>6. /\ Cardinality(InBlock(block_NO)) = IF mlog = << >> THEN 0 ELSE Offset(mlog[Len(mlog)])
      /\ mlog # << >> => Len(mlog) \in 1..Len(mlog) /\ Offset(mlog[Len(mlog)]) \in Nat
  BY <1>1 DEF LogOK
<1>5. pending' = block_NO' * BlockSize + o
  <2>1. Cardinality(InBlock(block_NO)) \in Nat
    BY <1>6
  <2> QED BY <1>2, <2>1 DEF FileSize
<1>7. o \in 1..Len(mlog) + 1
  <2>1. mlog # << >> => Offset(mlog[Len(mlog)]) \in 1..Len(mlog)
    BY <1>1 DEF LogOK
  <2> QED BY <1>1, <1>6, <2>1
<1>8. block_NO' \in 0..MaxBlock /\ block_NO' \in Nat
  BY <1>1, <1>2
<1> HIDE DEF o
<1>9. pending' \in Nat /\ BlockNO(pending') = block_NO' /\ Offset(pending') = o
  <2>1. o \in 0..BlockSize - 1
    BY <1>1, <1>7
  <2>2. /\ block_NO' * BlockSize + o \in Nat
        /\ BlockNO(block_NO' * BlockSize + o) = block_NO'
        /\ Offset(block_NO' * BlockSize + o) = o
    <3>1. block_NO' \in Nat
      BY <1>8
    <3> QED BY <2>1, <3>1, IdOf
  <2> QED BY <1>5, <2>2
<1>10. pending' \in MsgIds
  <2>1. pending' >= 1
    <3> DEFINE b == block_NO'
    <3>1. b \in Nat
      BY <1>8
    <3> HIDE DEF b
    <3>2. b * BlockSize \in Nat
      BY <3>1
    <3>3. block_NO' * BlockSize \in Nat
      BY <3>2 DEF b
    <3> QED BY <1>5, <1>7, <3>3
  <2> QED BY <1>8, <1>9, <2>1, MsgIdsAre
<1>11. ASSUME mlog # << >>, block_NO' = block_NO PROVE pending' = mlog[Len(mlog)] + 1
  <2>1. mlog[Len(mlog)] \in Nat /\ BlockNO(mlog[Len(mlog)]) = block_NO
    <3>1. Len(mlog) \in 1..Len(mlog)
      BY <1>6, <1>11
    <3>2. mlog[Len(mlog)] \in MsgIds
      BY <1>1, <3>1
    <3> QED BY <1>1, <1>11, <3>2 DEF LogOK
  <2>2. ~ roll
    BY <1>1, <1>2, <1>11
  <2>3. o = Offset(mlog[Len(mlog)]) + 1
    BY <1>6, <1>11, <2>2 DEF o
  <2>4. pending' - mlog[Len(mlog)] = Offset(pending') - Offset(mlog[Len(mlog)])
    BY <1>9, <1>11, <2>1, SameBlock
  <2>5. Offset(mlog[Len(mlog)]) \in Nat
    BY <1>6, <1>11
  <2> QED BY <1>9, <2>1, <2>3, <2>4, <2>5
<1> QED BY <1>1, <1>2, <1>3, <1>4, <1>7, <1>8, <1>9, <1>10, <1>11 DEF o

\* Saving keeps the log a sequence of blocks with consecutive ids.
LEMMA LogSave ==
  ASSUME LogOK, SaveMessage
  PROVE  LogOK'
<1> DEFINE n == Len(mlog)
           id == pending'
<1>1. /\ n < MaxMsgs /\ mlog' = Append(mlog, id)
      /\ id \in MsgIds /\ BlockNO(id) = block_NO' /\ block_NO' \in 0..MaxBlock
      /\ block_NO' # block_NO => block_NO' = block_NO + 1 /\ mlog # << >>
      /\ Offset(id) = IF block_NO' = block_NO THEN Cardinality(InBlock(block_NO)) + 1 ELSE 1
      /\ Offset(id) \in 1..n + 1
      /\ mlog # << >> /\ block_NO' = block_NO => id = mlog[n] + 1
  BY NewId
<1> HIDE DEF id
<1>2. /\ mlog \in Seq(MsgIds) /\ n \in Nat /\ block_NO \in 0..MaxBlock
      /\ MaxBlock \in Nat /\ MsgIds \subseteq Nat
  BY DEF LogOK, MsgIds
<1>3. /\ mlog' \in Seq(MsgIds) /\ Len(mlog') = n + 1 /\ mlog'[n + 1] = id
      /\ \A i \in 1..n : mlog'[i] = mlog[i]
  BY <1>1, <1>2
<1>4. \A i \in 1..n : Offset(mlog[i]) \in 1..i /\ BlockNO(mlog[i]) \in 0..block_NO
  BY DEF LogOK
<1>5. \A i, j \in 1..n : i <= j =>
        /\ BlockNO(mlog[i]) <= BlockNO(mlog[j])
        /\ BlockNO(mlog[i]) = BlockNO(mlog[j]) => mlog[j] = mlog[i] + (j - i)
  BY DEF LogOK
<1>6. mlog # << >> => n \in 1..n /\ BlockNO(mlog[n]) = block_NO
  BY <1>2 DEF LogOK
<1>7. \A i \in 1..n + 1 : Offset(mlog'[i]) \in 1..i /\ BlockNO(mlog'[i]) \in 0..block_NO'
  BY <1>1, <1>2, <1>3, <1>4
<1>8. \A i \in 1..n : BlockNO(mlog[i]) \in 0..block_NO /\ mlog # << >>
  BY <1>2, <1>4
<1>9. ASSUME NEW i \in 1..n PROVE
        /\ BlockNO(mlog[i]) <= block_NO'
        /\ BlockNO(mlog[i]) = block_NO' => id = mlog[i] + (n + 1 - i)
  <2>1. BlockNO(mlog[i]) <= block_NO'
    BY <1>1, <1>2, <1>8
  <2>2. ASSUME BlockNO(mlog[i]) = block_NO' PROVE id = mlog[i] + (n + 1 - i)
    <3>1. block_NO' = block_NO /\ mlog # << >>
      BY <1>1, <1>2, <1>8, <2>2
    <3>2. mlog[n] = mlog[i] + (n - i) /\ mlog[i] \in Nat /\ id = mlog[n] + 1
      <4>1. n \in 1..n /\ i <= n
        BY <1>2, <1>6, <3>1
      <4>2. BlockNO(mlog[i]) = BlockNO(mlog[n])
        BY <1>6, <2>2, <3>1
      <4>3. mlog[n] = mlog[i] + (n - i)
        BY <1>5, <4>1, <4>2
      <4>4. mlog[i] \in MsgIds
        BY <1>2, ElementOfSeq
      <4>5. mlog[i] \in Nat
        BY <1>2, <4>4
      <4> QED BY <1>1, <1>2, <3>1, <4>3, <4>5
    <3> QED BY <1>2, <3>2
  <2> QED BY <2>1, <2>2
<1>10. \A i, j \in 1..n + 1 : i <= j =>
        /\ BlockNO(mlog'[i]) <= BlockNO(mlog'[j])
        /\ BlockNO(mlog'[i]) = BlockNO(mlog'[j]) => mlog'[j] = mlog'[i] + (j - i)
  <2> SUFFICES ASSUME NEW i \in 1..n + 1, NEW j \in 1..n + 1, i <= j
               PROVE  /\ BlockNO(mlog'[i]) <= BlockNO(mlog'[j])
                      /\ BlockNO(mlog'[i]) = BlockNO(mlog'[j]) => mlog'[j] = mlog'[i] + (j - i)
    OBVIOUS
  <2>1. CASE j <= n
    BY <1>2, <1>3, <1>5, <2>1
  <2>2. CASE j = n + 1 /\ i <= n
    BY <1>1, <1>2, <1>3, <1>9, <2>2
  <2>3. CASE j = n + 1 /\ i = n + 1
    BY <1>1, <1>2, <1>3, <2>3
  <2> QED BY <1>2, <2>1, <2>2, <2>3
<1>11. Cardinality(InBlock(block_NO))' = Offset(id)
  <2>1. IsFiniteSet(InBlock(block_NO))
    <3>1. InBlock(block_NO) \in SUBSET (1..n) /\ IsFiniteSet(1..n)
      BY <1>2, FS_Interval DEF InBlock
    <3> QED BY <3>1, FS_Subset
  <2>2. n + 1 \notin InBlock(block_NO)
    BY <1>2 DEF InBlock
  <2>3. CASE block_NO' = block_NO
    <3>1. (InBlock(block_NO))' = InBlock(block_NO) \cup {n + 1}
      <4>1. (InBlock(block_NO))' = {i \in 1..n + 1 : BlockNO(mlog'[i]) = block_NO}
        BY <1>3, <2>3 DEF InBlock
      <4>2. InBlock(block_NO) = {i \in 1..n : BlockNO(mlog[i]) = block_NO}
        BY DEF InBlock
      <4> QED BY <1>1, <1>2, <1>3, <2>3, <4>1, <4>2
    <3>2. Cardinality(InBlock(block_NO) \cup {n + 1}) = Cardinality(InBlock(block_NO)) + 1
      BY <2>1, <2>2, FS_AddElement
    <3>3. Cardinality(InBlock(block_NO))' = Cardinality(InBlock(block_NO)) + 1
      BY <3>1, <3>2, Zenon
    <3> QED BY <1>1, <2>3, <3>3
  <2>4. CASE block_NO' # block_NO
    <3>1. (InBlock(block_NO))' = {n + 1}
      <4>1. (InBlock(block_NO))' = {i \in 1..n + 1 : BlockNO(mlog'[i]) = block_NO'}
        BY <1>3 DEF InBlock
      <4>2. \A i \in 1..n : BlockNO(mlog'[i]) # block_NO'
        BY <1>1, <1>2, <1>3, <1>4, <2>4
      <4> QED BY <1>1, <1>2, <1>3, <4>1, <4>2
    <3>2. Cardinality({n + 1}) = 1
      BY FS_Singleton
    <3>3. Cardinality(InBlock(block_NO))' = 1
      BY <3>1, <3>2, Zenon
    <3> QED BY <1>1, <2>4, <3>3
  <2> QED BY <2>3, <2>4
<1>12. mlog' # << >>
  BY <1>2, <1>3
<1>13. /\ mlog' # << >> => BlockNO(mlog'[Len(mlog')]) = block_NO'
       /\ mlog' = << >> => block_NO' = 0
       /\ Cardinality(InBlock(block_NO))' = IF mlog' = << >> THEN 0 ELSE Offset(mlog'[Len(mlog')])
  BY <1>1, <1>3, <1>11, <1>12
<1>14. Len(mlog') <= MaxMsgs
  BY <1>1, <1>2, <1>3
<1> QED BY <1>1, <1>3, <1>7, <1>10, <1>13, <1>14 DEF LogOK

-----------------------------------------------------------------------------
\* The queues of the master.

\* The queues only depend on these variables.
LEMMA QueueFrame ==
  ASSUME QueueOK, UNCHANGED <<mlog, pending, runVars>>
  PROVE  QueueOK' /\ HandedOver' = HandedOver
BY DEF QueueOK, HandedOver, runVars

\* Appending, taking from the channel, sending and a crash keep cache, ewt and
\* the message being saved the end of the log.
LEMMA QueueSave ==
  ASSUME LogOK, QueueOK, SaveMessage
  PROVE  QueueOK' /\ HandedOver' = HandedOver
<1>1. /\ mlog' = Append(mlog, pending') /\ pending' \in MsgIds
      /\ pending = 0 /\ UNCHANGED <<ewt, cache, sendTo, busy>>
  BY NewId DEF SaveMessage, runVars
<1>2. mlog \in Seq(MsgIds) /\ MsgIds \subseteq Nat /\ 0 \notin MsgIds
  BY DEF LogOK, MsgIds
<1>3. /\ Len(mlog') = Len(mlog) + 1 /\ mlog'[Len(mlog) + 1] = pending'
      /\ \A i \in 1..Len(mlog) : mlog'[i] = mlog[i]
  BY <1>1, <1>2
<1>4. /\ cache \in Seq(MsgIds) /\ ewt \in Seq(MsgIds)
      /\ HandedOver \in Nat /\ HandedOver = Len(mlog) - Len(cache) - Len(ewt)
  BY <1>1 DEF QueueOK, HandedOver
<1>5. HandedOver' = HandedOver
  BY <1>1, <1>2, <1>3, <1>4 DEF HandedOver
<1>6. /\ \A k \in 1..Len(cache) : HandedOver + k \in 1..Len(mlog)
      /\ \A k \in 1..Len(ewt) : HandedOver + Len(cache) + k \in 1..Len(mlog)
  BY <1>2, <1>4
<1>7. /\ \A k \in 1..Len(cache') : cache'[k] = mlog'[HandedOver' + k]
      /\ \A k \in 1..Len(ewt') : ewt'[k] = mlog'[HandedOver' + Len(cache') + k]
  BY <1>1, <1>3, <1>5, <1>6 DEF QueueOK
<1>8. pending' # 0 => pending' = mlog'[Len(mlog')]
  BY <1>3
<1>9. HandedOver' \in Nat
  BY <1>4, <1>5
<1> HIDE DEF HandedOver
<1> QED BY <1>1, <1>5, <1>7, <1>8, <1>9 DEF QueueOK

\* The id that saveMessage holds becomes the last of master.ewt.
LEMMA QueueSendEwt ==
  ASSUME LogOK, QueueOK, SendEwt
  PROVE  QueueOK' /\ HandedOver' = HandedOver
<1>1. /\ pending # 0 /\ pending' = 0 /\ ewt' = Append(ewt, pending) /\ Len(ewt) < ChanSize
      /\ UNCHANGED <<mlog, cache, sendTo, busy>>
  BY DEF SendEwt
<1>2. mlog \in Seq(MsgIds) /\ ewt \in Seq(MsgIds) /\ cache \in Seq(MsgIds) /\ pending \in MsgIds
  BY <1>1 DEF LogOK, QueueOK
<1>3. /\ HandedOver \in Nat /\ HandedOver = Len(mlog) - Len(cache) - Len(ewt) - 1
  BY <1>1 DEF QueueOK, HandedOver
<1>4. /\ ewt' \in Seq(MsgIds) /\ Len(ewt') = Len(ewt) + 1 /\ ewt'[Len(ewt) + 1] = pending
      /\ \A i \in 1..Len(ewt) : ewt'[i] = ewt[i]
  BY <1>1, <1>2
<1>5. HandedOver' = HandedOver
  BY <1>1, <1>2, <1>3, <1>4 DEF HandedOver
<1>6. ASSUME NEW k \in 1..Len(ewt') PROVE ewt'[k] = mlog'[HandedOver' + Len(cache') + k]
  <2>1. CASE k \in 1..Len(ewt)
    BY <1>1, <1>4, <1>5, <2>1 DEF QueueOK
  <2>2. CASE k = Len(ewt) + 1
    <3>1. HandedOver + Len(cache) + k = Len(mlog)
      BY <1>2, <1>3, <2>2
    <3>2. pending = mlog[Len(mlog)]
      BY <1>1 DEF QueueOK
    <3> QED BY <1>1, <1>4, <1>5, <2>2, <3>1, <3>2
  <2> QED BY <1>2, <1>4, <2>1, <2>2
<1>7. \A k \in 1..Len(cache') : cache'[k] = mlog'[HandedOver' + k]
  BY <1>1, <1>5 DEF QueueOK
<1>8. HandedOver' \in Nat /\ Len(ewt') <= ChanSize
  BY <1>1, <1>2, <1>3, <1>4, <1>5
<1> HIDE DEF HandedOver
<1> QED BY <1>1, <1>2, <1>4, <1>5, <1>6, <1>7, <1>8 DEF QueueOK

\* The first id of master.ewt becomes the last of the cache.
LEMMA QueueCollect ==
  ASSUME LogOK, QueueOK, Collect
  PROVE  QueueOK' /\ HandedOver' = HandedOver
<1>1. /\ ~busy /\ ewt # << >> /\ cache' = Append(cache, Head(ewt)) /\ ewt' = Tail(ewt)
      /\ UNCHANGED <<mlog, pending>>
      /\ Len(cache') >= CacheSize => busy' = TRUE
      /\ ~ (Len(cache') >= CacheSize) => busy' = FALSE /\ sendTo' = {}
  <2>1. /\ ~busy /\ ewt # << >> /\ cache' = Append(cache, Head(ewt)) /\ ewt' = Tail(ewt)
        /\ UNCHANGED <<mlog, pending>>
        /\ BeginBatch(IF Len(cache') >= CacheSize THEN cache' ELSE << >>)
    BY DEF Collect
  <2>2. cache' # << >> /\ Len(cache') \in Nat
    BY <2>1 DEF QueueOK
  <2>3. CASE Len(cache') >= CacheSize
    BY <2>1, <2>2, <2>3 DEF BeginBatch
  <2>4. CASE ~ (Len(cache') >= CacheSize)
    BY <2>1, <2>4 DEF BeginBatch
  <2> QED BY <2>3, <2>4
<1>2. mlog \in Seq(MsgIds) /\ ewt \in Seq(MsgIds) /\ cache \in Seq(MsgIds)
  BY <1>1 DEF LogOK, QueueOK
<1>3. /\ HandedOver \in Nat
      /\ HandedOver = Len(mlog) - Len(cache) - Len(ewt) - (IF pending = 0 THEN 0 ELSE 1)
  BY DEF QueueOK, HandedOver
<1>4. /\ ewt' \in Seq(MsgIds) /\ Len(ewt') = Len(ewt) - 1 /\ Head(ewt) = ewt[1]
      /\ \A i \in 1..Len(ewt') : ewt'[i] = ewt[i + 1]
  BY <1>1, <1>2
<1>5. /\ cache' \in Seq(MsgIds) /\ Len(cache') = Len(cache) + 1 /\ cache'[Len(cache) + 1] = ewt[1]
      /\ \A i \in 1..Len(cache) : cache'[i] = cache[i]
  BY <1>1, <1>2, <1>4
<1>6. HandedOver' = HandedOver
  BY <1>1, <1>2, <1>3, <1>4, <1>5 DEF HandedOver
<1>7. ASSUME NEW k \in 1..Len(ewt') PROVE ewt'[k] = mlog'[HandedOver' + Len(cache') + k]
  <2>1. k + 1 \in 1..Len(ewt)
    BY <1>2, <1>4
  <2>2. ewt[k + 1] = mlog[HandedOver + Len(cache) + (k + 1)]
    BY <2>1 DEF QueueOK
  <2>3. HandedOver + Len(cache) + (k + 1) = HandedOver' + Len(cache') + k
    BY <1>2, <1>3, <1>5, <1>6
  <2> QED BY <1>1, <1>4, <2>2, <2>3
<1>8. ASSUME NEW k \in 1..Len(cache') PROVE cache'[k] = mlog'[HandedOver' + k]
  <2>1. CASE k \in 1..Len(cache)
    BY <1>1, <1>5, <1>6, <2>1 DEF QueueOK
  <2>2. CASE k = Len(cache) + 1
    <3>1. 1 \in 1..Len(ewt) /\ HandedOver + Len(cache) + 1 = HandedOver' + k
      BY <1>1, <1>2, <1>3, <1>6, <2>2
    <3>2. ewt[1] = mlog[HandedOver + Len(cache) + 1]
      BY <3>1 DEF QueueOK
    <3> QED BY <1>1, <1>5, <2>2, <3>1, <3>2
  <2> QED BY <1>2, <1>5, <2>1, <2>2
<1>9. /\ HandedOver' \in Nat /\ Len(ewt') <= ChanSize /\ Len(cache') <= CacheSize
      /\ busy' => cache' # << >>
      /\ ~busy' => Len(cache') < CacheSize /\ sendTo' = {}
  <2>1. Len(ewt) <= ChanSize /\ Len(cache) < CacheSize
    BY <1>1 DEF QueueOK
  <2>2. HandedOver' \in Nat /\ Len(ewt') <= ChanSize
    BY <1>2, <1>3, <1>4, <1>6, <2>1
  <2>3. Len(cache') <= CacheSize /\ Len(cache') > 0
    BY <1>2, <1>5, <2>1
  <2>4. cache' # << >>
    BY <2>3
  <2>5. ~busy' => Len(cache') < CacheSize /\ sendTo' = {}
    BY <1>1, <1>2, <1>5
  <2> QED BY <2>2, <2>3, <2>4, <2>5
<1>10. pending' \in MsgIds \cup {0} /\ (pending' # 0 => pending' = mlog'[Len(mlog')])
       /\ busy' \in BOOLEAN
  BY <1>1 DEF QueueOK
<1> HIDE DEF HandedOver
<1> QED BY <1>4, <1>5, <1>6, <1>7, <1>8, <1>9, <1>10 DEF QueueOK

\* The timer changes neither the queues nor what has been handed over.
LEMMA QueueTimeout ==
  ASSUME QueueOK, Timeout
  PROVE  QueueOK' /\ HandedOver' = HandedOver
<1>1. /\ cache # << >> /\ busy' = TRUE /\ UNCHANGED <<mlog, pending, ewt, cache>>
  BY DEF Timeout, BeginBatch
<1>2. HandedOver' = HandedOver
  BY <1>1 DEF HandedOver
<1> HIDE DEF HandedOver
<1> QED BY <1>1, <1>2 DEF QueueOK

\* Sending the cache to one more client leaves the queues.
LEMMA QueueSend ==
  ASSUME QueueOK, NEW c \in Conns, SendBatchTo(c)
  PROVE  QueueOK' /\ HandedOver' = HandedOver
<1>1. busy /\ UNCHANGED <<mlog, pending, ewt, cache, busy>>
  BY DEF SendBatchTo
<1>2. HandedOver' = HandedOver
  BY <1>1 DEF HandedOver
<1> HIDE DEF HandedOver
<1> QED BY <1>1, <1>2 DEF QueueOK

\* When all clients have been served the whole cache is handed over.
LEMMA QueueDone ==
  ASSUME LogOK, QueueOK, SendBatchDone
  PROVE  QueueOK' /\ HandedOver' = HandedOver + Len(cache)
<1>1. /\ busy' = FALSE /\ sendTo' = {} /\ cache' = << >> /\ UNCHANGED <<mlog, pending, ewt>>
  BY DEF SendBatchDone
<1>2. /\ mlog \in Seq(MsgIds) /\ ewt \in Seq(MsgIds) /\ cache \in Seq(MsgIds)
      /\ cache' \in Seq(MsgIds) /\ Len(cache') = 0 /\ CacheSize > 0
  BY <1>1 DEF LogOK, QueueOK
<1>3. /\ HandedOver \in Nat
      /\ HandedOver = Len(mlog) - Len(cache) - Len(ewt) - (IF pending = 0 THEN 0 ELSE 1)
  BY DEF QueueOK, HandedOver
<1>4. HandedOver' = HandedOver + Len(cache)
  BY <1>1, <1>2, <1>3 DEF HandedOver
<1>5. HandedOver' \in Nat /\ HandedOver' + Len(cache') = HandedOver + Len(cache)
  BY <1>2, <1>3, <1>4
<1> HIDE DEF HandedOver
<1>6. \A k \in 1..Len(ewt') : ewt'[k] = mlog'[HandedOver' + Len(cache') + k]
  BY <1>1, <1>5 DEF QueueOK
<1>7. \A k \in 1..Len(cache') : cache'[k] = mlog'[HandedOver' + k]
  BY <1>2
<1>8. /\ Len(ewt') <= ChanSize /\ Len(cache') <= CacheSize /\ busy' \in BOOLEAN
      /\ ewt' \in Seq(MsgIds) /\ pending' \in MsgIds \cup {0}
      /\ pending' # 0 => pending' = mlog'[Len(mlog')]
  <2>1. Len(ewt') <= ChanSize
    BY <1>1 DEF QueueOK
  <2>2. Len(cache') <= CacheSize
    BY <1>2
  <2>3. busy' \in BOOLEAN
    BY <1>1
  <2>4. /\ ewt' \in Seq(MsgIds) /\ pending' \in MsgIds \cup {0}
    BY <1>1 DEF QueueOK
  <2>5. pending' # 0 => pending' = mlog'[Len(mlog')]
    BY <1>1 DEF QueueOK
  <2> QED BY <2>1, <2>2, <2>3, <2>4, <2>5
<1>9. /\ busy' => cache' # << >>
      /\ ~busy' => Len(cache') < CacheSize /\ sendTo' = {}
  BY <1>1, <1>2
<1> QED BY <1>2, <1>4, <1>5, <1>6, <1>7, <1>8, <1>9 DEF QueueOK

\* A killed master has nothing left to hand over.
LEMMA QueueCrash ==
  ASSUME LogOK, MasterCrash
  PROVE  QueueOK' /\ HandedOver' = Len(mlog)
<1>1. /\ busy' = FALSE /\ sendTo' = {} /\ cache' = << >> /\ ewt' = << >> /\ pending' = 0
      /\ UNCHANGED mlog
  BY DEF MasterCrash
<1>2. /\ cache' \in Seq(MsgIds) /\ ewt' \in Seq(MsgIds) /\ Len(cache') = 0 /\ Len(ewt') = 0
      /\ Len(mlog) \in Nat /\ ChanSize > 0 /\ CacheSize > 0
  BY <1>1 DEF LogOK
<1>3. HandedOver' = Len(mlog)
  BY <1>1, <1>2 DEF HandedOver
<1> HIDE DEF HandedOver
<1>4. /\ Len(ewt') <= ChanSize /\ Len(cache') <= CacheSize /\ busy' \in BOOLEAN
      /\ pending' \in MsgIds \cup {0} /\ HandedOver' \in Nat
      /\ pending' # 0 => pending' = mlog'[Len(mlog')]
      /\ busy' => cache' # << >>
      /\ ~busy' => Len(cache') < CacheSize /\ sendTo' = {}
  <2>1. Len(ewt') <= ChanSize
    BY <1>2
  <2>2. Len(cache') <= CacheSize
    BY <1>2
  <2>3. busy' \in BOOLEAN
    BY <1>1
  <2>4. HandedOver' \in Nat
    BY <1>2, <1>3
  <2>5. pending' \in MsgIds \cup {0} /\ pending' = 0
    BY <1>1
  <2>6. ~ busy' /\ Len(cache') < CacheSize /\ sendTo' = {}
    BY <1>1, <1>2
  <2> QED BY <2>1, <2>2, <2>3, <2>4, <2>5, <2>6
<1>5. /\ \A k \in 1..Len(ewt') : ewt'[k] = mlog'[HandedOver' + Len(cache') + k]
      /\ \A k \in 1..Len(cache') : cache'[k] = mlog'[HandedOver' + k]
  BY <1>2
<1> QED BY <1>2, <1>3, <1>4, <1>5 DEF QueueOK

-----------------------------------------------------------------------------
\* The connections.

\* 0, no connection, is not the number of one.
LEMMA ConnNumbers == 0 \notin Conns
BY DEF Conns

\* A step leaves the connections in one of their phases, and a connection that
\* is no client yet has nothing in its channel.
LEMMA ClientsStep ==
  ASSUME IInv, Next
  PROVE  ClientsOK'
<1> USE DEF connVars
<1>0. ClientsOK /\ QueueOK /\ SlaveOK /\ LogOK /\ BatchesOK
  BY DEF IInv
<1>1. ASSUME \/ SaveMessage \/ SendEwt \/ ReceiveBatch \/ SaveNextOfBatch
      PROVE ClientsOK'
  <2>1. UNCHANGED <<phase, clients, sendTo, cewt, taken, conn, loading, cursor>>
    BY <1>1 DEF SaveMessage, SendEwt, ReceiveBatch, SaveNextOfBatch, runVars
  <2> QED BY <1>0, <2>1 DEF ClientsOK
<1>2. ASSUME \/ Collect \/ Timeout \/ SendBatchDone
      PROVE ClientsOK'
  <2>1. UNCHANGED <<phase, clients, cewt, taken, conn, loading, cursor>> /\ sendTo' \in {{}, clients}
    BY <1>2 DEF Collect, Timeout, SendBatchDone, BeginBatch
  <2> QED BY <1>0, <2>1 DEF ClientsOK
<1>3. ASSUME NEW c \in Conns, SendBatchTo(c) PROVE ClientsOK'
  <2>1. /\ c \in sendTo /\ sendTo' = sendTo \ {c} /\ cewt' = [cewt EXCEPT ![c] = cewt'[c]]
        /\ UNCHANGED <<clients, phase, taken, conn, loading, cursor>>
    BY <1>0, <1>3 DEF SendBatchTo, BatchesOK
  <2> QED BY <1>0, <2>1 DEF ClientsOK, BatchesOK
<1>4. ASSUME NEW c \in Conns, LoadBlock(c) PROVE ClientsOK'
  <2>1. /\ loading[c] <= block_NO /\ loading' = [loading EXCEPT ![c] = loading[c] + 1]
        /\ UNCHANGED <<clients, sendTo, phase, taken, cewt, conn, cursor>>
    BY <1>4 DEF LoadBlock, runVars
  <2>2. block_NO \in 0..MaxBlock /\ loading \in [Conns -> 0..MaxBlock + 1]
    BY <1>0 DEF LogOK, ClientsOK
  <2>3. loading' \in [Conns -> 0..MaxBlock + 1]
    BY <2>1, <2>2
  <2> QED BY <1>0, <2>1, <2>3 DEF ClientsOK
<1>5. ASSUME NEW c \in Conns, AddClient(c) PROVE ClientsOK'
  <2>1. /\ phase' = [phase EXCEPT ![c] = "live"] /\ clients' = clients \cup {c} /\ phase[c] = "load"
        /\ UNCHANGED <<sendTo, taken, cewt, conn, loading, cursor>>
    BY <1>5 DEF AddClient, runVars
  <2> QED BY <1>0, <2>1 DEF ClientsOK
<1>6. ASSUME NEW c \in Conns, TakeBatch(c) \/ ForwardBatch(c) PROVE ClientsOK'
  <2>1. /\ taken' = [taken EXCEPT ![c] = taken'[c]] /\ phase[c] = "live"
        /\ \A d \in Conns : d # c => cewt'[d] = cewt[d]
        /\ UNCHANGED <<clients, sendTo, phase, conn, loading, cursor>>
    BY <1>0, <1>6 DEF TakeBatch, ForwardBatch, BatchesOK, runVars
  <2> QED BY <1>0, <2>1 DEF ClientsOK, BatchesOK
<1>7. ASSUME NEW c \in Conns, RemoveClient(c) PROVE ClientsOK'
  <2>1. /\ taken' = [taken EXCEPT ![c] = NoBatch] /\ conn # c
        /\ phase' = [phase EXCEPT ![c] = "end"] /\ clients' = clients \ {c}
        /\ UNCHANGED <<sendTo, cewt, conn, loading, cursor>>
    BY <1>7 DEF RemoveClient, runVars
  <2> QED BY <1>0, <2>1 DEF ClientsOK, BatchesOK
<1>8. ASSUME NEW c \in Conns, Connect(c) PROVE ClientsOK'
  <2>1. /\ conn' = c /\ phase[c] = "none" /\ phase' = [phase EXCEPT ![c] = "load"]
        /\ cursor' = [cursor EXCEPT ![c] = send]
        /\ loading' = [loading EXCEPT ![c] = BlockNO(send)]
        /\ UNCHANGED <<clients, sendTo, cewt, taken>>
    BY <1>8 DEF Connect, NextMessageID, runVars
  <2>2. send \in MsgIds /\ send \in Nat /\ Offset(send) >= 1
    BY <1>0 DEF SlaveOK, MsgIds
  <2>3. BlockNO(send) \in 0..MaxBlock + 1
    BY <2>2, MsgIdsAre
  <2>4. /\ loading' \in [Conns -> 0..MaxBlock + 1] /\ cursor' \in [Conns -> MsgIds \cup {0}]
        /\ phase' \in [Conns -> {"none", "load", "live", "end"}]
    BY <1>0, <2>1, <2>2, <2>3 DEF ClientsOK
  <2> QED BY <1>0, <2>1, <2>4 DEF ClientsOK
<1>9. ASSUME Disconnect \/ SlaveCrash PROVE ClientsOK'
  <2>1. conn' = 0 /\ UNCHANGED <<phase, clients, sendTo, cewt, taken, loading, cursor>>
    BY <1>9 DEF Disconnect, SlaveCrash, runVars
  <2> QED BY <1>0, <2>1 DEF ClientsOK
<1>10. ASSUME MasterCrash PROVE ClientsOK'
  <2>1. /\ sendTo' = {} /\ clients' = {} /\ conn' = 0
        /\ phase' = [c \in Conns |-> IF phase[c] = "none" THEN "none" ELSE "end"]
        /\ cewt' = [c \in Conns |-> << >>] /\ taken' = [c \in Conns |-> NoBatch]
        /\ UNCHANGED <<loading, cursor>>
    BY <1>10 DEF MasterCrash
  <2> QED BY <1>0, <2>1 DEF ClientsOK
<1> QED BY <1>1, <1>2, <1>3, <1>4, <1>5, <1>6, <1>7, <1>8, <1>9, <1>10
        DEF Next, MasterNext, SlaveNext, ClientNext

-----------------------------------------------------------------------------
\* Batches.

\* A batch stays one when messages are added to the log.
LEMMA StretchStays ==
  ASSUME Saved \subseteq Saved', NEW b, Stretch(b)
  PROVE  Stretch(b)'
BY DEF Stretch, Faithful

\* Ids are numbers.
LEMMA IdsAreNat == MsgIds \subseteq Nat
BY DEF MsgIds

\* NoBatch is empty, a batch is not.
LEMMA NotABatch == NoBatch.msgs = << >> /\ NoBatch.first = 0 /\ \A b : Stretch(b) => b # NoBatch
BY DEF Stretch, NoBatch, Batch

\* saveMessage adds the new id to the saved ones.
LEMMA SavedGrows ==
  ASSUME LogOK, SaveMessage
  PROVE  Saved' = Saved \cup {pending'}
<1>1. mlog' = Append(mlog, pending') /\ pending' \in MsgIds /\ mlog \in Seq(MsgIds)
  BY NewId DEF LogOK
<1>2. /\ Len(mlog') = Len(mlog) + 1 /\ mlog'[Len(mlog) + 1] = pending'
      /\ \A i \in 1..Len(mlog) : mlog'[i] = mlog[i]
  BY <1>1
<1>3. \A i : i \in 1..Len(mlog') <=> i \in 1..Len(mlog) \/ i = Len(mlog) + 1
  BY <1>1, <1>2
<1> QED BY <1>2, <1>3 DEF Saved

\* What SendBatch sends.
LEMMA CacheIsStretch ==
  ASSUME LogOK, QueueOK, OneBlock, cache # << >>
  PROVE  /\ Stretch(Batch(cache[1], cache))
         /\ cache[1] = mlog[HandedOver + 1] /\ HandedOver + 1 \in 1..Len(mlog)
         /\ ~LiveRollover => BlockNO(cache[1]) = block_NO
<1>1. /\ mlog \in Seq(MsgIds) /\ Len(mlog) <= MaxMsgs /\ cache \in Seq(MsgIds) /\ ewt \in Seq(MsgIds)
      /\ HandedOver \in Nat /\ HandedOver + Len(cache) <= Len(mlog) /\ Len(cache) > 0
      /\ MsgIds \subseteq Nat
  <2>1. /\ mlog \in Seq(MsgIds) /\ Len(mlog) <= MaxMsgs /\ cache \in Seq(MsgIds)
        /\ ewt \in Seq(MsgIds) /\ HandedOver \in Nat /\ MsgIds \subseteq Nat
    BY IdsAreNat DEF LogOK, QueueOK
  <2>2. HandedOver + Len(cache) <= Len(mlog)
    BY <2>1 DEF HandedOver
  <2>3. Len(cache) > 0
    BY <2>1
  <2> QED BY <2>1, <2>2, <2>3
<1> DEFINE n == HandedOver
<1> HIDE DEF n
<1>2. /\ n \in Nat /\ n + Len(cache) <= Len(mlog)
      /\ \A k \in 1..Len(cache) : cache[k] = mlog[n + k] /\ n + k \in 1..Len(mlog) /\ cache[k] \in MsgIds
  BY <1>1 DEF QueueOK, n
<1>3. /\ 1 \in 1..Len(cache) /\ cache[1] = mlog[n + 1] /\ n + 1 \in 1..Len(mlog)
      /\ cache[1] \in MsgIds /\ cache[1] \in Nat
  <2>1. 1 \in 1..Len(cache)
    BY <1>1
  <2> QED BY <1>1, <1>2, <2>1
<1>4. Offset(cache[1]) \in 1..n + 1
  BY <1>3 DEF LogOK
<1>5. Batch(cache[1], cache) \in Batches
  BY <1>1, <1>3 DEF Batch, Batches
<1>6. ASSUME ~LiveRollover PROVE Faithful(Batch(cache[1], cache)) /\ BlockNO(cache[1]) = block_NO
  <2>1. \A k \in 1..Len(cache) : BlockNO(cache[k]) = block_NO
    BY <1>1, <1>2, <1>6 DEF OneBlock, n
  <2>2. ASSUME NEW k \in 1..Len(cache) PROVE cache[k] = cache[1] + (k - 1) /\ cache[k] \in Saved
    <3>1. n + 1 <= n + k /\ BlockNO(mlog[n + 1]) = BlockNO(mlog[n + k])
      BY <1>2, <1>3, <2>1
    <3>2. mlog[n + k] = mlog[n + 1] + ((n + k) - (n + 1))
      BY <1>2, <1>3, <3>1 DEF LogOK
    <3>3. (n + k) - (n + 1) = k - 1
      BY <1>2
    <3> QED BY <1>2, <1>3, <3>2, <3>3 DEF Saved
  <2> QED BY <1>3, <2>1, <2>2 DEF Faithful, Batch
<1>7. Offset(cache[1]) + Len(cache) - 1 <= MaxMsgs
  BY <1>1, <1>2, <1>4
<1>8. Batch(cache[1], cache).first = cache[1] /\ Batch(cache[1], cache).msgs = cache
  BY DEF Batch
<1> HIDE DEF Batch
<1>9. Stretch(Batch(cache[1], cache))
  BY <1>1, <1>4, <1>5, <1>6, <1>7, <1>8 DEF Stretch
<1> QED BY <1>3, <1>6, <1>9 DEF n

\* A non-empty set of numbers has a least element.
LEMMA LeastElement ==
  ASSUME NEW T \in SUBSET Nat, T # {}
  PROVE  \E x \in T : \A y \in T : x <= y
<1> DEFINE R == OpToRel(<, Nat)
<1>1. IsWellFoundedOn(R, Nat)
  BY NatLessThanWellFounded
<1>2. ASSUME NEW x \in Nat, NEW y \in Nat, y < x PROVE <<y, x>> \in R
  BY <1>2 DEF OpToRel
<1> HIDE DEF R
<1>3. PICK x \in T : \A y \in T : ~ (<<y, x>> \in R)
  BY <1>1, WFMin, Zenon
<1>4. ASSUME NEW y \in T PROVE x <= y
  <2>1. x \in Nat /\ y \in Nat
    OBVIOUS
  <2>2. ~ (y < x)
    BY <1>2, <1>3, <2>1
  <2> QED BY <2>1, <2>2
<1> QED BY <1>4

\* A non-empty finite set of positions has a last one.
LEMMA LastElement ==
  ASSUME NEW n \in Nat, NEW S \in SUBSET (1..n), S # {}
  PROVE  \E x \in S : \A y \in S : y <= x
<1> DEFINE T == {n - y : y \in S}
<1>0. \A y \in S : y \in 1..n
  OBVIOUS
<1>1. T \in SUBSET Nat /\ T # {}
  <2>1. \A y \in S : n - y \in Nat
    BY <1>0
  <2> QED BY <2>1
<1>2. PICK t \in T : \A u \in T : t <= u
  BY <1>1, LeastElement
<1>3. PICK x \in S : t = n - x
  BY <1>2
<1>4. ASSUME NEW y \in S PROVE y <= x
  <2>1. n - x <= n - y
    BY <1>2, <1>3
  <2> QED BY <1>0, <2>1
<1> QED BY <1>4

\* What the background load sends of block n: the messages of the block from
\* the first one whose offset is at least o, without a gap.
LEMMA LoadIsStretch ==
  ASSUME LogOK, NEW n \in Nat, NEW o \in Nat,
         NEW found, found = {i \in InBlock(n) : Offset(mlog[i]) >= o},
         NEW i \in found, \A j \in found : i <= j,
         NEW b, b = Batch(mlog[i], SubSeq(mlog, i, i + Cardinality(found) - 1))
  PROVE  /\ Stretch(b) /\ b.first = mlog[i] /\ BlockNO(b.first) = n
         /\ i \in 1..Len(mlog)
         /\ \A j \in found : Has(b, mlog[j])
<1> DEFINE L == Len(mlog)
           m == Cardinality(found)
<1>1. /\ mlog \in Seq(MsgIds) /\ L <= MaxMsgs /\ L \in Nat /\ MsgIds \subseteq Nat
      /\ \A j \in 1..L : Offset(mlog[j]) \in 1..j /\ mlog[j] \in MsgIds /\ mlog[j] \in Nat
  <2>1. mlog \in Seq(MsgIds) /\ L <= MaxMsgs /\ L \in Nat /\ MsgIds \subseteq Nat
    BY DEF LogOK, MsgIds
  <2>2. \A j \in 1..L : mlog[j] \in MsgIds
    BY <2>1, ElementOfSeq
  <2> QED BY <2>1, <2>2 DEF LogOK
<1>2. \A j \in found : j \in 1..L /\ BlockNO(mlog[j]) = n /\ Offset(mlog[j]) >= o
  BY DEF InBlock
<1>3. PICK h \in found : \A j \in found : j <= h
  <2>1. found \in SUBSET (1..L) /\ found # {}
    BY <1>2
  <2> QED BY <1>1, <2>1, LastElement
<1>4. i \in 1..L /\ h \in 1..L /\ i <= h /\ i \in Nat /\ h \in Nat
  BY <1>1, <1>2, <1>3
<1>5. \A j, k \in 1..L : j <= k => /\ BlockNO(mlog[j]) <= BlockNO(mlog[k])
                                   /\ BlockNO(mlog[j]) = BlockNO(mlog[k]) => mlog[k] = mlog[j] + (k - j)
  BY DEF LogOK
<1>6. ASSUME NEW j \in i..h
      PROVE  BlockNO(mlog[j]) = n /\ mlog[j] = mlog[i] + (j - i) /\ j \in 1..L
  <2>1. j \in 1..L /\ i <= j /\ j <= h
    BY <1>1, <1>4
  <2>2. BlockNO(mlog[i]) <= BlockNO(mlog[j]) /\ BlockNO(mlog[j]) <= BlockNO(mlog[h])
    BY <1>4, <1>5, <2>1
  <2>3. BlockNO(mlog[i]) = n /\ BlockNO(mlog[h]) = n /\ BlockNO(mlog[j]) \in Nat
    BY <1>1, <1>2, <1>3, <2>1, IdParts
  <2>4. BlockNO(mlog[j]) = n
    BY <2>2, <2>3
  <2> QED BY <1>4, <1>5, <2>1, <2>3, <2>4
<1>7. found = i..h
  <2>1. ASSUME NEW j \in i..h PROVE j \in found
    <3>1. BlockNO(mlog[j]) = n /\ mlog[j] = mlog[i] + (j - i) /\ j \in 1..L
      BY <1>6
    <3>2. mlog[j] - mlog[i] = Offset(mlog[j]) - Offset(mlog[i])
      BY <1>1, <1>2, <1>4, <3>1, SameBlock
    <3>3. Offset(mlog[j]) >= o
      <4>1. Offset(mlog[j]) \in Nat /\ Offset(mlog[i]) \in Nat /\ Offset(mlog[i]) >= o
        BY <1>1, <1>2, <1>4, <3>1
      <4>2. j \in Nat /\ i \in Nat /\ j >= i /\ mlog[i] \in Nat /\ mlog[j] \in Nat
        BY <1>1, <1>4, <3>1
      <4> QED BY <3>1, <3>2, <4>1, <4>2
    <3> QED BY <3>1, <3>3 DEF InBlock
  <2>2. \A j \in found : j \in i..h
    BY <1>1, <1>2, <1>3, <1>4
  <2> QED BY <2>1, <2>2
<1>8. m = h - i + 1 /\ i + m - 1 = h
  <2>1. Cardinality(i..h) = IF i > h THEN 0 ELSE h - i + 1
    BY <1>4, FS_Interval
  <2>2. m = Cardinality(i..h)
    BY <1>7, Zenon
  <2> HIDE DEF m
  <2> QED BY <1>4, <2>1, <2>2
<1> DEFINE msgs == SubSeq(mlog, i, i + Cardinality(found) - 1)
<1>9. msgs \in Seq(MsgIds) /\ Len(msgs) = m /\ \A k \in 1..m : msgs[k] = mlog[i + k - 1]
  <2>1. \A k \in i..h : mlog[k] \in MsgIds
    BY <1>1, <1>6
  <2>2. msgs = SubSeq(mlog, i, h)
    BY <1>8
  <2>3. /\ SubSeq(mlog, i, h) \in Seq(MsgIds)
        /\ Len(SubSeq(mlog, i, h)) = IF i <= h THEN h - i + 1 ELSE 0
        /\ \A k \in 1..h - i + 1 : SubSeq(mlog, i, h)[k] = mlog[i + k - 1]
    <3>1. i \in Int /\ h \in Int
      BY <1>4
    <3> QED BY <2>1, <3>1, SubSeqProperties
  <2> QED BY <1>4, <1>8, <2>2, <2>3
<1> HIDE DEF m, msgs
<1>10. b.first = mlog[i] /\ b.msgs = msgs /\ b \in Batches
  <2>1. b = [first |-> mlog[i], msgs |-> msgs]
    BY DEF Batch, msgs
  <2> QED BY <1>1, <1>4, <1>9, <2>1 DEF Batches
<1>11. Offset(b.first) >= 1 /\ Offset(b.first) + Len(b.msgs) - 1 <= MaxMsgs /\ Len(b.msgs) > 0
  <2>1. Offset(mlog[i]) \in 1..i
    BY <1>1, <1>4
  <2> QED BY <1>1, <1>4, <1>8, <1>9, <1>10, <2>1
<1>12. Faithful(b)
  <2>1. ASSUME NEW k \in 1..m PROVE msgs[k] = mlog[i] + (k - 1) /\ msgs[k] \in Saved
    <3>1. i + k - 1 \in i..h /\ (i + k - 1) - i = k - 1
      BY <1>4, <1>8
    <3>2. mlog[i + k - 1] = mlog[i] + ((i + k - 1) - i) /\ i + k - 1 \in 1..L
      BY <1>6, <3>1
    <3> QED BY <1>9, <3>1, <3>2 DEF Saved
  <2> QED BY <1>9, <1>10, <2>1 DEF Faithful
<1>13. ASSUME NEW j \in found PROVE Has(b, mlog[j])
  <2>1. j \in i..h
    BY <1>7
  <2>2. mlog[j] = mlog[i] + (j - i) /\ mlog[i] \in Nat /\ j \in Nat /\ i <= j /\ j <= h
    BY <1>1, <1>4, <1>6, <2>1
  <2>3. mlog[i] <= mlog[j] /\ mlog[j] < mlog[i] + m
    BY <1>4, <1>8, <2>2
  <2> QED BY <1>9, <1>10, <2>3 DEF Has
<1> QED BY <1>2, <1>4, <1>10, <1>11, <1>12, <1>13 DEF Stretch

\* What is left of a batch when its first message has been saved.
LEMMA RestIsStretch ==
  ASSUME NEW b, Stretch(b), Len(b.msgs) # 1,
         NEW r, r = Batch(b.first + 1, Tail(b.msgs))
  PROVE  /\ Stretch(r) /\ r.first = b.first + 1 /\ BlockNO(r.first) = BlockNO(b.first)
         /\ \A id \in Nat : Has(b, id) => id = b.first \/ Has(r, id)
<1>1. /\ b.first \in MsgIds /\ b.first \in Nat /\ b.msgs \in Seq(MsgIds) /\ Len(b.msgs) > 1
      /\ Offset(b.first) >= 1 /\ Offset(b.first) + Len(b.msgs) - 1 <= MaxMsgs
      /\ Len(b.msgs) \in Nat
  <2>1. /\ b.first \in MsgIds /\ b.msgs \in Seq(MsgIds) /\ Len(b.msgs) > 0
        /\ Offset(b.first) >= 1 /\ Offset(b.first) + Len(b.msgs) - 1 <= MaxMsgs
    BY DEF Stretch, Batches
  <2>2. Len(b.msgs) \in Nat
    BY <2>1
  <2>3. Len(b.msgs) > 1
    <3> DEFINE n == Len(b.msgs)
    <3>1. n \in Nat /\ n > 0 /\ n # 1
      BY <2>1, <2>2
    <3> HIDE DEF n
    <3>2. n > 1
      BY <3>1
    <3> QED BY <3>2 DEF n
  <2>4. b.first \in Nat
    BY <2>1, IdsAreNat
  <2> QED BY <2>1, <2>2, <2>3, <2>4
<1>2. Offset(b.first) \in Nat
  <2>1. Offset(b.first) \in 0..BlockSize - 1
    BY <1>1, IdParts
  <2> QED BY <2>1
<1>3. BlockNO(b.first + 1) = BlockNO(b.first) /\ Offset(b.first + 1) = Offset(b.first) + 1
  <2>1. Offset(b.first) + 1 < BlockSize
    BY <1>1, <1>2
  <2> QED BY <1>1, <2>1, IdPlus
<1>4. b.first + 1 \in MsgIds
  <2>1. BlockNO(b.first) \in 0..MaxBlock
    BY <1>1, MsgIdsAre
  <2> QED BY <1>1, <1>3, <2>1, MsgIdsAre
<1>5. /\ Tail(b.msgs) \in Seq(MsgIds) /\ Len(Tail(b.msgs)) = Len(b.msgs) - 1
      /\ \A k \in 1..Len(b.msgs) - 1 : Tail(b.msgs)[k] = b.msgs[k + 1]
  BY <1>1
<1>6. r.first = b.first + 1 /\ r.msgs = Tail(b.msgs) /\ r \in Batches
  BY <1>4, <1>5 DEF Batch, Batches
<1>7. ASSUME ~LiveRollover PROVE Faithful(r)
  <2> SUFFICES ASSUME NEW k \in 1..Len(b.msgs) - 1
               PROVE  Tail(b.msgs)[k] = b.first + 1 + (k - 1) /\ Tail(b.msgs)[k] \in Saved
    BY <1>5, <1>6 DEF Faithful
  <2>1. k + 1 \in 1..Len(b.msgs)
    BY <1>1
  <2>2. b.msgs[k + 1] = b.first + ((k + 1) - 1) /\ b.msgs[k + 1] \in Saved
    BY <1>7, <2>1 DEF Stretch, Faithful
  <2> QED BY <1>1, <1>5, <2>2
<1>8. ASSUME NEW id \in Nat, Has(b, id) PROVE id = b.first \/ Has(r, id)
  <2>1. b.first <= id /\ id < b.first + Len(b.msgs)
    BY <1>8 DEF Has
  <2>2. r.first = b.first + 1 /\ Len(r.msgs) = Len(b.msgs) - 1
    BY <1>5, <1>6
  <2> QED BY <1>1, <2>1, <2>2 DEF Has
<1>9. Offset(r.first) >= 1 /\ Offset(r.first) + Len(r.msgs) - 1 <= MaxMsgs /\ Len(r.msgs) > 0
  <2>1. Offset(r.first) = Offset(b.first) + 1 /\ Len(r.msgs) = Len(b.msgs) - 1
    BY <1>3, <1>5, <1>6
  <2> QED BY <1>1, <1>2, <2>1
<1>10. Stretch(r)
  BY <1>6, <1>7, <1>9 DEF Stretch
<1> QED BY <1>3, <1>6, <1>8, <1>10

\* Every batch stays a stretch on its way from SendBatch, or from the block
\* files, to the slave, and loses its first message when that is saved.
LEMMA BatchesStep ==
  ASSUME IInv, Next
  PROVE  BatchesOK'
<1>0. ClientsOK /\ QueueOK /\ OneBlock /\ SlaveOK /\ LogOK /\ BatchesOK
  BY DEF IInv
<1>1. /\ wire \in [Conns -> Seq(Batches)] /\ cewt \in [Conns -> Seq(Batches)]
      /\ taken \in [Conns -> Batches \cup {NoBatch}]
      /\ \A c \in Conns : Len(cewt[c]) <= ChanSize
      /\ \A c \in Conns : c # conn => wire[c] = << >>
      /\ \A c \in Conns : \A j \in 1..Len(wire[c]) : Stretch(wire[c][j])
      /\ \A c \in Conns : \A j \in 1..Len(cewt[c]) : Stretch(cewt[c][j])
      /\ \A c \in Conns : taken[c] # NoBatch => Stretch(taken[c])
      /\ inbox = NoBatch \/ Stretch(inbox)
      /\ conn \in Conns \cup {0}
  BY <1>0 DEF BatchesOK, ClientsOK
<1>2. ASSUME SaveMessage PROVE BatchesOK'
  <2>1. Saved \subseteq Saved'
    BY <1>0, <1>2, SavedGrows
  <2>2. \A b : Stretch(b) => Stretch(b)'
    BY <2>1, StretchStays
  <2>3. UNCHANGED <<wire, cewt, taken, conn, inbox>>
    BY <1>2 DEF SaveMessage, connVars, slaveVars
  <2> QED BY <1>1, <2>2, <2>3 DEF BatchesOK
<1>3. ASSUME UNCHANGED mlog, NEW b, Stretch(b) PROVE Stretch(b)'
  BY <1>3 DEF Stretch, Faithful, Saved
<1>4. ASSUME SendEwt \/ Collect \/ Timeout \/ SendBatchDone PROVE BatchesOK'
  <2>1. UNCHANGED <<mlog, wire, cewt, taken, conn, inbox>>
    BY <1>4 DEF SendEwt, Collect, Timeout, SendBatchDone, connVars, slaveVars
  <2> QED BY <1>1, <1>3, <2>1 DEF BatchesOK
<1>5. ASSUME NEW c \in Conns, SendBatchTo(c) PROVE BatchesOK'
  <2> DEFINE b == Batch(cache[1], cache)
  <2>1. /\ Len(cewt[c]) < ChanSize /\ cewt' = [cewt EXCEPT ![c] = Append(cewt[c], b)]
        /\ busy /\ UNCHANGED <<mlog, wire, taken, conn, inbox>>
    BY <1>5 DEF SendBatchTo, slaveVars
  <2>2. Stretch(b)
    BY <1>0, <2>1, CacheIsStretch DEF QueueOK
  <2> HIDE DEF b
  <2>3. b \in Batches
    BY <2>2 DEF Stretch
  <2>4. /\ cewt'[c] \in Seq(Batches) /\ Len(cewt'[c]) = Len(cewt[c]) + 1 /\ cewt'[c][Len(cewt[c]) + 1] = b
        /\ \A j \in 1..Len(cewt[c]) : cewt'[c][j] = cewt[c][j]
        /\ \A d \in Conns : d # c => cewt'[d] = cewt[d]
        /\ Len(cewt[c]) \in Nat
    BY <1>1, <2>1, <2>3
  <2>5. cewt' \in [Conns -> Seq(Batches)]
    BY <1>1, <2>1, <2>4
  <2>6. \A j \in 1..Len(cewt'[c]) : Stretch(cewt'[c][j])
    BY <1>1, <2>2, <2>4
  <2>7. \A d \in Conns : \A j \in 1..Len(cewt'[d]) : Stretch(cewt'[d][j])
    BY <1>1, <2>4, <2>6
  <2>8. \A d \in Conns : Len(cewt'[d]) <= ChanSize
    BY <1>1, <2>1, <2>4
  <2> QED BY <1>1, <1>3, <2>1, <2>5, <2>7, <2>8 DEF BatchesOK
<1>6. ASSUME NEW c \in Conns, NEW b, Transmit(c, b), Stretch(b),
             UNCHANGED <<mlog, cewt, conn, inbox>>,
             taken' = taken \/ taken' = [taken EXCEPT ![c] = NoBatch]
      PROVE  BatchesOK'
  <2>1. b \in Batches
    BY <1>6 DEF Stretch
  <2>2. taken' \in [Conns -> Batches \cup {NoBatch}] /\ \A d \in Conns : taken'[d] \in {taken[d], NoBatch}
    BY <1>1, <1>6
  <2>3. CASE conn # c
    BY <1>1, <1>3, <1>6, <2>2, <2>3 DEF BatchesOK, Transmit
  <2>4. CASE conn = c
    <3>1. wire' = [wire EXCEPT ![c] = Append(wire[c], b)]
      BY <1>6, <2>4 DEF Transmit
    <3>2. /\ wire'[c] \in Seq(Batches) /\ Len(wire'[c]) = Len(wire[c]) + 1 /\ wire'[c][Len(wire[c]) + 1] = b
          /\ \A j \in 1..Len(wire[c]) : wire'[c][j] = wire[c][j]
          /\ \A d \in Conns : d # c => wire'[d] = wire[d]
          /\ Len(wire[c]) \in Nat
      BY <1>1, <2>1, <3>1
    <3>3. wire' \in [Conns -> Seq(Batches)]
      BY <1>1, <3>1, <3>2
    <3>4. \A j \in 1..Len(wire'[c]) : Stretch(wire'[c][j])
      <4> TAKE j \in 1..Len(wire'[c])
      <4>1. j \in 1..Len(wire[c]) \/ j = Len(wire[c]) + 1
        BY <3>2
      <4> QED BY <1>1, <1>6, <3>2, <4>1
    <3>5. \A d \in Conns : \A j \in 1..Len(wire'[d]) : Stretch(wire'[d][j])
      BY <1>1, <3>2, <3>4
    <3> QED BY <1>1, <1>3, <1>6, <2>2, <2>4, <3>2, <3>3, <3>5 DEF BatchesOK
  <2> QED BY <2>3, <2>4
<1>7. ASSUME NEW c \in Conns, LoadBlock(c) PROVE BatchesOK'
  <2> DEFINE n == loading[c]
             first == IF n = BlockNO(cursor[c]) THEN Offset(cursor[c]) ELSE HEADER
             found == {i \in InBlock(n) : Offset(mlog[i]) >= first}
  <2>1. /\ \/ wire' = wire
           \/ \E i \in found : /\ \A j \in found : i <= j
                               /\ Transmit(c, Batch(mlog[i], SubSeq(mlog, i, i + Cardinality(found) - 1)))
        /\ UNCHANGED <<mlog, cewt, taken, conn, inbox>>
    BY <1>7 DEF LoadBlock, slaveVars
  <2>2. n \in Nat /\ first \in Nat
    <3>1. n \in 0..MaxBlock + 1 /\ cursor[c] \in MsgIds \cup {0}
      BY <1>0 DEF ClientsOK
    <3>2. cursor[c] \in Nat
      <4>1. cursor[c] \in MsgIds => cursor[c] \in Nat
        BY IdsAreNat
      <4> QED BY <3>1, <4>1
    <3>3. Offset(cursor[c]) \in 0..BlockSize - 1
      BY <3>2, IdParts
    <3> QED BY <3>1, <3>3
  <2>3. CASE wire' = wire
    BY <1>1, <1>3, <2>1, <2>3 DEF BatchesOK
  <2>4. ASSUME NEW i \in found, \A j \in found : i <= j,
               Transmit(c, Batch(mlog[i], SubSeq(mlog, i, i + Cardinality(found) - 1)))
        PROVE  BatchesOK'
    <3> DEFINE b == Batch(mlog[i], SubSeq(mlog, i, i + Cardinality(found) - 1))
    <3> HIDE DEF first
    <3>1. Stretch(b)
      BY <1>0, <2>2, <2>4, LoadIsStretch
    <3> HIDE DEF b
    <3> QED BY <1>6, <2>1, <2>4, <3>1 DEF b
  <2> QED BY <2>1, <2>3, <2>4
<1>8. ASSUME NEW c \in Conns, ForwardBatch(c) PROVE BatchesOK'
  <2>1. /\ Stretch(taken[c]) /\ Transmit(c, taken[c]) /\ taken' = [taken EXCEPT ![c] = NoBatch]
        /\ UNCHANGED <<mlog, cewt, conn, inbox>>
    BY <1>1, <1>8 DEF ForwardBatch, slaveVars
  <2> QED BY <1>6, <2>1
<1>9. ASSUME NEW c \in Conns, AddClient(c) \/ RemoveClient(c) PROVE BatchesOK'
  <2>1. /\ UNCHANGED <<mlog, wire, cewt, conn, inbox>>
        /\ taken' = taken \/ taken' = [taken EXCEPT ![c] = NoBatch]
    BY <1>9 DEF AddClient, RemoveClient, slaveVars
  <2>2. taken' \in [Conns -> Batches \cup {NoBatch}] /\ \A d \in Conns : taken'[d] \in {taken[d], NoBatch}
    BY <1>1, <2>1
  <2> QED BY <1>1, <1>3, <2>1, <2>2 DEF BatchesOK
<1>10. ASSUME NEW c \in Conns, TakeBatch(c) PROVE BatchesOK'
  <2>1. /\ cewt[c] # << >> /\ taken' = [taken EXCEPT ![c] = Head(cewt[c])]
        /\ cewt' = [cewt EXCEPT ![c] = Tail(cewt[c])]
        /\ UNCHANGED <<mlog, wire, conn, inbox>>
    BY <1>10 DEF TakeBatch, slaveVars
  <2>2. cewt[c] \in Seq(Batches) /\ Len(cewt[c]) \in Nat /\ Len(cewt[c]) > 0
    BY <1>1, <2>1
  <2>3. /\ Head(cewt[c]) = cewt[c][1] /\ cewt[c][1] \in Batches /\ Tail(cewt[c]) \in Seq(Batches)
        /\ Len(Tail(cewt[c])) = Len(cewt[c]) - 1
        /\ \A j \in 1..Len(cewt[c]) - 1 : Tail(cewt[c])[j] = cewt[c][j + 1]
        /\ Stretch(cewt[c][1])
    BY <1>1, <2>1, <2>2
  <2>4. /\ taken' \in [Conns -> Batches \cup {NoBatch}] /\ cewt' \in [Conns -> Seq(Batches)]
        /\ \A d \in Conns : taken'[d] # NoBatch => Stretch(taken'[d])
    BY <1>1, <2>1, <2>3
  <2>5. \A j \in 1..Len(cewt'[c]) : Stretch(cewt'[c][j])
    <3> TAKE j \in 1..Len(cewt'[c])
    <3>1. j \in 1..Len(cewt[c]) - 1 /\ j + 1 \in 1..Len(cewt[c]) /\ cewt'[c][j] = cewt[c][j + 1]
      BY <1>1, <2>1, <2>2, <2>3
    <3> QED BY <1>1, <3>1
  <2>6. \A d \in Conns : Len(cewt'[d]) <= ChanSize /\ \A j \in 1..Len(cewt'[d]) : Stretch(cewt'[d][j])
    BY <1>1, <2>1, <2>2, <2>3, <2>5
  <2> QED BY <1>1, <1>3, <2>1, <2>4, <2>6 DEF BatchesOK
<1>11. ASSUME NEW c \in Conns, Connect(c) PROVE BatchesOK'
  <2>1. /\ conn = 0 /\ conn' = c /\ UNCHANGED <<mlog, wire, cewt, taken, inbox>>
    BY <1>11 DEF Connect, slaveVars
  <2> QED BY <1>1, <1>3, <2>1, ConnNumbers DEF BatchesOK
<1>12. ASSUME ReceiveBatch PROVE BatchesOK'
  <2>1. /\ conn \in Conns /\ wire[conn] # << >> /\ inbox' = Head(wire[conn])
        /\ wire' = [wire EXCEPT ![conn] = Tail(wire[conn])]
        /\ UNCHANGED <<mlog, cewt, taken, conn>>
    BY <1>1, <1>12 DEF ReceiveBatch, connVars
  <2>2. wire[conn] \in Seq(Batches) /\ Len(wire[conn]) \in Nat /\ Len(wire[conn]) > 0
    BY <1>1, <2>1
  <2>3. /\ Head(wire[conn]) = wire[conn][1] /\ Tail(wire[conn]) \in Seq(Batches)
        /\ Len(Tail(wire[conn])) = Len(wire[conn]) - 1
        /\ \A j \in 1..Len(wire[conn]) - 1 : Tail(wire[conn])[j] = wire[conn][j + 1]
        /\ Stretch(wire[conn][1])
    BY <1>1, <2>1, <2>2
  <2>4. \A j \in 1..Len(wire'[conn]) : Stretch(wire'[conn][j])
    <3> TAKE j \in 1..Len(wire'[conn])
    <3>1. j \in 1..Len(wire[conn]) - 1 /\ j + 1 \in 1..Len(wire[conn]) /\ wire'[conn][j] = wire[conn][j + 1]
      BY <1>1, <2>1, <2>2, <2>3
    <3> QED BY <1>1, <2>1, <3>1
  <2>5. wire' \in [Conns -> Seq(Batches)] /\ \A d \in Conns : d # conn => wire'[d] = wire[d]
    BY <1>1, <2>1, <2>3
  <2>6. \A d \in Conns : \A j \in 1..Len(wire'[d]) : Stretch(wire'[d][j])
    BY <1>1, <2>4, <2>5
  <2> QED BY <1>1, <1>3, <2>1, <2>3, <2>5, <2>6 DEF BatchesOK
<1>13. ASSUME SaveNextOfBatch PROVE BatchesOK'
  <2>1. /\ inbox # NoBatch
        /\ inbox' = IF Len(inbox.msgs) = 1 THEN NoBatch ELSE Batch(inbox.first + 1, Tail(inbox.msgs))
        /\ UNCHANGED <<mlog, wire, cewt, taken, conn>>
    BY <1>13 DEF SaveNextOfBatch, connVars
  <2>2. inbox' = NoBatch \/ Stretch(inbox')
    BY <1>1, <2>1, RestIsStretch
  <2>3. inbox' = NoBatch \/ Stretch(inbox)'
    BY <2>1, <2>2 DEF Stretch, Faithful, Saved
  <2> QED BY <1>1, <1>3, <2>1, <2>3 DEF BatchesOK
<1>14. ASSUME Disconnect \/ SlaveCrash PROVE BatchesOK'
  <2>1. /\ conn \in Conns /\ conn' = 0 /\ wire' = [wire EXCEPT ![conn] = << >>]
        /\ inbox' \in {inbox, NoBatch} /\ UNCHANGED <<mlog, cewt, taken>>
    BY <1>1, <1>14 DEF Disconnect, SlaveCrash, connVars, slaveVars
  <2> QED BY <1>1, <1>3, <2>1 DEF BatchesOK
<1>15. ASSUME MasterCrash PROVE BatchesOK'
  <2>1. /\ cewt' = [c \in Conns |-> << >>] /\ taken' = [c \in Conns |-> NoBatch]
        /\ wire' = [c \in Conns |-> << >>] /\ UNCHANGED <<mlog, inbox>>
    BY <1>15 DEF MasterCrash, slaveVars
  <2> QED BY <1>1, <1>3, <2>1 DEF BatchesOK
<1> QED BY <1>2, <1>4, <1>5, <1>7, <1>8, <1>9, <1>10, <1>11, <1>12, <1>13, <1>14, <1>15
        DEF Next, MasterNext, SlaveNext, ClientNext

-----------------------------------------------------------------------------
\* The slave's files.

\* What SaveSyncMessage does with the next message: it is there already, or it
\* is beyond the next block and skipped, or it is stored under its id.
LEMMA SaveOutcome ==
  ASSUME SlaveOK, inbox = NoBatch \/ Stretch(inbox), SaveNextOfBatch
  PROVE  /\ Stretch(inbox) /\ inbox.first \in MsgIds /\ inbox.msgs[1] \in MsgIds
         /\ ~LiveRollover => inbox.msgs[1] = inbox.first /\ inbox.first \in Saved
         /\ \/ inbox.first < send /\ UNCHANGED <<slog, send>>
            \/ TooFar(BlockNO(inbox.first)) /\ UNCHANGED <<slog, send>>
            \/ /\ inbox.first >= send
               /\ BlockNO(inbox.first) \in {BlockNO(send), BlockNO(send) + 1}
               /\ slog' = slog \cup {[at |-> inbox.first, msg |-> inbox.msgs[1]]}
               /\ send' = inbox.first + 1
               /\ send' \in MsgIds /\ Offset(send') \in 1..MaxMsgs + 1
               /\ BlockNO(send') = BlockNO(inbox.first)
<1> DEFINE id == inbox.first
           m  == inbox.msgs[1]
           n  == BlockNO(id) - BlockNO(send)
           end == IF n = 1 THEN BlockNO(id) * BlockSize + HEADER ELSE send
<1>1. Stretch(inbox) /\ inbox # NoBatch
  BY DEF SaveNextOfBatch
<1>2. /\ id \in MsgIds /\ inbox.msgs \in Seq(MsgIds) /\ Len(inbox.msgs) > 0
      /\ Offset(id) >= 1 /\ Offset(id) + Len(inbox.msgs) - 1 <= MaxMsgs
  BY <1>1 DEF Stretch, Batches
<1>3. /\ id \in Nat /\ send \in Nat /\ BlockNO(id) \in Nat /\ BlockNO(send) \in Nat
      /\ Offset(id) \in 1..MaxMsgs /\ Offset(send) \in 1..MaxMsgs + 1
  <2>1. id \in Nat /\ send \in Nat /\ Offset(send) \in 1..MaxMsgs + 1
    BY <1>2, IdsAreNat DEF SlaveOK
  <2>2. /\ BlockNO(id) \in Nat /\ Offset(id) \in 0..BlockSize - 1
        /\ BlockNO(send) \in Nat
    BY <2>1, IdParts
  <2>3. Len(inbox.msgs) \in Nat
    BY <1>2
  <2> HIDE DEF id
  <2> QED BY <1>2, <2>1, <2>2, <2>3
<1>4. Head(inbox.msgs) = m /\ m \in MsgIds
  BY <1>2
<1>5. ASSUME ~LiveRollover PROVE m = id /\ id \in Saved
  <2>1. 1 \in 1..Len(inbox.msgs)
    BY <1>2
  <2>2. m = id + (1 - 1) /\ m \in Saved
    BY <1>1, <1>5, <2>1 DEF Stretch, Faithful
  <2> QED BY <1>3, <2>2
<1>6. IF n \in {0, 1}
        THEN IF id < end THEN send' = end /\ slog' = slog
             ELSE slog' = slog \cup {[at |-> id, msg |-> m]} /\ send' = id + 1
        ELSE UNCHANGED <<slog, send>>
  BY <1>4 DEF SaveNextOfBatch, SaveSyncMessage
<1>7. n = 1 => id >= end /\ id >= send
  <2>1. ASSUME n = 1 PROVE id >= end /\ id >= send
    <3>1. id = BlockNO(id) * BlockSize + Offset(id)
      BY <1>3, IdParts
    <3>2. BlockNO(id) * BlockSize \in Nat
      BY <1>3
    <3>3. id >= BlockNO(id) * BlockSize + 1
      BY <1>3, <3>1, <3>2
    <3>4. send < id
      <4>1. BlockNO(send) < BlockNO(id)
        BY <1>3, <2>1
      <4> QED BY <1>3, <4>1, BlockOrder
    <3> QED BY <1>3, <2>1, <3>3, <3>4
  <2> QED BY <2>1
<1>8. n = 0 => end = send
  OBVIOUS
<1>9. n < 0 => id < send
  BY <1>3, BlockOrder
<1>10. n \in Int
  BY <1>3
<1>11. BlockNO(id + 1) = BlockNO(id) /\ Offset(id + 1) = Offset(id) + 1 /\ id + 1 \in MsgIds
  <2>1. Offset(id) + 1 < BlockSize
    BY <1>3
  <2>2. BlockNO(id + 1) = BlockNO(id) /\ Offset(id + 1) = Offset(id) + 1
    BY <1>3, <2>1, IdPlus
  <2>3. BlockNO(id) \in 0..MaxBlock
    BY <1>2, <1>3, MsgIdsAre
  <2>4. id + 1 \in Nat /\ id + 1 >= 1
    BY <1>3
  <2> QED BY <2>2, <2>3, <2>4, MsgIdsAre
<1> HIDE DEF end
<1>12. CASE n < 0
  BY <1>1, <1>2, <1>3, <1>4, <1>5, <1>6, <1>9, <1>12
<1>13. CASE n = 0 /\ id < send
  <2>1. UNCHANGED <<slog, send>>
    BY <1>6, <1>8, <1>13
  <2> QED BY <1>1, <1>2, <1>4, <1>5, <1>13, <2>1
<1>14. CASE n = 1 \/ (n = 0 /\ ~ (id < send))
  <2>1. ~ (id < end) /\ id >= send
    <3>1. CASE n = 1
      <4>1. end \in Nat
        BY <1>3, <3>1 DEF end
      <4> QED BY <1>3, <1>7, <3>1, <4>1
    <3>2. CASE n = 0 /\ ~ (id < send)
      BY <1>3, <1>8, <3>2
    <3> QED BY <1>14, <3>1, <3>2
  <2>2. slog' = slog \cup {[at |-> id, msg |-> m]} /\ send' = id + 1
    BY <1>6, <1>14, <2>1
  <2>3. BlockNO(id) \in {BlockNO(send), BlockNO(send) + 1}
    BY <1>3, <1>14
  <2>4. Offset(send') \in 1..MaxMsgs + 1 /\ BlockNO(send') = BlockNO(id) /\ send' \in MsgIds
    BY <1>3, <1>11, <2>2
  <2> QED BY <1>1, <1>2, <1>4, <1>5, <2>1, <2>2, <2>3, <2>4
<1>15. CASE n >= 2
  <2>1. TooFar(BlockNO(id)) /\ UNCHANGED <<slog, send>>
    BY <1>3, <1>6, <1>15 DEF TooFar
  <2> QED BY <1>1, <1>2, <1>4, <1>5, <2>1
<1> QED BY <1>10, <1>12, <1>13, <1>14, <1>15

\* The files of the slave keep their shape; every record is where its id says.
LEMMA SlaveStep ==
  ASSUME IInv, Next
  PROVE  SlaveOK'
<1>0. SlaveOK /\ LogOK /\ BatchesOK
  BY DEF IInv
<1>1. ASSUME SaveMessage PROVE SlaveOK'
  <2>1. atRisk' \subseteq MsgIds
    <3>1. pending' \in MsgIds /\ atRisk \subseteq MsgIds
      BY <1>0, <1>1, NewId DEF SlaveOK
    <3> QED BY <1>1, <3>1 DEF SaveMessage
  <2>2. UNCHANGED <<slog, send>>
    BY <1>1 DEF SaveMessage, slaveVars
  <2> QED BY <1>0, <2>1, <2>2 DEF SlaveOK, SlaveFaithful
<1>2. ASSUME NEW c \in Conns, AddClient(c) PROVE SlaveOK'
  <2>1. Saved \subseteq MsgIds
    BY <1>0, ElementOfSeq DEF LogOK, Saved
  <2>2. atRisk' \subseteq MsgIds
    <3>1. atRisk' \subseteq atRisk \cup Saved
      BY <1>2 DEF AddClient, Saved, InBlock
    <3> QED BY <1>0, <2>1, <3>1 DEF SlaveOK
  <2>3. UNCHANGED <<slog, send>>
    BY <1>2 DEF AddClient, slaveVars
  <2> QED BY <1>0, <2>2, <2>3 DEF SlaveOK, SlaveFaithful
<1>3. ASSUME SaveNextOfBatch PROVE SlaveOK'
  <2>1. UNCHANGED atRisk
    BY <1>3 DEF SaveNextOfBatch
  <2>2. CASE UNCHANGED <<slog, send>>
    BY <1>0, <2>1, <2>2 DEF SlaveOK, SlaveFaithful
  <2>3. CASE ~ UNCHANGED <<slog, send>>
    <3>1. /\ inbox.first \in MsgIds /\ inbox.msgs[1] \in MsgIds
          /\ ~LiveRollover => inbox.msgs[1] = inbox.first
          /\ slog' = slog \cup {[at |-> inbox.first, msg |-> inbox.msgs[1]]}
          /\ send' \in MsgIds /\ Offset(send') \in 1..MaxMsgs + 1
      BY <1>0, <1>3, <2>3, SaveOutcome DEF BatchesOK
    <3> QED BY <1>0, <2>1, <3>1 DEF SlaveOK, SlaveFaithful
  <2> QED BY <2>2, <2>3
<1>4. ASSUME UNCHANGED <<slog, send, atRisk>> PROVE SlaveOK'
  BY <1>0, <1>4 DEF SlaveOK, SlaveFaithful
<1>5. ASSUME NEW c \in Conns, \/ SendBatchTo(c) \/ LoadBlock(c) \/ TakeBatch(c) \/ ForwardBatch(c)
                              \/ RemoveClient(c) \/ Connect(c)
      PROVE  UNCHANGED <<slog, send, atRisk>>
  BY <1>5 DEF SendBatchTo, LoadBlock, TakeBatch, ForwardBatch, RemoveClient, Connect, slaveVars
<1>6. ASSUME \/ MasterNext \/ ReceiveBatch \/ Disconnect \/ SlaveCrash \/ MasterCrash
      PROVE  UNCHANGED <<slog, send, atRisk>>
  BY <1>6 DEF MasterNext, SendEwt, Collect, Timeout, SendBatchDone, ReceiveBatch, Disconnect,
              SlaveCrash, MasterCrash, slaveVars
<1> QED BY <1>1, <1>2, <1>3, <1>4, <1>5, <1>6 DEF Next, SlaveNext, ClientNext

-----------------------------------------------------------------------------
\* The log and the queues of the master.

\* The positions after n are after m too.
LEMMA Later ==
  ASSUME NEW m \in Nat, NEW n \in Nat, m <= n, NEW l \in Nat
  PROVE  \A i \in n + 1..l : i \in m + 1..l
OBVIOUS

\* A step keeps the log in order and the queues at its end.
LEMMA QueueStep ==
  ASSUME IInv, Next
  PROVE  QueueOK' /\ LogOK' /\ OneBlock'
<1>0. QueueOK /\ LogOK /\ OneBlock
  BY DEF IInv
<1>1. HandedOver \in Nat /\ Len(mlog) \in Nat /\ mlog \in Seq(MsgIds) /\ cache \in Seq(MsgIds)
  BY <1>0 DEF QueueOK, LogOK
<1>2. ASSUME UNCHANGED <<mlog, block_NO>> PROVE LogOK'
  BY <1>0, <1>2 DEF LogOK, InBlock
<1>3. ASSUME UNCHANGED <<mlog, block_NO>>, HandedOver' \in Nat, HandedOver' >= HandedOver PROVE OneBlock'
  <2>0. HandedOver <= HandedOver'
    BY <1>1, <1>3
  <2>1. \A i \in HandedOver' + 1..Len(mlog) : i \in HandedOver + 1..Len(mlog)
    BY <1>1, <1>3, <2>0, Later
  <2> HIDE DEF HandedOver
  <2> QED BY <1>0, <1>3, <2>1 DEF OneBlock
<1>4. ASSUME SaveMessage PROVE QueueOK' /\ LogOK' /\ OneBlock'
  <2>1. QueueOK' /\ LogOK' /\ HandedOver' = HandedOver
    BY <1>0, <1>4, QueueSave, LogSave
  <2>2. /\ mlog' = Append(mlog, pending') /\ pending' \in MsgIds
        /\ BlockNO(pending') = block_NO'
    BY <1>0, <1>4, NewId
  <2>3. /\ Len(mlog') = Len(mlog) + 1 /\ mlog'[Len(mlog) + 1] = pending'
        /\ \A i \in 1..Len(mlog) : mlog'[i] = mlog[i]
    BY <1>1, <2>2
  <2>4. ASSUME ~LiveRollover, block_NO' # block_NO PROVE HandedOver = Len(mlog)
    <3>1. ewt = << >> /\ cache = << >> /\ pending = 0
      BY <1>4, <2>4 DEF SaveMessage
    <3> QED BY <1>1, <3>1 DEF HandedOver
  <2>5. ASSUME ~LiveRollover, NEW i \in HandedOver + 1..Len(mlog') PROVE BlockNO(mlog'[i]) = block_NO'
    <3>1. CASE i = Len(mlog) + 1
      BY <2>2, <2>3, <3>1
    <3>2. CASE i # Len(mlog) + 1
      <4>1. i \in HandedOver + 1..Len(mlog) /\ i \in 1..Len(mlog)
        BY <1>1, <2>3, <3>2
      <4>2. block_NO' = block_NO
        BY <1>1, <2>4, <2>5, <4>1
      <4> QED BY <1>0, <2>3, <2>5, <4>1, <4>2 DEF OneBlock
    <3> QED BY <3>1, <3>2
  <2> HIDE DEF HandedOver
  <2> QED BY <2>1, <2>5 DEF OneBlock
<1>5. ASSUME UNCHANGED <<mlog, pending, runVars, block_NO>> PROVE QueueOK' /\ LogOK' /\ OneBlock'
  <2>1. QueueOK' /\ HandedOver' = HandedOver
    BY <1>0, <1>5, QueueFrame
  <2> QED BY <1>1, <1>2, <1>3, <1>5, <2>1
<1>6. ASSUME \/ SendEwt \/ Collect \/ Timeout \/ SendBatchDone \/ MasterCrash
             \/ \E c \in Conns : SendBatchTo(c)
      PROVE QueueOK' /\ LogOK' /\ OneBlock'
  <2>1. UNCHANGED <<mlog, block_NO>>
    BY <1>6 DEF SendEwt, Collect, Timeout, SendBatchDone, MasterCrash, SendBatchTo
  <2>2. QueueOK' /\ HandedOver' \in {HandedOver, HandedOver + Len(cache), Len(mlog)}
    BY <1>0, <1>6, QueueSendEwt, QueueCollect, QueueTimeout, QueueDone, QueueCrash, QueueSend
  <2>3. HandedOver <= Len(mlog)
    <3>1. ewt \in Seq(MsgIds)
      BY <1>0 DEF QueueOK
    <3> QED BY <1>1, <3>1 DEF HandedOver
  <2>4. HandedOver' \in Nat /\ HandedOver' >= HandedOver
    BY <1>1, <2>2, <2>3
  <2> QED BY <1>2, <1>3, <2>1, <2>2, <2>4
<1>7. ASSUME NEW c \in Conns, \/ LoadBlock(c) \/ AddClient(c) \/ TakeBatch(c) \/ ForwardBatch(c)
                              \/ RemoveClient(c) \/ Connect(c)
      PROVE  UNCHANGED <<mlog, pending, runVars, block_NO>>
  BY <1>7 DEF LoadBlock, AddClient, TakeBatch, ForwardBatch, RemoveClient, Connect
<1>8. ASSUME SlaveNext \/ Disconnect \/ SlaveCrash PROVE UNCHANGED <<mlog, pending, runVars, block_NO>>
  BY <1>8 DEF SlaveNext, ReceiveBatch, SaveNextOfBatch, Disconnect, SlaveCrash
<1> QED BY <1>4, <1>5, <1>6, <1>7, <1>8 DEF Next, MasterNext, ClientNext

-----------------------------------------------------------------------------
\* Theorems.

\* The inductive invariant holds when master and slave are started.
LEMMA IInvInit == Init => IInv
<1> SUFFICES ASSUME Init PROVE IInv
  OBVIOUS
<1>1. /\ mlog = << >> /\ block_NO = 0 /\ pending = 0 /\ ewt = << >> /\ cache = << >>
      /\ sendTo = {} /\ busy = FALSE /\ clients = {}
      /\ phase = [c \in Conns |-> "none"]
      /\ cursor = [c \in Conns |-> 0] /\ loading = [c \in Conns |-> 0]
      /\ cewt = [c \in Conns |-> << >>] /\ taken = [c \in Conns |-> NoBatch]
      /\ wire = [c \in Conns |-> << >>]
      /\ conn = 0 /\ slog = {} /\ send = 1 /\ inbox = NoBatch /\ atRisk = {}
  BY DEF Init
<1>2. << >> \in Seq(MsgIds) /\ Len(mlog) = 0 /\ Len(cache) = 0 /\ Len(ewt) = 0 /\ pending = 0
  BY <1>1
<1>3. InBlock(block_NO) = {} /\ Cardinality(InBlock(block_NO)) = 0
  BY <1>1, <1>2, FS_EmptySet DEF InBlock
<1>4. LogOK
  BY <1>1, <1>2, <1>3 DEF LogOK
<1>5. HandedOver = 0
  BY <1>2 DEF HandedOver
<1>6. QueueOK
  <2>1. /\ cache \in Seq(MsgIds) /\ ewt \in Seq(MsgIds) /\ pending \in MsgIds \cup {0}
        /\ Len(ewt) <= ChanSize /\ Len(cache) < CacheSize /\ Len(cache) <= CacheSize
        /\ busy \in BOOLEAN /\ ~ busy /\ sendTo = {} /\ HandedOver \in Nat
    <3>1. cache \in Seq(MsgIds) /\ ewt \in Seq(MsgIds)
      BY <1>1, <1>2
    <3>2. Len(ewt) <= ChanSize /\ Len(cache) < CacheSize /\ Len(cache) <= CacheSize
      BY <1>2
    <3>3. busy \in BOOLEAN /\ ~ busy /\ sendTo = {}
      BY <1>1
    <3> QED BY <1>2, <1>5, <3>1, <3>2, <3>3
  <2>2. /\ \A k \in 1..Len(cache) : cache[k] = mlog[HandedOver + k]
        /\ \A k \in 1..Len(ewt) : ewt[k] = mlog[HandedOver + Len(cache) + k]
    BY <1>2
  <2> QED BY <1>2, <2>1, <2>2 DEF QueueOK
<1>7. OneBlock
  BY <1>2, <1>5 DEF OneBlock
<1>8. ClientsOK
  BY <1>1 DEF ClientsOK
<1>9. BatchesOK
  BY <1>1 DEF BatchesOK
<1>10. SlaveOK
  <2>1. BlockNO(0 * BlockSize + 1) = 0 /\ Offset(0 * BlockSize + 1) = 1
    BY IdOf
  <2>2. 0 * BlockSize + 1 = 1
    OBVIOUS
  <2>3. BlockNO(1) = 0 /\ Offset(1) = 1
    BY <2>1, <2>2
  <2>4. 1 \in MsgIds
    BY <2>3, MsgIdsAre
  <2> QED BY <1>1, <2>3, <2>4 DEF SlaveOK, SlaveFaithful
<1> QED BY <1>4, <1>6, <1>7, <1>8, <1>9, <1>10 DEF IInv

\* The inductive invariant is kept by every step.
LEMMA IInvStep == IInv /\ [Next]_vars => IInv'
<1>1. ASSUME IInv, Next PROVE IInv'
  BY <1>1, QueueStep, ClientsStep, BatchesStep, SlaveStep DEF IInv
<1>2. ASSUME IInv, UNCHANGED vars PROVE IInv'
  <2> USE <1>2 DEF vars
  <2>1. HandedOver' = HandedOver /\ Saved' = Saved
    BY DEF HandedOver, Saved
  <2>2. \A b : Stretch(b) => Stretch(b)'
    BY <2>1 DEF Stretch, Faithful
  <2>3. LogOK' /\ QueueOK' /\ OneBlock'
    <3>1. UNCHANGED <<mlog, pending, runVars, block_NO>>
      BY DEF runVars
    <3>2. QueueOK'
      BY <3>1, QueueFrame DEF IInv
    <3> QED BY <2>1, <3>1, <3>2 DEF IInv, LogOK, InBlock, OneBlock
  <2>4. ClientsOK'
    BY DEF IInv, ClientsOK
  <2>5. BatchesOK'
    BY <2>2 DEF IInv, BatchesOK
  <2>6. SlaveOK'
    BY DEF IInv, SlaveOK, SlaveFaithful
  <2> QED BY <2>3, <2>4, <2>5, <2>6 DEF IInv
<1> QED BY <1>1, <1>2

\* The inductive invariant always holds.
LEMMA Invariant == Spec => []IInv
BY IInvInit, IInvStep, PTL DEF Spec

\* Master, channels, connections and slave keep their shape, no channel holds
\* more than its capacity, and every id that saveMessage gives or the slave
\* computes (a batch carries only the first one) is an id of the store: for any
\* sizes, and also when a block is filled while Run collects a batch.
THEOREM TypeCorrect == Spec => []TypeOK
<1>1. ASSUME IInv PROVE TypeOK
  <2>1. /\ mlog \in Seq(MsgIds) /\ block_NO \in 0..MaxBlock /\ pending \in MsgIds \cup {0}
        /\ ewt \in Seq(MsgIds) /\ Len(ewt) <= ChanSize
        /\ cache \in Seq(MsgIds) /\ Len(cache) <= CacheSize /\ busy \in BOOLEAN
    BY <1>1 DEF IInv, LogOK, QueueOK
  <2>2. /\ clients \subseteq Conns /\ sendTo \subseteq Conns
        /\ phase \in [Conns -> {"none", "load", "live", "end"}]
        /\ cursor \in [Conns -> MsgIds \cup {0}]
        /\ loading \in [Conns -> 0..MaxBlock + 1]
        /\ conn \in Conns \cup {0}
    BY <1>1 DEF IInv, ClientsOK
  <2>3. /\ \A c \in Conns : cewt[c] \in Seq(Batches) /\ Len(cewt[c]) <= ChanSize
        /\ \A c \in Conns : wire[c] \in Seq(Batches) /\ taken[c] \in Batches \cup {NoBatch}
        /\ inbox = NoBatch \/ inbox \in Batches
    BY <1>1 DEF IInv, BatchesOK, Stretch
  <2>4. /\ slog \subseteq [at : MsgIds, msg : MsgIds] /\ send \in MsgIds
        /\ atRisk \subseteq MsgIds
    BY <1>1 DEF IInv, SlaveOK
  <2> QED BY <2>1, <2>2, <2>3, <2>4 DEF TypeOK
<1> QED BY <1>1, Invariant, PTL

\* A message is stored by the slave under the id it has on the master, however
\* many connections broke, batches were repeated and crashes cut one short, as
\* long as no block is filled while Run collects a batch: SaveSyncMessageBatch
\* computes the ids, SaveSyncMessage pads or skips.
THEOREM SlaveAlwaysFaithful ==
  ASSUME ~LiveRollover
  PROVE  Spec => []SlaveFaithful
<1>1. IInv => SlaveFaithful
  BY DEF IInv, SlaveOK
<1> QED BY <1>1, Invariant, PTL

-----------------------------------------------------------------------------
\* No hole but those of the set-up of a connection.

\* What the ids in the log are.
LEMMA SavedAre ==
  ASSUME LogOK
  PROVE  \A id \in Saved : /\ id \in MsgIds /\ id \in Nat /\ BlockNO(id) \in 0..block_NO
                           /\ Offset(id) >= 1
<1> SUFFICES ASSUME NEW i \in 1..Len(mlog)
             PROVE  /\ mlog[i] \in MsgIds /\ mlog[i] \in Nat /\ BlockNO(mlog[i]) \in 0..block_NO
                    /\ Offset(mlog[i]) >= 1
  BY DEF Saved
<1>1. mlog[i] \in MsgIds
  BY ElementOfSeq DEF LogOK
<1>2. Offset(mlog[i]) \in 1..i /\ BlockNO(mlog[i]) \in 0..block_NO
  BY DEF LogOK
<1>3. mlog[i] \in Nat
  BY <1>1, IdsAreNat
<1>4. i \in Nat /\ Offset(mlog[i]) >= 1
  <2>1. Len(mlog) \in Nat
    BY DEF LogOK
  <2> QED BY <1>2, <2>1
<1> QED BY <1>1, <1>2, <1>3, <1>4

\* The log is sorted.
LEMMA LogOrder ==
  ASSUME LogOK, NEW i \in 1..Len(mlog), NEW j \in 1..Len(mlog), i < j
  PROVE  mlog[i] < mlog[j]
<1>1. /\ BlockNO(mlog[i]) <= BlockNO(mlog[j])
      /\ BlockNO(mlog[i]) = BlockNO(mlog[j]) => mlog[j] = mlog[i] + (j - i)
  BY DEF LogOK
<1>2. mlog[i] \in Saved /\ mlog[j] \in Saved
  BY DEF Saved
<1>3. /\ mlog[i] \in Nat /\ mlog[j] \in Nat /\ BlockNO(mlog[i]) \in 0..block_NO
      /\ BlockNO(mlog[j]) \in 0..block_NO
  BY <1>2, SavedAre
<1>4. CASE BlockNO(mlog[i]) = BlockNO(mlog[j])
  BY <1>1, <1>3, <1>4
<1>5. CASE BlockNO(mlog[i]) # BlockNO(mlog[j])
  <2>1. BlockNO(mlog[i]) < BlockNO(mlog[j])
    BY <1>1, <1>3, <1>5
  <2> QED BY <1>3, <2>1, BlockOrder
<1> QED BY <1>4, <1>5

\* A new id is larger than every id in the log.
LEMMA NewIdLargest ==
  ASSUME LogOK, SaveMessage
  PROVE  /\ pending' \in Nat /\ pending' >= 1 /\ \A id \in Saved : id < pending'
         /\ \A i \in 1..Len(mlog) : mlog'[i] = mlog[i]
         /\ Len(mlog') = Len(mlog) + 1 /\ mlog'[Len(mlog) + 1] = pending'
         /\ block_NO' >= block_NO
<1>1. /\ mlog' = Append(mlog, pending') /\ pending' \in MsgIds /\ BlockNO(pending') = block_NO'
      /\ block_NO' \in {block_NO, block_NO + 1} /\ block_NO \in Nat /\ mlog \in Seq(MsgIds)
      /\ Offset(pending') \in 1..Len(mlog) + 1
  BY NewId DEF LogOK
<1>2. /\ Len(mlog') = Len(mlog) + 1 /\ mlog'[Len(mlog) + 1] = pending' /\ Len(mlog) \in Nat
      /\ \A i \in 1..Len(mlog) : mlog'[i] = mlog[i]
  BY <1>1
<1>3. LogOK'
  BY LogSave
<1>4. pending' \in Nat /\ pending' >= 1 /\ block_NO' >= block_NO
  BY <1>1 DEF MsgIds
<1>5. ASSUME NEW i \in 1..Len(mlog) PROVE mlog[i] < pending'
  <2>1. mlog[i] \in Nat /\ BlockNO(mlog[i]) \in 0..block_NO
    <3>1. mlog[i] \in Saved
      BY DEF Saved
    <3> QED BY <3>1, SavedAre
  <2>2. CASE BlockNO(mlog[i]) = block_NO'
    <3>1. i \in 1..Len(mlog') /\ Len(mlog) + 1 \in 1..Len(mlog') /\ i <= Len(mlog) + 1
      BY <1>2
    <3>2. BlockNO(mlog'[i]) = BlockNO(mlog'[Len(mlog) + 1])
      BY <1>1, <1>2, <2>2
    <3>3. mlog'[Len(mlog) + 1] = mlog'[i] + (Len(mlog) + 1 - i)
      BY <1>3, <3>1, <3>2 DEF LogOK
    <3> QED BY <1>2, <2>1, <3>3
  <2>3. CASE BlockNO(mlog[i]) # block_NO'
    <3>1. BlockNO(mlog[i]) < BlockNO(pending')
      BY <1>1, <2>1, <2>3
    <3> QED BY <1>4, <2>1, <3>1, BlockOrder
  <2> QED BY <2>2, <2>3
<1> QED BY <1>2, <1>4, <1>5 DEF Saved

\* The first id of a batch is that of a saved message.
LEMMA FirstIsSaved ==
  ASSUME ~LiveRollover, LogOK, NEW b, Stretch(b)
  PROVE  b.first \in Saved /\ b.first \in Nat /\ BlockNO(b.first) \in 0..block_NO
<1>1. /\ b.first \in MsgIds /\ b.msgs \in Seq(MsgIds) /\ Len(b.msgs) > 0
      /\ Faithful(b)
  BY DEF Stretch, Batches
<1>2. 1 \in 1..Len(b.msgs) /\ b.first \in Nat
  <2>1. 1 \in 1..Len(b.msgs)
    BY <1>1
  <2> QED BY <1>1, <2>1, IdsAreNat
<1>3. b.msgs[1] = b.first + (1 - 1) /\ b.msgs[1] \in Saved
  BY <1>1, <1>2 DEF Faithful
<1>4. b.first \in Saved
  BY <1>2, <1>3
<1> QED BY <1>2, <1>4, SavedAre

\* What need not be sent any more is in the log.
LEMMA SentToIs ==
  ASSUME LogOK, QueueOK, NEW c \in Conns
  PROVE  /\ SentTo(c) \in Nat /\ SentTo(c) <= Len(mlog) /\ HandedOver \in Nat
         /\ HandedOver + Len(cache) <= Len(mlog) /\ Len(mlog) \in Nat
<1>1. /\ HandedOver \in Nat /\ Len(mlog) \in Nat /\ Len(cache) \in Nat /\ Len(ewt) \in Nat
  BY DEF LogOK, QueueOK
<1>2. HandedOver + Len(cache) <= Len(mlog)
  BY <1>1 DEF HandedOver
<1> QED BY <1>1, <1>2 DEF SentTo

\* The stream of connection c stays as it is, and what is at the slave too.
LEMMA FlowFrame ==
  ASSUME LogOK, QueueOK, NEW c \in Conns, mlog' = mlog,
         wire'[c] = wire[c], taken'[c] = taken[c], cewt'[c] = cewt[c],
         phase'[c] = phase[c], loading'[c] = loading[c],
         phase[c] = "live" => SentTo(c)' = SentTo(c),
         \A id \in Saved : AtSlave(id) => AtSlave(id)',
         Flow(c)
  PROVE  Flow(c)'
<1>1. Saved' = Saved
  BY DEF Saved
<1>2. \A id \in Saved, n \in Int : OnWire(c, id, n) => OnWire(c, id, n)'
  BY DEF OnWire, Has
<1>3. \A id \in Saved : Written(c, id) => Written(c, id)'
  BY DEF Written, OnWire, Has
<1>4. \A id \in Saved, n \in Int : InChan(c, id, n) => InChan(c, id, n)'
  BY <1>3 DEF InChan, Taken, Has
<1>5. \A id \in Saved : OnItsWay(c, id) => OnItsWay(c, id)'
  BY <1>3 DEF OnItsWay, InChan, Taken, Has
<1>6. GaplessWire(c)'
  <2>1. ASSUME NEW j \in 1..Len(wire[c]) PROVE j - 1 \in Int
    OBVIOUS
  <2> QED BY <1>1, <1>2, <2>1 DEF Flow, GaplessWire
<1>7. GaplessTaken(c)'
  BY <1>1, <1>3 DEF Flow, GaplessTaken
<1>8. GaplessChan(c)'
  <2>1. ASSUME NEW j \in 1..Len(cewt[c]) PROVE j - 1 \in Int
    OBVIOUS
  <2> QED BY <1>1, <1>4, <2>1 DEF Flow, GaplessChan
<1>9. GaplessLoad(c)'
  BY <1>1, <1>3 DEF Flow, GaplessLoad
<1>10. GaplessLive(c)'
  <2>1. ASSUME phase[c] = "live", NEW i \in 1..SentTo(c) PROVE OnItsWay(c, mlog[i])'
    <3>1. OnItsWay(c, mlog[i])
      BY <2>1 DEF Flow, GaplessLive
    <3>2. i \in 1..Len(mlog)
      BY <2>1, SentToIs
    <3> QED BY <3>1, <3>2, <1>5 DEF Saved
  <2> QED BY <2>1 DEF GaplessLive
<1> QED BY <1>6, <1>7, <1>8, <1>9, <1>10 DEF Flow

\* Blocks ascend on a connection that stays as it is.
LEMMA AscendingFrame ==
  ASSUME NEW c \in Conns,
         wire'[c] = wire[c], taken'[c] = taken[c], cewt'[c] = cewt[c],
         phase'[c] = phase[c], loading'[c] = loading[c],
         inbox' # NoBatch => inbox # NoBatch /\ BlockNO(inbox'.first) = BlockNO(inbox.first),
         Ascending(c)
  PROVE  Ascending(c)'
BY DEF Ascending

\* What is beyond the slave's next block stays there.
LEMMA BeyondFrame ==
  ASSUME NEW c \in Conns, block_NO \in Nat, block_NO' \in Nat, block_NO <= block_NO',
         send \in Nat, send' = send,
         wire'[c] = wire[c], taken'[c] = taken[c], cewt'[c] = cewt[c],
         phase'[c] = phase[c], loading'[c] = loading[c],
         BeyondFlow(c)
  PROVE  BeyondFlow(c)'
<1>1. BlockNO(send) \in Nat
  BY IdParts
<1>2. TooFar(block_NO')
  BY <1>1 DEF BeyondFlow, TooFar
<1> QED BY <1>2 DEF BeyondFlow, TooFar

\* A step that leaves the stream of the slave's connection as it is.
LEMMA QuietStep ==
  ASSUME IInv, HoleInv,
         UNCHANGED <<conn, mlog, block_NO, slog, send, inbox, cursor>>, atRisk \subseteq atRisk',
         \A c \in Conns : c = conn =>
           /\ wire'[c] = wire[c] /\ taken'[c] = taken[c] /\ cewt'[c] = cewt[c]
           /\ phase'[c] = phase[c] /\ loading'[c] = loading[c]
           /\ phase[c] = "live" => SentTo(c)' = SentTo(c)
  PROVE  HoleInv'
<1>0. /\ LogOK /\ QueueOK /\ send \in Nat /\ block_NO \in Nat
  BY IdsAreNat DEF IInv, SlaveOK, LogOK
<1>1. Saved' = Saved /\ Stored' = Stored
  BY DEF Saved, Stored
<1>2. \A id : Kept(id) => Kept(id)'
  BY <1>1 DEF Kept
<1>3. \A id \in Saved : AtSlave(id) => AtSlave(id)'
  BY <1>2 DEF AtSlave, Has
<1>4. HolesExplained' /\ EndOK' /\ \A c \in Conns : cursor'[c] <= send'
  BY <1>1 DEF HoleInv, HolesExplained, EndOK
<1>5. \A c \in Conns : c = conn' => Ascending(c)'
  BY AscendingFrame DEF HoleInv
<1>6. CASE Gapless
  <2>1. GaplessInbox'
    BY <1>1, <1>2, <1>6 DEF Gapless, GaplessInbox
  <2>2. \A c \in Conns : c = conn' => Flow(c)'
    BY <1>0, <1>3, <1>6, FlowFrame DEF Gapless
  <2> QED BY <1>4, <1>5, <2>1, <2>2 DEF HoleInv, Gapless
<1>7. CASE Beyond
  <2>1. BeyondInbox'
    BY <1>7 DEF Beyond, BeyondInbox, TooFar
  <2>2. \A c \in Conns : c = conn' => BeyondFlow(c)'
    BY <1>0, <1>7, BeyondFrame DEF Beyond
  <2> QED BY <1>4, <1>5, <2>1, <2>2 DEF HoleInv, Beyond
<1> QED BY <1>6, <1>7 DEF HoleInv

\* The steps of master and connections that do not touch the stream.
LEMMA QuietActions ==
  ASSUME IInv, HoleInv,
         \/ SendEwt \/ Collect \/ Timeout \/ SendBatchDone
         \/ \E d \in Conns : /\ d # conn
                             /\ \/ SendBatchTo(d) \/ LoadBlock(d) \/ AddClient(d) \/ TakeBatch(d)
                                \/ ForwardBatch(d) \/ RemoveClient(d)
  PROVE  HoleInv'
<1>0. /\ LogOK /\ QueueOK /\ ClientsOK /\ BatchesOK
  BY DEF IInv
<1> USE DEF connVars, runVars, slaveVars
<1>1. CASE SendEwt \/ Collect \/ Timeout \/ SendBatchDone
  <2>1. UNCHANGED <<conn, mlog, block_NO, slog, send, inbox, cursor, atRisk, wire, taken, cewt,
                    phase, loading>>
    BY <1>1 DEF SendEwt, Collect, Timeout, SendBatchDone
  <2>2. ASSUME NEW c \in Conns, phase[c] = "live" PROVE SentTo(c)' = SentTo(c)
    <3>1. c \in clients
      BY <1>0, <2>2 DEF ClientsOK
    <3>2. CASE SendEwt
      <4>1. HandedOver' = HandedOver /\ UNCHANGED <<busy, sendTo, cache>>
        BY <1>0, <3>2, QueueSendEwt DEF SendEwt
      <4> QED BY <4>1 DEF SentTo
    <3>3. CASE Collect \/ Timeout
      <4>1. HandedOver' = HandedOver
        BY <1>0, <3>3, QueueCollect, QueueTimeout
      <4>2. ~ busy /\ (busy' => sendTo' = clients)
        BY <3>3 DEF Collect, Timeout, BeginBatch
      <4> QED BY <3>1, <4>1, <4>2 DEF SentTo
    <3>4. CASE SendBatchDone
      <4>1. HandedOver' = HandedOver + Len(cache) /\ busy /\ sendTo = {} /\ ~ busy'
        BY <1>0, <3>4, QueueDone DEF SendBatchDone
      <4> QED BY <4>1 DEF SentTo
    <3> QED BY <1>1, <3>2, <3>3, <3>4
  <2> QED BY <2>1, <2>2, QuietStep
<1>2. ASSUME NEW d \in Conns, d # conn,
             \/ SendBatchTo(d) \/ LoadBlock(d) \/ AddClient(d) \/ TakeBatch(d)
             \/ ForwardBatch(d) \/ RemoveClient(d)
      PROVE  HoleInv'
  <2>1. /\ wire \in [Conns -> Seq(Batches)] /\ cewt \in [Conns -> Seq(Batches)]
        /\ taken \in [Conns -> Batches \cup {NoBatch}]
        /\ phase \in [Conns -> {"none", "load", "live", "end"}]
        /\ loading \in [Conns -> 0..MaxBlock + 1]
    BY <1>0 DEF BatchesOK, ClientsOK
  <2>2. UNCHANGED <<conn, mlog, block_NO, slog, send, inbox, cursor, pending, ewt, cache, busy>>
    BY <1>2 DEF SendBatchTo, LoadBlock, AddClient, TakeBatch, ForwardBatch, RemoveClient
  <2>3. atRisk \subseteq atRisk' /\ wire' = wire
    BY <1>2 DEF SendBatchTo, LoadBlock, AddClient, TakeBatch, ForwardBatch, RemoveClient, Transmit
  <2>4. ASSUME NEW c \in Conns, c = conn
        PROVE  /\ taken'[c] = taken[c] /\ cewt'[c] = cewt[c]
               /\ phase'[c] = phase[c] /\ loading'[c] = loading[c]
               /\ c \in sendTo' <=> c \in sendTo
    BY <1>2, <2>1, <2>4
       DEF SendBatchTo, LoadBlock, AddClient, TakeBatch, ForwardBatch, RemoveClient
  <2>5. ASSUME NEW c \in Conns, c = conn PROVE SentTo(c)' = SentTo(c)
    BY <2>2, <2>4, <2>5 DEF SentTo, HandedOver
  <2> QED BY <2>2, <2>3, <2>4, <2>5, QuietStep
<1> QED BY <1>1, <1>2

\* What is on its way to the slave stays there when more is kept.
LEMMA StaysOnItsWay ==
  ASSUME NEW c \in Conns, NEW id, Kept(id) => Kept(id)', inbox' = inbox,
         wire'[c] = wire[c], taken'[c] = taken[c], cewt'[c] = cewt[c]
  PROVE  /\ AtSlave(id) => AtSlave(id)'
         /\ \A n \in Int : OnWire(c, id, n) => OnWire(c, id, n)'
         /\ Written(c, id) => Written(c, id)'
         /\ \A n \in Int : InChan(c, id, n) => InChan(c, id, n)'
         /\ OnItsWay(c, id) => OnItsWay(c, id)'
<1>1. AtSlave(id) => AtSlave(id)'
  BY DEF AtSlave, Has
<1>2. \A n \in Int : OnWire(c, id, n) => OnWire(c, id, n)'
  BY <1>1 DEF OnWire, Has
<1>3. Written(c, id) => Written(c, id)'
  BY <1>1 DEF Written, OnWire, Has
<1>4. Taken(c, id) => Taken(c, id)'
  BY <1>3 DEF Taken, Has
<1>5. \A n \in Int : InChan(c, id, n) => InChan(c, id, n)'
  BY <1>4 DEF InChan, Has
<1>6. OnItsWay(c, id) => OnItsWay(c, id)'
  BY <1>4 DEF OnItsWay, InChan, Has
<1> QED BY <1>1, <1>2, <1>3, <1>5, <1>6

\* A new message is not before the end of the slave's file, nor before any
\* batch; one that is saved while a connection loads is at risk.
LEMMA HolesSave ==
  ASSUME ~LiveRollover, IInv, HoleInv, SaveMessage
  PROVE  HoleInv'
<1> DEFINE p == pending'
<1>0. /\ LogOK /\ QueueOK /\ BatchesOK /\ send \in Nat /\ block_NO \in Nat /\ block_NO' \in Nat
  <2>1. LogOK /\ QueueOK /\ BatchesOK /\ send \in Nat /\ block_NO \in Nat
    BY IdsAreNat DEF IInv, SlaveOK, LogOK
  <2>2. block_NO' \in Nat
    BY <2>1, NewId
  <2> QED BY <2>1, <2>2
<1>1. /\ p \in Nat /\ p >= 1 /\ \A id \in Saved : id < p
      /\ \A i \in 1..Len(mlog) : mlog'[i] = mlog[i]
      /\ block_NO <= block_NO'
  BY <1>0, NewIdLargest
<1>2. Saved' = Saved \cup {p} /\ \A id \in Saved : id \in Nat
  BY <1>0, SavedGrows, SavedAre
<1>3. UNCHANGED <<conn, slog, send, inbox, wire, taken, cewt, phase, loading, cursor, busy, sendTo,
                  cache, ewt>>
  BY DEF SaveMessage, runVars, connVars, slaveVars
<1>4. atRisk \subseteq atRisk' /\ ((\E c \in Conns : phase[c] = "load") => p \in atRisk')
  BY DEF SaveMessage
<1> HIDE DEF p
<1>5. ~ (p < send)
  BY <1>0, <1>1, <1>2 DEF HoleInv, EndOK
<1>6. \A id : Kept(id) => Kept(id)'
  BY <1>3, <1>4 DEF Kept, Stored
<1>7. HolesExplained' /\ EndOK' /\ \A c \in Conns : cursor'[c] <= send'
  BY <1>2, <1>3, <1>4, <1>5 DEF HoleInv, HolesExplained, EndOK, Stored
<1>8. \A c \in Conns : c = conn' => Ascending(c)'
  BY <1>3, AscendingFrame DEF HoleInv
<1>9. ASSUME NEW b, Stretch(b) PROVE ~ (p < b.first)
  <2>1. b.first \in Saved /\ b.first \in Nat
    BY <1>0, <1>9, FirstIsSaved
  <2> QED BY <1>1, <2>1
<1>10. CASE Gapless
  <2>1. GaplessInbox'
    BY <1>0, <1>2, <1>3, <1>6, <1>9, <1>10 DEF Gapless, GaplessInbox, BatchesOK
  <2>2. ASSUME NEW c \in Conns, c = conn PROVE Flow(c)'
    <3>0. Flow(c)
      BY <1>10, <2>2 DEF Gapless
    <3>1. GaplessWire(c)'
      <4> SUFFICES ASSUME NEW j \in 1..Len(wire[c]), NEW id \in Saved', id < wire[c][j].first
                   PROVE  OnWire(c, id, j - 1)'
        BY <1>3 DEF GaplessWire
      <4>1. id \in Saved
        BY <1>0, <1>2, <1>9 DEF BatchesOK
      <4>2. OnWire(c, id, j - 1) /\ j - 1 \in Int
        BY <3>0, <4>1 DEF Flow, GaplessWire
      <4> QED BY <1>3, <1>6, <4>2, StaysOnItsWay
    <3>2. GaplessTaken(c)'
      <4> SUFFICES ASSUME taken[c] # NoBatch, NEW id \in Saved', id < taken[c].first
                   PROVE  Written(c, id)'
        BY <1>3 DEF GaplessTaken
      <4>1. id \in Saved
        BY <1>0, <1>2, <1>9 DEF BatchesOK
      <4>2. Written(c, id)
        BY <3>0, <4>1 DEF Flow, GaplessTaken
      <4> QED BY <1>3, <1>6, <4>2, StaysOnItsWay
    <3>3. GaplessChan(c)'
      <4> SUFFICES ASSUME NEW j \in 1..Len(cewt[c]), NEW id \in Saved', id < cewt[c][j].first
                   PROVE  InChan(c, id, j - 1)'
        BY <1>3 DEF GaplessChan
      <4>1. id \in Saved
        BY <1>0, <1>2, <1>9 DEF BatchesOK
      <4>2. InChan(c, id, j - 1) /\ j - 1 \in Int
        BY <3>0, <4>1 DEF Flow, GaplessChan
      <4> QED BY <1>3, <1>6, <4>2, StaysOnItsWay
    <3>4. GaplessLoad(c)'
      <4> SUFFICES ASSUME phase[c] = "load", NEW id \in Saved', BlockNO(id) < loading[c]
                   PROVE  Written(c, id)'
        BY <1>3 DEF GaplessLoad
      <4>1. CASE id = p
        BY <1>4, <4>1 DEF Written, OnWire, AtSlave, Kept
      <4>2. CASE id \in Saved
        <5>1. Written(c, id)
          BY <3>0, <4>2 DEF Flow, GaplessLoad
        <5> QED BY <1>3, <1>6, <5>1, StaysOnItsWay
      <4> QED BY <1>2, <4>1, <4>2
    <3>5. GaplessLive(c)'
      <4>1. SentTo(c)' = SentTo(c)
        <5>1. HandedOver' = HandedOver
          BY <1>0, QueueSave
        <5> QED BY <1>3, <5>1 DEF SentTo
      <4> SUFFICES ASSUME phase[c] = "live", NEW i \in 1..SentTo(c) PROVE OnItsWay(c, mlog[i])'
        BY <1>3, <4>1 DEF GaplessLive
      <4>2. mlog'[i] = mlog[i]
        <5>1. i \in 1..Len(mlog)
          BY <1>0, SentToIs
        <5> QED BY <1>1, <5>1
      <4>3. OnItsWay(c, mlog[i])
        BY <3>0 DEF Flow, GaplessLive
      <4>4. PICK id : id = mlog[i]
        OBVIOUS
      <4>5. OnItsWay(c, id)'
        BY <1>3, <1>6, <4>3, <4>4, StaysOnItsWay
      <4> QED BY <4>2, <4>4, <4>5 DEF OnItsWay, InChan, Taken, Written, OnWire, AtSlave, Has, Kept
    <3> QED BY <3>1, <3>2, <3>3, <3>4, <3>5 DEF Flow
  <2> QED BY <1>3, <1>7, <1>8, <2>1, <2>2 DEF HoleInv, Gapless
<1>11. CASE Beyond
  <2>1. BeyondInbox'
    BY <1>3, <1>11 DEF Beyond, BeyondInbox, TooFar
  <2>2. \A c \in Conns : c = conn' => BeyondFlow(c)'
    BY <1>0, <1>1, <1>3, <1>11, BeyondFrame DEF Beyond
  <2> QED BY <1>7, <1>8, <2>1, <2>2 DEF HoleInv, Beyond
<1> QED BY <1>10, <1>11 DEF HoleInv

\* A step that leaves the files of master and slave.
LEMMA SameFiles ==
  ASSUME HoleInv, UNCHANGED <<mlog, slog, send, cursor>>, atRisk \subseteq atRisk'
  PROVE  /\ Saved' = Saved /\ \A id : Kept(id) => Kept(id)'
         /\ HolesExplained' /\ EndOK' /\ \A c \in Conns : cursor'[c] <= send'
<1>1. Saved' = Saved /\ Stored' = Stored
  BY DEF Saved, Stored
<1> QED BY <1>1 DEF HoleInv, Kept, HolesExplained, EndOK

\* SendBatch: what is before the batch is on its way to the client already.
LEMMA HolesSend ==
  ASSUME ~LiveRollover, IInv, HoleInv, NEW c \in Conns, c = conn, SendBatchTo(c)
  PROVE  HoleInv'
<1> DEFINE b == Batch(cache[1], cache)
<1>0. /\ LogOK /\ QueueOK /\ OneBlock /\ ClientsOK /\ BatchesOK
      /\ cewt \in [Conns -> Seq(Batches)]
  BY DEF IInv, BatchesOK
<1>1. /\ busy /\ c \in sendTo /\ phase[c] = "live"
      /\ cewt' = [cewt EXCEPT ![c] = Append(cewt[c], b)] /\ c \notin sendTo'
      /\ UNCHANGED <<mlog, pending, ewt, cache, busy, phase, cursor, loading, taken, wire, conn, slog,
                     send, inbox, atRisk, block_NO>>
  <2>1. phase[c] = "live"
    BY <1>0, ConnNumbers DEF ClientsOK, SendBatchTo
  <2> QED BY <2>1 DEF SendBatchTo, slaveVars
<1>2. cache # << >>
  BY <1>0, <1>1 DEF QueueOK
<1>3. /\ Stretch(b) /\ b.first = mlog[HandedOver + 1] /\ HandedOver + 1 \in 1..Len(mlog)
      /\ BlockNO(b.first) = block_NO /\ b.msgs = cache
  <2>1. b.first = cache[1] /\ b.msgs = cache
    BY DEF Batch
  <2> QED BY <1>0, <1>2, <2>1, CacheIsStretch
<1> HIDE DEF b
<1> PICK n \in Nat : n = Len(cewt[c])
  BY <1>0
<1>4. n \in Nat /\ cewt'[c] = Append(cewt[c], b) /\ Len(cewt'[c]) = n + 1 /\ cewt'[c][n + 1] = b
      /\ \A k \in 1..n : cewt'[c][k] = cewt[c][k]
  BY <1>0, <1>1
<1>5. \A k : k \in 1..n + 1 <=> k \in 1..n \/ k = n + 1
  BY <1>4
<1>6. /\ Saved' = Saved /\ \A id : Kept(id) => Kept(id)'
      /\ HolesExplained' /\ EndOK' /\ \A d \in Conns : cursor'[d] <= send'
  BY <1>1, SameFiles
<1>7. /\ SentTo(c) = HandedOver /\ SentTo(c)' = HandedOver + Len(cache)
      /\ HandedOver \in Nat /\ Len(cache) \in Nat
  BY <1>0, <1>1 DEF SentTo, HandedOver, QueueOK
<1>8. ASSUME NEW x, Stretch(x) PROVE BlockNO(x.first) <= block_NO
  <2>1. BlockNO(x.first) \in 0..block_NO /\ block_NO \in Nat
    BY <1>0, <1>8, FirstIsSaved DEF LogOK
  <2> QED BY <2>1
<1>9. Ascending(c)'
  <2>1. Ascending(c)
    BY DEF HoleInv
  <2>2. /\ inbox # NoBatch => BlockNO(inbox.first) <= block_NO
        /\ taken[c] # NoBatch => BlockNO(taken[c].first) <= block_NO
        /\ \A j \in 1..Len(wire[c]) : BlockNO(wire[c][j].first) <= block_NO
        /\ \A j \in 1..Len(cewt[c]) : BlockNO(cewt[c][j].first) <= block_NO
        /\ block_NO <= block_NO
    <3>1. block_NO <= block_NO
      BY <1>0 DEF LogOK
    <3> QED BY <1>0, <1>8, <3>1 DEF BatchesOK
  <2>3. ASSUME NEW j \in 1..n + 1, NEW k \in j..n + 1
        PROVE  BlockNO(cewt'[c][j].first) <= BlockNO(cewt'[c][k].first)
    <3>1. CASE k = n + 1
      BY <1>3, <1>4, <1>5, <2>2, <3>1
    <3>2. CASE k # n + 1
      <4>1. j \in 1..n /\ k \in j..n
        BY <1>4, <3>2
      <4> QED BY <1>4, <2>1, <4>1 DEF Ascending
    <3> QED BY <3>1, <3>2
  <2>4. ASSUME NEW k \in 1..n + 1
        PROVE  /\ \A j \in 1..Len(wire[c]) : BlockNO(wire[c][j].first) <= BlockNO(cewt'[c][k].first)
               /\ inbox # NoBatch => BlockNO(inbox.first) <= BlockNO(cewt'[c][k].first)
               /\ taken[c] # NoBatch => BlockNO(taken[c].first) <= BlockNO(cewt'[c][k].first)
    <3>1. CASE k = n + 1
      BY <1>3, <1>4, <2>2, <3>1
    <3>2. CASE k \in 1..n
      BY <1>4, <2>1, <3>2 DEF Ascending
    <3> QED BY <1>5, <3>1, <3>2
  <2> QED BY <1>1, <1>4, <2>1, <2>3, <2>4 DEF Ascending
<1>10. CASE Gapless
  <2>0. Flow(c) /\ GaplessInbox
    BY <1>10 DEF Gapless
  <2>1. GaplessInbox'
    BY <1>1, <1>6, <2>0 DEF GaplessInbox
  <2>2. ASSUME NEW id, NEW m
        PROVE  /\ OnWire(c, id, m) => OnWire(c, id, m)'
               /\ Written(c, id) => Written(c, id)'
               /\ Taken(c, id) => Taken(c, id)'
    BY <1>1, <1>6 DEF Taken, Written, OnWire, AtSlave, Has
  <2>3. ASSUME NEW id, NEW m \in 0..n, InChan(c, id, m) PROVE InChan(c, id, m)'
    <3>1. CASE Taken(c, id)
      BY <2>2, <3>1 DEF InChan
    <3>2. CASE \E k \in 1..m : Has(cewt[c][k], id)
      <4>1. PICK k \in 1..m : Has(cewt[c][k], id)
        BY <3>2
      <4>2. k \in 1..n
        BY <1>4
      <4>3. Has(cewt[c][k], id)'
        BY <1>4, <4>1, <4>2 DEF Has
      <4> QED BY <4>3 DEF InChan
    <3> QED BY <2>3, <3>1, <3>2 DEF InChan
  <2>4. ASSUME NEW id, OnItsWay(c, id) PROVE InChan(c, id, n)' /\ OnItsWay(c, id)'
    <3>1. InChan(c, id, n)'
      BY <1>4, <2>3, <2>4 DEF OnItsWay
    <3>2. OnItsWay(c, id)'
      BY <1>4, <1>5, <3>1 DEF OnItsWay, InChan
    <3> QED BY <3>1, <3>2
  <2>5. GaplessWire(c)' /\ GaplessTaken(c)' /\ GaplessLoad(c)'
    BY <1>1, <1>6, <2>0, <2>2 DEF Flow, GaplessWire, GaplessTaken, GaplessLoad
  <2>6. GaplessChan(c)'
    <3> SUFFICES ASSUME NEW j \in 1..n + 1, NEW id \in Saved, id < cewt'[c][j].first
                 PROVE  InChan(c, id, j - 1)'
      BY <1>4, <1>6 DEF GaplessChan
    <3>1. CASE j \in 1..n
      <4>1. InChan(c, id, j - 1) /\ j - 1 \in 0..n
        BY <1>4, <2>0, <3>1 DEF Flow, GaplessChan
      <4> QED BY <2>3, <4>1
    <3>2. CASE j = n + 1
      <4>1. PICK i \in 1..Len(mlog) : id = mlog[i]
        BY DEF Saved
      <4>2. i <= HandedOver
        <5>1. SUFFICES ASSUME HandedOver + 1 <= i PROVE FALSE
          BY <1>3, <1>7
        <5>2. mlog[HandedOver + 1] <= mlog[i] /\ mlog[i] \in Nat /\ mlog[HandedOver + 1] \in Nat
          <6>1. mlog[i] \in Nat /\ mlog[HandedOver + 1] \in Nat
            BY <1>0, <1>3, SavedAre DEF Saved
          <6>2. CASE i = HandedOver + 1
            BY <6>1, <6>2
          <6>3. CASE HandedOver + 1 < i
            BY <1>0, <1>3, <6>1, <6>3, LogOrder
          <6> QED BY <1>3, <1>7, <5>1, <6>1, <6>2, <6>3
        <5> QED BY <1>3, <1>4, <3>2, <4>1, <5>2
      <4>3. OnItsWay(c, id)
        <5>1. i \in 1..SentTo(c)
          BY <1>7, <4>2
        <5> QED BY <1>1, <2>0, <4>1, <5>1 DEF Flow, GaplessLive
      <4>4. j - 1 = n
        BY <1>4, <3>2
      <4> QED BY <2>4, <4>3, <4>4
    <3> QED BY <1>5, <3>1, <3>2
  <2>7. GaplessLive(c)'
    <3> SUFFICES ASSUME NEW i \in 1..HandedOver + Len(cache) PROVE OnItsWay(c, mlog[i])'
      BY <1>7 DEF GaplessLive
    <3>1. CASE i \in 1..HandedOver
      <4>1. OnItsWay(c, mlog[i])
        BY <1>1, <1>7, <2>0, <3>1 DEF Flow, GaplessLive
      <4>2. PICK id : id = mlog[i]
        OBVIOUS
      <4>3. OnItsWay(c, id)'
        BY <2>4, <4>1, <4>2
      <4> QED BY <1>1, <4>2, <4>3 DEF OnItsWay, InChan, Taken, Written, OnWire, AtSlave, Has, Kept
    <3>2. CASE i \notin 1..HandedOver
      <4> DEFINE k == i - HandedOver
      <4>1. k \in 1..Len(cache) /\ i = HandedOver + k
        BY <1>7, <3>2
      <4>2. cache[k] = mlog[i]
        BY <1>0, <4>1 DEF QueueOK
      <4>3. cache[k] = b.first + (k - 1)
        BY <1>3, <4>1 DEF Stretch, Faithful
      <4>4. b.first \in Nat
        BY <1>0, <1>3, FirstIsSaved
      <4> HIDE DEF k
      <4>5. b.first <= mlog[i] /\ mlog[i] < b.first + Len(b.msgs)
        BY <1>3, <1>7, <4>1, <4>2, <4>3, <4>4
      <4>6. cewt'[c][n + 1].first <= mlog'[i] /\ mlog'[i] < cewt'[c][n + 1].first + Len(cewt'[c][n + 1].msgs)
        BY <1>1, <1>4, <4>5
      <4>7. n + 1 \in 1..Len(cewt'[c])
        BY <1>4
      <4> QED BY <4>6, <4>7 DEF OnItsWay, InChan, Has
    <3> QED BY <3>1, <3>2
  <2> QED BY <1>1, <1>6, <1>9, <2>1, <2>5, <2>6, <2>7 DEF HoleInv, Gapless, Flow
<1>11. CASE Beyond
  <2>1. BeyondInbox' /\ BeyondFlow(c)'
    BY <1>1, <1>3, <1>4, <1>5, <1>11 DEF Beyond, BeyondInbox, BeyondFlow, TooFar
  <2> QED BY <1>1, <1>6, <1>9, <2>1 DEF HoleInv, Beyond
<1> QED BY <1>10, <1>11 DEF HoleInv

\* NoBatch has no message.
LEMMA NoBatchEmpty == \A id \in Nat : ~ Has(NoBatch, id)
BY DEF Has, NoBatch, Batch

\* RunLoop takes the first batch from its channel.
LEMMA HolesTake ==
  ASSUME IInv, HoleInv, NEW c \in Conns, c = conn, TakeBatch(c)
  PROVE  HoleInv'
<1>0. /\ LogOK /\ QueueOK /\ cewt \in [Conns -> Seq(Batches)]
      /\ taken \in [Conns -> Batches \cup {NoBatch}] /\ \A j \in 1..Len(cewt[c]) : Stretch(cewt[c][j])
  BY DEF IInv, BatchesOK
<1>1. /\ phase[c] = "live" /\ taken[c] = NoBatch /\ cewt[c] # << >>
      /\ taken' = [taken EXCEPT ![c] = Head(cewt[c])] /\ cewt' = [cewt EXCEPT ![c] = Tail(cewt[c])]
      /\ UNCHANGED <<mlog, pending, ewt, cache, busy, sendTo, phase, cursor, loading, wire, conn, slog,
                     send, inbox, atRisk, block_NO>>
  BY DEF TakeBatch, runVars, slaveVars
<1> PICK n \in Nat : n + 1 = Len(cewt[c])
  <2>1. Len(cewt[c]) \in Nat /\ Len(cewt[c]) # 0
    BY <1>0, <1>1
  <2>2. Len(cewt[c]) - 1 \in Nat /\ Len(cewt[c]) - 1 + 1 = Len(cewt[c])
    BY <2>1
  <2> QED BY <2>2
<1>2. /\ taken'[c] = cewt[c][1] /\ Len(cewt'[c]) = n
      /\ \A k \in 1..n : cewt'[c][k] = cewt[c][k + 1] /\ k + 1 \in 1..n + 1
      /\ 1 \in 1..n + 1 /\ taken'[c] # NoBatch
  <2>1. /\ taken'[c] = cewt[c][1] /\ Len(cewt'[c]) = n
        /\ \A k \in 1..n : cewt'[c][k] = cewt[c][k + 1]
    BY <1>0, <1>1
  <2>2. 1 \in 1..n + 1 /\ \A k \in 1..n : k + 1 \in 1..n + 1
    OBVIOUS
  <2>3. cewt[c][1] # NoBatch
    BY <1>0, <2>2, NotABatch
  <2> QED BY <2>1, <2>2, <2>3
<1>3. /\ Saved' = Saved /\ \A id : Kept(id) => Kept(id)'
      /\ HolesExplained' /\ EndOK' /\ \A d \in Conns : cursor'[d] <= send'
  BY <1>1, SameFiles
<1>4. Ascending(c)'
  <2>1. Ascending(c)
    BY DEF HoleInv
  <2>2. /\ \A k \in 1..n : BlockNO(cewt[c][1].first) <= BlockNO(cewt[c][k + 1].first)
        /\ \A j \in 1..n : \A k \in j..n : BlockNO(cewt[c][j + 1].first) <= BlockNO(cewt[c][k + 1].first)
    <3>1. \A j \in 1..n + 1 : \A k \in j..n + 1 : BlockNO(cewt[c][j].first) <= BlockNO(cewt[c][k].first)
      BY <2>1 DEF Ascending
    <3>2. \A k \in 1..n : k + 1 \in 1..n + 1
      OBVIOUS
    <3>3. ASSUME NEW j \in 1..n, NEW k \in j..n PROVE j + 1 \in 1..n + 1 /\ k + 1 \in j + 1..n + 1
      OBVIOUS
    <3> QED BY <1>2, <3>1, <3>2, <3>3
  <2>3. \A j \in 1..n : \A k \in j..n : k \in 1..n
    OBVIOUS
  <2> QED BY <1>1, <1>2, <2>1, <2>2, <2>3 DEF Ascending
<1>5. CASE Gapless
  <2>0. Flow(c) /\ GaplessInbox
    BY <1>5 DEF Gapless
  <2>1. GaplessInbox'
    BY <1>1, <1>3, <2>0 DEF GaplessInbox
  <2>2. ASSUME NEW id, NEW m
        PROVE  OnWire(c, id, m) => OnWire(c, id, m)'
    BY <1>1, <1>3 DEF OnWire, AtSlave, Has
  <2>3. ASSUME NEW id PROVE Written(c, id) => Written(c, id)'
    BY <1>1, <1>3 DEF Written, OnWire, AtSlave, Has
  <2>4. ASSUME NEW id \in Saved PROVE Taken(c, id) => Written(c, id)
    BY <1>0, <1>1, NoBatchEmpty, SavedAre DEF Taken
  <2>5. ASSUME NEW id \in Saved, NEW m \in 0..n, InChan(c, id, m + 1) PROVE InChan(c, id, m)'
    <3>1. CASE Taken(c, id)
      BY <2>3, <2>4, <3>1 DEF InChan, Taken
    <3>2. CASE \E k \in 1..m + 1 : Has(cewt[c][k], id)
      <4>1. PICK k \in 1..m + 1 : Has(cewt[c][k], id)
        BY <3>2
      <4>2. CASE k = 1
        <5>1. Has(taken[c], id)'
          BY <1>2, <4>1, <4>2 DEF Has
        <5> QED BY <5>1 DEF InChan, Taken
      <4>3. CASE k # 1
        <5>1. PICK h \in 1..m : k = h + 1
          <6>1. k - 1 \in 1..m /\ k = (k - 1) + 1
            BY <4>3
          <6> QED BY <6>1
        <5>2. h \in 1..n
          OBVIOUS
        <5>3. Has(cewt[c][h], id)'
          BY <1>2, <4>1, <5>1, <5>2 DEF Has
        <5> QED BY <5>3 DEF InChan
      <4> QED BY <4>2, <4>3
    <3> QED BY <2>5, <3>1, <3>2 DEF InChan
  <2>6. GaplessWire(c)' /\ GaplessLoad(c)'
    BY <1>1, <1>3, <2>0, <2>2, <2>3 DEF Flow, GaplessWire, GaplessLoad
  <2>7. GaplessTaken(c)'
    <3> SUFFICES ASSUME NEW id \in Saved, id < cewt[c][1].first PROVE Written(c, id)'
      BY <1>2, <1>3 DEF GaplessTaken
    <3>1. InChan(c, id, 1 - 1)
      BY <1>2, <2>0 DEF Flow, GaplessChan
    <3>2. Taken(c, id)
      BY <3>1 DEF InChan
    <3> QED BY <2>3, <2>4, <3>2
  <2>8. GaplessChan(c)'
    <3> SUFFICES ASSUME NEW j \in 1..n, NEW id \in Saved, id < cewt[c][j + 1].first
                 PROVE  InChan(c, id, j - 1)'
      BY <1>2, <1>3 DEF GaplessChan
    <3>1. InChan(c, id, (j + 1) - 1)
      BY <1>2, <2>0 DEF Flow, GaplessChan
    <3>2. j - 1 \in 0..n /\ (j + 1) - 1 = (j - 1) + 1
      OBVIOUS
    <3> QED BY <2>5, <3>1, <3>2
  <2>9. GaplessLive(c)'
    <3>1. SentTo(c)' = SentTo(c)
      BY <1>1 DEF SentTo, HandedOver
    <3> SUFFICES ASSUME NEW i \in 1..SentTo(c) PROVE OnItsWay(c, mlog[i])'
      BY <3>1 DEF GaplessLive
    <3>2. PICK id : id = mlog[i]
      OBVIOUS
    <3>3. OnItsWay(c, id) /\ id \in Saved
      <4>1. i \in 1..Len(mlog)
        BY <1>0, SentToIs
      <4> QED BY <1>1, <2>0, <3>2, <4>1 DEF Flow, GaplessLive, Saved
    <3>4. InChan(c, id, n)'
      <4>1. InChan(c, id, n + 1) /\ n \in 0..n
        BY <3>3 DEF OnItsWay
      <4> QED BY <2>5, <3>3, <4>1
    <3>5. OnItsWay(c, id)'
      BY <1>2, <3>4 DEF OnItsWay, InChan
    <3> QED BY <1>1, <3>2, <3>5 DEF OnItsWay, InChan, Taken, Written, OnWire, AtSlave, Has, Kept
  <2> QED BY <1>1, <1>3, <1>4, <2>1, <2>6, <2>7, <2>8, <2>9 DEF HoleInv, Gapless, Flow
<1>6. CASE Beyond
  <2>1. BeyondInbox' /\ BeyondFlow(c)'
    BY <1>1, <1>2, <1>6 DEF Beyond, BeyondInbox, BeyondFlow, TooFar
  <2> QED BY <1>1, <1>3, <1>4, <2>1 DEF HoleInv, Beyond
<1> QED BY <1>5, <1>6 DEF HoleInv

\* RunLoop writes the batch it has taken to the connection.
LEMMA HolesForward ==
  ASSUME IInv, HoleInv, NEW c \in Conns, c = conn, ForwardBatch(c)
  PROVE  HoleInv'
<1> DEFINE b == taken[c]
<1>0. /\ LogOK /\ QueueOK /\ wire \in [Conns -> Seq(Batches)]
      /\ taken \in [Conns -> Batches \cup {NoBatch}] /\ Stretch(b)
  BY DEF IInv, BatchesOK, ForwardBatch
<1>1. /\ phase[c] = "live" /\ b # NoBatch
      /\ wire' = [wire EXCEPT ![c] = Append(wire[c], b)] /\ taken' = [taken EXCEPT ![c] = NoBatch]
      /\ UNCHANGED <<mlog, pending, ewt, cache, busy, sendTo, phase, cursor, loading, cewt, conn, slog,
                     send, inbox, atRisk, block_NO>>
  BY DEF ForwardBatch, Transmit, runVars, slaveVars
<1> PICK n \in Nat : n = Len(wire[c])
  BY <1>0
<1>2. /\ taken'[c] = NoBatch /\ Len(wire'[c]) = n + 1 /\ wire'[c][n + 1] = b
      /\ \A k \in 1..n : wire'[c][k] = wire[c][k]
      /\ \A k : k \in 1..n + 1 <=> k \in 1..n \/ k = n + 1
  <2>1. /\ taken'[c] = NoBatch /\ Len(wire'[c]) = n + 1 /\ wire'[c][n + 1] = b
        /\ \A k \in 1..n : wire'[c][k] = wire[c][k]
    BY <1>0, <1>1
  <2> QED BY <2>1
<1>3. /\ Saved' = Saved /\ \A id : Kept(id) => Kept(id)'
      /\ HolesExplained' /\ EndOK' /\ \A d \in Conns : cursor'[d] <= send'
  BY <1>1, SameFiles
<1>4. Ascending(c)'
  <2>1. Ascending(c)
    BY DEF HoleInv
  <2>2. ASSUME NEW j \in 1..n + 1
        PROVE  /\ inbox # NoBatch => BlockNO(inbox.first) <= BlockNO(wire'[c][j].first)
               /\ \A k \in j..n + 1 : BlockNO(wire'[c][j].first) <= BlockNO(wire'[c][k].first)
               /\ \A k \in 1..Len(cewt[c]) : BlockNO(wire'[c][j].first) <= BlockNO(cewt[c][k].first)
    <3>1. CASE j = n + 1
      <4>1. BlockNO(b.first) \in Nat
        <5>1. b.first \in Nat
          BY <1>0, IdsAreNat DEF Stretch, Batches
        <5> QED BY <5>1, IdParts
      <4>2. \A k \in j..n + 1 : k = n + 1
        BY <3>1
      <4>3. \A k \in j..n + 1 : BlockNO(wire'[c][j].first) <= BlockNO(wire'[c][k].first)
        BY <1>2, <3>1, <4>1, <4>2
      <4> QED BY <1>1, <1>2, <2>1, <3>1, <4>3 DEF Ascending
    <3>2. CASE j \in 1..n
      <4>1. \A k \in j..n + 1 : k \in j..n \/ k = n + 1
        OBVIOUS
      <4>2. \A k \in j..n : k \in 1..n
        BY <3>2
      <4> QED BY <1>1, <1>2, <2>1, <3>2, <4>1, <4>2 DEF Ascending
    <3> QED BY <1>2, <3>1, <3>2
  <2>3. inbox # NoBatch => \A k \in 1..Len(cewt[c]) : BlockNO(inbox.first) <= BlockNO(cewt[c][k].first)
    BY <2>1 DEF Ascending
  <2>4. \A j \in 1..Len(cewt[c]) : \A k \in j..Len(cewt[c]) :
           BlockNO(cewt[c][j].first) <= BlockNO(cewt[c][k].first)
    BY <2>1 DEF Ascending
  <2> QED BY <1>1, <1>2, <2>2, <2>3, <2>4 DEF Ascending
<1>5. CASE Gapless
  <2>0. Flow(c) /\ GaplessInbox
    BY <1>5 DEF Gapless
  <2>1. GaplessInbox'
    BY <1>1, <1>3, <2>0 DEF GaplessInbox
  <2>2. ASSUME NEW id, NEW m \in 0..n, OnWire(c, id, m) PROVE OnWire(c, id, m)'
    <3>1. CASE AtSlave(id)
      BY <1>1, <1>3, <3>1 DEF OnWire, AtSlave, Has
    <3>2. CASE \E k \in 1..m : Has(wire[c][k], id)
      <4>1. PICK k \in 1..m : Has(wire[c][k], id)
        BY <3>2
      <4>2. k \in 1..n
        OBVIOUS
      <4>3. Has(wire[c][k], id)'
        BY <1>2, <4>1, <4>2 DEF Has
      <4> QED BY <4>3 DEF OnWire
    <3> QED BY <2>2, <3>1, <3>2 DEF OnWire
  <2>3. ASSUME NEW id, Written(c, id) PROVE OnWire(c, id, n)' /\ Written(c, id)'
    <3>1. OnWire(c, id, n)'
      <4>1. n \in 0..n
        OBVIOUS
      <4> QED BY <2>2, <2>3, <4>1 DEF Written
    <3>2. Written(c, id)'
      BY <1>2, <3>1 DEF Written, OnWire
    <3> QED BY <3>1, <3>2
  <2>4. ASSUME NEW id, Taken(c, id) PROVE Written(c, id)'
    <3>1. CASE Has(b, id)
      <4>1. Has(wire[c][n + 1], id)' /\ n + 1 \in 1..Len(wire'[c])
        BY <1>2, <3>1 DEF Has
      <4> QED BY <4>1 DEF Written, OnWire
    <3> QED BY <2>3, <2>4, <3>1 DEF Taken
  <2>5. ASSUME NEW id, NEW m PROVE InChan(c, id, m) => InChan(c, id, m)'
    BY <1>1, <2>4 DEF InChan, Taken, Has
  <2>6. ASSUME NEW id PROVE OnItsWay(c, id) => OnItsWay(c, id)'
    BY <1>1, <2>4 DEF OnItsWay, InChan, Taken, Has
  <2>7. GaplessTaken(c)' /\ GaplessChan(c)' /\ GaplessLoad(c)'
    BY <1>1, <1>2, <1>3, <2>0, <2>3, <2>5 DEF Flow, GaplessTaken, GaplessChan, GaplessLoad
  <2>8. GaplessWire(c)'
    <3> SUFFICES ASSUME NEW j \in 1..n + 1, NEW id \in Saved, id < wire'[c][j].first
                 PROVE  OnWire(c, id, j - 1)'
      BY <1>2, <1>3 DEF GaplessWire
    <3>1. CASE j = n + 1
      <4>1. Written(c, id)
        BY <1>1, <1>2, <2>0, <3>1 DEF Flow, GaplessTaken
      <4>2. j - 1 = n
        BY <3>1
      <4> QED BY <2>3, <4>1, <4>2
    <3>2. CASE j \in 1..n
      <4>1. OnWire(c, id, j - 1) /\ j - 1 \in 0..n
        BY <1>2, <2>0, <3>2 DEF Flow, GaplessWire
      <4> QED BY <2>2, <4>1
    <3> QED BY <1>2, <3>1, <3>2
  <2>9. GaplessLive(c)'
    <3>1. SentTo(c)' = SentTo(c)
      BY <1>1 DEF SentTo, HandedOver
    <3> SUFFICES ASSUME NEW i \in 1..SentTo(c) PROVE OnItsWay(c, mlog[i])'
      BY <3>1 DEF GaplessLive
    <3>2. PICK id : id = mlog[i]
      OBVIOUS
    <3>3. OnItsWay(c, id)'
      BY <1>1, <2>0, <2>6, <3>2 DEF Flow, GaplessLive
    <3> QED BY <1>1, <3>2, <3>3 DEF OnItsWay, InChan, Taken, Written, OnWire, AtSlave, Has, Kept
  <2> QED BY <1>1, <1>3, <1>4, <2>1, <2>7, <2>8, <2>9 DEF HoleInv, Gapless, Flow
<1>6. CASE Beyond
  <2>1. BeyondInbox' /\ BeyondFlow(c)'
    BY <1>1, <1>2, <1>6 DEF Beyond, BeyondInbox, BeyondFlow, TooFar
  <2> QED BY <1>1, <1>3, <1>4, <2>1 DEF HoleInv, Beyond
<1> QED BY <1>5, <1>6 DEF HoleInv

\* The slave takes the first batch from the connection.
LEMMA HolesReceive ==
  ASSUME IInv, HoleInv, NEW c \in Conns, c = conn, ReceiveBatch
  PROVE  HoleInv'
<1>0. /\ LogOK /\ QueueOK /\ wire \in [Conns -> Seq(Batches)]
      /\ \A j \in 1..Len(wire[c]) : Stretch(wire[c][j])
  BY DEF IInv, BatchesOK
<1>1. /\ inbox = NoBatch /\ wire[c] # << >>
      /\ inbox' = Head(wire[c]) /\ wire' = [wire EXCEPT ![c] = Tail(wire[c])]
      /\ UNCHANGED <<mlog, pending, ewt, cache, busy, sendTo, phase, cursor, loading, taken, cewt, conn,
                     slog, send, atRisk, block_NO>>
  BY DEF ReceiveBatch, runVars, connVars
<1> PICK n \in Nat : n + 1 = Len(wire[c])
  <2>1. Len(wire[c]) \in Nat /\ Len(wire[c]) # 0
    BY <1>0, <1>1
  <2>2. Len(wire[c]) - 1 \in Nat /\ Len(wire[c]) - 1 + 1 = Len(wire[c])
    BY <2>1
  <2> QED BY <2>2
<1>2. /\ inbox' = wire[c][1] /\ Len(wire'[c]) = n
      /\ \A k \in 1..n : wire'[c][k] = wire[c][k + 1] /\ k + 1 \in 1..n + 1
      /\ 1 \in 1..n + 1 /\ inbox' # NoBatch
  <2>1. /\ inbox' = wire[c][1] /\ Len(wire'[c]) = n
        /\ \A k \in 1..n : wire'[c][k] = wire[c][k + 1]
    BY <1>0, <1>1
  <2>2. 1 \in 1..n + 1 /\ \A k \in 1..n : k + 1 \in 1..n + 1
    OBVIOUS
  <2>3. wire[c][1] # NoBatch
    BY <1>0, <2>2, NotABatch
  <2> QED BY <2>1, <2>2, <2>3
<1>3. /\ Saved' = Saved /\ \A id : Kept(id) => Kept(id)'
      /\ HolesExplained' /\ EndOK' /\ \A d \in Conns : cursor'[d] <= send'
  BY <1>1, SameFiles
<1>4. Ascending(c)'
  <2>1. Ascending(c)
    BY DEF HoleInv
  <2>2. /\ \A k \in 1..n : BlockNO(wire[c][1].first) <= BlockNO(wire[c][k + 1].first)
        /\ \A j \in 1..n : \A k \in j..n : BlockNO(wire[c][j + 1].first) <= BlockNO(wire[c][k + 1].first)
    <3>1. \A j \in 1..n + 1 : \A k \in j..n + 1 : BlockNO(wire[c][j].first) <= BlockNO(wire[c][k].first)
      BY <2>1 DEF Ascending
    <3>2. \A k \in 1..n : k + 1 \in 1..n + 1
      OBVIOUS
    <3>3. ASSUME NEW j \in 1..n, NEW k \in j..n PROVE j + 1 \in 1..n + 1 /\ k + 1 \in j + 1..n + 1
      OBVIOUS
    <3> QED BY <1>2, <3>1, <3>2, <3>3
  <2>3. \A j \in 1..n : \A k \in j..n : k \in 1..n
    OBVIOUS
  <2>4. \A j \in 1..n + 1 :
          /\ taken[c] # NoBatch => BlockNO(wire[c][j].first) <= BlockNO(taken[c].first)
          /\ \A k \in 1..Len(cewt[c]) : BlockNO(wire[c][j].first) <= BlockNO(cewt[c][k].first)
          /\ phase[c] = "load" => BlockNO(wire[c][j].first) < loading[c]
    BY <2>1 DEF Ascending
  <2>5. \A j \in 1..Len(cewt[c]) :
          /\ taken[c] # NoBatch => BlockNO(taken[c].first) <= BlockNO(cewt[c][j].first)
          /\ \A k \in j..Len(cewt[c]) : BlockNO(cewt[c][j].first) <= BlockNO(cewt[c][k].first)
    BY <2>1 DEF Ascending
  <2> QED BY <1>1, <1>2, <2>2, <2>3, <2>4, <2>5 DEF Ascending
<1>5. CASE Gapless
  <2>0. Flow(c)
    BY <1>5 DEF Gapless
  <2>1. ASSUME NEW id \in Saved, AtSlave(id) PROVE Kept(id) /\ AtSlave(id)'
    <3>1. Kept(id)
      BY <1>0, <1>1, <2>1, NoBatchEmpty, SavedAre DEF AtSlave
    <3>2. AtSlave(id)'
      BY <1>3, <3>1 DEF AtSlave
    <3> QED BY <3>1, <3>2
  <2>2. ASSUME NEW id \in Saved, NEW m \in 0..n, OnWire(c, id, m + 1) PROVE OnWire(c, id, m)'
    <3>1. CASE AtSlave(id)
      BY <2>1, <3>1 DEF OnWire
    <3>2. CASE \E k \in 1..m + 1 : Has(wire[c][k], id)
      <4>1. PICK k \in 1..m + 1 : Has(wire[c][k], id)
        BY <3>2
      <4>2. CASE k = 1
        <5>1. Has(inbox, id)'
          BY <1>2, <4>1, <4>2 DEF Has
        <5> QED BY <5>1 DEF OnWire, AtSlave
      <4>3. CASE k # 1
        <5>1. PICK h \in 1..m : k = h + 1
          <6>1. k - 1 \in 1..m /\ k = (k - 1) + 1
            BY <4>3
          <6> QED BY <6>1
        <5>2. h \in 1..n
          OBVIOUS
        <5>3. Has(wire[c][h], id)'
          BY <1>2, <4>1, <5>1, <5>2 DEF Has
        <5> QED BY <5>3 DEF OnWire
      <4> QED BY <4>2, <4>3
    <3> QED BY <2>2, <3>1, <3>2 DEF OnWire
  <2>3. ASSUME NEW id \in Saved, Written(c, id) PROVE Written(c, id)'
    <3>1. OnWire(c, id, n + 1) /\ n \in 0..n
      BY <2>3 DEF Written
    <3>2. OnWire(c, id, n)'
      BY <2>2, <3>1
    <3> QED BY <1>2, <3>2 DEF Written, OnWire
  <2>4. ASSUME NEW id \in Saved PROVE Taken(c, id) => Taken(c, id)'
    BY <1>1, <2>3 DEF Taken, Has
  <2>5. ASSUME NEW id \in Saved, NEW m PROVE InChan(c, id, m) => InChan(c, id, m)'
    BY <1>1, <2>4 DEF InChan, Has
  <2>6. ASSUME NEW id \in Saved PROVE OnItsWay(c, id) => OnItsWay(c, id)'
    BY <1>1, <2>4 DEF OnItsWay, InChan, Has
  <2>7. GaplessTaken(c)' /\ GaplessChan(c)' /\ GaplessLoad(c)'
    BY <1>1, <1>3, <2>0, <2>3, <2>5 DEF Flow, GaplessTaken, GaplessChan, GaplessLoad
  <2>8. GaplessInbox'
    <3> SUFFICES ASSUME NEW id \in Saved, id < wire[c][1].first PROVE Kept(id)'
      BY <1>2, <1>3 DEF GaplessInbox
    <3>1. OnWire(c, id, 1 - 1)
      BY <1>2, <2>0 DEF Flow, GaplessWire
    <3>2. AtSlave(id)
      BY <3>1 DEF OnWire
    <3> QED BY <1>3, <2>1, <3>2
  <2>9. GaplessWire(c)'
    <3> SUFFICES ASSUME NEW j \in 1..n, NEW id \in Saved, id < wire[c][j + 1].first
                 PROVE  OnWire(c, id, j - 1)'
      BY <1>2, <1>3 DEF GaplessWire
    <3>1. OnWire(c, id, (j + 1) - 1)
      BY <1>2, <2>0 DEF Flow, GaplessWire
    <3>2. j - 1 \in 0..n /\ (j + 1) - 1 = (j - 1) + 1
      OBVIOUS
    <3> QED BY <2>2, <3>1, <3>2
  <2>10. GaplessLive(c)'
    <3>1. SentTo(c)' = SentTo(c)
      BY <1>1 DEF SentTo, HandedOver
    <3> SUFFICES ASSUME phase[c] = "live", NEW i \in 1..SentTo(c) PROVE OnItsWay(c, mlog[i])'
      BY <1>1, <3>1 DEF GaplessLive
    <3>2. PICK id : id = mlog[i]
      OBVIOUS
    <3>3. OnItsWay(c, id) /\ id \in Saved
      <4>1. i \in 1..Len(mlog)
        BY <1>0, SentToIs
      <4> QED BY <2>0, <3>2, <4>1 DEF Flow, GaplessLive, Saved
    <3>4. OnItsWay(c, id)'
      BY <2>6, <3>3
    <3> QED BY <1>1, <3>2, <3>4 DEF OnItsWay, InChan, Taken, Written, OnWire, AtSlave, Has, Kept
  <2> QED BY <1>1, <1>3, <1>4, <2>7, <2>8, <2>9, <2>10 DEF HoleInv, Gapless, Flow
<1>6. CASE Beyond
  <2>1. BeyondInbox' /\ BeyondFlow(c)'
    BY <1>1, <1>2, <1>6 DEF Beyond, BeyondInbox, BeyondFlow, TooFar
  <2> QED BY <1>1, <1>3, <1>4, <2>1 DEF HoleInv, Beyond
<1> QED BY <1>5, <1>6 DEF HoleInv

\* A new connection starts at the end of the slave's file, with nothing on it.
LEMMA HolesConnect ==
  ASSUME IInv, HoleInv, NEW c \in Conns, Connect(c)
  PROVE  HoleInv'
<1>0. /\ LogOK /\ ClientsOK /\ BatchesOK /\ send \in Nat
  BY IdsAreNat DEF IInv, SlaveOK
<1>1. /\ conn = 0 /\ inbox = NoBatch /\ phase[c] = "none" /\ conn' = c
      /\ phase'[c] = "load" /\ cursor' = [cursor EXCEPT ![c] = send] /\ loading'[c] = BlockNO(send)
      /\ UNCHANGED <<mlog, block_NO, cewt, taken, wire, slog, send, inbox, atRisk>>
  BY <1>0 DEF Connect, NextMessageID, runVars, slaveVars, ClientsOK
<1>2. taken[c] = NoBatch /\ cewt[c] = << >> /\ wire[c] = << >>
  BY <1>0, <1>1, ConnNumbers DEF ClientsOK, BatchesOK
<1>3. Saved' = Saved /\ Stored' = Stored
  BY <1>1 DEF Saved, Stored
<1>4. HolesExplained' /\ EndOK' /\ \A d \in Conns : cursor'[d] <= send'
  BY <1>0, <1>1, <1>3 DEF HoleInv, HolesExplained, EndOK, ClientsOK
<1>5. Ascending(c)'
  BY <1>1, <1>2 DEF Ascending
<1>6. ASSUME NEW id \in Saved, BlockNO(id) < BlockNO(send) PROVE Written(c, id)'
  <2>1. id < send
    BY <1>0, <1>6, SavedAre, BlockOrder
  <2>2. Kept(id)
    BY <2>1 DEF HoleInv, HolesExplained, Kept
  <2>3. Kept(id)'
    BY <1>1, <1>3, <2>2 DEF Kept
  <2> QED BY <2>3 DEF Written, OnWire, AtSlave
<1>7. Flow(c)' /\ GaplessInbox'
  BY <1>1, <1>2, <1>3, <1>6
     DEF Flow, GaplessInbox, GaplessWire, GaplessTaken, GaplessChan, GaplessLoad, GaplessLive
<1> QED BY <1>1, <1>4, <1>5, <1>7 DEF HoleInv, Gapless

\* A broken connection, a killed slave, a killed master: what was on its way is
\* lost.
LEMMA HolesFail ==
  ASSUME IInv, HoleInv, Disconnect \/ SlaveCrash \/ MasterCrash
  PROVE  HoleInv'
<1>1. /\ conn' = 0 /\ inbox' \in {inbox, NoBatch}
      /\ UNCHANGED <<mlog, slog, send, cursor, atRisk>>
  BY DEF Disconnect, SlaveCrash, MasterCrash, slaveVars, connVars
<1>2. /\ Saved' = Saved /\ \A id : Kept(id) => Kept(id)'
      /\ HolesExplained' /\ EndOK' /\ \A d \in Conns : cursor'[d] <= send'
  BY <1>1, SameFiles
<1>3. Gapless => Gapless'
  BY <1>1, <1>2, ConnNumbers DEF Gapless, GaplessInbox
<1>4. Beyond => Beyond'
  BY <1>1, ConnNumbers DEF Beyond, BeyondInbox, TooFar
<1> QED BY <1>1, <1>2, <1>3, <1>4, ConnNumbers DEF HoleInv

\* AddClient: what the background load passed over is at risk; a message saved
\* after the load was at risk already.
LEMMA HolesAdd ==
  ASSUME IInv, HoleInv, NEW c \in Conns, c = conn, AddClient(c)
  PROVE  HoleInv'
<1>0. /\ LogOK /\ QueueOK /\ ClientsOK
      /\ phase \in [Conns -> {"none", "load", "live", "end"}]
      /\ loading[c] \in Nat /\ block_NO \in Nat
  BY DEF IInv, ClientsOK, LogOK
<1>1. /\ phase[c] = "load" /\ phase'[c] = "live" /\ taken[c] = NoBatch /\ cewt[c] = << >>
      /\ UNCHANGED <<mlog, pending, ewt, cache, busy, sendTo, cursor, loading, taken, cewt, wire, conn,
                     slog, send, inbox, block_NO>>
      /\ atRisk \subseteq atRisk'
  BY <1>0 DEF AddClient, runVars, slaveVars, ClientsOK
<1>2. ASSUME NEW i \in 1..Len(mlog), ~ (BlockNO(mlog[i]) < loading[c]) PROVE mlog[i] \in atRisk'
  <2>1. BlockNO(mlog[i]) \in 0..block_NO
    BY <1>0 DEF LogOK
  <2>2. BlockNO(mlog[i]) \in loading[c]..block_NO
    BY <1>0, <1>2, <2>1
  <2>3. ~ (loading[c] > block_NO)
    BY <1>0, <2>2
  <2>4. i \in InBlock(BlockNO(mlog[i]))
    BY DEF InBlock
  <2> QED BY <2>2, <2>3, <2>4 DEF AddClient
<1>3. /\ Saved' = Saved /\ \A id : Kept(id) => Kept(id)'
      /\ HolesExplained' /\ EndOK' /\ \A d \in Conns : cursor'[d] <= send'
  BY <1>1, SameFiles
<1>4. Ascending(c)'
  BY <1>1 DEF HoleInv, Ascending
<1>5. CASE Gapless
  <2>0. Flow(c) /\ GaplessInbox
    BY <1>5 DEF Gapless
  <2>1. GaplessInbox'
    BY <1>1, <1>3, <2>0 DEF GaplessInbox
  <2>2. ASSUME NEW id, NEW m
        PROVE  (OnWire(c, id, m) => OnWire(c, id, m)') /\ (Written(c, id) => Written(c, id)')
    BY <1>1, <1>3 DEF Written, OnWire, AtSlave, Has
  <2>3. GaplessWire(c)' /\ GaplessTaken(c)' /\ GaplessChan(c)' /\ GaplessLoad(c)'
    BY <1>1, <1>3, <2>0, <2>2 DEF Flow, GaplessWire, GaplessTaken, GaplessChan, GaplessLoad
  <2>4. GaplessLive(c)'
    <3>1. SentTo(c)' = SentTo(c)
      BY <1>1 DEF SentTo, HandedOver
    <3> SUFFICES ASSUME NEW i \in 1..SentTo(c) PROVE OnItsWay(c, mlog[i])'
      BY <3>1 DEF GaplessLive
    <3>2. PICK id : id = mlog[i]
      OBVIOUS
    <3>3. i \in 1..Len(mlog) /\ id \in Saved
      <4>1. i \in 1..Len(mlog)
        BY <1>0, SentToIs
      <4> QED BY <3>2, <4>1 DEF Saved
    <3>4. Written(c, id)'
      <4>1. CASE BlockNO(id) < loading[c]
        BY <1>1, <2>0, <2>2, <3>3, <4>1 DEF Flow, GaplessLoad
      <4>2. CASE ~ (BlockNO(id) < loading[c])
        <5>1. id \in atRisk'
          BY <1>2, <3>2, <3>3, <4>2
        <5> QED BY <5>1 DEF Written, OnWire, AtSlave, Kept
      <4> QED BY <4>1, <4>2
    <3>5. OnItsWay(c, id)'
      BY <3>4 DEF OnItsWay, InChan, Taken
    <3> QED BY <1>1, <3>2, <3>5 DEF OnItsWay, InChan, Taken, Written, OnWire, AtSlave, Has, Kept
  <2> QED BY <1>1, <1>3, <1>4, <2>1, <2>3, <2>4 DEF HoleInv, Gapless, Flow
<1>6. CASE Beyond
  <2>1. BeyondInbox' /\ BeyondFlow(c)'
    BY <1>1, <1>6 DEF Beyond, BeyondInbox, BeyondFlow, TooFar
  <2> QED BY <1>1, <1>3, <1>4, <2>1 DEF HoleInv, Beyond
<1> QED BY <1>5, <1>6 DEF HoleInv

\* The background load: what a block holds before the cursor is before the end
\* of the slave's file, the rest is sent.
LEMMA HolesLoad ==
  ASSUME ~LiveRollover, IInv, HoleInv, NEW c \in Conns, c = conn, LoadBlock(c)
  PROVE  HoleInv'
<1> PICK n : n = loading[c]
  OBVIOUS
<1> DEFINE o == IF n = BlockNO(cursor[c]) THEN Offset(cursor[c]) ELSE HEADER
           found == {i \in InBlock(n) : Offset(mlog[i]) >= o}
<1>0. /\ LogOK /\ ClientsOK /\ BatchesOK /\ n \in Nat /\ cursor[c] \in Nat /\ send \in Nat
      /\ o \in Nat /\ wire \in [Conns -> Seq(Batches)]
      /\ BlockNO(send) \in Nat
  <2>1. /\ LogOK /\ ClientsOK /\ BatchesOK /\ n \in Nat /\ cursor[c] \in Nat /\ send \in Nat
        /\ wire \in [Conns -> Seq(Batches)]
    <3>1. /\ LogOK /\ ClientsOK /\ BatchesOK /\ n \in 0..MaxBlock + 1
          /\ cursor[c] \in MsgIds \cup {0} /\ send \in MsgIds
      BY DEF IInv, ClientsOK, SlaveOK
    <3>2. cursor[c] \in Nat /\ send \in Nat
      BY <3>1, IdsAreNat
    <3>3. wire \in [Conns -> Seq(Batches)] /\ n \in Nat
      BY <3>1 DEF BatchesOK
    <3> QED BY <3>1, <3>2, <3>3
  <2>2. Offset(cursor[c]) \in 0..BlockSize - 1 /\ BlockNO(send) \in Nat
    BY <2>1, IdParts
  <2>3. o \in Nat
    BY <2>2
  <2> QED BY <2>1, <2>2, <2>3
<1>1. /\ phase[c] = "load" /\ loading'[c] = n + 1 /\ taken[c] = NoBatch /\ cewt[c] = << >>
      /\ UNCHANGED <<mlog, pending, ewt, cache, busy, sendTo, phase, cursor, taken, cewt, conn,
                     slog, send, inbox, atRisk, block_NO>>
  BY <1>0 DEF LoadBlock, runVars, slaveVars, ClientsOK
<1>2. \/ found = {} /\ wire' = wire
      \/ \E i \in found :
           /\ \A j \in found : i <= j
           /\ wire' = [wire EXCEPT ![c] =
                         Append(wire[c], Batch(mlog[i], SubSeq(mlog, i, i + Cardinality(found) - 1)))]
  <2>1. IF found = {} THEN wire' = wire
        ELSE \E i \in found :
               /\ \A j \in found : i <= j
               /\ Transmit(c, Batch(mlog[i], SubSeq(mlog, i, i + Cardinality(found) - 1)))
    BY Zenon DEF LoadBlock
  <2> HIDE DEF found
  <2> QED BY <2>1 DEF Transmit
<1>3. ASSUME NEW k \in 1..Len(mlog), BlockNO(mlog[k]) = n, k \notin found PROVE Kept(mlog[k])
  <2>1. mlog[k] \in Saved /\ mlog[k] \in Nat /\ Offset(mlog[k]) >= 1
    BY <1>0, SavedAre DEF Saved
  <2>2. Offset(mlog[k]) < o /\ Offset(mlog[k]) \in Nat
    <3>1. Offset(mlog[k]) \in 0..BlockSize - 1
      BY <2>1, IdParts
    <3> QED BY <1>0, <1>3, <3>1 DEF InBlock
  <2>3. n = BlockNO(cursor[c]) /\ o = Offset(cursor[c])
    BY <1>0, <2>1, <2>2
  <2>4. mlog[k] < cursor[c]
    <3>1. cursor[c] - mlog[k] = Offset(cursor[c]) - Offset(mlog[k])
      BY <1>0, <1>3, <2>1, <2>3, SameBlock
    <3>2. Offset(cursor[c]) \in Nat /\ Offset(mlog[k]) \in Nat
      <4>1. Offset(cursor[c]) \in 0..BlockSize - 1
        BY <1>0, IdParts
      <4> QED BY <2>2, <4>1
    <3> HIDE DEF o
    <3> QED BY <1>0, <2>1, <2>2, <2>3, <3>1, <3>2
  <2>5. mlog[k] < send
    BY <1>0, <2>1, <2>4 DEF HoleInv
  <2> QED BY <2>1, <2>5 DEF HoleInv, HolesExplained, Kept
<1>4. /\ Saved' = Saved /\ \A id : Kept(id) => Kept(id)'
      /\ HolesExplained' /\ EndOK' /\ \A d \in Conns : cursor'[d] <= send'
  BY <1>1, SameFiles
<1>5. ASSUME NEW x, Stretch(x) PROVE BlockNO(x.first) \in Nat
  BY <1>0, <1>5, FirstIsSaved, IdParts
<1>6. Ascending(c) /\ (BlockNO(inbox.first) < n \/ inbox = NoBatch)
  BY <1>1 DEF HoleInv, Ascending
<1>7. CASE found = {} /\ wire' = wire
  <2>1. Ascending(c)'
    <3>1. \A j \in 1..Len(wire[c]) : BlockNO(wire[c][j].first) < n + 1
      <4> SUFFICES ASSUME NEW j \in 1..Len(wire[c]) PROVE BlockNO(wire[c][j].first) < n + 1
        OBVIOUS
      <4>1. BlockNO(wire[c][j].first) < n /\ BlockNO(wire[c][j].first) \in Nat
        BY <1>0, <1>1, <1>5 DEF HoleInv, Ascending, BatchesOK
      <4> QED BY <1>0, <4>1
    <3>2. inbox # NoBatch => BlockNO(inbox.first) < n + 1
      BY <1>0, <1>5, <1>6 DEF BatchesOK
    <3> QED BY <1>1, <1>7, <3>1, <3>2 DEF HoleInv, Ascending
  <2>2. CASE Gapless
    <3>0. Flow(c) /\ GaplessInbox
      BY <2>2 DEF Gapless
    <3>1. ASSUME NEW id, NEW m
          PROVE  (OnWire(c, id, m) => OnWire(c, id, m)') /\ (Written(c, id) => Written(c, id)')
      BY <1>1, <1>4, <1>7 DEF Written, OnWire, AtSlave, Has
    <3>2. GaplessWire(c)' /\ GaplessTaken(c)' /\ GaplessChan(c)' /\ GaplessLive(c)' /\ GaplessInbox'
      BY <1>1, <1>4, <1>7, <3>0, <3>1
         DEF Flow, GaplessWire, GaplessTaken, GaplessChan, GaplessLive, GaplessInbox
    <3>3. GaplessLoad(c)'
      <4> SUFFICES ASSUME NEW k \in 1..Len(mlog), BlockNO(mlog[k]) < n + 1
                   PROVE  \E id : id = mlog[k] /\ Written(c, id)'
        BY <1>1, <1>4 DEF GaplessLoad, Saved
      <4>1. PICK id : id = mlog[k]
        OBVIOUS
      <4>2. id \in Saved /\ BlockNO(id) \in Nat
        BY <1>0, <4>1, SavedAre DEF Saved
      <4>3. CASE BlockNO(id) < n
        BY <1>1, <3>0, <3>1, <4>1, <4>2, <4>3 DEF Flow, GaplessLoad
      <4>4. CASE BlockNO(id) = n
        <5>1. Kept(id)'
          BY <1>3, <1>4, <1>7, <4>1, <4>4
        <5> QED BY <4>1, <5>1 DEF Written, OnWire, AtSlave
      <4> QED BY <1>0, <4>1, <4>2, <4>3, <4>4
    <3> QED BY <1>1, <1>4, <2>1, <3>2, <3>3 DEF HoleInv, Gapless, Flow
  <2>3. CASE Beyond
    <3>1. BeyondInbox' /\ BeyondFlow(c)'
      BY <1>0, <1>1, <1>7, <2>3 DEF Beyond, BeyondInbox, BeyondFlow, TooFar
    <3> QED BY <1>1, <1>4, <2>1, <3>1 DEF HoleInv, Beyond
  <2> QED BY <2>2, <2>3 DEF HoleInv
<1>8. ASSUME NEW i \in found, \A j \in found : i <= j,
             NEW b, b = Batch(mlog[i], SubSeq(mlog, i, i + Cardinality(found) - 1)),
             wire' = [wire EXCEPT ![c] = Append(wire[c], b)]
      PROVE  HoleInv'
  <2>1. /\ Stretch(b) /\ b.first = mlog[i] /\ BlockNO(b.first) = n /\ i \in 1..Len(mlog)
        /\ \A j \in found : Has(b, mlog[j])
    <3> HIDE DEF o
    <3>1. LogOK /\ n \in Nat /\ o \in Nat
      BY <1>0
    <3> DEFINE bb == Batch(mlog[i], SubSeq(mlog, i, i + Cardinality(found) - 1))
    <3>2. /\ Stretch(bb) /\ bb.first = mlog[i] /\ BlockNO(bb.first) = n /\ i \in 1..Len(mlog)
          /\ \A j \in found : Has(bb, mlog[j])
      <4>1. Stretch(bb)
        BY <1>8, <3>1, LoadIsStretch
      <4>2. bb.first = mlog[i]
        BY <1>8, <3>1, LoadIsStretch
      <4>3. BlockNO(bb.first) = n /\ i \in 1..Len(mlog)
        BY <1>8, <3>1, LoadIsStretch
      <4>4. \A j \in found : Has(bb, mlog[j])
        BY <1>8, <3>1, LoadIsStretch
      <4> QED BY <4>1, <4>2, <4>3, <4>4
    <3>3. b = bb
      BY <1>8
    <3> HIDE DEF found, bb
    <3> QED BY <3>2, <3>3
  <2> HIDE DEF found, o
  <2> PICK l \in Nat : l = Len(wire[c])
    BY <1>0
  <2>2. /\ Len(wire'[c]) = l + 1 /\ wire'[c][l + 1] = b
        /\ \A k \in 1..l : wire'[c][k] = wire[c][k]
        /\ \A k : k \in 1..l + 1 <=> k \in 1..l \/ k = l + 1
    <3>1. Len(wire'[c]) = l + 1 /\ wire'[c][l + 1] = b /\ \A k \in 1..l : wire'[c][k] = wire[c][k]
      BY <1>0, <1>8
    <3> QED BY <3>1
  <2>3. ASSUME NEW j \in 1..l PROVE BlockNO(wire[c][j].first) < n /\ BlockNO(wire[c][j].first) \in Nat
    BY <1>0, <1>1, <1>5 DEF HoleInv, Ascending, BatchesOK
  <2>4. inbox # NoBatch => BlockNO(inbox.first) < n /\ BlockNO(inbox.first) \in Nat
    BY <1>0, <1>5, <1>6 DEF BatchesOK
  <2>5. Ascending(c)'
    <3>1. ASSUME NEW j \in 1..l + 1
          PROVE  /\ inbox # NoBatch => BlockNO(inbox.first) <= BlockNO(wire'[c][j].first)
                 /\ \A k \in j..l + 1 : BlockNO(wire'[c][j].first) <= BlockNO(wire'[c][k].first)
                 /\ BlockNO(wire'[c][j].first) < n + 1
      <4>1. CASE j = l + 1
        <5>1. \A k \in j..l + 1 : k = l + 1
          BY <4>1
        <5> QED BY <1>0, <2>1, <2>2, <2>4, <4>1, <5>1
      <4>2. CASE j \in 1..l
        <5>1. \A k \in j..l + 1 : k \in j..l \/ k = l + 1
          OBVIOUS
        <5>2. \A k \in j..l : k \in 1..l
          BY <4>2
        <5>3. /\ inbox # NoBatch => BlockNO(inbox.first) <= BlockNO(wire[c][j].first)
              /\ \A k \in j..l : BlockNO(wire[c][j].first) <= BlockNO(wire[c][k].first)
          BY <4>2 DEF HoleInv, Ascending
        <5>4. BlockNO(wire[c][j].first) <= n /\ BlockNO(wire[c][j].first) < n + 1
          BY <1>0, <2>3, <4>2
        <5> QED BY <2>1, <2>2, <4>2, <5>1, <5>2, <5>3, <5>4
      <4> QED BY <2>2, <4>1, <4>2
    <3>2. inbox # NoBatch => BlockNO(inbox.first) < n + 1
      BY <1>0, <2>4
    <3> QED BY <1>1, <2>2, <3>1, <3>2 DEF Ascending
  <2>6. CASE Gapless
    <3>0. Flow(c) /\ GaplessInbox
      BY <2>6 DEF Gapless
    <3>1. GaplessInbox'
      BY <1>1, <1>4, <3>0 DEF GaplessInbox
    <3>2. ASSUME NEW id, NEW m \in 0..l, OnWire(c, id, m) PROVE OnWire(c, id, m)'
      <4>1. CASE AtSlave(id)
        BY <1>1, <1>4, <4>1 DEF OnWire, AtSlave, Has
      <4>2. CASE \E k \in 1..m : Has(wire[c][k], id)
        <5>1. PICK k \in 1..m : Has(wire[c][k], id)
          BY <4>2
        <5>2. k \in 1..l
          OBVIOUS
        <5>3. Has(wire[c][k], id)'
          BY <2>2, <5>1, <5>2 DEF Has
        <5> QED BY <5>3 DEF OnWire
      <4> QED BY <3>2, <4>1, <4>2 DEF OnWire
    <3>3. ASSUME NEW id, Written(c, id) PROVE OnWire(c, id, l)' /\ Written(c, id)'
      <4>1. OnWire(c, id, l)'
        <5>1. l \in 0..l
          OBVIOUS
        <5> QED BY <3>2, <3>3, <5>1 DEF Written
      <4>2. Written(c, id)'
        BY <2>2, <4>1 DEF Written, OnWire
      <4> QED BY <4>1, <4>2
    <3>4. ASSUME NEW k \in 1..Len(mlog), BlockNO(mlog[k]) < n + 1, k \notin found, NEW id, id = mlog[k]
          PROVE  OnWire(c, id, l)' /\ Written(c, id)'
      <4>1. id \in Saved /\ BlockNO(id) \in Nat
        BY <1>0, <3>4, SavedAre DEF Saved
      <4>2. CASE BlockNO(id) < n
        BY <1>1, <3>0, <3>3, <4>1, <4>2 DEF Flow, GaplessLoad
      <4>3. CASE BlockNO(id) = n
        <5>1. Kept(id)'
          BY <1>3, <1>4, <3>4, <4>3
        <5> QED BY <5>1 DEF Written, OnWire, AtSlave
      <4> QED BY <1>0, <3>4, <4>1, <4>2, <4>3
    <3>5. GaplessWire(c)'
      <4> SUFFICES ASSUME NEW j \in 1..l + 1, NEW id \in Saved, id < wire'[c][j].first
                   PROVE  OnWire(c, id, j - 1)'
        BY <1>4, <2>2 DEF GaplessWire
      <4>1. CASE j = l + 1
        <5>1. PICK k \in 1..Len(mlog) : id = mlog[k]
          BY DEF Saved
        <5>2. id < mlog[i] /\ mlog[i] \in Nat /\ id \in Nat /\ BlockNO(id) \in Nat
          <6>1. id < mlog[i]
            BY <2>1, <2>2, <4>1
          <6>2. mlog[i] \in Saved /\ id \in Saved
            BY <2>1 DEF Saved
          <6>3. mlog[i] \in Nat /\ id \in Nat
            BY <1>0, <6>2, SavedAre
          <6>4. BlockNO(id) \in Nat
            BY <6>3, IdParts
          <6> QED BY <6>1, <6>3, <6>4
        <5>3. BlockNO(id) < n + 1
          <6>1. ~ (BlockNO(mlog[i]) < BlockNO(id))
            <7>1. BlockNO(mlog[i]) < BlockNO(id) => mlog[i] < id
              BY <5>2, BlockOrder
            <7> QED BY <5>2, <7>1
          <6>2. BlockNO(mlog[i]) = n
            BY <2>1
          <6> QED BY <1>0, <5>2, <6>1, <6>2
        <5>4. k \notin found
          <6>1. SUFFICES ASSUME i <= k PROVE FALSE
            BY <1>8
          <6>2. i < k \/ i = k
            <7>1. i \in Nat /\ k \in Nat
              BY <2>1
            <7> QED BY <6>1, <7>1
          <6> QED BY <1>0, <2>1, <5>1, <5>2, <6>2, LogOrder
        <5>5. OnWire(c, id, l)'
          BY <3>4, <5>1, <5>3, <5>4
        <5>6. j - 1 = l
          BY <4>1
        <5> QED BY <5>5, <5>6
      <4>2. CASE j \in 1..l
        <5>1. OnWire(c, id, j - 1)
          <6>1. id < wire[c][j].first
            BY <2>2, <4>2
          <6>2. GaplessWire(c)
            BY <3>0 DEF Flow
          <6> QED BY <4>2, <6>1, <6>2 DEF GaplessWire
        <5>2. j - 1 \in 0..l
          BY <4>2
        <5> QED BY <3>2, <5>1, <5>2
      <4> QED BY <2>2, <4>1, <4>2
    <3>6. GaplessLoad(c)'
      <4> SUFFICES ASSUME NEW k \in 1..Len(mlog), BlockNO(mlog[k]) < n + 1
                   PROVE  \E id : id = mlog[k] /\ Written(c, id)'
        BY <1>1, <1>4 DEF GaplessLoad, Saved
      <4>1. PICK id : id = mlog[k]
        OBVIOUS
      <4>2. CASE k \in found
        <5>1. Has(wire[c][l + 1], id)' /\ l + 1 \in 1..Len(wire'[c])
          BY <2>1, <2>2, <4>1, <4>2 DEF Has
        <5> QED BY <4>1, <5>1 DEF Written, OnWire
      <4>3. CASE k \notin found
        BY <3>4, <4>1, <4>3
      <4> QED BY <4>2, <4>3
    <3>7. GaplessTaken(c)' /\ GaplessChan(c)' /\ GaplessLive(c)'
      BY <1>1 DEF GaplessTaken, GaplessChan, GaplessLive
    <3> QED BY <1>1, <1>4, <2>5, <3>1, <3>5, <3>6, <3>7 DEF HoleInv, Gapless, Flow
  <2>7. CASE Beyond
    <3>1. TooFar(n) /\ TooFar(n + 1)
      BY <1>0, <1>1, <2>7 DEF Beyond, BeyondFlow, TooFar
    <3>2. BeyondInbox' /\ BeyondFlow(c)'
      BY <1>1, <2>1, <2>2, <2>7, <3>1 DEF Beyond, BeyondInbox, BeyondFlow, TooFar
    <3> QED BY <1>1, <1>4, <2>5, <3>2 DEF HoleInv, Beyond
  <2> QED BY <2>6, <2>7 DEF HoleInv
<1> QED BY <1>2, <1>7, <1>8

\* SaveSyncMessage: what is before the message is kept already, or the message
\* and all that follows is beyond the next block.
LEMMA HolesStore ==
  ASSUME ~LiveRollover, IInv, HoleInv, SaveNextOfBatch
  PROVE  HoleInv'
<1> PICK f : f = inbox.first
  OBVIOUS
<1>0. /\ LogOK /\ QueueOK /\ SlaveOK /\ BatchesOK /\ ClientsOK
  BY DEF IInv
<1>1. UNCHANGED <<mlog, block_NO, pending, ewt, cache, sendTo, busy, phase, cursor, loading, cewt,
                  taken, wire, conn, atRisk>>
  BY DEF SaveNextOfBatch, runVars, connVars
<1>2. /\ Stretch(inbox) /\ inbox # NoBatch /\ inbox.msgs[1] = f /\ f \in Saved /\ f \in Nat
      /\ BlockNO(f) \in 0..block_NO /\ send \in Nat /\ block_NO \in Nat /\ BlockNO(send) \in Nat
  <2>1. Stretch(inbox) /\ inbox # NoBatch /\ inbox.msgs[1] = f
    BY <1>0, SaveOutcome DEF BatchesOK, SaveNextOfBatch
  <2>2. f \in Saved /\ f \in Nat /\ BlockNO(f) \in 0..block_NO
    BY <1>0, <2>1, FirstIsSaved
  <2>3. send \in Nat /\ block_NO \in Nat
    BY <1>0, IdsAreNat DEF SlaveOK, LogOK
  <2> QED BY <2>1, <2>2, <2>3, IdParts
<1>3. \/ f < send /\ UNCHANGED <<slog, send>>
      \/ TooFar(BlockNO(f)) /\ UNCHANGED <<slog, send>>
      \/ /\ f >= send /\ BlockNO(f) \in {BlockNO(send), BlockNO(send) + 1}
         /\ slog' = slog \cup {[at |-> f, msg |-> f]} /\ send' = f + 1
  BY <1>0, <1>2, SaveOutcome DEF BatchesOK
<1>4. /\ inbox' # NoBatch => inbox'.first = f + 1 /\ BlockNO(inbox'.first) = BlockNO(f)
      /\ \A id \in Nat : Has(inbox, id) => id = f \/ Has(inbox', id)
  <2>1. CASE Len(inbox.msgs) = 1
    BY <1>2, <2>1 DEF SaveNextOfBatch, Has
  <2>2. CASE Len(inbox.msgs) # 1
    BY <1>2, <2>2, RestIsStretch DEF SaveNextOfBatch
  <2> QED BY <2>1, <2>2
<1>5. Saved' = Saved
  BY <1>1 DEF Saved
<1>6. ASSUME NEW c \in Conns, c = conn' PROVE Ascending(c)'
  BY <1>1, <1>2, <1>4, <1>6, AscendingFrame DEF HoleInv
<1>7. CASE TooFar(BlockNO(f))
  <2>1. UNCHANGED <<slog, send>>
    <3>1. ~ (f < send)
      <4>1. BlockNO(send) < BlockNO(f)
        BY <1>2, <1>7 DEF TooFar
      <4>2. send < f
        BY <1>2, <4>1, BlockOrder
      <4> QED BY <1>2, <4>2
    <3>2. ~ (BlockNO(f) \in {BlockNO(send), BlockNO(send) + 1})
      BY <1>2, <1>7 DEF TooFar
    <3> QED BY <1>3, <3>1, <3>2
  <2>2. HolesExplained' /\ EndOK' /\ \A d \in Conns : cursor'[d] <= send'
    BY <1>1, <2>1, SameFiles
  <2>3. BeyondInbox'
    BY <1>4, <1>7, <2>1 DEF BeyondInbox, TooFar
  <2>4. ASSUME NEW m \in Int, BlockNO(f) <= m PROVE TooFar(m)
    BY <1>2, <1>7, <2>4 DEF TooFar
  <2>5. ASSUME NEW c \in Conns, c = conn PROVE BeyondFlow(c)'
    <3>1. Ascending(c)
      BY <2>5 DEF HoleInv
    <3>2. ASSUME NEW x, Stretch(x) PROVE BlockNO(x.first) \in Int
      BY <1>0, <3>2, FirstIsSaved DEF LogOK
    <3>3. /\ \A j \in 1..Len(wire[c]) : TooFar(BlockNO(wire[c][j].first))
          /\ taken[c] # NoBatch => TooFar(BlockNO(taken[c].first))
          /\ \A j \in 1..Len(cewt[c]) : TooFar(BlockNO(cewt[c][j].first))
      BY <1>0, <1>2, <2>4, <3>1, <3>2 DEF Ascending, BatchesOK
    <3>4. phase[c] = "load" => TooFar(loading[c])
      <4>1. loading[c] \in Int
        BY <1>0 DEF ClientsOK
      <4>2. phase[c] = "load" => BlockNO(f) < loading[c]
        BY <1>2, <3>1 DEF Ascending
      <4> QED BY <1>2, <2>4, <4>1, <4>2
    <3>5. TooFar(block_NO)
      BY <1>2, <2>4
    <3> QED BY <1>1, <2>1, <3>3, <3>4, <3>5 DEF BeyondFlow, TooFar
  <2> QED BY <1>1, <1>6, <2>2, <2>3, <2>5 DEF HoleInv, Beyond
<1>8. CASE ~ TooFar(BlockNO(f))
  <2>1. Gapless
    BY <1>2, <1>8 DEF HoleInv, Beyond, BeyondInbox
  <2>2. \A id : Kept(id) => Kept(id)'
    BY <1>1, <1>3 DEF Kept, Stored
  <2>3. \A id \in Saved : id < f => Kept(id)
    BY <1>2, <2>1 DEF Gapless, GaplessInbox
  <2>4. Kept(f)'
    <3>1. CASE f < send
      BY <1>2, <2>2, <3>1 DEF HoleInv, HolesExplained, Kept
    <3>2. CASE slog' = slog \cup {[at |-> f, msg |-> f]}
      <4> DEFINE r == [at |-> f, msg |-> f]
      <4>1. r \in slog' /\ r.msg = f
        BY <3>2
      <4> HIDE DEF r
      <4>2. f \in Stored'
        BY <4>1 DEF Stored
      <4> QED BY <4>2 DEF Kept
    <3> QED BY <1>3, <1>8, <3>1, <3>2
  <2>5. HolesExplained' /\ EndOK' /\ \A d \in Conns : cursor'[d] <= send'
    <3>1. CASE UNCHANGED <<slog, send>>
      BY <1>1, <3>1, SameFiles
    <3>2. CASE send' = f + 1 /\ f >= send
      <4>1. ASSUME NEW id \in Saved, id < send' PROVE Kept(id)'
        <5>1. id \in Nat
          BY <1>0, SavedAre
        <5>2. id < f \/ id = f
          BY <1>2, <3>2, <4>1, <5>1
        <5> QED BY <2>2, <2>3, <2>4, <5>2
      <4>2. send' - 1 = f
        BY <1>2, <3>2
      <4>3. ASSUME NEW d \in Conns PROVE cursor'[d] <= send'
        <5>1. cursor[d] \in Nat
          <6>1. cursor[d] \in MsgIds \cup {0}
            BY <1>0 DEF ClientsOK
          <6>2. cursor[d] \in MsgIds => cursor[d] \in Nat
            BY IdsAreNat
          <6> QED BY <6>1, <6>2
        <5>2. cursor[d] <= send
          BY DEF HoleInv
        <5> QED BY <1>1, <1>2, <3>2, <5>1, <5>2
      <4> QED BY <1>2, <1>5, <4>1, <4>2, <4>3 DEF HolesExplained, EndOK, Kept
    <3> QED BY <1>3, <1>8, <3>1, <3>2
  <2>6. GaplessInbox'
    <3> SUFFICES ASSUME inbox' # NoBatch, NEW id \in Saved, id < f + 1 PROVE Kept(id)'
      BY <1>4, <1>5 DEF GaplessInbox
    <3>1. id \in Nat
      BY <1>0, SavedAre
    <3>2. id < f \/ id = f
      BY <1>2, <3>1
    <3> QED BY <2>2, <2>3, <2>4, <3>2
  <2>7. \A id \in Saved : AtSlave(id) => AtSlave(id)'
    <3> SUFFICES ASSUME NEW id \in Saved, AtSlave(id) PROVE AtSlave(id)'
      OBVIOUS
    <3>1. CASE Kept(id)
      BY <2>2, <3>1 DEF AtSlave
    <3>2. CASE Has(inbox, id)
      <4>1. id \in Nat
        BY <1>0, SavedAre
      <4>2. CASE id = f
        BY <2>4, <4>2 DEF AtSlave
      <4>3. CASE Has(inbox', id)
        BY <4>3 DEF AtSlave, Has
      <4> QED BY <1>4, <3>2, <4>1, <4>2, <4>3
    <3> QED BY <3>1, <3>2 DEF AtSlave
  <2>8. ASSUME NEW c \in Conns, c = conn PROVE Flow(c)'
    <3>1. Flow(c)
      BY <2>1, <2>8 DEF Gapless
    <3>2. SentTo(c)' = SentTo(c)
      BY <1>1 DEF SentTo, HandedOver
    <3> QED BY <1>0, <1>1, <2>7, <3>1, <3>2, FlowFrame
  <2> QED BY <1>1, <1>6, <2>5, <2>6, <2>8 DEF HoleInv, Gapless
<1> QED BY <1>7, <1>8

\* Every step keeps the holes explained, and what the connection carries.
LEMMA HolesStep ==
  ASSUME ~LiveRollover, IInv, HoleInv, [Next]_vars
  PROVE  HoleInv'
<1>1. CASE UNCHANGED vars
  <2>1. /\ UNCHANGED <<conn, mlog, block_NO, slog, send, inbox, cursor, atRisk, wire, taken, cewt,
                       phase, loading, busy, sendTo, cache, ewt, pending>>
    BY <1>1 DEF vars
  <2>2. \A c \in Conns : SentTo(c)' = SentTo(c)
    BY <2>1 DEF SentTo, HandedOver
  <2> QED BY <2>1, <2>2, QuietStep
<1>2. CASE SaveMessage
  BY <1>2, HolesSave
<1>3. CASE MasterNext
  BY <1>3, QuietActions DEF MasterNext
<1>4. ASSUME NEW c \in Conns, ClientNext(c) PROVE HoleInv'
  <2>1. CASE c # conn
    BY <1>4, <2>1, QuietActions DEF ClientNext
  <2>2. CASE c = conn
    <3>1. ~ RemoveClient(c)
      BY <2>2 DEF RemoveClient
    <3> QED BY <1>4, <2>2, <3>1, HolesSend, HolesLoad, HolesAdd, HolesTake, HolesForward
            DEF ClientNext
  <2> QED BY <2>1, <2>2
<1>5. ASSUME NEW c \in Conns, Connect(c) PROVE HoleInv'
  BY <1>5, HolesConnect
<1>6. CASE SlaveNext
  <2>1. ReceiveBatch => conn \in Conns
    BY DEF ReceiveBatch, IInv, ClientsOK
  <2> QED BY <1>6, <2>1, HolesReceive, HolesStore DEF SlaveNext
<1>7. CASE Disconnect \/ SlaveCrash \/ MasterCrash
  BY <1>7, HolesFail
<1> QED BY <1>1, <1>2, <1>3, <1>4, <1>5, <1>6, <1>7 DEF Next

\* At the start the slave has nothing and lacks nothing.
LEMMA HolesInit == Init => HoleInv
<1> SUFFICES ASSUME Init PROVE HoleInv
  OBVIOUS
<1> USE DEF Init
<1>1. Saved = {} /\ inbox = NoBatch /\ send = HEADER
  BY DEF Saved
<1>2. HolesExplained /\ EndOK /\ GaplessInbox
  BY <1>1 DEF HolesExplained, EndOK, GaplessInbox
<1>3. \A c \in Conns : cursor[c] <= send /\ c # conn
  BY ConnNumbers
<1> QED BY <1>2, <1>3 DEF HoleInv, Gapless

\* Between the messages that the slave has, one is missing only if it was passed
\* over while a connection was set up: saved between the background load and
\* AddClient, or left in a block that is shorter than the cursor.  Whatever else
\* happens (a connection that breaks, a slave or a master that is killed, a
\* batch that comes twice or is skipped because it is beyond the next block)
\* leaves no hole before the end of the slave's file.
THEOREM HolesAlwaysExplained ==
  ASSUME ~LiveRollover
  PROVE  Spec => []HolesExplained
<1>1. Init => IInv /\ HoleInv
  BY IInvInit, HolesInit
<1>2. IInv /\ HoleInv /\ [Next]_vars => (IInv /\ HoleInv)'
  BY IInvStep, HolesStep
<1>3. IInv /\ HoleInv => HolesExplained
  BY DEF HoleInv
<1> QED BY <1>1, <1>2, <1>3, PTL DEF Spec
=============================================================================
