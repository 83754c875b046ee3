---------------------------- MODULE HistoryLoad ----------------------------
(***************************************************************************)
(* The queries of the storage server, over the log and the indexes of      *)
(* MessageStore: what LoadHistoryMessagesV3, LoadLatestMessages and        *)
(* LoadGroupHistoryMessages return when they follow the back links of the  *)
(* queue entries from the newest one, against what they should return.     *)
(* A query takes the mutex once per record; it only reads entries that are *)
(* never changed, so it is an operator over one state.                     *)
(***************************************************************************)
EXTENDS MessageStore, SequencesExt

CONSTANTS
  Limits,      \* values of the configuration's limit
  HardLimits   \* values of the configuration's hard_limit, 0 is none

LimitsAssumption == Limits \subseteq Nat /\ HardLimits \subseteq Nat

-----------------------------------------------------------------------------
\* Following the links.

\* The positions reached from start over one of the three links, newest first,
\* while the message is newer than sync_msgid.  Loading id 0 finds the block
\* header and ends it.
Follow(start, link, sync_msgid) ==
  LET from[i \in 0..Len(log)] ==
        IF i = 0 \/ MsgidOf(i) <= sync_msgid THEN << >>
        ELSE <<i>> \o from[log[i][link]]
  IN from[start]

\* The loops break after n results; n = 0 is no limit.
FirstOf(s, n) == IF n > 0 /\ Len(s) > n THEN SubSeq(s, 1, n) ELSE s

Msgids(s) == [i \in DOMAIN s |-> log[s[i]].msgid]

\* Mutant of LoadHistoryMessagesV3: loading starts at the newest batch mark,
\* not at the oldest one after sync_msgid.
LoadFromNewestMark(u, sync_msgid, limit, hard_limit) ==
  LET start == IF limit < BatchSize THEN peer[u].last_id
               ELSE Larger(peer[u].last_batch_id, 0)
  IN [messages   |-> Msgids(FirstOf(Follow(start, "prev", sync_msgid), limit)),
      last_msgid |-> MsgidOf(start),
      hasMore    |-> start > 0 /\ start < peer[u].last_id,
      is_peer    |-> FALSE]

\* Mutant of LoadHistoryMessagesV3: above the hard limit, too, the links to
\* all messages are followed.
LoadGroupsAboveHardLimit(u, sync_msgid, limit, hard_limit) ==
  LET n == hard_limit \div BatchSize
      batch_ids == FirstOf(Follow(peer[u].last_batch_id, "prevBatch", sync_msgid), n)
      start == IF n > 0 /\ Len(batch_ids) >= n
                 THEN batch_ids[Len(batch_ids) - limit \div BatchSize + 1]
                 ELSE peer[u].last_id
  IN [messages   |-> Msgids(FirstOf(Follow(start, "prev", sync_msgid), limit)),
      last_msgid |-> MsgidOf(start),
      hasMore    |-> start > 0 /\ start < peer[u].last_id,
      is_peer    |-> TRUE]

LoadHistoryMessagesV3(u, sync_msgid, limit, hard_limit) ==
  LET hard_batch_count == hard_limit \div BatchSize
      batch_count == IF limit < BatchSize THEN 1 ELSE limit \div BatchSize
      \* the batch marks after sync_msgid, newest first
      batch_ids == FirstOf(Follow(peer[u].last_batch_id, "prevBatch", sync_msgid),
                           hard_batch_count)
      n == Len(batch_ids)
      is_peer == /\ hard_batch_count > 0 /\ n >= hard_batch_count
                 /\ hard_batch_count >= batch_count
      start == IF n >= batch_count THEN batch_ids[n - batch_count + 1]
               ELSE peer[u].last_id
      found == IF is_peer THEN Follow(start, "prevPeer", sync_msgid)
               ELSE Follow(start, "prev", sync_msgid)
  IN [messages   |-> Msgids(FirstOf(found, limit)),
      last_msgid |-> MsgidOf(start),
      hasMore    |-> start > 0 /\ start < peer[u].last_id,
      is_peer    |-> is_peer]

\* The limit is looked at after a message has been taken.
AtLeastOne(limit) == IF limit = 0 THEN 1 ELSE limit

\* Mutant of LoadLatestMessages: the links between direct messages are taken.
LoadLatestDirect(u, limit) ==
  Msgids(FirstOf(Follow(peer[u].last_id, "prevPeer", 0), AtLeastOne(limit)))

LoadLatestMessages(u, limit) ==
  Msgids(FirstOf(Follow(peer[u].last_id, "prev", 0), AtLeastOne(limit)))

\* Mutant of LoadGroupHistoryMessages: ts is looked at on every synchronisation.
LoadGroupSinceJoin(g, msgid, ts, limit) ==
  LET oldest == Larger(msgid, ts - 1)
  IN [messages   |-> Msgids(FirstOf(Follow(group[g].LastId, "prev", oldest),
                                    AtLeastOne(limit))),
      last_msgid |-> MsgidOf(group[g].LastId)]

\* ts is the time the member joined.  Log positions stand for times.  Messages
\* from before that time end the loop, on a first synchronisation only.
LoadGroupHistoryMessages(g, msgid, ts, limit) ==
  LET oldest == IF msgid = 0 THEN Larger(0, ts - 1) ELSE msgid
  IN [messages   |-> Msgids(FirstOf(Follow(group[g].LastId, "prev", oldest),
                                    AtLeastOne(limit))),
      last_msgid |-> MsgidOf(group[g].LastId)]

-----------------------------------------------------------------------------
\* What the queries should return.

\* The messages of a queue that are newer than sync_msgid.
NewFor(entries, sync_msgid) == {m \in {log[i].msgid : i \in entries} : m > sync_msgid}

\* s lists the set, newest first.
Lists(s, set) == ToSet(s) = set /\ \A i \in 1..Len(s) - 1 : s[i] > s[i + 1]

\* The n largest elements.
NewestOf(set, n) == {m \in set : Cardinality({k \in set : k > m}) < n}

SyncKeys == 0..Len(log)

\* r answers a synchronisation: a gap-free run of the oldest new messages, not
\* more than limit, and whether there are more.
AnswersInFull(r, new, limit) ==
  /\ Lists(r.messages, {m \in new : m <= r.last_msgid})
  /\ new # {} => r.last_msgid \in new
  /\ r.hasMore <=> \E m \in new : m > r.last_msgid
  /\ limit > 0 => Len(r.messages) <= limit

\* Without a hard limit, and with a limit that holds at least one batch, one
\* answer to a client with any sync key leaves out none of its messages, and
\* its last_msgid lets the next request continue where it ended.
SyncLeavesNoGap ==
  phase = "up" => \A u \in Users, sync \in SyncKeys, limit \in Limits :
    limit = 0 \/ limit >= BatchSize =>
      AnswersInFull(LoadHistoryMessagesV3(u, sync, limit, 0),
                    NewFor(PeerEntries(u, Len(log)), sync), limit)

\* With a hard limit of at least twice the limit, an answer still makes
\* progress and ends on a new message, and prefers direct messages: of those it
\* passes over, the newest are there, up to limit with the message the answer
\* ends on, which may be a group message.
HardLimitKeepsDirect ==
  phase = "up" => \A u \in Users, sync \in SyncKeys, limit \in Limits, hard \in HardLimits :
    limit >= BatchSize /\ hard >= 2 * limit =>
      LET r == LoadHistoryMessagesV3(u, sync, limit, hard)
          new == NewFor(PeerEntries(u, Len(log)), sync)
          direct == {m \in NewFor(DirectEntries(u, Len(log)), sync) : m <= r.last_msgid}
      IN /\ new # {} => r.last_msgid \in new
         /\ r.hasMore <=> \E m \in new : m > r.last_msgid
         /\ NewestOf(direct, limit - 1) \subseteq ToSet(r.messages)
         /\ r.is_peer \/ AnswersInFull(r, new, limit)

\* LoadLatestMessages returns the newest messages of the queue, newest first.
LatestExact ==
  phase = "up" => \A u \in Users, limit \in Limits :
    Lists(LoadLatestMessages(u, limit),
          NewestOf(NewFor(PeerEntries(u, Len(log)), 0), AtLeastOne(limit)))

\* LoadGroupHistoryMessages returns the newest messages after the sync key; a
\* member without a sync key gets none from before it joined.  (Stated for a
\* store that was not restarted: a restart may shorten a group queue.)
GroupHistoryExact ==
  phase = "up" /\ starts = 1 =>
    \A g \in Groups : LET all == NewFor(GroupEntries(g, Len(log)), 0) IN
      \A msgid \in SyncKeys, ts \in SyncKeys, limit \in Limits :
        LET r == LoadGroupHistoryMessages(g, msgid, ts, limit)
            new == {m \in all : m > msgid}
        IN /\ Lists(r.messages,
                    NewestOf({m \in new : msgid = 0 => m >= ts}, AtLeastOne(limit)))
           /\ new # {} => r.last_msgid \in new /\ \A m \in new : m <= r.last_msgid
=============================================================================
