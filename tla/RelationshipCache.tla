-------------------------- MODULE RelationshipCache --------------------------
(***************************************************************************)
(* The cache of relationships of an access server: relationship_pool.go    *)
(* and relationship.go.  One pair of users, "low" and "high"; the item of  *)
(* the pair is kept from the view of low, whose id is the smaller one.     *)
(* Other pairs only move the stream on.  Connections read through the      *)
(* cache, the pool's goroutine applies the events and reloads the cache    *)
(* when an event was missed.                                               *)
(***************************************************************************)
EXTENDS EventStream

\* The events of the pair, and those of any other.
Changes ==
  [name : {"friend", "blacklist"}, uid : {"low", "high"}, on : BOOLEAN] \cup [name : {"other"}]

RelationshipAssumption ==
  /\ StreamAssumption /\ None \notin [step : {"record", "add"}, change : Changes]
  /\ Manager \notin Loaders

\* The bits of a Relationship, and what they are to the other user (reverse).
Bits == {"my_friend", "your_friend", "in_my_blacklist", "in_your_blacklist"}
OtherSide ==
  [my_friend |-> "your_friend", your_friend |-> "my_friend",
   in_my_blacklist |-> "in_your_blacklist", in_your_blacklist |-> "in_my_blacklist"]

SetBit(rs, bit, on) == IF on THEN rs \cup {bit} ELSE rs \ {bit}

\* Mutant of SetInMyBlacklist: the order of the two ids is not looked at.
SetInMyBlacklistUnordered(c) == "in_my_blacklist"

\* The bit that event c sets: SetMyFriend and SetInMyBlacklist call each other's
\* counterpart for the user with the larger id.
SetMyFriend(c)      == IF c.uid = "high" THEN "your_friend" ELSE "my_friend"
SetInMyBlacklist(c) == IF c.uid = "high" THEN "in_your_blacklist" ELSE "in_my_blacklist"
BitOf(c) == IF c.name = "friend" THEN SetMyFriend(c) ELSE SetInMyBlacklist(c)

-----------------------------------------------------------------------------
\* The services that change friends and blacklists: one row of a table, that of
\* user u, comes or goes.

\* The bit, seen by low, that the row of user u in a table stands for.
RowBit(name, u) ==
  LET mine == IF name = "friend" THEN "my_friend" ELSE "in_my_blacklist"
  IN IF u = "low" THEN mine ELSE OtherSide[mine]

Write ==
  \/ \E u \in {"low", "high"}, name \in {"friend", "blacklist"} :
       LET bit == RowBit(name, u)
           on  == bit \notin db
       IN Commit([name |-> name, uid |-> u, on |-> on], SetBit(db, bit, on))
  \/ Commit([name |-> "other"], db)

-----------------------------------------------------------------------------
\* The pool's goroutine.  load, readEvents and the loop of RunOnce are those of
\* the group manager.

LoadActionID    == GetActionID
LoadLastEntryID == GetLastEntryID
ReadBatch       == ReadEvents
Concerns        == Event.change.name # "other"
FindItem        == HandleEvent(Concerns)
NextBatch       == EndOfBatch
RecycleItem     == Recycle

\* HandleFriend, HandleBlacklist: r.rs of the item that was found.
HandleChange ==
  /\ pc = "apply"
  /\ Apply(IF target = "cached" THEN SetBit(cache, BitOf(Event.change), Event.change.on) ELSE cache,
           suspect)

\* RunOnce and the Range of ReloadRelation: an item used in the last ten
\* minutes is read again, any other will not be in the new map.
BeginReload ==
  /\ BatchDone /\ dirty /\ pc' = "reload"
  /\ \E active \in BOOLEAN :
       load' = [Overtaken EXCEPT ![Manager] =
                  IF active /\ cache # None THEN [next |-> 1, rs |-> {}, suspect |-> {}] ELSE None]
  /\ UNCHANGED <<dbVars, dirty, readerVars, target, cache, suspect>>

\* The queries of GetRelationship, in their order.
Queries == <<"my_friend", "your_friend", "in_my_blacklist", "in_your_blacklist">>
Read(l) == load[l] # None /\ load[l].next > Len(Queries)

\* rp.items = m: what connections stored in the old map meanwhile is dropped.
SwapItems ==
  /\ pc = "reload" /\ (load[Manager] = None \/ Read(Manager))
  /\ pc' = "read" /\ dirty' = FALSE
  /\ IF load[Manager] = None THEN cache' = None /\ suspect' = {}
     ELSE cache' = load[Manager].rs /\ suspect' = load[Manager].suspect
  /\ load' = [load EXCEPT ![Manager] = None]
  /\ UNCHANGED <<dbVars, readerVars, target>>

-----------------------------------------------------------------------------
\* Connections, and GetRelationship, which both they and ReloadRelation call.

BeginLoad(l) ==
  /\ pc \notin {"action", "entry"} /\ load[l] = None /\ cache = None
  /\ load' = [load EXCEPT ![l] = [next |-> 1, rs |-> {}, suspect |-> {}]]
  /\ UNCHANGED <<dbVars, pc, dirty, readerVars, target, cache, suspect>>

\* One query.  A row that cannot be read is taken for a row that is not there,
\* whatever the error ("is_my_friend = err == nil").
QueryRow(l) ==
  /\ load[l] # None /\ ~Read(l)
  /\ LET bit == Queries[load[l].next]
         Result(found, doubt) ==
           load' = [load EXCEPT ![l] = [next |-> @.next + 1, rs |-> @.rs \cup found,
                                        suspect |-> @.suspect \cup doubt]]
     IN \/ Result({bit} \cap db, {})
        \/ bit \in db /\ Result({}, {"failed"})
  /\ UNCHANGED <<dbVars, pc, dirty, readerVars, target, cache, suspect>>

StoreItem(l) == Read(l) /\ Put(l, load[l].rs)

-----------------------------------------------------------------------------
RelationshipInit == StreamInit /\ dirty = FALSE /\ db \in {{}, {"in_your_blacklist"}}

LoadStream == LoadActionID \/ LoadLastEntryID

PoolStep ==
  \/ LoadStream \/ ReadBatch \/ FindItem \/ HandleChange
  \/ NextBatch \/ BeginReload \/ QueryRow(Manager) \/ SwapItems

RelationshipNext ==
  \/ Write \/ Publish \/ PoolStep \/ RecycleItem \/ GiveUp(Manager)
  \/ \E l \in Loaders : BeginLoad(l) \/ QueryRow(l) \/ StoreItem(l) \/ GiveUp(l)

RelationshipSpec == RelationshipInit /\ [][RelationshipNext]_vars

-----------------------------------------------------------------------------
\* Type invariant: items are sets of bits, and only a reload in progress reads
\* the database for the pool.
RelationshipTypeOK ==
  /\ db \subseteq Bits /\ (cache # None => cache \subseteq Bits)
  /\ suspect \subseteq {"overtaken", "failed"}
  /\ target = "cached" => cache # None
  /\ load[Manager] # None => pc = "reload"

\* Once every event is read, a cached relationship is what the database holds,
\* from both users' side, however connections, events, lost events, reloads and
\* recycling interleave, unless an event overtook the load the item comes from
\* or a query failed.
RelationshipExact == CaughtUp /\ cache # None /\ suspect = {} => cache = db

\* A query that fails hides a friend or lets a message pass a blacklist; it
\* makes no friends and blocks nobody.
FailsOpen == CaughtUp /\ cache # None /\ suspect \subseteq {"failed"} => cache \subseteq db
=============================================================================
