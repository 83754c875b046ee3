----------------------------- MODULE EventStream -----------------------------
(***************************************************************************)
(* How an access server follows the changes other services make to shared  *)
(* data.  Whoever changes the database records the number of the change in *)
(* redis and adds an event to a stream.  The server reads the stream in    *)
(* batches; an event whose previous number is not the last one seen shows  *)
(* that an event was missed and makes the cache dirty.  GroupManager and   *)
(* RelationshipPool have the same code for this (group_manager.go 243-512, *)
(* relationship_pool.go 318-553); GroupCache and RelationshipCache add     *)
(* what each of them caches, and name the lines of their own copy.         *)
(***************************************************************************)
EXTENDS Naturals, Sequences

CONSTANTS
  Loaders,     \* goroutines that read through the cache
  Manager,     \* the manager's goroutine, when it reads the database itself
  MaxWrites,   \* changes of the database
  MaxLost,     \* events that never reach the stream
  None

StreamAssumption == MaxWrites \in Nat /\ MaxLost \in Nat

Goroutines == Loaders \cup {Manager}

VARIABLES
  db,             \* what the database holds
  writes,         \* changes made so far
  lost,           \* events lost so far
  writing,        \* the change being published, or None
  actions,        \* redis: the number of the last change
  stream,         \* redis: the events
  pc,             \* where the manager's goroutine is
  action_id, last_entry_id, dirty,
  upto,           \* the last event of the batch that was read
  cache,          \* the cached item, or None
  target,         \* the cached item the current event found: "none", "cached", "detached"
  load,           \* [Goroutines -> a load in progress, or None]
  suspect         \* history of the cached item: the load it is from was
                  \* "overtaken" by an event or a clearing, or a query "failed"

dbVars     == <<db, writes, lost, writing, actions, stream>>
readerVars == <<action_id, last_entry_id, upto>>
cacheVars  == <<cache, load, suspect>>
vars == <<dbVars, pc, dirty, readerVars, target, cacheVars>>

-----------------------------------------------------------------------------
\* The services that write the database (outside of this repository): commit,
\* record the number, add the event.  The event may be lost, the number not.

Commit(change, value) ==
  /\ writing = None /\ writes < MaxWrites
  /\ db' = value /\ writes' = writes + 1
  /\ writing' = [step |-> "record", change |-> change]
  /\ UNCHANGED <<lost, actions, stream, pc, dirty, readerVars, target, cacheVars>>

RecordAction ==
  /\ writing # None /\ writing.step = "record"
  /\ actions' = actions + 1
  /\ writing' = [writing EXCEPT !.step = "add"]
  /\ UNCHANGED <<db, writes, lost, stream, pc, dirty, readerVars, target, cacheVars>>

AddEvent ==
  /\ writing # None /\ writing.step = "add"
  /\ \/ stream' = Append(stream, [prev |-> actions - 1, id |-> actions, change |-> writing.change])
        /\ UNCHANGED lost
     \/ lost < MaxLost /\ lost' = lost + 1 /\ UNCHANGED stream
  /\ writing' = None
  /\ UNCHANGED <<db, writes, actions, pc, dirty, readerVars, target, cacheVars>>

Publish == RecordAction \/ AddEvent

-----------------------------------------------------------------------------
\* load(): two reads of redis, begun again until both succeed.

GetActionID ==
  /\ pc = "action" /\ pc' = "entry"
  /\ action_id' = actions
  /\ UNCHANGED <<dbVars, dirty, last_entry_id, upto, target, cacheVars>>

GetLastEntryID ==
  /\ pc = "entry"
  /\ \/ pc' = "read" /\ last_entry_id' = Len(stream) /\ dirty' = FALSE
     \/ pc' = "action" /\ UNCHANGED <<last_entry_id, dirty>>       \* redis fails
  /\ UNCHANGED <<dbVars, action_id, upto, target, cacheVars>>

\* readEvents: whatever is new, or nothing when XREAD times out.  After a
\* failure RunOnce begins again at last_entry_id, which is the same step.
ReadEvents ==
  /\ pc = "read" /\ pc' = "events" /\ upto' = Len(stream)
  /\ UNCHANGED <<dbVars, dirty, action_id, last_entry_id, target, cacheVars>>

Event == stream[last_entry_id + 1]

\* The loads in progress may hold what an event or a clearing makes obsolete.
Overtaken == [l \in Goroutines |-> IF load[l] = None THEN None
                                   ELSE [load[l] EXCEPT !.suspect = @ \cup {"overtaken"}]]

\* Mutant of HandleEvent: the number of the event before is not compared.
HandleEventTrusting(concerns) ==
  /\ pc = "events" /\ last_entry_id < upto
  /\ pc' = "apply"
  /\ target' = IF concerns /\ cache # None THEN "cached" ELSE "none"
  /\ load' = IF concerns THEN Overtaken ELSE load
  /\ UNCHANGED <<dbVars, dirty, readerVars, cache, suspect>>

\* handleEvent up to the lookup of the item (FindGroup, items.Load).
HandleEvent(concerns) ==
  /\ pc = "events" /\ last_entry_id < upto
  /\ pc' = "apply"
  /\ dirty' = (dirty \/ action_id # Event.prev)
  /\ target' = IF concerns /\ cache # None THEN "cached" ELSE "none"
  /\ load' = IF concerns THEN Overtaken ELSE load
  /\ UNCHANGED <<dbVars, readerVars, cache, suspect>>

\* The rest of handleEvent: value is what the cache holds after it.
Apply(value, doubt) ==
  /\ pc = "apply" /\ pc' = "events"
  /\ action_id' = Event.id /\ last_entry_id' = last_entry_id + 1
  /\ cache' = value /\ suspect' = doubt
  /\ target' = "none"
  /\ UNCHANGED <<dbVars, dirty, upto, load>>

BatchDone == pc = "events" /\ last_entry_id = upto

\* The end of a batch.  A dirty cache is left for a later batch when less than
\* 60 seconds have passed since it was last dealt with.
EndOfBatch ==
  /\ BatchDone /\ pc' = "read"
  /\ UNCHANGED <<dbVars, dirty, readerVars, target, cacheVars>>

-----------------------------------------------------------------------------
\* Other goroutines replace or remove the cached item: the one the current
\* event found is no longer in the cache.
Detach == target' = IF target = "cached" THEN "detached" ELSE target

\* Loader l stores what it read.
Put(l, value) ==
  /\ cache' = value /\ suspect' = load[l].suspect
  /\ load' = [load EXCEPT ![l] = None]
  /\ Detach
  /\ UNCHANGED <<dbVars, pc, dirty, readerVars>>

\* Loader l gives up: the database fails.
GiveUp(l) ==
  /\ load[l] # None
  /\ load' = [load EXCEPT ![l] = None]
  /\ UNCHANGED <<dbVars, pc, dirty, readerVars, target, cache, suspect>>

\* Recycle: the item was not used for an hour.
Recycle ==
  /\ cache # None /\ cache' = None /\ suspect' = {}
  /\ Detach
  /\ UNCHANGED <<dbVars, pc, dirty, readerVars, load>>

-----------------------------------------------------------------------------
StreamInit ==
  /\ writes = 0 /\ lost = 0 /\ writing = None /\ actions = 0 /\ stream = << >>
  /\ pc = "action" /\ action_id = 0 /\ last_entry_id = 0 /\ upto = 0
  /\ cache = None /\ target = "none" /\ suspect = {}
  /\ load = [l \in Goroutines |-> None]

\* Nothing that was published is still to be read, and the last event read is
\* that of the last change.
CaughtUp ==
  /\ writing = None /\ pc \in {"read", "events"} /\ last_entry_id = Len(stream)
  /\ action_id = actions /\ ~dirty
=============================================================================
