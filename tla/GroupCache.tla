------------------------------ MODULE GroupCache ------------------------------
(***************************************************************************)
(* The group cache of an access server: group_manager.go and group.go.     *)
(* One group; events of other groups only move the stream on.  Each        *)
(* delivery queue loads groups in a goroutine of its own (LoadGroup), the  *)
(* manager's goroutine applies the events.  The time a member joined is    *)
(* left out: it is "in" or "mute", and absent from the map when "out".     *)
(***************************************************************************)
EXTENDS EventStream

CONSTANT Uids

\* The events of the group, and those of any other.
Changes ==
  [name : {"create"}, super : BOOLEAN] \cup [name : {"upgrade", "disband", "other"}]
    \cup [name : {"add", "remove"}, uid : Uids]
    \cup [name : {"mute"}, uid : Uids, to : {"in", "mute"}]

Groups == [super : BOOLEAN, members : [Uids -> {"out", "in", "mute"}]]

GroupAssumption ==
  StreamAssumption /\ None \notin [step : {"record", "add"}, change : Changes] \cup Groups

NoMembers == [u \in Uids |-> "out"]
Group(super, members) == [super |-> super, members |-> members]

\* The database holds no group before it is created and none after it is
\* disbanded; ids are not used again.
Row(state, g) == [state |-> state, group |-> g]
Exists        == db.state = "there"
Actual        == IF Exists THEN db.group ELSE None

AddMember(g, u)        == [g EXCEPT !.members[u] = "in"]
RemoveMember(g, u)     == [g EXCEPT !.members[u] = "out"]
SetMemberMute(g, u, m) == IF g.members[u] = "out" THEN g ELSE [g EXCEPT !.members[u] = m]

\* What an event does to the group it finds.
Handled(g, c) ==
  CASE c.name = "upgrade" -> [g EXCEPT !.super = TRUE]
    [] c.name = "add"     -> AddMember(g, c.uid)
    [] c.name = "remove"  -> RemoveMember(g, c.uid)
    [] c.name = "mute"    -> SetMemberMute(g, c.uid, c.to)

-----------------------------------------------------------------------------
\* The group service changes the database.

WriteCreate ==
  /\ db.state = "new"
  /\ \E s \in BOOLEAN : Commit([name |-> "create", super |-> s], Row("there", Group(s, NoMembers)))

Change(c) == Exists /\ Commit(c, Row("there", Handled(db.group, c)))

WriteChange ==
  \/ ~db.group.super /\ Change([name |-> "upgrade"])
  \/ \E u \in Uids :
       \/ db.group.members[u] = "out"  /\ Change([name |-> "add", uid |-> u])
       \/ db.group.members[u] # "out"  /\ Change([name |-> "remove", uid |-> u])
       \/ db.group.members[u] = "in"   /\ Change([name |-> "mute", uid |-> u, to |-> "mute"])
       \/ db.group.members[u] = "mute" /\ Change([name |-> "mute", uid |-> u, to |-> "in"])

WriteDisband == Exists /\ Commit([name |-> "disband"], Row("gone", Group(FALSE, NoMembers)))

WriteOther == Commit([name |-> "other"], db)

Write == WriteCreate \/ WriteChange \/ WriteDisband \/ WriteOther

-----------------------------------------------------------------------------
\* The manager's goroutine.

Concerns == Event.change.name # "other"

HandleCreate ==
  /\ Event.change.name = "create"
  /\ Apply(Group(Event.change.super, NoMembers), {})

\* Mutant of HandleDisband: the group stays in the map.
HandleDisbandKeeping == Event.change.name = "disband" /\ Apply(cache, suspect)
HandleDisband == Event.change.name = "disband" /\ Apply(None, {})

\* HandleUpgrade, HandleMemberAdd, HandleMemberRemove, HandleMute change the
\* group that FindGroup returned, if it returned one.
HandleChange ==
  /\ Event.change.name \notin {"create", "disband"}
  /\ Apply(IF target = "cached" THEN Handled(cache, Event.change) ELSE cache, suspect)

\* RunOnce, at the end of a batch: the lazy clear policy.
Clear ==
  /\ BatchDone /\ dirty
  /\ pc' = "read" /\ dirty' = FALSE
  /\ cache' = None /\ suspect' = {}
  /\ load' = Overtaken
  /\ UNCHANGED <<dbVars, readerVars, target>>

-----------------------------------------------------------------------------
\* The delivery queues.  LoadGroup reads the row of the group and its members
\* with two queries outside of the mutex.

LoadRow(l) ==
  /\ pc \notin {"action", "entry"} /\ load[l] = None /\ cache = None
  /\ Exists
  /\ load' = [load EXCEPT ![l] = [super |-> db.group.super, members |-> None, suspect |-> {}]]
  /\ UNCHANGED <<dbVars, pc, dirty, readerVars, target, cache, suspect>>

\* LoadGroupMember does not look at rows.Err(): when the connection fails the
\* rows that are missing are taken for members that are not.
LoadGroupMember(l) ==
  /\ load[l] # None /\ load[l].members = None
  /\ \E kept \in SUBSET Uids :
       LET found == [u \in Uids |-> IF u \in kept THEN db.group.members[u] ELSE "out"]
       IN load' = [load EXCEPT ![l].members = found,
                               ![l].suspect = @ \cup IF found = db.group.members THEN {} ELSE {"failed"}]
  /\ UNCHANGED <<dbVars, pc, dirty, readerVars, target, cache, suspect>>

PutGroup(l) ==
  /\ load[l] # None /\ load[l].members # None
  /\ Put(l, Group(load[l].super, load[l].members))

-----------------------------------------------------------------------------
GroupInit ==
  /\ StreamInit /\ dirty = TRUE
  /\ \E s \in {"new", "there"} : db = Row(s, Group(FALSE, NoMembers))

ManagerStep ==
  \/ GetActionID \/ GetLastEntryID \/ ReadEvents \/ HandleEvent(Concerns)
  \/ pc = "apply" /\ (HandleCreate \/ HandleDisband \/ HandleChange)
  \/ EndOfBatch \/ Clear

GroupNext ==
  \/ Write \/ Publish \/ ManagerStep \/ Recycle
  \/ \E l \in Loaders : LoadRow(l) \/ LoadGroupMember(l) \/ PutGroup(l) \/ GiveUp(l)

GroupSpec == GroupInit /\ [][GroupNext]_vars

-----------------------------------------------------------------------------
\* Type invariant: the manager's variables keep their shape, and the group an
\* event is applied to is in the cache or was taken out of it meanwhile.
GroupTypeOK ==
  /\ db \in [state : {"new", "there", "gone"}, group : Groups]
  /\ cache \in Groups \cup {None}
  /\ suspect \subseteq {"overtaken", "failed"}
  /\ target \in {"none", "cached", "detached"} /\ (target = "cached" => cache # None)
  /\ last_entry_id <= upto \/ pc \in {"action", "entry", "read"}

\* Once every event is read, a cached group is what the database holds, however
\* loads, events, lost events, clearing and recycling interleave, unless an
\* event overtook the load it comes from or a query failed.
GroupExact == CaughtUp /\ cache # None /\ suspect = {} => cache = Actual

\* A failed query only hides members: nobody is taken for a member who is not.
NoStrangers ==
  CaughtUp /\ cache # None /\ suspect \subseteq {"failed"} =>
    /\ Actual # None /\ cache.super = Actual.super
    /\ \A u \in Uids : cache.members[u] \in {"out", Actual.members[u]}
=============================================================================
