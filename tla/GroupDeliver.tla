----------------------------- MODULE GroupDeliver -----------------------------
(***************************************************************************)
(* The dispatch of normal group messages by an access server               *)
(* (im/group_message_deliver.go): a message is appended to the file        *)
(* pending_group_messages; the goroutine run reads the file and saves each *)
(* message for its members, with one call for the members that share a     *)
(* storage server; the file cursor holds the last message that was sent.   *)
(* When much has been sent and nothing is left, the file is truncated.     *)
(*                                                                         *)
(* A message takes one unit of the file and has the number under which it  *)
(* was saved; its msgid is its offset, 0 is none.  A group has a member on *)
(* every storage server.  A message torn by a crash stops the server at    *)
(* its next start ("file need repair") and is left out.                    *)
(***************************************************************************)
EXTENDS Integers, Sequences, FiniteSets

CONSTANTS
  Servers,       \* storage servers
  WtSize,        \* capacity of wt
  TruncateAt,    \* the file is truncated when more than this was sent (128M)
  TruncateCrash, \* may the process die between Truncate and saveCursor
  MaxMsgs,       \* bound: messages saved
  MaxFails,      \* bound: calls to storage servers that fail
  MaxCrashes     \* bound: crashes

ASSUME GroupDeliverAssumption ==
  /\ WtSize \in Nat \ {0} /\ TruncateAt \in Nat
  /\ TruncateCrash \in BOOLEAN
  /\ MaxMsgs \in Nat /\ MaxFails \in Nat /\ MaxCrashes \in Nat

Msgs == 1..MaxMsgs

VARIABLES
  file,        \* pending_group_messages: message at every offset
  cursor,      \* the cursor file
  latest_msgid,
  latest_sended_msgid,
  wt,          \* tokens in the channel wt
  writing,     \* message whose SaveMessage holds the mutex after its write, or 0
  callbacks,   \* msgid -> message whose handler waits for the metadata, or 0
  callbackid_to_msgid, \* per message (callback ids are not used again)
  ch,          \* channel of every handler: the message whose metadata it holds
  waiting,     \* messages whose handler waits for its channel
  acked,       \* result of every handler: message whose metadata it took, or 0
  pc,          \* where run is
  current,     \* offset of the message being sent, or 0
  rest,        \* servers it has yet to be saved on
  saved,       \* number of messages saved
  ims,         \* queue of the members on every storage server
  cut,         \* messages whose sending failed or was cut by a crash
  fails, crashes

diskVars == <<file, cursor>>
cbVars   == <<callbacks, callbackid_to_msgid, ch, waiting, acked>>
runVars  == <<pc, current, rest>>
history  == <<saved, cut, fails, crashes>>
vars == <<diskVars, latest_msgid, latest_sended_msgid, wt, writing, cbVars, runVars, ims,
          history>>

Offsets == 1..MaxMsgs
NoCallbacks == [o \in Offsets |-> 0]

\* run holds the mutex while it decides to truncate.
Locked == pc \in {"rescan", "decide", "cursor"}

-----------------------------------------------------------------------------
\* SaveMessage, called by the goroutines of clients and of the HTTP server.

\* The message is in the file, for run to read, before its callback is known.
Write ==
  /\ writing = 0 /\ ~Locked /\ saved < MaxMsgs
  /\ saved' = saved + 1
  /\ file' = Append(file, saved')
  /\ latest_msgid' = Len(file')
  /\ writing' = saved'
  /\ UNCHANGED <<cursor, latest_sended_msgid, wt, cbVars, runVars, ims, cut, fails, crashes>>

\* AddCallback for a client, not for the HTTP server; then run is woken, unless
\* wt is full.
EndSave ==
  /\ writing # 0 /\ writing' = 0
  /\ wt' = IF wt < WtSize THEN wt + 1 ELSE wt
  /\ \/ /\ callbacks' = [callbacks EXCEPT ![latest_msgid] = writing]
        /\ callbackid_to_msgid' = [callbackid_to_msgid EXCEPT ![writing] = latest_msgid]
        /\ waiting' = waiting \cup {writing}
        /\ UNCHANGED <<ch, acked>>
     \/ UNCHANGED cbVars
  /\ UNCHANGED <<diskVars, latest_msgid, latest_sended_msgid, runVars, ims, history>>

RemoveCallback(m) ==
  LET o == callbackid_to_msgid[m] IN
  /\ callbacks' = IF o = 0 THEN callbacks ELSE [callbacks EXCEPT ![o] = 0]
  /\ callbackid_to_msgid' = [callbackid_to_msgid EXCEPT ![m] = 0]

\* HandleGroupMessage gets the metadata, or gives up after two seconds.
HandlerReturns(m) ==
  /\ m \in waiting /\ waiting' = waiting \ {m}
  /\ acked' \in {acked, [acked EXCEPT ![m] = ch[m]]}
  /\ RemoveCallback(m)
  /\ UNCHANGED <<diskVars, latest_msgid, latest_sended_msgid, wt, writing, ch, runVars, ims,
                 history>>

-----------------------------------------------------------------------------
\* run: flushPendingMessage and sendPendingMessage.

\* Woken by wt or by the timer.
Flush ==
  /\ pc = "idle"
  /\ wt' \in {wt, wt - 1} \cap Nat
  /\ pc' = IF latest_msgid > latest_sended_msgid THEN "scan" ELSE "idle"
  /\ UNCHANGED <<diskVars, latest_msgid, latest_sended_msgid, writing, cbVars, current, rest,
                 ims, history>>

Scanning == pc \in {"scan", "rescan"}

\* The scan ends: flushPendingMessage goes on, after the first one without the
\* mutex to see whether the file is to be truncated.
EndOfScan ==
  pc' = IF pc = "rescan" THEN "decide"
        ELSE IF latest_sended_msgid > TruncateAt THEN "lock" ELSE "idle"

\* The next message of the file is sent.  (The scan starts with the message at
\* latest_sended_msgid, which is skipped.)
BeginSend ==
  /\ Scanning /\ current = 0 /\ latest_sended_msgid < Len(file)
  /\ current' = latest_sended_msgid + 1
  /\ rest' = Servers
  /\ UNCHANGED <<diskVars, latest_msgid, latest_sended_msgid, wt, writing, cbVars, pc, ims,
                 history>>

EndScan ==
  /\ Scanning /\ current = 0 /\ latest_sended_msgid >= Len(file)
  /\ EndOfScan
  /\ UNCHANGED <<diskVars, latest_msgid, latest_sended_msgid, wt, writing, cbVars, current,
                 rest, ims, history>>

\* sendGroupMessage: SavePeerGroupMessage for the members on server s.
SavePeerGroupMessage(s) ==
  /\ current # 0 /\ s \in rest
  /\ ims' = [ims EXCEPT ![s] = Append(@, file[current])]
  /\ rest' = rest \ {s}
  /\ UNCHANGED <<diskVars, latest_msgid, latest_sended_msgid, wt, writing, cbVars, pc, current,
                 history>>

\* Mutant of SavePeerGroupMessageFails: the message is given up, the next is
\* sent.
SavePeerGroupMessageGivesUp(s) ==
  /\ current # 0 /\ s \in rest /\ fails < MaxFails
  /\ fails' = fails + 1
  /\ cut' = cut \cup {file[current]}
  /\ latest_sended_msgid' = current
  /\ current' = 0 /\ rest' = {}
  /\ UNCHANGED <<diskVars, latest_msgid, wt, writing, cbVars, pc, ims, saved, crashes>>

\* The call fails, with or without effect: the scan ends, the message is tried
\* again as a whole by the next flush.
SavePeerGroupMessageFails(s) ==
  /\ current # 0 /\ s \in rest /\ fails < MaxFails
  /\ fails' = fails + 1
  /\ cut' = cut \cup {file[current]}
  /\ ims' \in {ims, [ims EXCEPT ![s] = Append(@, file[current])]}
  /\ current' = 0 /\ rest' = {}
  /\ EndOfScan
  /\ UNCHANGED <<diskVars, latest_msgid, latest_sended_msgid, wt, writing, cbVars, saved, crashes>>

DoCallback(o, m) ==
  ch' = IF callbacks[o] # 0 /\ ch[callbacks[o]] = 0 THEN [ch EXCEPT ![callbacks[o]] = m] ELSE ch

\* Mutant of Sent: the cursor is saved at the next truncation only.
SentWithoutCursor ==
  /\ current # 0 /\ rest = {}
  /\ DoCallback(current, file[current])
  /\ latest_sended_msgid' = current
  /\ current' = 0
  /\ UNCHANGED <<file, latest_msgid, wt, writing, callbacks, callbackid_to_msgid, waiting,
                 acked, pc, rest, ims, history, cursor>>

\* The metadata goes to the handler, the cursor to its file.
Sent ==
  /\ current # 0 /\ rest = {}
  /\ DoCallback(current, file[current])
  /\ latest_sended_msgid' = current /\ cursor' = current
  /\ current' = 0
  /\ UNCHANGED <<file, latest_msgid, wt, writing, callbacks, callbackid_to_msgid, waiting,
                 acked, pc, rest, ims, history>>

\* The file is longer than 128M: look again, with the mutex.
Lock ==
  /\ pc = "lock" /\ writing = 0
  /\ pc' = IF latest_msgid > latest_sended_msgid THEN "rescan" ELSE "decide"
  /\ UNCHANGED <<diskVars, latest_msgid, latest_sended_msgid, wt, writing, cbVars, current,
                 rest, ims, history>>

\* Mutant of Decide: the file is truncated whatever is left in it.
DecideAlways ==
  /\ pc = "decide" /\ file' = << >> /\ pc' = "cursor"
  /\ UNCHANGED <<cursor, latest_msgid, latest_sended_msgid, wt, writing, cbVars, current, rest,
                 ims, history>>

\* Everything was sent: the file is truncated.
Decide ==
  /\ pc = "decide"
  /\ IF latest_msgid = latest_sended_msgid THEN file' = << >> /\ pc' = "cursor"
     ELSE file' = file /\ pc' = "idle"
  /\ UNCHANGED <<cursor, latest_msgid, latest_sended_msgid, wt, writing, cbVars, current, rest,
                 ims, history>>

\* Mutant of SaveCursor: latest_msgid stays what it was before the truncation.
SaveCursorKeepingLatest ==
  /\ pc = "cursor" /\ pc' = "idle"
  /\ latest_sended_msgid' = 0 /\ cursor' = 0
  /\ callbacks' = NoCallbacks /\ callbackid_to_msgid' = [m \in Msgs |-> 0]
  /\ UNCHANGED <<file, latest_msgid, wt, writing, ch, waiting, acked, current, rest, ims,
                 history>>

\* Mutant of SaveCursor: ClearCallback is left out.
SaveCursorKeepingCallbacks ==
  /\ pc = "cursor" /\ pc' = "idle"
  /\ latest_msgid' = 0 /\ latest_sended_msgid' = 0 /\ cursor' = 0
  /\ UNCHANGED <<file, wt, writing, cbVars, current, rest, ims, history>>

\* The rest of truncateFile, ClearCallback, and the mutex is released.
SaveCursor ==
  /\ pc = "cursor" /\ pc' = "idle"
  /\ latest_msgid' = 0 /\ latest_sended_msgid' = 0 /\ cursor' = 0
  /\ callbacks' = NoCallbacks /\ callbackid_to_msgid' = [m \in Msgs |-> 0]
  /\ UNCHANGED <<file, wt, writing, ch, waiting, acked, current, rest, ims, history>>

-----------------------------------------------------------------------------
\* The process dies and starts again: openWriteFile, openCursorFile,
\* readLatestMessageID.
Crash ==
  /\ crashes < MaxCrashes /\ crashes' = crashes + 1
  /\ pc = "cursor" => TruncateCrash
  /\ cut' = IF current # 0 THEN cut \cup {file[current]} ELSE cut
  /\ latest_msgid' = Len(file) /\ latest_sended_msgid' = cursor
  /\ wt' = 0 /\ writing' = 0
  /\ callbacks' = NoCallbacks /\ callbackid_to_msgid' = [m \in Msgs |-> 0]
  /\ ch' = [m \in Msgs |-> 0] /\ waiting' = {}
  /\ pc' = "idle" /\ current' = 0 /\ rest' = {}
  /\ UNCHANGED <<diskVars, acked, saved, ims, fails>>

-----------------------------------------------------------------------------
Init ==
  /\ file = << >> /\ cursor = 0
  /\ latest_msgid = 0 /\ latest_sended_msgid = 0 /\ wt = 0 /\ writing = 0
  /\ callbacks = NoCallbacks /\ callbackid_to_msgid = [m \in Msgs |-> 0]
  /\ ch = [m \in Msgs |-> 0] /\ waiting = {} /\ acked = [m \in Msgs |-> 0]
  /\ pc = "idle" /\ current = 0 /\ rest = {}
  /\ saved = 0 /\ ims = [s \in Servers |-> << >>] /\ cut = {}
  /\ fails = 0 /\ crashes = 0

Run == Flush \/ BeginSend \/ EndScan \/ Sent \/ Lock \/ Decide \/ SaveCursor
       \/ \E s \in Servers : SavePeerGroupMessage(s)

Next ==
  \/ Write \/ EndSave \/ \E m \in Msgs : HandlerReturns(m)
  \/ Run \/ \E s \in Servers : SavePeerGroupMessageFails(s)
  \/ Crash

\* Goroutines run (run has a timer of 30 seconds, handlers one of two); messages
\* need not be saved.  Calls fail, and the server crashes, only as often as the
\* bounds say.
Fairness == WF_vars(Run) /\ WF_vars(EndSave) /\ \A m \in Msgs : WF_vars(HandlerReturns(m))

Spec == Init /\ [][Next]_vars /\ Fairness

-----------------------------------------------------------------------------
\* Type invariant; latest_msgid is the end of the file, but for the moment
\* between its truncation and the rest of truncateFile.
TypeOK ==
  /\ file \in Seq(Msgs) /\ cursor \in 0..MaxMsgs
  /\ latest_msgid \in 0..MaxMsgs /\ latest_sended_msgid \in 0..MaxMsgs
  /\ wt \in 0..WtSize /\ writing \in Msgs \cup {0}
  /\ callbacks \in [Offsets -> Msgs \cup {0}]
  /\ callbackid_to_msgid \in [Msgs -> Offsets \cup {0}]
  /\ ch \in [Msgs -> Msgs \cup {0}] /\ acked \in [Msgs -> Msgs \cup {0}]
  /\ waiting \subseteq Msgs
  /\ pc \in {"idle", "scan", "lock", "rescan", "decide", "cursor"}
  /\ current \in 0..Len(file) /\ rest \subseteq Servers
  /\ pc # "cursor" => latest_msgid = Len(file)
  /\ saved \in 0..MaxMsgs /\ cut \subseteq Msgs
  /\ ims \in [Servers -> Seq(Msgs)]

Queued(s) == {ims[s][i] : i \in 1..Len(ims[s])}

\* group_message_deliver.go:44: messages are dispatched in the order in which
\* they were saved to the file.  In every member's queue a message comes after
\* all that were saved before it, whatever calls failed and wherever a crash hit.
NoneOvertaken ==
  \A s \in Servers : \A i \in 1..Len(ims[s]) :
    \A m \in 1..ims[s][i] - 1 : \E j \in 1..i - 1 : ims[s][j] = m

\* A message is in a queue twice only if a call failed or a crash came while it
\* was sent: neither the truncation nor the two wake-ups repeat one.
DuplicatesExplained ==
  \A s \in Servers : \A i, j \in 1..Len(ims[s]) :
    i # j /\ ims[s][i] = ims[s][j] => ims[s][i] \in cut

\* The acknowledgement of a message carries the metadata of that message, which
\* is then in the queues of all members; offsets are used again after a
\* truncation, callbacks are not mixed up.
AckIsOwn ==
  \A m \in Msgs : acked[m] # 0 => acked[m] = m /\ \A s \in Servers : m \in Queued(s)

\* group_message_deliver.go:43-44: every saved message is dispatched, to every
\* member.  (Stated for crashes that do not cut a truncation short.)
AllDispatched ==
  \A m \in Msgs, s \in Servers : m <= saved ~> m \in Queued(s)
=============================================================================
