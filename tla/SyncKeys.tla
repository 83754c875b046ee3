------------------------------ MODULE SyncKeys ------------------------------
(***************************************************************************)
(* The sync key of one user (or of one user in one group) in redis.  The   *)
(* user's devices say how far they have read; the SyncKeyService of each   *)
(* access server reads the key, compares it and writes it.  A device       *)
(* without a key of its own begins at the key in redis (HandleSync).       *)
(***************************************************************************)
EXTENDS Naturals, Sequences

CONSTANTS
  Devices, Servers,
  ServerOf,     \* [Devices -> the server a device is connected to]
  ChanSize,     \* capacity of sync_c
  MaxKey, MaxFailures,
  None

SyncKeysAssumption ==
  /\ ServerOf \in [Devices -> Servers]
  /\ ChanSize \in Nat \ {0} /\ MaxKey \in Nat /\ MaxFailures \in Nat
  /\ Devices # {} /\ None \notin [last : Nat, origin : Nat, doubted : BOOLEAN]

VARIABLES
  sync_key,  \* redis: the key of the user
  key,       \* [Devices -> the last message a device has]
  told,      \* [Devices -> the last key a device has sent]
  sync_c,    \* [Servers -> the channel of the service]
  service,   \* [Servers -> the request in progress, or None]
  failures,
  doubt      \* history: an overtaken or failed read let an older key be written, or
             \* a write failed

vars == <<sync_key, key, told, sync_c, service, failures, doubt>>

Largest(S) == CHOOSE n \in S : \A k \in S : k <= n

-----------------------------------------------------------------------------
\* redis fails: at most MaxFailures times.
Fails == failures < MaxFailures /\ failures' = failures + 1

\* GetSyncKey returns 0 when redis fails.
GetSyncKey(value, doubted) ==
  \/ value = sync_key /\ doubted = FALSE /\ UNCHANGED failures
  \/ value = 0 /\ doubted = TRUE /\ Fails

\* HandleSync with the key 0: the device begins where redis says, or at the
\* beginning.  Any device may have received more meanwhile.
HandleSync(d) ==
  /\ key[d] = 0
  /\ \E last_id \in 0..MaxKey, doubted \in BOOLEAN :
       /\ GetSyncKey(last_id, doubted)
       /\ \E n \in last_id..MaxKey : n > 0 /\ key' = [key EXCEPT ![d] = n]
  /\ UNCHANGED <<sync_key, told, sync_c, service, doubt>>

Receive(d) ==
  /\ 0 < key[d] /\ key[d] < MaxKey
  /\ key' = [key EXCEPT ![d] = @ + 1]
  /\ UNCHANGED <<sync_key, told, sync_c, service, failures, doubt>>

\* The device sends MSG_SYNC_KEY, HandleSyncKey puts it into sync_c and waits
\* while that is full.
HandleSyncKey(d) ==
  /\ key[d] > told[d] /\ told' = [told EXCEPT ![d] = key[d]]
  /\ Len(sync_c[ServerOf[d]]) < ChanSize
  /\ sync_c' = [sync_c EXCEPT ![ServerOf[d]] = Append(@, key[d])]
  /\ UNCHANGED <<sync_key, key, service, failures, doubt>>

\* SyncKeyService takes a request and calls GetSyncKey.
ReadKey(s) ==
  /\ service[s] = None /\ sync_c[s] # << >>
  /\ sync_c' = [sync_c EXCEPT ![s] = Tail(@)]
  /\ \E origin \in 0..MaxKey, doubted \in BOOLEAN :
       /\ GetSyncKey(origin, doubted)
       /\ service' = [service EXCEPT ![s] =
            [last |-> Head(sync_c[s]), origin |-> origin, doubted |-> doubted]]
  /\ UNCHANGED <<sync_key, key, told, doubt>>

\* Mutant of Newer: the key is written whatever redis holds.
NewerAlways(request) == TRUE
Newer(request) == request.last > request.origin

\* SaveSyncKey, unless the key is not newer; an error is only logged.  Whoever
\* is between reading and writing has been overtaken.
WriteKey(s) ==
  /\ service[s] # None
  /\ \/ /\ Newer(service[s]) /\ sync_key' = service[s].last
        /\ service' = [t \in Servers |-> IF t = s \/ service[t] = None THEN None
                                         ELSE [service[t] EXCEPT !.doubted = TRUE]]
        /\ doubt' = (doubt \/ (service[s].doubted /\ service[s].last < sync_key)) /\ UNCHANGED failures
     \/ /\ Newer(service[s]) /\ Fails /\ doubt' = TRUE
        /\ service' = [service EXCEPT ![s] = None] /\ UNCHANGED sync_key
     \/ /\ ~Newer(service[s])
        /\ service' = [service EXCEPT ![s] = None] /\ UNCHANGED <<sync_key, failures, doubt>>
  /\ UNCHANGED <<key, told, sync_c>>

-----------------------------------------------------------------------------
Init ==
  /\ sync_key = 0 /\ key = [d \in Devices |-> 0] /\ told = [d \in Devices |-> 0]
  /\ sync_c = [s \in Servers |-> << >>] /\ service = [s \in Servers |-> None]
  /\ failures = 0 /\ doubt = FALSE

Next ==
  \/ \E d \in Devices : HandleSync(d) \/ Receive(d) \/ HandleSyncKey(d)
  \/ \E s \in Servers : ReadKey(s) \/ WriteKey(s)

Spec == Init /\ [][Next]_vars

-----------------------------------------------------------------------------
Settled == \A s \in Servers : sync_c[s] = << >> /\ service[s] = None

\* Once every service has done its work redis holds the largest key that any
\* device told, in whatever order the devices' keys came, unless one service
\* wrote between another's read and write or redis failed.
KeyIsNewest == Settled /\ ~doubt => sync_key = Largest({told[d] : d \in Devices})

\* The key goes back only when a service was overtaken or its read failed: the
\* comparison of SyncKeyService holds for one server, not for several.
KeyGoesBackByRaceOnly == [][sync_key' < sync_key => doubt']_vars
=============================================================================
