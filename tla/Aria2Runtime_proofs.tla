------------------------ MODULE Aria2Runtime_proofs ------------------------
(***************************************************************************)
(* Proofs about Aria2Runtime, for all clients, limits and slots and any    *)
(* number of changes and faults.                                           *)
(***************************************************************************)
EXTENDS Aria2Runtime, FiniteSetTheorems, TLAPS

USE RuntimeAssumption

Holding == {"spawn", "respawn", "list", "limit", "slots"}
Starting(r) == refresh[r].pc \in {"spawn", "respawn"}

(* The lock is free exactly when no refresher is at a step that holds it. *)
LEMMA RuntimeFreeIsNobody ==
  RuntimeFree <=> \A r \in Refresher : refresh[r].pc \notin Holding
  BY DEF RuntimeFree, Holding

-----------------------------------------------------------------------------
(***************************************************************************)
(* Type correctness.  That one refresh at a time holds the runtime mutex   *)
(* is stated pairwise here and by a cardinality in RuntimeTypeOK.          *)
(***************************************************************************)
Places == {"idle", "ensure", "spawn", "check", "window", "respawn", "take", "list", "limit",
           "slots"}
Mutex == \A r, s \in Refresher : refresh[r].pc \in Holding /\ refresh[s].pc \in Holding => r = s
Types ==
    /\ aria \in Process /\ spawning \in Process
    /\ desired \in [limit : Limit, slots : Slots \cup {0}]
    /\ settings \in [limit : Limit, slots : Slots]
    /\ stateFile \in [limit : Limit, slots : Slots]
    /\ lifecycle \in {"Starting", "Ready", "Restarting", "Failed"}
    /\ refresh \in [Refresher -> [pc : Places, limit : Limit]]
    /\ daemonUp \in BOOLEAN
    /\ marks \in [unsaved : BOOLEAN, misled : BOOLEAN, unlimited : BOOLEAN,
                  fresh : SUBSET Refresher, inForce : BOOLEAN]
    /\ budget \in [changes : 0 .. MaxChanges, faults : 0 .. MaxFaults]

(* A set whose members are all equal has at most one. *)
LEMMA AtMostOne ==
  ASSUME NEW S, \A x, y \in S : x = y
  PROVE  Cardinality(S) <= 1
  <1>1. CASE S = {}
    BY <1>1, FS_EmptySet
  <1>2. CASE S # {}
    <2>1. PICK x : S = {x}
      BY <1>2
    <2>2. Cardinality({x}) = 1
      BY FS_Singleton, Zenon
    <2> QED
      BY <2>1, <2>2
  <1> QED
    BY <1>1, <1>2

(* The types and the lock's exclusion give the type invariant TLC checks. *)
LEMMA TypesSuffice == Types /\ Mutex => RuntimeTypeOK
  <1> SUFFICES ASSUME Types, Mutex PROVE RuntimeTypeOK
    OBVIOUS
  <1> DEFINE S == {r \in Refresher : refresh[r].pc \in {"spawn", "respawn", "list", "limit", "slots"}}
  <1>1. Cardinality(S) <= 1
    BY AtMostOne DEF Mutex, Holding
  <1> QED
    BY <1>1 DEF Types, RuntimeTypeOK, Places

-----------------------------------------------------------------------------
(***************************************************************************)
(* The inductive invariant.                                                *)
(*                                                                         *)
(* The process being started has no limit and the slots that are noted; a  *)
(* live process always has slots, so that its remains are told from an     *)
(* empty runtime slot; a daemon that is down has neither.                  *)
(***************************************************************************)
StartedWithNotedSlots ==
    \A r \in Refresher : Starting(r) =>
        spawning.alive /\ spawning.limit = 0 /\ spawning.slots = desired.slots
                       /\ spawning.slots # 0
LiveHasSlots == aria.alive => aria.slots # 0
DownIsEmpty == ~daemonUp => aria = NoAria /\ refresh = Resting

(***************************************************************************)
(* What is noted of the process is true of it, with the two exceptions of  *)
(* SettingsInForce; while another one is being started, only if the        *)
(* settings were in force before.                                          *)
(***************************************************************************)
NotedIsTrue ==
    aria.alive =>
        /\ marks.misled \/ aria.slots = desired.slots
           \/ (~marks.inForce /\ \E r \in Refresher : Starting(r))
        /\ marks.unlimited \/ aria.limit = desired.limit

(***************************************************************************)
(* What is noted is what the settings ask for once a refresh begun since   *)
(* the last change has come that far; a refresh still on its way with an   *)
(* older limit keeps the mutex, hence keeps the others from ending.        *)
(***************************************************************************)
FreshBringsTheLimit ==
    /\ \A r \in marks.fresh :
          /\ At(r, "limit") => refresh[r].limit = settings.limit
          /\ At(r, "slots") => desired.limit = settings.limit
    /\ marks.inForce =>
          /\ desired.slots = settings.slots /\ desired.limit = settings.limit
          /\ \A r \in Refresher : At(r, "limit") => refresh[r].limit = settings.limit

RuntimeInv ==
    /\ Types /\ Mutex
    /\ StartedWithNotedSlots /\ LiveHasSlots /\ DownIsEmpty
    /\ NotedIsTrue /\ FreshBringsTheLimit
    /\ ReadyHasProcess /\ SettingsAreSaved

(* The first start of the daemon satisfies the invariant. *)
LEMMA RuntimeInitInv == RuntimeInit => RuntimeInv
  <1> SUFFICES ASSUME RuntimeInit PROVE RuntimeInv
    OBVIOUS
  <1>1. settings \in [limit : Limit, slots : Slots] /\ stateFile = settings
    BY DEF RuntimeInit
  <1> QED
    BY <1>1 DEF RuntimeInit, RuntimeInv, Types, Mutex, Holding, StartedWithNotedSlots, LiveHasSlots,
                DownIsEmpty, NotedIsTrue, FreshBringsTheLimit, ReadyHasProcess, SettingsAreSaved,
                NoAria, NoMarks, Resting, Process, Places, Starting, At

(***************************************************************************)
(* Every step keeps it.  First what all steps of a refresh have in common: *)
(* only a refresh that is under way takes one, so the daemon is up, and    *)
(* none of them touches what is configured.                                *)
(***************************************************************************)
LEMMA Moves ==
  ASSUME Types, NEW r \in Refresher, NEW place \in Places, GoTo(r, place)
  PROVE  /\ refresh' \in [Refresher -> [pc : Places, limit : Limit]]
         /\ refresh'[r].pc = place /\ refresh'[r].limit = refresh[r].limit
         /\ \A s \in Refresher : s # r => refresh'[s] = refresh[s]
  BY DEF Types, GoTo

(* Only a running daemon refreshes, and a refresh never edits the settings. *)
LEMMA RefreshIsUp ==
  ASSUME Types, DownIsEmpty, NEW r \in Refresher, RefreshOf(r)
  PROVE  daemonUp /\ UNCHANGED configured /\ marks'.unsaved = marks.unsaved
  <1>1. ~At(r, "idle")
    BY DEF RefreshOf, At, EnsureRuntime, SpawnRefused, SpawnReady, SpawnFails, FindRunning, NoticeExit,
           Respawn, TakeRuntimeOf, ListDownloads, ApplyLimit, ApplySlots, RefreshStops
  <1>2. daemonUp
    BY <1>1 DEF DownIsEmpty, Resting, At, Types
  <1>3. UNCHANGED configured
    BY DEF RefreshOf, EnsureRuntime, Spawn, SpawnRefused, SpawnReady, SpawnFails, FindRunning,
           NoticeExit, Respawn, TakeRuntimeOf, ListDownloads, ApplyLimit, ApplySlots, RefreshStops
  <1>4. marks'.unsaved = marks.unsaved
    BY DEF RefreshOf, EnsureRuntime, Spawn, SpawnRefused, SpawnReady, SpawnFails, FindRunning,
           NoticeExit, Respawn, TakeRuntimeOf, ListDownloads, ApplyLimit, ApplySlots, RefreshStops, Types
  <1> QED
    BY <1>2, <1>3, <1>4

(* A step of a refresh keeps the types. *)
LEMMA RefreshTypes ==
  ASSUME Types, DownIsEmpty, NEW r \in Refresher, RefreshOf(r)
  PROVE  Types'
  <1> USE DEF Types, Process, NoAria
  <1>1. settings' = settings /\ stateFile' = stateFile /\ daemonUp' = daemonUp
    BY RefreshIsUp DEF configured
  <1>2. CASE EnsureRuntime(r)
    <2>1. refresh' \in [Refresher -> [pc : Places, limit : Limit]]
      BY <1>2 DEF EnsureRuntime, Spawn, GoTo, Places
    <2>2. aria' = aria /\ marks' = marks /\ budget' = budget
      BY <1>2 DEF EnsureRuntime, Spawn
    <2>3. spawning' \in Process
      <3>1. CASE aria = NoAria
        <4>1. spawning' = [alive |-> TRUE, limit |-> 0, slots |-> settings.slots]
          BY <1>2, <3>1 DEF EnsureRuntime, Spawn
        <4>2. settings.slots \in Slots
          OBVIOUS
        <4> QED
          BY <4>1, <4>2
      <3>2. CASE aria # NoAria
        BY <1>2, <3>2 DEF EnsureRuntime, Spawn
      <3> QED
        BY <3>1, <3>2
    <2>4. /\ desired' \in [limit : Limit, slots : Slots \cup {0}]
          /\ lifecycle' \in {"Starting", "Ready", "Restarting", "Failed"}
      BY <1>2 DEF EnsureRuntime, Spawn
    <2> QED
      BY <1>1, <2>1, <2>2, <2>3, <2>4
  <1>3. CASE SpawnRefused(r)
    <2>1. refresh' \in [Refresher -> [pc : Places, limit : Limit]]
      BY <1>3 DEF SpawnRefused, Fails, GoTo, Places
    <2>2. marks' \in [unsaved : BOOLEAN, misled : BOOLEAN, unlimited : BOOLEAN,
                      fresh : SUBSET Refresher, inForce : BOOLEAN]
      BY <1>3 DEF SpawnRefused, Fails
    <2> QED
      BY <1>1, <1>3, <2>1, <2>2 DEF SpawnRefused, Fails, Faulty
  <1>4. CASE SpawnReady(r)
    <2>1. refresh' \in [Refresher -> [pc : Places, limit : Limit]]
      BY <1>4 DEF SpawnReady, GoTo, Places
    <2>2. marks' \in [unsaved : BOOLEAN, misled : BOOLEAN, unlimited : BOOLEAN,
                      fresh : SUBSET Refresher, inForce : BOOLEAN]
      BY <1>4 DEF SpawnReady
    <2> QED
      BY <1>1, <1>4, <2>1, <2>2 DEF SpawnReady, Faulty
  <1>5. CASE SpawnFails(r)
    <2>1. refresh' \in [Refresher -> [pc : Places, limit : Limit]]
      BY <1>5 DEF SpawnFails, Fails, GoTo, Places
    <2>2. marks' \in [unsaved : BOOLEAN, misled : BOOLEAN, unlimited : BOOLEAN,
                      fresh : SUBSET Refresher, inForce : BOOLEAN]
      BY <1>5 DEF SpawnFails, Fails
    <2> QED
      BY <1>1, <1>5, <2>1, <2>2 DEF SpawnFails, Fails, Faulty
  <1>6. CASE FindRunning(r)
    BY <1>1, <1>6 DEF FindRunning, GoTo, Places
  <1>7. CASE NoticeExit(r)
    BY <1>1, <1>7 DEF NoticeExit, GoTo, Places
  <1>8. CASE Respawn(r)
    <2>1. refresh' \in [Refresher -> [pc : Places, limit : Limit]]
      BY <1>8 DEF Respawn, Spawn, GoTo, Places
    <2>2. marks' \in [unsaved : BOOLEAN, misled : BOOLEAN, unlimited : BOOLEAN,
                      fresh : SUBSET Refresher, inForce : BOOLEAN]
      BY <1>8 DEF Respawn, Spawn
    <2> QED
      BY <1>1, <1>8, <2>1, <2>2 DEF Respawn, Spawn, Faulty
  <1>9. CASE TakeRuntimeOf(r)
    <2>1. refresh' \in [Refresher -> [pc : Places, limit : Limit]]
      BY <1>9 DEF TakeRuntimeOf, Fails, GoTo, Places
    <2>2. marks' \in [unsaved : BOOLEAN, misled : BOOLEAN, unlimited : BOOLEAN,
                      fresh : SUBSET Refresher, inForce : BOOLEAN]
      BY <1>9 DEF TakeRuntimeOf, Fails
    <2> QED
      BY <1>1, <1>9, <2>1, <2>2 DEF TakeRuntimeOf, Fails, Faulty
  <1>10. CASE ListDownloads(r)
    <2>1. refresh' \in [Refresher -> [pc : Places, limit : Limit]]
      BY <1>10 DEF ListDownloads, GoTo, Places
    <2>2. marks' \in [unsaved : BOOLEAN, misled : BOOLEAN, unlimited : BOOLEAN,
                      fresh : SUBSET Refresher, inForce : BOOLEAN]
      BY <1>10 DEF ListDownloads
    <2> QED
      BY <1>1, <1>10, <2>1, <2>2 DEF ListDownloads, Faulty
  <1>11. CASE ApplyLimit(r)
    <2>1. refresh' \in [Refresher -> [pc : Places, limit : Limit]]
      BY <1>11 DEF ApplyLimit, GoTo, Places
    <2>2. marks' \in [unsaved : BOOLEAN, misled : BOOLEAN, unlimited : BOOLEAN,
                      fresh : SUBSET Refresher, inForce : BOOLEAN]
      BY <1>11 DEF ApplyLimit
    <2> QED
      BY <1>1, <1>11, <2>1, <2>2 DEF ApplyLimit, Faulty
  <1>12. CASE ApplySlots(r)
    <2>1. refresh' \in [Refresher -> [pc : Places, limit : Limit]]
      BY <1>12 DEF ApplySlots, GoTo, Places
    <2>2. marks' \in [unsaved : BOOLEAN, misled : BOOLEAN, unlimited : BOOLEAN,
                      fresh : SUBSET Refresher, inForce : BOOLEAN]
      <3>1. CASE marks' = [marks EXCEPT !.inForce = @ \/ r \in marks.fresh, !.fresh = @ \ {r}]
        BY <3>1
      <3>2. CASE marks' = [marks EXCEPT !.inForce = @ \/ r \in marks.fresh, !.fresh = @ \ {r},
                                        !.misled = FALSE]
        BY <3>2
      <3>3. CASE marks' = [marks EXCEPT !.fresh = @ \ {r}]
        BY <3>3
      <3> QED
        BY <1>12, <3>1, <3>2, <3>3 DEF ApplySlots
    <2> QED
      BY <1>1, <1>12, <2>1, <2>2 DEF ApplySlots, Faulty
  <1>13. CASE RefreshStops(r)
    <2>1. refresh' \in [Refresher -> [pc : Places, limit : Limit]]
      BY <1>13 DEF RefreshStops, GoTo, Places
    <2>2. marks' \in [unsaved : BOOLEAN, misled : BOOLEAN, unlimited : BOOLEAN,
                      fresh : SUBSET Refresher, inForce : BOOLEAN]
      BY <1>13 DEF RefreshStops
    <2> QED
      BY <1>1, <1>13, <2>1, <2>2 DEF RefreshStops, Faulty
  <1> QED
    BY <1>2, <1>3, <1>4, <1>5, <1>6, <1>7, <1>8, <1>9, <1>10, <1>11, <1>12, <1>13 DEF RefreshOf

(* A step of a refresh keeps the invariant. *)
LEMMA RefreshStepInv ==
  ASSUME RuntimeInv, NEW r \in Refresher, RefreshOf(r)
  PROVE  RuntimeInv'
  <1> USE DEF RuntimeInv, Places, At
  <1>t. Types /\ Types'
    BY RefreshTypes
  <1>u. DownIsEmpty' /\ SettingsAreSaved' /\ settings' = settings /\ daemonUp' = daemonUp
    BY RefreshIsUp DEF DownIsEmpty, SettingsAreSaved, configured
  <1>1. CASE EnsureRuntime(r)
    <2>m. \A s \in Refresher : s # r => refresh'[s] = refresh[s]
      BY <1>1, <1>t DEF EnsureRuntime, Spawn, RuntimeFree, Types, GoTo
    <2>1. Mutex'
      BY <1>1, <1>t, <1>u, <2>m DEF EnsureRuntime, Spawn, RuntimeFree, GoTo, Types, Mutex, Holding
    <2>2. StartedWithNotedSlots'
      BY <1>1, <1>t, <1>u, <2>m DEF EnsureRuntime, Spawn, RuntimeFree, GoTo, Types, StartedWithNotedSlots, Starting
    <2>3. LiveHasSlots'
      BY <1>1, <1>t, <1>u, <2>m DEF EnsureRuntime, Spawn, RuntimeFree, GoTo, Types, LiveHasSlots
    <2>4. NotedIsTrue'
      BY <1>1, <1>t, <1>u, <2>m DEF EnsureRuntime, Spawn, RuntimeFree, GoTo, Types, NotedIsTrue, Starting, NoAria
    <2>5. FreshBringsTheLimit'
      BY <1>1, <1>t, <1>u, <2>m DEF EnsureRuntime, Spawn, RuntimeFree, GoTo, Types, FreshBringsTheLimit
    <2>6. ReadyHasProcess'
      BY <1>1, <1>t, <1>u, <2>m DEF EnsureRuntime, Spawn, RuntimeFree, GoTo, Types, ReadyHasProcess
    <2> QED
      BY <1>t, <1>u, <2>1, <2>2, <2>3, <2>4, <2>5, <2>6
  <1>2. CASE SpawnRefused(r)
    <2>m. \A s \in Refresher : s # r => refresh'[s] = refresh[s]
      BY <1>2, <1>t DEF SpawnRefused, Fails, RuntimeFree, Types, GoTo
    <2>1. Mutex'
      BY <1>2, <1>t, <1>u, <2>m DEF SpawnRefused, Fails, RuntimeFree, GoTo, Types, Mutex, Holding
    <2>2. StartedWithNotedSlots'
      BY <1>2, <1>t, <1>u, <2>m DEF SpawnRefused, Fails, RuntimeFree, GoTo, Types, StartedWithNotedSlots, Starting
    <2>3. LiveHasSlots'
      BY <1>2, <1>t, <1>u, <2>m DEF SpawnRefused, Fails, RuntimeFree, GoTo, Types, LiveHasSlots
    <2>4. NotedIsTrue'
      BY <1>2, <1>t, <1>u, <2>m DEF SpawnRefused, Fails, RuntimeFree, GoTo, Types, NotedIsTrue, Starting
    <2>5. FreshBringsTheLimit'
      BY <1>2, <1>t, <1>u, <2>m DEF SpawnRefused, Fails, RuntimeFree, GoTo, Types, FreshBringsTheLimit
    <2>6. ReadyHasProcess'
      BY <1>2, <1>t, <1>u, <2>m DEF SpawnRefused, Fails, RuntimeFree, GoTo, Types, ReadyHasProcess
    <2> QED
      BY <1>t, <1>u, <2>1, <2>2, <2>3, <2>4, <2>5, <2>6
  <1>3. CASE SpawnReady(r)
    <2>m. \A s \in Refresher : s # r => refresh'[s] = refresh[s]
      BY <1>3, <1>t DEF SpawnReady, Types, GoTo
    <2>1. Mutex'
      BY <1>3, <1>t, <1>u, <2>m DEF SpawnReady, GoTo, Types, Mutex, Holding
    <2>2. StartedWithNotedSlots'
      BY <1>3, <1>t, <1>u, <2>m DEF SpawnReady, GoTo, Types, StartedWithNotedSlots, Starting, Mutex, Holding
    <2>3. LiveHasSlots'
      BY <1>3, <1>t, <1>u, <2>m DEF SpawnReady, GoTo, Types, LiveHasSlots, StartedWithNotedSlots, Starting
    <2>4. NotedIsTrue'
      BY <1>3, <1>t, <1>u, <2>m DEF SpawnReady, GoTo, Types, NotedIsTrue, Starting, StartedWithNotedSlots, Mutex, Holding
    <2>5. FreshBringsTheLimit'
      BY <1>3, <1>t, <1>u, <2>m DEF SpawnReady, GoTo, Types, FreshBringsTheLimit
    <2>6. ReadyHasProcess'
      BY <1>3, <1>t, <1>u, <2>m DEF SpawnReady, GoTo, Types, ReadyHasProcess, StartedWithNotedSlots, Starting, NoAria
    <2> QED
      BY <1>t, <1>u, <2>1, <2>2, <2>3, <2>4, <2>5, <2>6
  <1>4. CASE SpawnFails(r)
    <2>m. \A s \in Refresher : s # r => refresh'[s] = refresh[s]
      BY <1>4, <1>t DEF SpawnFails, Fails, Types, GoTo
    <2>a. (aria # NoAria => marks'.misled) /\ (marks.misled => marks'.misled)
      BY <1>4, <1>t DEF SpawnFails, Types
    <2>b. aria' = aria /\ desired' = desired /\ marks'.unlimited = marks.unlimited
      BY <1>4, <1>t DEF SpawnFails, Types
    <2>1. Mutex'
      BY <1>4, <1>t, <1>u, <2>m DEF SpawnFails, Fails, GoTo, Types, Mutex, Holding
    <2>2. StartedWithNotedSlots'
      BY <1>4, <1>t, <1>u, <2>m DEF SpawnFails, Fails, GoTo, Types, StartedWithNotedSlots, Starting, Mutex, Holding
    <2>3. LiveHasSlots'
      BY <1>4, <1>t, <1>u, <2>m DEF SpawnFails, Fails, GoTo, Types, LiveHasSlots
    <2>4. NotedIsTrue'
      BY <2>a, <2>b DEF NotedIsTrue, NoAria
    <2>5. FreshBringsTheLimit'
      BY <1>4, <1>t, <1>u, <2>m DEF SpawnFails, Fails, GoTo, Types, FreshBringsTheLimit
    <2>6. ReadyHasProcess'
      BY <1>4, <1>t, <1>u, <2>m DEF SpawnFails, Fails, GoTo, Types, ReadyHasProcess, NoAria
    <2> QED
      BY <1>t, <1>u, <2>1, <2>2, <2>3, <2>4, <2>5, <2>6
  <1>5. CASE FindRunning(r)
    <2>m. \A s \in Refresher : s # r => refresh'[s] = refresh[s]
      BY <1>5, <1>t DEF FindRunning, Types, GoTo
    <2>1. Mutex'
      BY <1>5, <1>t, <1>u, <2>m DEF FindRunning, GoTo, Types, Mutex, Holding
    <2>2. StartedWithNotedSlots'
      BY <1>5, <1>t, <1>u, <2>m DEF FindRunning, GoTo, Types, StartedWithNotedSlots, Starting
    <2>3. LiveHasSlots'
      BY <1>5, <1>t, <1>u, <2>m DEF FindRunning, GoTo, Types, LiveHasSlots
    <2>4. NotedIsTrue'
      BY <1>5, <1>t, <1>u, <2>m DEF FindRunning, GoTo, Types, NotedIsTrue, Starting
    <2>5. FreshBringsTheLimit'
      BY <1>5, <1>t, <1>u, <2>m DEF FindRunning, GoTo, Types, FreshBringsTheLimit
    <2>6. ReadyHasProcess'
      BY <1>5, <1>t, <1>u, <2>m DEF FindRunning, GoTo, Types, ReadyHasProcess
    <2> QED
      BY <1>t, <1>u, <2>1, <2>2, <2>3, <2>4, <2>5, <2>6
  <1>6. CASE NoticeExit(r)
    <2>m. \A s \in Refresher : s # r => refresh'[s] = refresh[s]
      BY <1>6, <1>t DEF NoticeExit, RuntimeFree, Types, GoTo
    <2>1. Mutex'
      BY <1>6, <1>t, <1>u, <2>m DEF NoticeExit, RuntimeFree, GoTo, Types, Mutex, Holding
    <2>2. StartedWithNotedSlots'
      BY <1>6, <1>t, <1>u, <2>m DEF NoticeExit, RuntimeFree, GoTo, Types, StartedWithNotedSlots, Starting
    <2>3. LiveHasSlots'
      BY <1>6, <1>t, <1>u, <2>m DEF NoticeExit, RuntimeFree, GoTo, Types, LiveHasSlots, NoAria
    <2>4. NotedIsTrue'
      BY <1>6, <1>t, <1>u, <2>m DEF NoticeExit, RuntimeFree, GoTo, Types, NotedIsTrue, Starting, NoAria
    <2>5. FreshBringsTheLimit'
      BY <1>6, <1>t, <1>u, <2>m DEF NoticeExit, RuntimeFree, GoTo, Types, FreshBringsTheLimit
    <2>6. ReadyHasProcess'
      BY <1>6, <1>t, <1>u, <2>m DEF NoticeExit, RuntimeFree, GoTo, Types, ReadyHasProcess
    <2> QED
      BY <1>t, <1>u, <2>1, <2>2, <2>3, <2>4, <2>5, <2>6
  <1>7. CASE Respawn(r)
    <2>m. \A s \in Refresher : s # r => refresh'[s] = refresh[s]
      BY <1>7, <1>t DEF Respawn, Spawn, RuntimeFree, Types, GoTo
    <2>1. Mutex'
      BY <1>7, <1>t, <1>u, <2>m DEF Respawn, Spawn, RuntimeFree, GoTo, Types, Mutex, Holding
    <2>2. StartedWithNotedSlots'
      BY <1>7, <1>t, <1>u, <2>m DEF Respawn, Spawn, RuntimeFree, GoTo, Types, StartedWithNotedSlots, Starting
    <2>3. LiveHasSlots'
      BY <1>7, <1>t, <1>u, <2>m DEF Respawn, Spawn, RuntimeFree, GoTo, Types, LiveHasSlots
    <2>4. NotedIsTrue'
      BY <1>7, <1>t, <1>u, <2>m DEF Respawn, Spawn, RuntimeFree, GoTo, Types, NotedIsTrue, Starting, FreshBringsTheLimit
    <2>5. FreshBringsTheLimit'
      BY <1>7, <1>t, <1>u, <2>m DEF Respawn, Spawn, RuntimeFree, GoTo, Types, FreshBringsTheLimit
    <2>6. ReadyHasProcess'
      BY <1>7, <1>t, <1>u, <2>m DEF Respawn, Spawn, RuntimeFree, GoTo, Types, ReadyHasProcess
    <2> QED
      BY <1>t, <1>u, <2>1, <2>2, <2>3, <2>4, <2>5, <2>6
  <1>8. CASE TakeRuntimeOf(r)
    <2>m. \A s \in Refresher : s # r => refresh'[s] = refresh[s]
      BY <1>8, <1>t DEF TakeRuntimeOf, Fails, RuntimeFree, Types, GoTo
    <2>1. Mutex'
      BY <1>8, <1>t, <1>u, <2>m DEF TakeRuntimeOf, Fails, RuntimeFree, GoTo, Types, Mutex, Holding
    <2>2. StartedWithNotedSlots'
      BY <1>8, <1>t, <1>u, <2>m DEF TakeRuntimeOf, Fails, RuntimeFree, GoTo, Types, StartedWithNotedSlots, Starting
    <2>3. LiveHasSlots'
      BY <1>8, <1>t, <1>u, <2>m DEF TakeRuntimeOf, Fails, RuntimeFree, GoTo, Types, LiveHasSlots
    <2>4. NotedIsTrue'
      BY <1>8, <1>t, <1>u, <2>m DEF TakeRuntimeOf, Fails, RuntimeFree, GoTo, Types, NotedIsTrue, Starting
    <2>5. FreshBringsTheLimit'
      BY <1>8, <1>t, <1>u, <2>m DEF TakeRuntimeOf, Fails, RuntimeFree, GoTo, Types, FreshBringsTheLimit
    <2>6. ReadyHasProcess'
      BY <1>8, <1>t, <1>u, <2>m DEF TakeRuntimeOf, Fails, RuntimeFree, GoTo, Types, ReadyHasProcess
    <2> QED
      BY <1>t, <1>u, <2>1, <2>2, <2>3, <2>4, <2>5, <2>6
  <1>9. CASE ListDownloads(r)
    <2>m. \A s \in Refresher : s # r => refresh'[s] = refresh[s]
      BY <1>9, <1>t DEF ListDownloads, Types, GoTo
    <2>1. Mutex'
      BY <1>9, <1>t, <1>u, <2>m DEF ListDownloads, GoTo, Types, Mutex, Holding
    <2>2. StartedWithNotedSlots'
      BY <1>9, <1>t, <1>u, <2>m DEF ListDownloads, GoTo, Types, StartedWithNotedSlots, Starting
    <2>3. LiveHasSlots'
      BY <1>9, <1>t, <1>u, <2>m DEF ListDownloads, GoTo, Types, LiveHasSlots
    <2>4. NotedIsTrue'
      BY <1>9, <1>t, <1>u, <2>m DEF ListDownloads, GoTo, Types, NotedIsTrue, Starting
    <2>5. FreshBringsTheLimit'
      BY <1>9, <1>t, <1>u, <2>m DEF ListDownloads, GoTo, Types, FreshBringsTheLimit, Mutex, Holding
    <2>6. ReadyHasProcess'
      BY <1>9, <1>t, <1>u, <2>m DEF ListDownloads, GoTo, Types, ReadyHasProcess
    <2> QED
      BY <1>t, <1>u, <2>1, <2>2, <2>3, <2>4, <2>5, <2>6
  <1>10. CASE ApplyLimit(r)
    <2>m. \A s \in Refresher : s # r => refresh'[s] = refresh[s]
      BY <1>10, <1>t DEF ApplyLimit, Types, GoTo
    <2>a. /\ aria'.alive = aria.alive /\ aria'.slots = aria.slots
          /\ desired'.slots = desired.slots /\ desired'.limit = refresh[r].limit
          /\ marks'.misled = marks.misled /\ marks'.inForce = marks.inForce
      BY <1>10, <1>t DEF ApplyLimit, Types, Process
    <2>b. marks'.unlimited \/ aria'.limit = desired'.limit \/ ~aria.alive
      BY <1>10, <1>t DEF ApplyLimit, Types, Process, NotedIsTrue
    <2>c. \A s \in Refresher : ~Starting(s)
      BY <1>10 DEF ApplyLimit, Mutex, Holding, Starting
    <2>1. Mutex'
      BY <1>10, <1>t, <1>u, <2>m DEF ApplyLimit, GoTo, Types, Mutex, Holding
    <2>2. StartedWithNotedSlots'
      BY <1>10, <1>t, <1>u, <2>m DEF ApplyLimit, GoTo, Types, StartedWithNotedSlots, Starting
    <2>3. LiveHasSlots'
      BY <2>a DEF LiveHasSlots
    <2>4. NotedIsTrue'
      BY <2>a, <2>b, <2>c DEF NotedIsTrue
    <2>5. FreshBringsTheLimit'
      BY <1>10, <1>t, <1>u, <2>m DEF ApplyLimit, GoTo, Types, FreshBringsTheLimit, Mutex, Holding
    <2>6. ReadyHasProcess'
      BY <1>10, <1>t, <1>u, <2>m DEF ApplyLimit, GoTo, Types, ReadyHasProcess, NoAria
    <2> QED
      BY <1>t, <1>u, <2>1, <2>2, <2>3, <2>4, <2>5, <2>6
  <1>11. CASE ApplySlots(r)
    <2>m. \A s \in Refresher : s # r => refresh'[s] = refresh[s]
      BY <1>11, <1>t DEF ApplySlots, Types, GoTo
    <2>a. /\ aria'.alive = aria.alive /\ aria'.limit = aria.limit
          /\ desired'.limit = desired.limit
          /\ marks'.unlimited = marks.unlimited /\ marks'.fresh = marks.fresh \ {r}
      <3>1. /\ aria'.alive = aria.alive /\ aria'.limit = aria.limit
            /\ desired'.limit = desired.limit
        BY <1>11, <1>t DEF ApplySlots, Types, Process
      <3>2. marks'.unlimited = marks.unlimited
        BY <1>11, <1>t DEF ApplySlots, Types
      <3>3. marks'.fresh = marks.fresh \ {r}
        BY <1>11, <1>t DEF ApplySlots, Types
      <3> QED
        BY <3>1, <3>2, <3>3
    <2>b. \/ aria'.slots = aria.slots /\ desired'.slots = desired.slots /\ marks'.misled = marks.misled
          \/ aria'.slots = settings.slots /\ desired'.slots = settings.slots
      BY <1>11, <1>t DEF ApplySlots, Types, Process
    <2>c. marks'.inForce => marks.inForce \/ (r \in marks.fresh /\ desired'.slots = settings.slots)
      BY <1>11, <1>t DEF ApplySlots, Types
    <2>d. \A s \in Refresher : ~Starting(s)
      BY <1>11 DEF ApplySlots, Mutex, Holding, Starting
    <2>1. Mutex'
      BY <1>11, <1>t, <1>u, <2>m DEF ApplySlots, GoTo, Types, Mutex, Holding
    <2>2. StartedWithNotedSlots'
      BY <1>11, <1>t, <1>u, <2>m DEF ApplySlots, GoTo, Types, StartedWithNotedSlots, Starting, Mutex, Holding
    <2>3. LiveHasSlots'
      <3>1. settings.slots # 0
        BY <1>t DEF Types
      <3> QED
        BY <2>a, <2>b, <3>1 DEF LiveHasSlots
    <2>4. NotedIsTrue'
      BY <2>a, <2>b, <2>d DEF NotedIsTrue
    <2>5. FreshBringsTheLimit'
      <3>1. \A s \in Refresher : refresh'[s].pc # "limit"
        BY <1>11, <1>t, <2>m DEF ApplySlots, GoTo, Types, Mutex, Holding
      <3>2. \A s \in Refresher : refresh'[s].pc # "slots"
        BY <1>11, <1>t, <2>m DEF ApplySlots, GoTo, Types, Mutex, Holding
      <3>3. marks'.inForce => desired'.limit = settings.limit
        BY <1>11, <2>a, <2>c DEF ApplySlots, FreshBringsTheLimit
      <3>4. marks'.inForce => desired'.slots = settings.slots
        BY <2>b, <2>c DEF FreshBringsTheLimit
      <3>5. marks'.fresh \subseteq Refresher
        BY <1>t DEF Types
      <3> QED
        BY <1>u, <3>1, <3>2, <3>3, <3>4, <3>5 DEF FreshBringsTheLimit
    <2>6. ReadyHasProcess'
      BY <1>11, <1>t, <1>u, <2>m DEF ApplySlots, GoTo, Types, ReadyHasProcess, NoAria
    <2> QED
      BY <1>t, <1>u, <2>1, <2>2, <2>3, <2>4, <2>5, <2>6
  <1>12. CASE RefreshStops(r)
    <2>m. \A s \in Refresher : s # r => refresh'[s] = refresh[s]
      BY <1>12, <1>t DEF RefreshStops, Types, GoTo
    <2>1. Mutex'
      BY <1>12, <1>t, <1>u, <2>m DEF RefreshStops, GoTo, Types, Mutex, Holding
    <2>2. StartedWithNotedSlots'
      BY <1>12, <1>t, <1>u, <2>m DEF RefreshStops, GoTo, Types, StartedWithNotedSlots, Starting
    <2>3. LiveHasSlots'
      BY <1>12, <1>t, <1>u, <2>m DEF RefreshStops, GoTo, Types, LiveHasSlots
    <2>4. NotedIsTrue'
      BY <1>12, <1>t, <1>u, <2>m DEF RefreshStops, GoTo, Types, NotedIsTrue, Starting
    <2>5. FreshBringsTheLimit'
      BY <1>12, <1>t, <1>u, <2>m DEF RefreshStops, GoTo, Types, FreshBringsTheLimit
    <2>6. ReadyHasProcess'
      BY <1>12, <1>t, <1>u, <2>m DEF RefreshStops, GoTo, Types, ReadyHasProcess
    <2> QED
      BY <1>t, <1>u, <2>1, <2>2, <2>3, <2>4, <2>5, <2>6
  <1> QED
    BY <1>1, <1>2, <1>3, <1>4, <1>5, <1>6, <1>7, <1>8, <1>9, <1>10, <1>11, <1>12 DEF RefreshOf

-----------------------------------------------------------------------------
(***************************************************************************)
(* The steps of the requests, of the process and of the daemon.            *)
(***************************************************************************)
LEMMA PollTickInv ==
  ASSUME RuntimeInv, PollTick
  PROVE  RuntimeInv'
  <1> USE DEF RuntimeInv, PollTick, Places, At, configured
  <1> /\ Poller \in Refresher
      /\ \A s \in Refresher : s # Poller => refresh'[s] = refresh[s]
    BY DEF Refresher, GoTo, Types
  <1>1. Types' /\ refresh'[Poller].pc = "ensure"
    BY DEF Types, GoTo
  <1>2. Mutex' /\ StartedWithNotedSlots' /\ NotedIsTrue'
    BY <1>1 DEF Mutex, Holding, StartedWithNotedSlots, NotedIsTrue, Starting, Types
  <1>3. FreshBringsTheLimit'
    BY <1>1 DEF FreshBringsTheLimit, Types
  <1>4. LiveHasSlots' /\ DownIsEmpty' /\ ReadyHasProcess' /\ SettingsAreSaved'
    BY DEF LiveHasSlots, DownIsEmpty, ReadyHasProcess, SettingsAreSaved, Types
  <1> QED
    BY <1>1, <1>2, <1>3, <1>4

(* An edit of the settings keeps it, whether it could be saved or not. *)
LEMMA ChangeSettingsInv ==
  ASSUME RuntimeInv, NEW c \in Client, ChangeSettings(c)
  PROVE  RuntimeInv'
  <1> USE DEF RuntimeInv, ChangeSettings, MayChange, Counted, Places, At
  <1> c \in Refresher
    BY DEF Refresher
  <1>a. marks' \in [unsaved : BOOLEAN, misled : BOOLEAN, unlimited : BOOLEAN,
                    fresh : SUBSET Refresher, inForce : BOOLEAN]
    <2>1. CASE marks' = [marks EXCEPT !.unsaved = FALSE, !.fresh = {c}, !.inForce = FALSE]
      BY <2>1 DEF Types
    <2>2. CASE marks' = [marks EXCEPT !.unsaved = TRUE, !.fresh = {}, !.inForce = FALSE]
      BY <2>2 DEF Types
    <2> QED
      BY <2>1, <2>2
  <1>b. budget' \in [changes : 0 .. MaxChanges, faults : 0 .. MaxFaults]
    <2>1. budget.changes \in 0 .. MaxChanges - 1 /\ budget.faults \in 0 .. MaxFaults
      BY DEF Types
    <2>2. PICK cost \in {0, 1} : Counted(cost) /\ (cost = 1 => budget.faults < MaxFaults)
      OBVIOUS
    <2>3. budget' = [changes |-> budget.changes + 1, faults |-> budget.faults + cost]
      BY <2>2 DEF Types
    <2>4. budget.changes + 1 \in 0 .. MaxChanges /\ budget.faults + cost \in 0 .. MaxFaults
      BY <2>1, <2>2
    <2> QED
      BY <2>3, <2>4
  <1>c. refresh' \in [Refresher -> [pc : Places, limit : Limit]]
    BY DEF Types, GoTo
  <1>d. stateFile' \in [limit : Limit, slots : Slots]
    BY DEF Types
  <1>e. Types'
    BY <1>a, <1>b, <1>c, <1>d DEF Types
  <1>1. /\ marks'.fresh \subseteq {c} /\ ~marks'.inForce /\ marks'.misled = marks.misled
        /\ marks'.unlimited = marks.unlimited
    BY DEF Types
  <1>f. ~marks'.unsaved => stateFile' = settings'
    BY DEF Types
  <1>2. refresh'[c].pc \in {"idle", "ensure"} /\ \A s \in Refresher : s # c => refresh'[s] = refresh[s]
    BY DEF Types, GoTo
  <1>3. Mutex' /\ StartedWithNotedSlots' /\ NotedIsTrue'
    BY <1>1, <1>2 DEF Mutex, Holding, StartedWithNotedSlots, NotedIsTrue, Starting
  <1>4. FreshBringsTheLimit'
    BY <1>1, <1>2 DEF FreshBringsTheLimit
  <1>5. LiveHasSlots' /\ DownIsEmpty' /\ ReadyHasProcess' /\ SettingsAreSaved'
    BY <1>f DEF LiveHasSlots, DownIsEmpty, ReadyHasProcess, SettingsAreSaved
  <1> QED
    BY <1>e, <1>3, <1>4, <1>5

(* The end of the aria2 process keeps it. *)
LEMMA ProcessExitsInv ==
  ASSUME RuntimeInv, ProcessExits
  PROVE  RuntimeInv'
  <1> USE DEF RuntimeInv, ProcessExits, configured
  <1>1. ~aria'.alive /\ aria'.slots # 0
    BY DEF Types, Process, LiveHasSlots
  <1>2. Types'
    <2>1. aria' \in Process
      BY DEF Types, Process
    <2>2. budget' \in [changes : 0 .. MaxChanges, faults : 0 .. MaxFaults]
      BY DEF Types, Faulty
    <2> QED
      BY <2>1, <2>2 DEF Types
  <1>3. Mutex' /\ StartedWithNotedSlots' /\ FreshBringsTheLimit'
    BY DEF Mutex, StartedWithNotedSlots, Starting, FreshBringsTheLimit, At
  <1>4. LiveHasSlots' /\ NotedIsTrue' /\ DownIsEmpty' /\ ReadyHasProcess' /\ SettingsAreSaved'
    BY <1>1 DEF LiveHasSlots, NotedIsTrue, DownIsEmpty, ReadyHasProcess, SettingsAreSaved, NoAria
  <1> QED
    BY <1>2, <1>3, <1>4

(* The end of the daemon keeps it: the process goes with the manager. *)
LEMMA DaemonStopsInv ==
  ASSUME RuntimeInv, DaemonStops
  PROVE  RuntimeInv'
  <1> USE DEF RuntimeInv, DaemonStops, At
  <1>1. \A r \in Refresher : refresh'[r].pc = "idle"
    BY DEF Resting
  <1>2. refresh' \in [Refresher -> [pc : Places, limit : Limit]]
    BY DEF Resting, Places
  <1>3. aria' \in Process /\ spawning' \in Process
    BY DEF Process, NoAria
  <1>4. budget' \in [changes : 0 .. MaxChanges, faults : 0 .. MaxFaults]
    BY DEF Types, Faulty
  <1>5. Types'
    BY <1>2, <1>3, <1>4 DEF Types
  <1>6. Mutex' /\ StartedWithNotedSlots' /\ LiveHasSlots' /\ NotedIsTrue'
    BY <1>1 DEF Mutex, Holding, StartedWithNotedSlots, Starting, LiveHasSlots, NotedIsTrue, NoAria
  <1>7. FreshBringsTheLimit'
    BY <1>1 DEF FreshBringsTheLimit, Types
  <1>8. DownIsEmpty' /\ ReadyHasProcess' /\ SettingsAreSaved'
    BY DEF DownIsEmpty, ReadyHasProcess, SettingsAreSaved
  <1> QED
    BY <1>5, <1>6, <1>7, <1>8

(* A restart keeps it: the settings come from the file. *)
LEMMA DaemonStartsInv ==
  ASSUME RuntimeInv, DaemonStarts
  PROVE  RuntimeInv'
  <1> USE DEF RuntimeInv, DaemonStarts
  <1>1. aria = NoAria /\ refresh = Resting
    BY DEF DownIsEmpty
  <1>2. Types'
    BY DEF Types, NoMarks
  <1>3. Mutex' /\ StartedWithNotedSlots' /\ LiveHasSlots' /\ NotedIsTrue' /\ FreshBringsTheLimit'
    BY <1>1 DEF Mutex, Holding, StartedWithNotedSlots, Starting, LiveHasSlots, NotedIsTrue,
                FreshBringsTheLimit, NoAria, NoMarks, Resting
  <1>4. DownIsEmpty' /\ ReadyHasProcess' /\ SettingsAreSaved'
    BY DEF DownIsEmpty, ReadyHasProcess, SettingsAreSaved, NoMarks
  <1> QED
    BY <1>2, <1>3, <1>4

(* Every step keeps the invariant. *)
LEMMA RuntimeStepInv == RuntimeInv /\ [RuntimeNext]_runtimeVars => RuntimeInv'
  <1> SUFFICES ASSUME RuntimeInv, [RuntimeNext]_runtimeVars PROVE RuntimeInv'
    OBVIOUS
  <1>1. CASE UNCHANGED runtimeVars
    BY <1>1 DEF runtimeVars, RuntimeInv, Types, Mutex, StartedWithNotedSlots, Starting, LiveHasSlots,
                DownIsEmpty, NotedIsTrue, FreshBringsTheLimit, ReadyHasProcess, SettingsAreSaved, At
  <1> QED
    BY <1>1, PollTickInv, ChangeSettingsInv, RefreshStepInv, ProcessExitsInv, DaemonStopsInv,
       DaemonStartsInv DEF RuntimeNext

-----------------------------------------------------------------------------
(***************************************************************************)
(* Every reachable state satisfies the inductive invariant.                *)
(***************************************************************************)
THEOREM RuntimeInvariant == RuntimeSpec => []RuntimeInv
  BY RuntimeInitInv, RuntimeStepInv, PTL DEF RuntimeSpec

(***************************************************************************)
(* Type correctness, with it that at most one refresh at a time holds the  *)
(* runtime mutex through its start, its listing and its settings.          *)
(***************************************************************************)
THEOREM RuntimeTypes == RuntimeSpec => []RuntimeTypeOK
  <1>1. RuntimeInv => RuntimeTypeOK
    BY TypesSuffice DEF RuntimeInv
  <1> QED
    BY <1>1, RuntimeInvariant, PTL

(***************************************************************************)
(* However many clients change the settings while aria2 exits, fails to    *)
(* start and is listed by others: once a refresh begun after the last      *)
(* change has ended well, aria2 works under the settings, save for the two *)
(* exceptions.                                                             *)
(***************************************************************************)
THEOREM SettingsReachAria == RuntimeSpec => []SettingsInForce
  <1>1. RuntimeInv => SettingsInForce
    BY DEF RuntimeInv, NotedIsTrue, FreshBringsTheLimit, SettingsInForce
  <1> QED
    BY <1>1, RuntimeInvariant, PTL

(***************************************************************************)
(* The snapshot never calls a runtime ready that has no process.           *)
(***************************************************************************)
THEOREM ReadyIsTrue == RuntimeSpec => []ReadyHasProcess
  <1>1. RuntimeInv => ReadyHasProcess
    BY DEF RuntimeInv
  <1> QED
    BY <1>1, RuntimeInvariant, PTL

(***************************************************************************)
(* What the daemon works with is what it would start again with, or a      *)
(* client was told that its change was not saved.                          *)
(***************************************************************************)
THEOREM SettingsSurviveRestarts == RuntimeSpec => []SettingsAreSaved
  <1>1. RuntimeInv => SettingsAreSaved
    BY DEF RuntimeInv
  <1> QED
    BY <1>1, RuntimeInvariant, PTL
=============================================================================
