---------------------------- MODULE AddRequests ----------------------------
(***************************************************************************)
(* "download add" with an idempotency key (AddDownload in                  *)
(* src/daemon/reconcile.rs).  Every connection is served by a task of its  *)
(* own: the key is looked up at the start and recorded after the download  *)
(* has been added and a refresh has listed it, so that requests with one    *)
(* key overlap in every way.  Keys are kept in memory only.                *)
(***************************************************************************)
EXTENDS Naturals

CONSTANTS
    Handler,        \* connections
    Key,            \* idempotency keys
    MaxGids,        \* BOUND: downloads added
    MaxAddFaults    \* BOUND: refused calls, failed and partial refreshes, restarts

ASSUME AddAssumption == Key # {} /\ "none" \notin Key /\ {MaxGids, MaxAddFaults} \subseteq Nat

Unknown == 0
Added == 1 .. MaxGids
AnyGid == Added \cup {Unknown}

VARIABLES
    handler,        \* the request each connection is serving
    keys,           \* cli_idempotency: the gid recorded for each key
    state,          \* what aria2 or the torrent engine knows of each download
    keyOf,          \* history variable: the key each download was added for
    listed,          \* current_downloads and history_downloads of the snapshot
    answered,       \* history variable: the last gid promised for each key
    addFaults

addVars == <<handler, keys, state, keyOf, listed, answered, addFaults>>

Free == [stage |-> "free", key |-> CHOOSE k \in Key : TRUE, gid |-> Unknown, after |-> Unknown]
AddTypeOK ==
    /\ handler \in [Handler -> [stage : {"free", "key", "find", "resolve", "submit", "pause",
                                         "refresh", "record"},
                                key : Key, gid : AnyGid, after : AnyGid]]
    /\ keys \in [Key -> AnyGid] /\ answered \in [Key -> AnyGid]
    /\ state \in [Added -> {"none", "current", "ended", "gone"}]
    /\ keyOf \in [Added -> Key \cup {"none"}]
    /\ listed \in [current : SUBSET Added, past : SUBSET Added]
    /\ addFaults \in 0 .. MaxAddFaults

AddInit ==
    /\ handler = [c \in Handler |-> Free]
    /\ keys = [k \in Key |-> Unknown] /\ answered = keys
    /\ state = [g \in Added |-> "none"] /\ keyOf = [g \in Added |-> "none"]
    /\ listed = [current |-> {}, past |-> {}] /\ addFaults = 0

Goes(c, stage) == handler' = [handler EXCEPT ![c].stage = stage]
Answer(c) == handler' = [handler EXCEPT ![c] = Free]
InStage(c, stage) == handler[c].stage = stage
GoesWrong == addFaults < MaxAddFaults /\ addFaults' = addFaults + 1
With(s) == {g \in Added : state[g] = s}

-----------------------------------------------------------------------------
(* The requests, one await at a time. *)

SendAdd(c, k) ==
    /\ InStage(c, "free")
    /\ handler' = [handler EXCEPT ![c] = [Free EXCEPT !.stage = "key", !.key = k,
                                                      !.after = answered[k]]]
    /\ UNCHANGED <<keys, state, keyOf, listed, answered, addFaults>>

Lookup(c) ==
    /\ InStage(c, "key")
    /\ LET g == keys[handler[c].key]
       IN  handler' = [handler EXCEPT ![c].gid = g,
                                      ![c].stage = IF g = Unknown THEN "resolve" ELSE "find"]
    /\ UNCHANGED <<keys, state, keyOf, listed, answered, addFaults>>

(* A download of either list is answered with "created: false". *)
FoundCurrent(c) == handler[c].gid \in listed.current
Found(c) == handler[c].gid \in listed.current \cup listed.past

Find(c) ==
    /\ InStage(c, "find")
    /\ IF Found(c) THEN Answer(c) ELSE Goes(c, "resolve")
    /\ UNCHANGED <<keys, state, keyOf, listed, answered, addFaults>>

(* The URL's kind, its route and the limit; any of them may be refused. *)
Resolve(c) ==
    /\ InStage(c, "resolve")
    /\ \/ Goes(c, "submit") /\ UNCHANGED addFaults
       \/ Answer(c) /\ GoesWrong
    /\ UNCHANGED <<keys, state, keyOf, listed, answered>>

(***************************************************************************)
(* aria2.addUri, or the torrent engine, which is asked to pause in a       *)
(* second call.  An answer of aria2 may be lost after it has added.        *)
(***************************************************************************)
Submit(c) ==
    /\ InStage(c, "submit") /\ With("none") # {}
    /\ LET g == CHOOSE h \in With("none") : \A i \in With("none") : h <= i
       IN  \/ /\ state' = [state EXCEPT ![g] = "current"]
              /\ keyOf' = [keyOf EXCEPT ![g] = handler[c].key]
              /\ \E next \in {"pause", "refresh"} :
                    handler' = [handler EXCEPT ![c].stage = next, ![c].gid = g]
              /\ UNCHANGED addFaults
           \/ /\ GoesWrong /\ Answer(c)
              /\ \/ /\ state' = [state EXCEPT ![g] = "current"]
                    /\ keyOf' = [keyOf EXCEPT ![g] = handler[c].key]
                 \/ UNCHANGED <<state, keyOf>>
    /\ UNCHANGED <<keys, listed, answered>>

PauseNew(c) ==
    /\ InStage(c, "pause")
    /\ \/ Goes(c, "refresh") /\ UNCHANGED addFaults
       \/ Answer(c) /\ GoesWrong
    /\ UNCHANGED <<keys, state, keyOf, listed, answered>>

(***************************************************************************)
(* A refresh publishes what is unfinished and what has ended; one that     *)
(* catches a download between two lists misses it (RefreshKeepsBatches of  *)
(* BatchQueue), and nothing is promised about that one's key any more.     *)
(***************************************************************************)
Refreshed ==
    \E missed \in SUBSET With("current") :
        /\ IF missed = {} THEN UNCHANGED addFaults ELSE GoesWrong
        /\ listed' = [current |-> With("current") \ missed, past |-> With("ended")]
        /\ answered' = [k \in Key |-> IF answered[k] \in missed THEN Unknown ELSE answered[k]]

RefreshAfterAdd(c) ==
    /\ InStage(c, "refresh")
    /\ \/ Refreshed /\ Goes(c, "record")
       \/ GoesWrong /\ Answer(c) /\ UNCHANGED <<listed, answered>>
    /\ UNCHANGED <<keys, state, keyOf>>

RecordKey(c) ==
    /\ InStage(c, "record")
    /\ keys' = [keys EXCEPT ![handler[c].key] = handler[c].gid]
    /\ answered' = [answered EXCEPT ![handler[c].key] =
                       IF handler[c].gid \in listed.current \cup listed.past
                          /\ state[handler[c].gid] # "gone"
                       THEN handler[c].gid ELSE Unknown]
    /\ Answer(c)
    /\ UNCHANGED <<state, keyOf, listed, addFaults>>

-----------------------------------------------------------------------------
(* The rest of the daemon. *)

DownloadEnds(g) ==
    /\ state[g] = "current" /\ state' = [state EXCEPT ![g] = "ended"]
    /\ UNCHANGED <<handler, keys, keyOf, listed, answered, addFaults>>

PollRefresh == Refreshed /\ UNCHANGED <<handler, keys, state, keyOf>>

(* Cancelled, or removed from the history. *)
RemoveDownload(g) ==
    /\ state[g] \in {"current", "ended"} /\ state' = [state EXCEPT ![g] = "gone"]
    /\ answered' = [k \in Key |-> IF answered[k] = g THEN Unknown ELSE answered[k]]
    /\ UNCHANGED <<handler, keys, keyOf, listed, addFaults>>

RestartDaemon ==
    /\ GoesWrong
    /\ handler' = [c \in Handler |-> Free]
    /\ keys' = [k \in Key |-> Unknown] /\ answered' = keys'
    /\ listed' = [current |-> {}, past |-> {}]
    /\ UNCHANGED <<state, keyOf>>

-----------------------------------------------------------------------------
AddNext ==
    \/ \E c \in Handler : \/ \E k \in Key : SendAdd(c, k)
                          \/ Lookup(c) \/ Find(c) \/ Resolve(c) \/ Submit(c) \/ PauseNew(c)
                          \/ RefreshAfterAdd(c) \/ RecordKey(c)
    \/ \E g \in Added : DownloadEnds(g) \/ RemoveDownload(g)
    \/ PollRefresh \/ RestartDaemon

AddSpec == AddInit /\ [][AddNext]_addVars

-----------------------------------------------------------------------------
(***************************************************************************)
(* A request sent after an answer for its key adds nothing while that is   *)
(* the last answer and its download exists, finished or not, whatever      *)
(* other requests with the key are still on their way                      *)
(* (ariatui-skill.md:234).                                                 *)
(***************************************************************************)
AnsweredKeyAddsNothing ==
    [][\A c \in Handler :
          InStage(c, "submit") /\ ~InStage(c, "submit")' /\ keyOf' # keyOf
              => handler[c].after = Unknown
                 \/ answered[handler[c].key] # handler[c].after]_addVars
=============================================================================
