-------------------------- MODULE Services_proofs --------------------------
(***************************************************************************)
(* Proofs about services of the daemon that share no state: adds with an   *)
(* idempotency key (module AddRequests), the torrents of the embedded      *)
(* engine (Torrents), how an interface finds or replaces its daemon        *)
(* (Bootstrap), pairing and sessions (WebAuth), each for any constants     *)
(* that satisfy the assumptions of its module; and, from these and the     *)
(* proofs about retries and the runtime, the type invariant of the whole   *)
(* of MCServices.                                                          *)
(***************************************************************************)
EXTENDS MCServices, Aria2Runtime_proofs, DownloadRetries_proofs, NaturalsInduction,
        WellFoundedInduction, TLAPS

-----------------------------------------------------------------------------
(* Adds with an idempotency key.                                           *)

(* Connections whose download has been added and is not yet recorded. *)
Holds(c) == handler[c].stage \in {"pause", "refresh", "record"}

(* What has been promised for a key is recorded for it, shown, and there. *)
PromisesKept ==
    \A k \in Key : answered[k] # Unknown =>
        /\ keys[k] = answered[k]
        /\ answered[k] \in listed.current \cup listed.past
        /\ state[answered[k]] \in {"current", "ended"}

(* What is shown, or was promised before a request, is a download. *)
GidsExist ==
    /\ \A g \in listed.current \cup listed.past : state[g] # "none"
    /\ \A c \in Handler : handler[c].after # Unknown => state[handler[c].after] # "none"

(***************************************************************************)
(* A download belongs to the one connection that added it until that one   *)
(* records it: nobody has been promised it before, so no promise can come  *)
(* back after it was replaced.                                             *)
(***************************************************************************)
HeldAreFresh ==
    \A c \in Handler : Holds(c) =>
        /\ handler[c].gid \in Added /\ state[handler[c].gid] # "none"
        /\ \A k \in Key : answered[k] # handler[c].gid
        /\ \A d \in Handler : handler[d].after # handler[c].gid
        /\ \A d \in Handler \ {c} : Holds(d) => handler[d].gid # handler[c].gid

(* The promise a request came after no longer stands. *)
Overtaken(c) == handler[c].after = Unknown \/ answered[handler[c].key] # handler[c].after

(* A request gets past the look-up only when that promise is overtaken. *)
AskersAreRight ==
    \A c \in Handler :
        /\ handler[c].stage = "find" => Overtaken(c) \/ handler[c].gid = handler[c].after
        /\ handler[c].stage \in {"resolve", "submit"} => Overtaken(c)

AddInv == AddTypeOK /\ PromisesKept /\ GidsExist /\ HeldAreFresh /\ AskersAreRight

-----------------------------------------------------------------------------
AddRequest == [stage : {"free", "key", "find", "resolve", "submit", "pause", "refresh", "record"},
            key : Key, gid : AnyGid, after : AnyGid]

(* The gid a new download gets is the first one that is not in use. *)
FirstFree == CHOOSE h \in With("none") : \A i \in With("none") : h <= i

(* The gid given to a new download is one nobody has. *)
LEMMA FirstFreeIsFree == ASSUME With("none") # {} PROVE FirstFree \in Added /\ state[FirstFree] = "none"
PROOF
<1> DEFINE Below == {ss \in Nat \X Nat : ss[1] < ss[2]}
<1>1. With("none") \subseteq Nat
  BY AddAssumption DEF With, Added
<1>2. IsWellFoundedOn(Below, Nat)
  BY NatLessThanWellFounded DEF OpToRel
<1>3. PICK h \in With("none") : \A i \in With("none") : ~(<<i, h>> \in Below)
  BY <1>1, <1>2, WFMin
<1>4. \A i \in With("none") : h <= i
  <2> SUFFICES ASSUME NEW i \in With("none") PROVE h <= i
    OBVIOUS
  <2>1. i \in Nat /\ h \in Nat /\ ~(<<i, h>> \in Below)
    BY <1>1, <1>3
  <2>2. ~(i < h)
    BY <2>1
  <2>3. QED
    BY <2>1, <2>2
<1>5. FirstFree \in With("none")
  BY <1>4 DEF FirstFree
<1>6. QED
  BY <1>5 DEF With

(* A connection that serves nothing. *)
LEMMA FreeIsARequest == /\ Free \in AddRequest
                        /\ Free.stage = "free" /\ Free.after = Unknown /\ Free.gid = Unknown
  BY AddAssumption DEF Free, AddRequest, AnyGid

(* The daemon starts with no requests, no keys and no downloads. *)
LEMMA AddsStart == ASSUME AddInit PROVE AddInv
PROOF
<1>1. AddTypeOK
  BY FreeIsARequest, AddAssumption DEF AddInit, AddTypeOK, AddRequest, AnyGid
<1>2. PromisesKept /\ GidsExist
  BY FreeIsARequest DEF AddInit, PromisesKept, GidsExist
<1>3. HeldAreFresh /\ AskersAreRight
  BY FreeIsARequest DEF AddInit, HeldAreFresh, AskersAreRight, Holds
<1>4. QED
  BY <1>1, <1>2, <1>3 DEF AddInv

-----------------------------------------------------------------------------
(***************************************************************************)
(* What a refresh publishes: downloads that exist; a promise stands only   *)
(* for one that is still shown.                                            *)
(***************************************************************************)
LEMMA RefreshedFacts ==
    ASSUME AddInv, Refreshed
    PROVE  /\ listed' \in [current : SUBSET Added, past : SUBSET Added]
           /\ addFaults' \in 0 .. MaxAddFaults
           /\ answered' \in [Key -> AnyGid]
           /\ \A g \in listed'.current \cup listed'.past : g \in Added /\ state[g] # "none"
           /\ \A k \in Key : answered'[k] = answered[k] \/ answered'[k] = Unknown
           /\ \A k \in Key : answered'[k] # Unknown =>
                  answered'[k] \in listed'.current \cup listed'.past
PROOF
<1>1. PICK missed \in SUBSET With("current") :
          /\ IF missed = {} THEN UNCHANGED addFaults ELSE GoesWrong
          /\ listed' = [current |-> With("current") \ missed, past |-> With("ended")]
          /\ answered' = [k \in Key |-> IF answered[k] \in missed THEN Unknown ELSE answered[k]]
  BY DEF Refreshed
<1>2. With("current") \subseteq Added /\ With("ended") \subseteq Added
  BY DEF With
<1>3. addFaults' \in 0 .. MaxAddFaults
  BY <1>1, AddAssumption DEF AddInv, AddTypeOK, GoesWrong
<1>4. answered' \in [Key -> AnyGid]
  BY <1>1 DEF AddInv, AddTypeOK, AnyGid
<1>5. \A k \in Key : answered'[k] # Unknown =>
          answered'[k] = answered[k] /\ answered[k] \notin missed
  BY <1>1
<1>6. \A k \in Key : answered[k] # Unknown => answered[k] \in With("current") \cup With("ended")
  <2> SUFFICES ASSUME NEW k \in Key, answered[k] # Unknown
               PROVE  answered[k] \in With("current") \cup With("ended")
    OBVIOUS
  <2>1. answered[k] \in Added
    BY DEF AddInv, AddTypeOK, AnyGid
  <2>2. QED
    BY <2>1 DEF AddInv, PromisesKept, With
<1>7. QED
  BY <1>1, <1>2, <1>3, <1>4, <1>5, <1>6 DEF With

(* Every step keeps the type. *)
LEMMA AddTypes == ASSUME AddInv, [AddNext]_addVars PROVE AddTypeOK'
PROOF
<1> USE AddAssumption, FreeIsARequest DEF AddInv, AddTypeOK, AddRequest, InStage, Goes, Answer, GoesWrong
<1>1. ASSUME NEW c \in Handler, NEW k \in Key, SendAdd(c, k) PROVE AddTypeOK'
  <2>1. [Free EXCEPT !.stage = "key", !.key = k, !.after = answered[k]] \in AddRequest
    BY DEF Free
  <2>2. QED
    BY <1>1, <2>1 DEF SendAdd
<1>2. ASSUME NEW c \in Handler, Lookup(c) PROVE AddTypeOK'
  BY <1>2 DEF Lookup
<1>3. ASSUME NEW c \in Handler, Find(c) PROVE AddTypeOK'
  BY <1>3 DEF Find
<1>4. ASSUME NEW c \in Handler, Resolve(c) PROVE AddTypeOK'
  BY <1>4 DEF Resolve
<1>5. ASSUME NEW c \in Handler, Submit(c) PROVE AddTypeOK'
  <2>1. FirstFree \in Added
    BY <1>5, FirstFreeIsFree DEF Submit
  <2>2. handler' \in [Handler -> AddRequest]
    BY <1>5, <2>1 DEF Submit, FirstFree, AnyGid
  <2>3. state' \in [Added -> {"none", "current", "ended", "gone"}]
    BY <1>5, <2>1 DEF Submit, FirstFree
  <2>4. keyOf' \in [Added -> Key \cup {"none"}]
    BY <1>5, <2>1 DEF Submit, FirstFree
  <2>5. addFaults' \in 0 .. MaxAddFaults
    BY <1>5 DEF Submit
  <2>6. QED
    BY <1>5, <2>2, <2>3, <2>4, <2>5 DEF Submit
<1>6. ASSUME NEW c \in Handler, PauseNew(c) PROVE AddTypeOK'
  BY <1>6 DEF PauseNew
<1>7. ASSUME NEW c \in Handler, RefreshAfterAdd(c) PROVE AddTypeOK'
  BY <1>7, RefreshedFacts DEF RefreshAfterAdd
<1>8. ASSUME NEW c \in Handler, RecordKey(c) PROVE AddTypeOK'
  BY <1>8 DEF RecordKey, AnyGid
<1>9. ASSUME NEW g \in Added, DownloadEnds(g) \/ RemoveDownload(g) PROVE AddTypeOK'
  BY <1>9 DEF DownloadEnds, RemoveDownload, AnyGid
<1>10. CASE PollRefresh
  BY <1>10, RefreshedFacts DEF PollRefresh
<1>11. CASE RestartDaemon
  BY <1>11 DEF RestartDaemon, AnyGid
<1>12. CASE UNCHANGED addVars
  BY <1>12 DEF addVars
<1>13. QED
  BY <1>1, <1>2, <1>3, <1>4, <1>5, <1>6, <1>7, <1>8, <1>9, <1>10, <1>11, <1>12 DEF AddNext

-----------------------------------------------------------------------------
(***************************************************************************)
(* A step of one connection's request changes that request only; the       *)
(* others are told apart from it by what they hold.                        *)
(***************************************************************************)

(* Sending, looking up, finding, resolving and pausing: one connection     *)
(* moves on and nothing else changes.                                      *)
RequestMoves(c) ==
    \/ \E k \in Key : SendAdd(c, k)
    \/ Lookup(c) \/ Find(c) \/ Resolve(c) \/ PauseNew(c)

(* A request that moves keeps the promises of the keys. *)
LEMMA MovesStep ==
    ASSUME AddInv, NEW c \in Handler, RequestMoves(c)
    PROVE  (PromisesKept /\ GidsExist /\ HeldAreFresh /\ AskersAreRight)'
PROOF
<1> USE FreeIsARequest DEF AddInv, InStage, Goes, Answer
<1>1. UNCHANGED <<keys, state, keyOf, listed, answered>>
  BY DEF RequestMoves, SendAdd, Lookup, Find, Resolve, PauseNew
<1>2. handler \in [Handler -> AddRequest]
  BY DEF AddTypeOK, AddRequest
<1>3. /\ \A d \in Handler \ {c} : handler'[d] = handler[d]
      /\ \/ handler'[c].after = handler[c].after
         \/ handler'[c].after = Unknown
         \/ \E k \in Key : handler'[c].after = answered[k]
  <2>1. ASSUME NEW k \in Key, SendAdd(c, k)
        PROVE  /\ \A d \in Handler \ {c} : handler'[d] = handler[d]
               /\ handler'[c].after = answered[k]
    BY <1>2, <2>1 DEF SendAdd, Free, AddRequest
  <2>2. QED
    BY <1>2, <2>1 DEF RequestMoves, Lookup, Find, Resolve, PauseNew, AddRequest
<1>4. ASSUME NEW d \in Handler, Holds(d)' PROVE Holds(d) /\ handler'[d].gid = handler[d].gid
  <2>1. ASSUME NEW k \in Key, SendAdd(c, k) PROVE handler'[c].stage = "key"
    BY <1>2, <2>1 DEF SendAdd, Free, AddRequest
  <2>2. CASE Lookup(c)
    BY <1>2, <1>3, <1>4, <2>2 DEF Lookup, Holds, AddRequest
  <2>3. CASE Find(c)
    BY <1>2, <1>3, <1>4, <2>3 DEF Find, Holds, AddRequest
  <2>4. CASE Resolve(c)
    BY <1>2, <1>3, <1>4, <2>4 DEF Resolve, Holds, AddRequest
  <2>5. CASE PauseNew(c)
    BY <1>2, <1>3, <1>4, <2>5 DEF PauseNew, Holds, AddRequest
  <2>6. QED
    BY <1>3, <1>4, <2>1, <2>2, <2>3, <2>4, <2>5 DEF RequestMoves, Holds
<1>5. PromisesKept'
  BY <1>1 DEF PromisesKept
<1>6. GidsExist'
  BY <1>1, <1>2, <1>3 DEF GidsExist, PromisesKept
<1>7. HeldAreFresh'
  <2> SUFFICES ASSUME NEW d \in Handler, Holds(d)'
               PROVE  /\ handler'[d].gid \in Added /\ state'[handler'[d].gid] # "none"
                      /\ \A k \in Key : answered'[k] # handler'[d].gid
                      /\ \A e \in Handler : handler'[e].after # handler'[d].gid
                      /\ \A e \in Handler \ {d} : Holds(e)' => handler'[e].gid # handler'[d].gid
    BY DEF HeldAreFresh
  <2>1. Holds(d) /\ handler'[d].gid = handler[d].gid
    BY <1>4
  <2>2. handler[d].gid # Unknown
    BY <2>1 DEF HeldAreFresh, Added, Unknown
  <2>3. \A e \in Handler : handler'[e].after # handler'[d].gid
    BY <1>3, <2>1, <2>2 DEF HeldAreFresh
  <2>4. \A e \in Handler \ {d} : Holds(e)' => handler'[e].gid # handler'[d].gid
    BY <1>4, <2>1 DEF HeldAreFresh
  <2>5. QED
    BY <1>1, <2>1, <2>3, <2>4 DEF HeldAreFresh
<1>8. AskersAreRight'
  <2>1. ASSUME NEW d \in Handler \ {c}
        PROVE  /\ handler'[d].stage = "find" => Overtaken(d)' \/ handler'[d].gid = handler'[d].after
               /\ handler'[d].stage \in {"resolve", "submit"} => Overtaken(d)'
    BY <1>1, <1>3 DEF AskersAreRight, Overtaken
  <2>2. /\ handler'[c].stage = "find" => Overtaken(c)' \/ handler'[c].gid = handler'[c].after
        /\ handler'[c].stage \in {"resolve", "submit"} => Overtaken(c)'
    <3>1. ASSUME NEW k \in Key, SendAdd(c, k) PROVE handler'[c].stage = "key"
      BY <1>2, <3>1 DEF SendAdd, Free, AddRequest
    <3>2. CASE Lookup(c)
      <4>1. PICK g \in AnyGid :
                /\ g = keys[handler[c].key]
                /\ handler'[c].gid = g /\ handler'[c].after = handler[c].after
                /\ handler'[c].key = handler[c].key
                /\ handler'[c].stage = IF g = Unknown THEN "resolve" ELSE "find"
        BY <1>2, <3>2 DEF Lookup, AddRequest, AddTypeOK
      <4>2. Overtaken(c)' \/ g = handler'[c].after
        BY <1>1, <1>2, <4>1 DEF PromisesKept, Overtaken, AddRequest
      <4>3. g = Unknown => Overtaken(c)'
        BY <4>1, <4>2 DEF Overtaken
      <4>4. QED
        BY <4>1, <4>2, <4>3
    <3>3. CASE Find(c)
      <4>1. CASE Found(c)
        BY <1>2, <3>3, <4>1 DEF Find
      <4>2. CASE ~Found(c)
        <5>1. /\ handler'[c].stage = "resolve" /\ handler'[c].after = handler[c].after
              /\ handler'[c].key = handler[c].key /\ handler[c].key \in Key
          BY <1>2, <3>3, <4>2 DEF Find, AddRequest
        <5>2. Overtaken(c)
          BY <3>3, <4>2, <5>1 DEF Find, Found, AskersAreRight, PromisesKept, Overtaken
        <5>3. QED
          BY <1>1, <5>1, <5>2 DEF Overtaken
      <4>3. QED
        BY <4>1, <4>2
    <3>4. CASE Resolve(c)
      <4>1. CASE handler' = [handler EXCEPT ![c].stage = "submit"]
        BY <1>1, <1>2, <3>4, <4>1 DEF Resolve, AskersAreRight, Overtaken, AddRequest
      <4>2. CASE handler' = [handler EXCEPT ![c] = Free]
        BY <1>2, <4>2
      <4>3. QED
        BY <3>4, <4>1, <4>2 DEF Resolve
    <3>5. CASE PauseNew(c)
      BY <1>2, <3>5 DEF PauseNew, AddRequest
    <3>6. QED
      BY <3>1, <3>2, <3>3, <3>4, <3>5 DEF RequestMoves
  <2>3. QED
    BY <2>1, <2>2 DEF AskersAreRight
<1>9. QED
  BY <1>5, <1>6, <1>7, <1>8

(***************************************************************************)
(* Submit adds a download nobody has been promised, or is refused; either  *)
(* way no promise changes.                                                 *)
(***************************************************************************)
LEMMA SubmitStep ==
    ASSUME AddInv, NEW c \in Handler, Submit(c)
    PROVE  (PromisesKept /\ GidsExist /\ HeldAreFresh /\ AskersAreRight)'
PROOF
<1> USE FreeIsARequest DEF AddInv
<1>1. UNCHANGED <<keys, listed, answered>>
  BY DEF Submit
<1>2. handler \in [Handler -> AddRequest] /\ state \in [Added -> {"none", "current", "ended", "gone"}]
  BY DEF AddTypeOK, AddRequest
<1>3. FirstFree \in Added /\ state[FirstFree] = "none"
  BY FirstFreeIsFree DEF Submit
<1>4. /\ \A g \in Added : state'[g] = state[g] \/ (g = FirstFree /\ state'[g] = "current")
      /\ \A d \in Handler \ {c} : handler'[d] = handler[d]
      /\ \/ handler'[c] = Free
         \/ /\ handler'[c].stage \in {"pause", "refresh"} /\ handler'[c].gid = FirstFree
            /\ handler'[c].after = handler[c].after /\ state'[FirstFree] = "current"
  <2>1. \/ /\ state' = [state EXCEPT ![FirstFree] = "current"]
           /\ \E next \in {"pause", "refresh"} :
                 handler' = [handler EXCEPT ![c].stage = next, ![c].gid = FirstFree]
        \/ /\ handler' = [handler EXCEPT ![c] = Free]
           /\ state' = [state EXCEPT ![FirstFree] = "current"] \/ UNCHANGED state
    BY DEF Submit, FirstFree, Answer
  <2>2. CASE /\ state' = [state EXCEPT ![FirstFree] = "current"]
             /\ \E next \in {"pause", "refresh"} :
                   handler' = [handler EXCEPT ![c].stage = next, ![c].gid = FirstFree]
    BY <1>2, <1>3, <2>2 DEF AddRequest
  <2>3. CASE /\ handler' = [handler EXCEPT ![c] = Free]
             /\ state' = [state EXCEPT ![FirstFree] = "current"] \/ UNCHANGED state
    BY <1>2, <1>3, <2>3
  <2>4. QED
    BY <2>1, <2>2, <2>3
<1>5. \A k \in Key : answered[k] # Unknown => answered[k] \in Added /\ answered[k] # FirstFree
  BY <1>3 DEF PromisesKept, AddTypeOK, AnyGid
<1>6. \A d \in Handler : handler[d].after # Unknown => handler[d].after \in Added /\ handler[d].after # FirstFree
  BY <1>2, <1>3 DEF GidsExist, AddRequest, AnyGid
<1>7. FirstFree # Unknown
  BY <1>3 DEF Added, Unknown
<1>8. PromisesKept'
  BY <1>1, <1>4, <1>5 DEF PromisesKept
<1>9. GidsExist'
  <2>1. ASSUME NEW g \in Added, state[g] # "none" PROVE state'[g] # "none"
    BY <1>4, <2>1
  <2>2. listed.current \cup listed.past \subseteq Added
    BY DEF AddTypeOK
  <2>3. QED
    BY <1>1, <1>4, <1>6, <2>1, <2>2 DEF GidsExist
<1>10. HeldAreFresh'
  <2>1. ASSUME NEW d \in Handler \ {c}, Holds(d)'
        PROVE  /\ handler'[d].gid \in Added /\ state'[handler'[d].gid] # "none"
               /\ handler'[d].gid # FirstFree
               /\ \A k \in Key : answered'[k] # handler'[d].gid
               /\ \A e \in Handler : handler'[e].after # handler'[d].gid
               /\ \A e \in Handler \ {d} : e # c /\ Holds(e)' => handler'[e].gid # handler'[d].gid
    <3>1. Holds(d) /\ handler'[d].gid = handler[d].gid
      BY <1>4, <2>1 DEF Holds
    <3>2. handler[d].gid \in Added /\ handler[d].gid # FirstFree /\ handler[d].gid # Unknown
      BY <1>3, <3>1 DEF HeldAreFresh, Added, Unknown
    <3>3. \A e \in Handler : handler'[e].after # handler'[d].gid
      BY <1>4, <3>1, <3>2 DEF HeldAreFresh
    <3>4. \A e \in Handler \ {d} : e # c /\ Holds(e)' => handler'[e].gid # handler'[d].gid
      BY <1>4, <3>1 DEF HeldAreFresh, Holds
    <3>5. QED
      BY <1>1, <1>4, <3>1, <3>2, <3>3, <3>4 DEF HeldAreFresh
  <2>2. ASSUME Holds(c)'
        PROVE  /\ handler'[c].gid = FirstFree /\ state'[FirstFree] # "none"
               /\ \A k \in Key : answered'[k] # FirstFree
               /\ \A e \in Handler : handler'[e].after # FirstFree
    BY <1>1, <1>4, <1>5, <1>6, <1>7, <2>2 DEF Holds
  <2>3. QED
    BY <1>3, <2>1, <2>2 DEF HeldAreFresh
<1>11. AskersAreRight'
  BY <1>1, <1>4 DEF AskersAreRight, Overtaken
<1>12. QED
  BY <1>8, <1>9, <1>10, <1>11

(***************************************************************************)
(* RecordKey promises the download its connection holds.  No other request *)
(* came after that promise, so what was overtaken stays overtaken.         *)
(***************************************************************************)
LEMMA RecordStep ==
    ASSUME AddInv, NEW c \in Handler, RecordKey(c)
    PROVE  (PromisesKept /\ GidsExist /\ HeldAreFresh /\ AskersAreRight)'
PROOF
<1> USE FreeIsARequest DEF AddInv
<1>1. UNCHANGED <<state, keyOf, listed>>
  BY DEF RecordKey
<1>2. handler \in [Handler -> AddRequest] /\ Holds(c)
  BY DEF RecordKey, AddTypeOK, AddRequest, InStage, Holds
<1>3. handler'[c] = Free /\ \A d \in Handler \ {c} : handler'[d] = handler[d]
  BY <1>2 DEF RecordKey, Answer
<1> DEFINE g == handler[c].gid
           key == handler[c].key
<1>4. g \in Added /\ state[g] # "none" /\ key \in Key
  BY <1>2 DEF HeldAreFresh, AddRequest
<1>5. /\ \A k \in Key \ {key} : keys'[k] = keys[k] /\ answered'[k] = answered[k]
      /\ keys'[key] = g
      /\ \/ answered'[key] = Unknown
         \/ /\ answered'[key] = g /\ state[g] # "gone"
            /\ g \in listed.current \cup listed.past
  BY <1>4 DEF RecordKey, AddTypeOK
<1>6. PromisesKept'
  <2> SUFFICES ASSUME NEW k \in Key, answered'[k] # Unknown
               PROVE  /\ keys'[k] = answered'[k]
                      /\ answered'[k] \in listed'.current \cup listed'.past
                      /\ state'[answered'[k]] \in {"current", "ended"}
    BY DEF PromisesKept
  <2>1. CASE k = key
    <3>1. state[g] \in {"current", "ended"}
      BY <1>4, <1>5, <2>1 DEF AddTypeOK
    <3>2. QED
      BY <1>1, <1>5, <2>1, <3>1
  <2>2. CASE k # key
    BY <1>1, <1>5, <2>2 DEF PromisesKept
  <2>3. QED
    BY <2>1, <2>2
<1>7. GidsExist'
  BY <1>1, <1>3 DEF GidsExist
<1>8. HeldAreFresh'
  <2> SUFFICES ASSUME NEW d \in Handler, Holds(d)'
               PROVE  /\ handler'[d].gid \in Added /\ state'[handler'[d].gid] # "none"
                      /\ \A k \in Key : answered'[k] # handler'[d].gid
                      /\ \A e \in Handler : handler'[e].after # handler'[d].gid
                      /\ \A e \in Handler \ {d} : Holds(e)' => handler'[e].gid # handler'[d].gid
    BY DEF HeldAreFresh
  <2>1. d # c /\ handler'[d] = handler[d] /\ Holds(d)
    BY <1>3 DEF Holds
  <2>2. handler[d].gid # g /\ handler[d].gid # Unknown
    BY <1>2, <2>1 DEF HeldAreFresh, Added, Unknown
  <2>3. \A k \in Key : answered'[k] # handler'[d].gid
    BY <1>5, <2>1, <2>2 DEF HeldAreFresh
  <2>4. \A e \in Handler : handler'[e].after # handler'[d].gid
    BY <1>3, <2>1, <2>2 DEF HeldAreFresh
  <2>5. \A e \in Handler \ {d} : Holds(e)' => handler'[e].gid # handler'[d].gid
    BY <1>3, <2>1 DEF HeldAreFresh, Holds
  <2>6. QED
    BY <1>1, <2>1, <2>3, <2>4, <2>5 DEF HeldAreFresh
<1>9. AskersAreRight'
  <2>1. ASSUME NEW d \in Handler \ {c} PROVE Overtaken(d) => Overtaken(d)'
    <3>1. handler[d].after # g /\ handler[d].key \in Key
      BY <1>2 DEF HeldAreFresh, AddRequest
    <3>2. QED
      BY <1>3, <1>5, <3>1 DEF Overtaken
  <2>2. QED
    BY <1>3, <2>1 DEF AskersAreRight
<1>10. QED
  BY <1>6, <1>7, <1>8, <1>9

(***************************************************************************)
(* Steps that only take promises back: what is listed and what there is of *)
(* the downloads changes, connections at most end or go from "refresh" to  *)
(* "record".                                                               *)
(***************************************************************************)
LEMMA WithdrawStep ==
    ASSUME AddInv,
           UNCHANGED keys \/ \A k \in Key : answered'[k] = Unknown,
           \A g \in Added : state[g] # "none" => state'[g] # "none",
           \A g \in listed'.current \cup listed'.past : g \in Added /\ state[g] # "none",
           \A k \in Key : answered'[k] = answered[k] \/ answered'[k] = Unknown,
           \A k \in Key : answered'[k] # Unknown =>
               /\ answered'[k] \in listed'.current \cup listed'.past
               /\ state'[answered'[k]] \in {"current", "ended"},
           \A d \in Handler :
               \/ handler'[d] = handler[d]
               \/ handler'[d] = Free
               \/ /\ handler[d].stage = "refresh" /\ handler'[d].stage = "record"
                  /\ handler'[d].gid = handler[d].gid /\ handler'[d].after = handler[d].after
    PROVE  (PromisesKept /\ GidsExist /\ HeldAreFresh /\ AskersAreRight)'
PROOF
<1> USE FreeIsARequest DEF AddInv
<1>1. handler \in [Handler -> AddRequest]
  BY DEF AddTypeOK, AddRequest
<1>2. ASSUME NEW d \in Handler, Holds(d)'
      PROVE  Holds(d) /\ handler'[d].gid = handler[d].gid
  BY <1>2 DEF Holds
<1>3. \A d \in Handler : handler'[d].after = handler[d].after \/ handler'[d].after = Unknown
  OBVIOUS
<1>4. PromisesKept'
  BY DEF PromisesKept
<1>5. GidsExist'
  <2>1. \A d \in Handler : handler[d].after # Unknown => handler[d].after \in Added
    BY <1>1 DEF AddRequest, AnyGid
  <2>2. QED
    BY <1>3, <2>1 DEF GidsExist
<1>6. HeldAreFresh'
  <2> SUFFICES ASSUME NEW d \in Handler, Holds(d)'
               PROVE  /\ handler'[d].gid \in Added /\ state'[handler'[d].gid] # "none"
                      /\ \A k \in Key : answered'[k] # handler'[d].gid
                      /\ \A e \in Handler : handler'[e].after # handler'[d].gid
                      /\ \A e \in Handler \ {d} : Holds(e)' => handler'[e].gid # handler'[d].gid
    BY DEF HeldAreFresh
  <2>1. Holds(d) /\ handler'[d].gid = handler[d].gid
    BY <1>2
  <2>2. handler[d].gid \in Added /\ handler[d].gid # Unknown
    BY <2>1 DEF HeldAreFresh, Added, Unknown
  <2>3. \A k \in Key : answered'[k] # handler'[d].gid
    BY <2>1, <2>2 DEF HeldAreFresh
  <2>4. \A e \in Handler : handler'[e].after # handler'[d].gid
    BY <1>3, <2>1, <2>2 DEF HeldAreFresh
  <2>5. \A e \in Handler \ {d} : Holds(e)' => handler'[e].gid # handler'[d].gid
    BY <1>2, <2>1 DEF HeldAreFresh
  <2>6. QED
    BY <2>1, <2>2, <2>3, <2>4, <2>5 DEF HeldAreFresh
<1>7. AskersAreRight'
  <2>1. ASSUME NEW d \in Handler, handler'[d] = handler[d]
        PROVE  Overtaken(d) => Overtaken(d)'
    <3>1. handler[d].key \in Key
      BY <1>1 DEF AddRequest
    <3>2. QED
      BY <2>1, <3>1 DEF Overtaken
  <2>2. QED
    BY <2>1 DEF AskersAreRight
<1>8. QED
  BY <1>4, <1>5, <1>6, <1>7

(* The rest of the daemon: ends, removals, refreshes and restarts. *)
LEMMA DaemonStep ==
    ASSUME AddInv,
           \/ \E c \in Handler : RefreshAfterAdd(c)
           \/ \E g \in Added : DownloadEnds(g) \/ RemoveDownload(g)
           \/ PollRefresh \/ RestartDaemon
    PROVE  (PromisesKept /\ GidsExist /\ HeldAreFresh /\ AskersAreRight)'
PROOF
<1> USE FreeIsARequest DEF AddInv
<1> DEFINE Goal == (PromisesKept /\ GidsExist /\ HeldAreFresh /\ AskersAreRight)'
<1>1. handler \in [Handler -> AddRequest] /\ listed \in [current : SUBSET Added, past : SUBSET Added]
  BY DEF AddTypeOK, AddRequest
<1>2. \A g \in listed.current \cup listed.past : g \in Added /\ state[g] # "none"
  BY <1>1 DEF GidsExist
<1>3. \A k \in Key : answered[k] # Unknown => answered[k] \in Added
  BY DEF AddTypeOK, AnyGid
<1>4. ASSUME NEW c \in Handler, RefreshAfterAdd(c) PROVE Goal
  <2>1. UNCHANGED <<keys, state>>
    BY <1>4 DEF RefreshAfterAdd
  <2>2. CASE Refreshed /\ Goes(c, "record")
    <3>1. \A d \in Handler :
             \/ handler'[d] = handler[d]
             \/ /\ handler[d].stage = "refresh" /\ handler'[d].stage = "record"
                /\ handler'[d].gid = handler[d].gid /\ handler'[d].after = handler[d].after
      BY <1>1, <1>4, <2>2 DEF RefreshAfterAdd, Goes, InStage, AddRequest
    <3>2. QED
      BY <2>1, <2>2, <3>1, RefreshedFacts, WithdrawStep DEF PromisesKept
  <2>3. CASE Answer(c) /\ UNCHANGED <<listed, answered>>
    <3>1. \A d \in Handler : handler'[d] = handler[d] \/ handler'[d] = Free
      BY <1>1, <2>3 DEF Answer
    <3>2. QED
      BY <1>2, <2>1, <2>3, <3>1, WithdrawStep DEF PromisesKept
  <2>4. QED
    BY <1>4, <2>2, <2>3 DEF RefreshAfterAdd
<1>5. ASSUME NEW g \in Added, DownloadEnds(g) PROVE Goal
  <2>1. \A h \in Added : state'[h] = state[h] \/ (state[h] = "current" /\ state'[h] = "ended")
    BY <1>5 DEF DownloadEnds, AddTypeOK
  <2>2. UNCHANGED <<handler, keys, listed, answered>>
    BY <1>5 DEF DownloadEnds
  <2>3. \A k \in Key : answered[k] # Unknown =>
            /\ answered[k] \in listed.current \cup listed.past
            /\ state'[answered[k]] \in {"current", "ended"}
    BY <1>3, <2>1 DEF PromisesKept
  <2>4. QED
    BY <1>2, <2>1, <2>2, <2>3, WithdrawStep
<1>6. ASSUME NEW g \in Added, RemoveDownload(g) PROVE Goal
  <2>1. /\ \A h \in Added \ {g} : state'[h] = state[h]
        /\ state'[g] = "gone"
        /\ \A k \in Key : answered'[k] = IF answered[k] = g THEN Unknown ELSE answered[k]
    BY <1>6 DEF RemoveDownload, AddTypeOK
  <2>2. UNCHANGED <<handler, keys, listed>>
    BY <1>6 DEF RemoveDownload
  <2>3. \A k \in Key : answered'[k] # Unknown =>
            /\ answered'[k] \in listed.current \cup listed.past
            /\ state'[answered'[k]] \in {"current", "ended"}
    BY <1>3, <2>1 DEF PromisesKept
  <2>4. QED
    BY <1>2, <2>1, <2>2, <2>3, WithdrawStep
<1>7. CASE PollRefresh
  <2>1. UNCHANGED <<handler, keys, state>> /\ Refreshed
    BY <1>7 DEF PollRefresh
  <2>2. QED
    BY <2>1, RefreshedFacts, WithdrawStep DEF PromisesKept
<1>8. CASE RestartDaemon
  <2>1. /\ \A d \in Handler : handler'[d] = Free
        /\ \A k \in Key : answered'[k] = Unknown
        /\ listed'.current = {} /\ listed'.past = {} /\ UNCHANGED state
    BY <1>8 DEF RestartDaemon
  <2>2. QED
    BY <2>1, WithdrawStep
<1>9. QED
  BY <1>4, <1>5, <1>6, <1>7, <1>8

-----------------------------------------------------------------------------
(* Every step keeps the invariant. *)
LEMMA AddStep == AddInv /\ [AddNext]_addVars => AddInv'
  <1> SUFFICES ASSUME AddInv, [AddNext]_addVars PROVE AddInv'
    OBVIOUS
  <1>1. CASE UNCHANGED addVars
    BY <1>1 DEF addVars, AddInv, AddTypeOK, PromisesKept, GidsExist, HeldAreFresh, Holds,
       AskersAreRight, Overtaken
  <1>2. CASE AddNext
    <2>1. (PromisesKept /\ GidsExist /\ HeldAreFresh /\ AskersAreRight)'
      BY <1>2, MovesStep, SubmitStep, RecordStep, DaemonStep DEF AddNext, RequestMoves
    <2> QED
      BY <1>2, <2>1, AddTypes DEF AddInv
  <1> QED
    BY <1>1, <1>2

(***************************************************************************)
(* The inductive invariant: what has been promised is recorded and shown,  *)
(* a download being added belongs to one connection, and a request gets as *)
(* far as adding only when the promise it came after no longer stands.     *)
(***************************************************************************)
THEOREM AddInvariant == AddSpec => []AddInv
  BY AddsStart, AddStep, PTL DEF AddSpec

(***************************************************************************)
(* A request that follows an answer for its key adds nothing while that    *)
(* answer is the last one and its download exists, with any number of      *)
(* requests for the key on their way, refreshes that miss downloads,       *)
(* removals and restarts.                                                  *)
(***************************************************************************)
THEOREM AnsweredKeysAddNothing == AddSpec => AnsweredKeyAddsNothing
PROOF
<1>1. AddInv => [\A c \in Handler :
                    InStage(c, "submit") /\ ~InStage(c, "submit")' /\ keyOf' # keyOf
                        => handler[c].after = Unknown
                           \/ answered[handler[c].key] # handler[c].after]_addVars
  BY DEF AddInv, AskersAreRight, Overtaken, InStage
<1>2. QED
  BY AddInvariant, <1>1, PTL DEF AnsweredKeyAddsNothing

-----------------------------------------------------------------------------
(* The torrents of the embedded engine.                                    *)

(***************************************************************************)
(* The session has the limit desired_limit_bps says it was given.  A       *)
(* refresh that is still fresh works with the limit the settings ask for,  *)
(* and so does the session once it is in sync: a refresh that overlaps     *)
(* that state read the same limit.                                         *)
(***************************************************************************)
LimitsAgree ==
    /\ sessionCap = desiredCap
    /\ syncing.on /\ syncing.fresh => syncing.cap = capNow
    /\ inSync => sessionCap = capNow /\ (syncing.on => syncing.fresh)

TorrentInv == TorrentTypeOK /\ LimitsAgree /\ ShownSequentialIsRead

-----------------------------------------------------------------------------
(* A daemon that could add a torrent has a hash to name in NoAdd. *)
LEMMA AnAddIsARequest == NoAdd \in [hash : Hash, cap : Cap, sequential : BOOLEAN, on : BOOLEAN]
  BY TorrentAssumption DEF NoAdd

(* The daemon starts with no torrents, no marks and no limit. *)
LEMMA TorrentsStart == ASSUME TorrentInit PROVE TorrentInv
PROOF
<1>1. TorrentTypeOK
  <2>1. adding \in [hash : Hash, cap : Cap, sequential : BOOLEAN, on : BOOLEAN]
    BY AnAddIsARequest DEF TorrentInit
  <2>2. torrents \in [Hash -> [status : {"none", "live", "paused", "complete", "error"}, cap : Cap]]
    BY TorrentAssumption DEF TorrentInit, NoTorrent
  <2>3. syncing \in [cap : Cap, on : BOOLEAN, fresh : BOOLEAN]
    BY TorrentAssumption DEF TorrentInit, NoSync
  <2>4. torrentOps \in 0 .. MaxTorrentOps /\ torrentFaults \in 0 .. MaxTorrentFaults
    BY TorrentAssumption DEF TorrentInit
  <2>5. QED
    BY <2>1, <2>2, <2>3, <2>4, TorrentAssumption DEF TorrentInit, TorrentTypeOK
<1>2. LimitsAgree /\ ShownSequentialIsRead
  BY DEF TorrentInit, LimitsAgree, ShownSequentialIsRead, NoSync
<1>3. QED
  BY <1>1, <1>2 DEF TorrentInv

(* Every step keeps the type. *)
LEMMA TorrentTypes == ASSUME TorrentInv, [TorrentNext]_torrentVars PROVE TorrentTypeOK'
PROOF
<1> USE TorrentAssumption DEF TorrentInv, TorrentTypeOK, Managed, NoTorrent, caps, marksOf, requests
<1>1. ASSUME NEW h \in Hash, BeginAdd(h) PROVE TorrentTypeOK'
  BY <1>1 DEF BeginAdd
<1>2. ASSUME NEW h \in Hash, TorrentMoves(h) PROVE TorrentTypeOK'
  BY <1>2 DEF TorrentMoves
<1>3. ASSUME NEW h \in Hash, CancelTorrent(h) PROVE TorrentTypeOK'
  BY <1>3 DEF CancelTorrent, Operate
<1>4. ASSUME NEW h \in Hash, SetSequential(h) PROVE TorrentTypeOK'
  BY <1>4 DEF SetSequential, Operate
<1>5. CASE AddTorrent
  BY <1>5 DEF AddTorrent, NoAdd
<1>6. CASE AddRefused
  BY <1>6 DEF AddRefused, Trouble, NoAdd
<1>7. CASE SetStreaming
  BY <1>7 DEF SetStreaming, Operate
<1>8. CASE ChangeLimit
  <2>1. syncing' \in [cap : Cap, on : BOOLEAN, fresh : BOOLEAN]
    BY <1>8 DEF ChangeLimit
  <2>2. torrentOps' \in 0 .. MaxTorrentOps
    <3>1. torrentOps < MaxTorrentOps /\ torrentOps' = torrentOps + 1
      BY <1>8 DEF ChangeLimit, Operate
    <3>2. QED
      BY <3>1
  <2>3. capNow' \in Cap
    BY <1>8 DEF ChangeLimit
  <2>4. inSync' \in BOOLEAN
    BY <1>8 DEF ChangeLimit
  <2>5. QED
    BY <1>8, <2>1, <2>2, <2>3, <2>4 DEF ChangeLimit
<1>9. CASE ReadLimit
  BY <1>9 DEF ReadLimit
<1>10. CASE RefreshTorrents
  BY <1>10 DEF RefreshTorrents, PublishTorrents, NoSync
<1>11. CASE RefreshWithoutAria
  BY <1>11 DEF RefreshWithoutAria, Trouble, NoSync
<1>12. CASE RestartWithTorrents
  <2>1. torrents' \in [Hash -> [status : {"none", "live", "paused", "complete", "error"}, cap : Cap]]
    BY <1>12 DEF RestartWithTorrents
  <2>2. adding' \in [hash : Hash, cap : Cap, sequential : BOOLEAN, on : BOOLEAN]
    BY <1>12, AnAddIsARequest DEF RestartWithTorrents
  <2>3. syncing' \in [cap : Cap, on : BOOLEAN, fresh : BOOLEAN]
    BY <1>12 DEF RestartWithTorrents, NoSync
  <2>4. torrentFaults' \in 0 .. MaxTorrentFaults
    BY <1>12 DEF RestartWithTorrents, Trouble
  <2>5. QED
    BY <1>12, <2>1, <2>2, <2>3, <2>4 DEF RestartWithTorrents
<1>13. CASE UNCHANGED torrentVars
  BY <1>13 DEF torrentVars
<1>14. QED
  BY <1>1, <1>2, <1>3, <1>4, <1>5, <1>6, <1>7, <1>8, <1>9, <1>10, <1>11, <1>12, <1>13
     DEF TorrentNext

(***************************************************************************)
(* Every step keeps the limits in agreement.  ChangeLimit takes away what  *)
(* was in sync; RefreshTorrents gives the session the limit it read.       *)
(***************************************************************************)
LEMMA LimitsStep == ASSUME TorrentInv, [TorrentNext]_torrentVars PROVE LimitsAgree'
PROOF
<1> USE DEF TorrentInv, TorrentTypeOK, LimitsAgree, caps, marksOf, requests
<1>1. CASE (\E h \in Hash : BeginAdd(h) \/ TorrentMoves(h) \/ CancelTorrent(h) \/ SetSequential(h))
           \/ AddTorrent \/ AddRefused \/ SetStreaming
  BY <1>1 DEF BeginAdd, TorrentMoves, CancelTorrent, SetSequential, AddTorrent, AddRefused,
     SetStreaming
<1>2. CASE ChangeLimit
  BY <1>2 DEF ChangeLimit
<1>3. CASE ReadLimit
  BY <1>3 DEF ReadLimit
<1>4. CASE RefreshTorrents
  BY <1>4 DEF RefreshTorrents, NoSync
<1>5. CASE RefreshWithoutAria
  BY <1>5 DEF RefreshWithoutAria, NoSync
<1>6. CASE RestartWithTorrents
  BY <1>6 DEF RestartWithTorrents, NoSync
<1>7. CASE UNCHANGED torrentVars
  BY <1>7 DEF torrentVars
<1>8. QED
  BY <1>1, <1>2, <1>3, <1>4, <1>5, <1>6, <1>7 DEF TorrentNext

(***************************************************************************)
(* Every step keeps a reader for what is shown as sequential: a torrent    *)
(* that becomes managed or marked either gets one or counts as recycled.   *)
(***************************************************************************)
LEMMA ReadersStep == ASSUME TorrentInv, [TorrentNext]_torrentVars PROVE ShownSequentialIsRead'
PROOF
<1> USE DEF TorrentInv, TorrentTypeOK, ShownSequentialIsRead, Managed, caps, marksOf, requests
<1>1. CASE (\E h \in Hash : BeginAdd(h)) \/ AddRefused \/ SetStreaming \/ ChangeLimit
           \/ ReadLimit \/ RefreshTorrents \/ RefreshWithoutAria
  BY <1>1 DEF BeginAdd, AddRefused, SetStreaming, ChangeLimit, ReadLimit, RefreshTorrents,
     RefreshWithoutAria
<1>2. ASSUME NEW h \in Hash, TorrentMoves(h) PROVE ShownSequentialIsRead'
  BY <1>2 DEF TorrentMoves
<1>3. ASSUME NEW h \in Hash, CancelTorrent(h) PROVE ShownSequentialIsRead'
  BY <1>3 DEF CancelTorrent, NoTorrent
<1>4. ASSUME NEW h \in Hash, SetSequential(h) PROVE ShownSequentialIsRead'
  BY <1>4 DEF SetSequential
<1>5. CASE AddTorrent
  BY <1>5 DEF AddTorrent
<1>6. CASE RestartWithTorrents
  BY <1>6 DEF RestartWithTorrents
<1>7. CASE UNCHANGED torrentVars
  BY <1>7 DEF torrentVars
<1>8. QED
  BY <1>1, <1>2, <1>3, <1>4, <1>5, <1>6, <1>7 DEF TorrentNext

(* Every step keeps the invariant. *)
LEMMA TorrentStep == TorrentInv /\ [TorrentNext]_torrentVars => TorrentInv'
  BY TorrentTypes, LimitsStep, ReadersStep DEF TorrentInv

-----------------------------------------------------------------------------
(***************************************************************************)
(* The inductive invariant: the types, the agreement of the three limits,  *)
(* and a reader for every torrent shown as sequential.                     *)
(***************************************************************************)
THEOREM TorrentInvariant == TorrentSpec => []TorrentInv
  BY TorrentsStart, TorrentStep, PTL DEF TorrentSpec

(***************************************************************************)
(* No torrent is faster than the limit the settings ask for once a refresh *)
(* begun after the last change has ended, in every order of adds, cancels, *)
(* refreshes and restarts.                                                 *)
(***************************************************************************)
THEOREM LimitReachesTorrents == TorrentSpec => []TorrentsUnderLimit
PROOF
<1>1. TorrentInv => TorrentsUnderLimit
  <2> SUFFICES ASSUME TorrentInv, inSync, NEW h \in Managed PROVE CapOf(h) <= capNow
    BY DEF TorrentsUnderLimit
  <2>1. capNow \in Nat /\ sessionCap = capNow /\ torrents[h].cap \in Nat
    BY TorrentAssumption DEF TorrentInv, TorrentTypeOK, LimitsAgree, Managed
  <2>2. QED
    BY <2>1 DEF CapOf
<1>2. QED
  BY TorrentInvariant, <1>1, PTL

(***************************************************************************)
(* A torrent shown as sequential has a reader, unless it was added again   *)
(* while its hash was still marked.                                        *)
(***************************************************************************)
THEOREM SequentialHasReader == TorrentSpec => []ShownSequentialIsRead
PROOF
<1>1. TorrentInv => ShownSequentialIsRead
  BY DEF TorrentInv
<1>2. QED
  BY TorrentInvariant, <1>1, PTL

-----------------------------------------------------------------------------
(***************************************************************************)
(* A service that is prepared, in steps that may break off in between.  No *)
(* process has a number above starts, so one started after the look at the *)
(* services has a number above seen.  From the moment systemd has read the *)
(* unit an interface wrote, whatever starts that service runs the build of *)
(* the interface: nobody installs another unit while one is open.          *)
(***************************************************************************)
UnitReplaced ==
    NotedBuild # "new" =>
        /\ boot.pc \in {"reload", "run", "wait"} => unit[boot.choice] = "new"
        /\ boot.pc \in {"run", "wait"} => loaded[boot.choice] = "new"

BootInv ==
    /\ BootTypeOK
    /\ (\A l \in Launcher : daemon[l] <= starts) /\ boot.seen <= starts
    /\ boot.pc \in {"write", "reload", "run", "wait"} =>
           boot.choice \in Scope /\ (boot.mode = "update" => NotedBuild # "none")
    /\ UnitReplaced
    /\ PreparedServiceIsReplaced

(* No unit is installed and no daemon runs at first. *)
LEMMA BootStart == BootInit => BootInv
  BY BootAssumption
     DEF BootInit, BootInv, BootTypeOK, NewBoot, UnitReplaced, PreparedServiceIsReplaced,
         Pid, Nobody, Launcher, Build, Unit, BootPc

(* A launch takes the next number and leaves the other processes alone.    *)
LEMMA LaunchTakesNext ==
    ASSUME BootInv, NEW l \in Launcher, NEW build \in Build, Launch(l, build)
    PROVE  /\ starts' = starts + 1 /\ starts' \in Pid /\ marker' \in Pid
           /\ daemon' \in [Launcher -> Pid \cup {Nobody}] /\ buildOf' \in [Pid -> Build]
           /\ \A k \in Launcher : daemon'[k] <= starts'
           /\ daemon'[l] = starts' /\ buildOf'[starts'] = build
           /\ \A k \in Launcher \ {l} :
                  daemon'[k] = daemon[k] /\ (daemon[k] # Nobody => buildOf'[daemon[k]] = buildOf[daemon[k]])
<1>1. starts' = starts + 1 /\ starts' \in Pid
  BY BootAssumption DEF Launch, BootInv, BootTypeOK, Pid
<1>2. /\ daemon' = [daemon EXCEPT ![l] = starts']
      /\ buildOf' = [buildOf EXCEPT ![starts'] = build] /\ marker' = starts'
  BY DEF Launch
<1>3. daemon \in [Launcher -> Pid \cup {Nobody}] /\ buildOf \in [Pid -> Build] /\ starts \in Nat
  BY DEF BootInv, BootTypeOK
<1>4. \A k \in Launcher : daemon[k] <= starts /\ daemon[k] \in Nat
  BY <1>3 DEF BootInv, Pid, Nobody
<1>5. \A k \in Launcher \ {l} : daemon'[k] = daemon[k] /\ daemon[k] # starts'
  BY <1>1, <1>2, <1>3, <1>4
<1>6. \A k \in Launcher : daemon'[k] <= starts'
  BY <1>1, <1>2, <1>3, <1>4
<1>7. \A k \in Launcher \ {l} : daemon[k] # Nobody => buildOf'[daemon[k]] = buildOf[daemon[k]]
  BY <1>2, <1>3, <1>5
<1>8. QED
  BY <1>1, <1>2, <1>3, <1>5, <1>6, <1>7

(***************************************************************************)
(* Whoever starts a service while an interface waits runs the unit that    *)
(* systemd has loaded; units are installed by hand only when none is open. *)
(***************************************************************************)
LEMMA WorldKeepsBootInv ==
    ASSUME BootInv,
           \/ \E l \in Launcher : Listen(l) \/ StartByHand(l) \/ DaemonEnds(l)
           \/ \E s \in Scope : InstallByHand(s) \/ ReloadByHand(s)
    PROVE  BootInv'
<1> USE DEF BootTypeOK, Unit
<1>1. ASSUME NEW l \in Launcher, Listen(l) PROVE BootInv'
  BY <1>1 DEF Listen, BootInv, units, processes, UnitReplaced, PreparedServiceIsReplaced,
              NotedBuild, NotedActive, Active
<1>2. ASSUME NEW l \in Launcher, StartByHand(l) PROVE BootInv'
  <2>1. PICK build \in Build : Launch(l, build) /\ (l \in Scope => build \in Runs(l))
    BY <1>2 DEF StartByHand, Runs, Build
  <2>2. UNCHANGED <<units, sockets, boot>>
    BY <1>2 DEF StartByHand
  <2>3. BootTypeOK' /\ UnitReplaced'
    BY <2>1, <2>2, LaunchTakesNext DEF BootInv, units, sockets, UnitReplaced, NotedBuild, Pid
  <2>4. (\A k \in Launcher : daemon'[k] <= starts') /\ boot'.seen <= starts'
    BY <2>1, <2>2, LaunchTakesNext DEF BootInv
  <2>5. PreparedServiceIsReplaced'
    <3> SUFFICES ASSUME boot.pc = "wait", NotedActive, daemon'[boot.choice] # Nobody,
                        boot.mode = "update" \/ NotedBuild = "old"
                 PROVE  /\ daemon'[boot.choice] > boot.seen
                        /\ NotedBuild = "old" => buildOf'[daemon'[boot.choice]] = "new"
      BY <2>2 DEF PreparedServiceIsReplaced, NotedActive, NotedBuild, Active
    <3>1. boot.choice \in Scope /\ boot.choice \in Launcher
      BY DEF BootInv, Launcher
    <3>2. CASE boot.choice = l
      <4>1. daemon'[l] = starts' /\ starts' = starts + 1 /\ buildOf'[starts'] = build
        BY <2>1, LaunchTakesNext
      <4>2. NotedBuild = "old" => build = "new"
        BY <2>1, <3>1, <3>2 DEF BootInv, UnitReplaced, Runs, Program
      <4>3. QED
        BY <3>2, <4>1, <4>2 DEF BootInv
    <3>3. CASE boot.choice # l
      BY <2>1, <3>1, <3>3, LaunchTakesNext DEF BootInv, PreparedServiceIsReplaced, Active
    <3>4. QED
      BY <3>2, <3>3
  <2>6. QED
    BY <2>2, <2>3, <2>4, <2>5 DEF BootInv, NotedBuild
<1>3. ASSUME NEW l \in Launcher, DaemonEnds(l) PROVE BootInv'
  <2>1. /\ daemon' = [daemon EXCEPT ![l] = Nobody] /\ marker' \in {marker, Nobody}
        /\ bound' = bound \ {daemon[l]} /\ socket' \in {socket, Nobody}
        /\ UNCHANGED <<units, buildOf, starts, boot>>
    BY <1>3 DEF DaemonEnds
  <2>2. BootTypeOK' /\ UnitReplaced'
    BY <2>1 DEF BootInv, units, UnitReplaced, NotedBuild
  <2>3. (\A k \in Launcher : daemon'[k] <= starts') /\ boot'.seen <= starts'
    BY <2>1 DEF BootInv, Nobody
  <2>4. PreparedServiceIsReplaced'
    BY <2>1 DEF BootInv, PreparedServiceIsReplaced, NotedActive, NotedBuild, Active, Launcher
  <2>5. QED
    BY <2>1, <2>2, <2>3, <2>4 DEF BootInv, NotedBuild
<1>4. ASSUME NEW s \in Scope, InstallByHand(s) PROVE BootInv'
  BY <1>4 DEF InstallByHand, Closed, BootInv, processes, sockets, UnitReplaced,
              PreparedServiceIsReplaced, NotedBuild
<1>5. ASSUME NEW s \in Scope, ReloadByHand(s) PROVE BootInv'
  BY <1>5 DEF ReloadByHand, BootInv, processes, sockets, UnitReplaced,
              PreparedServiceIsReplaced, NotedBuild, NotedActive, Active
<1>6. QED
  BY <1>1, <1>2, <1>3, <1>4, <1>5

(* An interface finds, keeps or chooses: its notes are those of its look.  *)
LEMMA LookingKeepsBootInv ==
    ASSUME BootInv,
           \/ \E s \in Scope : UpdateService(s) \/ EnsureService(s)
           \/ Opens \/ ReadMarker \/ RemoveStaleMarker \/ DetectServices \/ FetchSnapshot
           \/ KeepDaemon \/ ContinueOrQuit \/ BreakOff \/ WaitForBuild
    PROVE  BootInv'
<1> USE BootAssumption DEF BootTypeOK, BootPc, world, units, processes, sockets, Step, Ends
<1>1. ASSUME NEW s \in Scope, UpdateService(s) \/ EnsureService(s) PROVE BootInv'
  <2>1. PICK mode \in {"ensure", "update"} :
            Prepares(s, mode) /\ UNCHANGED world /\ (mode = "update" => boot.built[s] # "none")
    BY <1>1 DEF UpdateService, EnsureService
  <2>2. /\ BootTypeOK' /\ boot'.seen = boot.seen /\ boot'.choice = s /\ boot'.built = boot.built
        /\ boot'.mode = mode
    BY <2>1 DEF Prepares, BootInv
  <2>3. NotedBuild' = boot.built[s]
    BY <2>2 DEF NotedBuild
  <2>4. /\ boot'.pc \in {"write", "run", "wait"}
        /\ boot'.pc # "write" => boot.built[s] = "new"
        /\ boot'.pc = "wait" => mode = "ensure"
    BY <2>1 DEF Prepares, BootInv
  <2>5. UnitReplaced' /\ PreparedServiceIsReplaced'
    BY <2>2, <2>3, <2>4 DEF UnitReplaced, PreparedServiceIsReplaced
  <2>6. QED
    BY <2>1, <2>2, <2>3, <2>5 DEF BootInv
<1>2. CASE Opens \/ ReadMarker \/ KeepDaemon \/ ContinueOrQuit \/ BreakOff \/ WaitForBuild
  BY <1>2 DEF Opens, ReadMarker, KeepDaemon, ContinueOrQuit, BreakOff, WaitForBuild, NewBoot,
              BootInv, UnitReplaced, PreparedServiceIsReplaced, NotedBuild, Unit
<1>3. CASE RemoveStaleMarker \/ FetchSnapshot
  BY <1>3 DEF RemoveStaleMarker, FetchSnapshot, BootInv, UnitReplaced,
              PreparedServiceIsReplaced, NotedBuild
<1>4. CASE DetectServices
  <2>1. /\ boot' = [boot EXCEPT !.pc = "fetch", !.built = unit,
                                !.active = {s \in Scope : Active(s)}, !.seen = starts]
        /\ UNCHANGED world
    BY <1>4 DEF DetectServices
  <2>2. BootTypeOK' /\ boot'.pc = "fetch" /\ boot'.seen = starts
    BY <2>1 DEF BootInv
  <2>3. starts' = starts /\ daemon' = daemon
    BY <2>1
  <2>4. starts \in Nat
    BY DEF BootInv
  <2> HIDE DEF BootTypeOK
  <2>5. (\A l \in Launcher : daemon'[l] <= starts') /\ boot'.seen <= starts'
    BY <2>2, <2>3, <2>4 DEF BootInv
  <2>6. UnitReplaced' /\ PreparedServiceIsReplaced'
    BY <2>2 DEF UnitReplaced, PreparedServiceIsReplaced
  <2>7. QED
    BY <2>2, <2>5, <2>6 DEF BootInv
<1>5. QED
  BY <1>1, <1>2, <1>3, <1>4

(* The unit, the reload, the restart: only the last one starts a process.  *)
LEMMA PreparingKeepsBootInv ==
    ASSUME BootInv, WriteUnit \/ ReloadUnits \/ RunService
    PROVE  BootInv'
<1> USE DEF BootTypeOK, BootPc, Unit, Build, Step
<1>1. CASE WriteUnit
  BY <1>1 DEF WriteUnit, processes, sockets, BootInv, UnitReplaced, PreparedServiceIsReplaced,
              NotedBuild
<1>2. CASE ReloadUnits
  BY <1>2 DEF ReloadUnits, processes, sockets, BootInv, UnitReplaced, PreparedServiceIsReplaced,
              NotedBuild
<1>3. CASE RunService
  <2>1. /\ boot.pc = "run" /\ boot' = [boot EXCEPT !.pc = "wait"] /\ UNCHANGED <<units, sockets>>
        /\ boot.choice \in Scope /\ boot.choice \in Launcher
    BY <1>3 DEF RunService, BootInv, Launcher
  <2>2. UNCHANGED <<NotedActive, NotedBuild>>
    BY <2>1 DEF NotedActive, NotedBuild
  <2>3. UnitReplaced'
    BY <2>1, <2>2 DEF BootInv, UnitReplaced, units
  <2>4. CASE NeedsRestart \/ ~Active(boot.choice)
    <3>1. PICK build \in Build : Launch(boot.choice, build) /\ build \in Runs(boot.choice)
      BY <1>3, <2>4 DEF RunService, Runs
    <3>2. BootTypeOK' /\ (\A k \in Launcher : daemon'[k] <= starts') /\ boot'.seen <= starts'
      BY <2>1, <3>1, LaunchTakesNext DEF BootInv, units, sockets, Pid
    <3>3. NotedBuild = "old" => build = "new"
      BY <2>1, <3>1 DEF BootInv, UnitReplaced, Runs, Program
    <3>4. PreparedServiceIsReplaced'
      BY <2>1, <2>2, <3>1, <3>3, LaunchTakesNext
         DEF BootInv, PreparedServiceIsReplaced, NotedActive, NotedBuild, Active
    <3>5. QED
      BY <2>1, <2>2, <2>3, <3>2, <3>4 DEF BootInv
  <2>5. CASE ~NeedsRestart /\ Active(boot.choice)
    <3>1. UNCHANGED processes
      BY <1>3, <2>5 DEF RunService
    <3>2. ~NotedActive \/ NotedBuild = "none"
      BY <2>5 DEF NeedsRestart
    <3>3. PreparedServiceIsReplaced'
      BY <2>1, <2>2, <3>1, <3>2 DEF BootInv, PreparedServiceIsReplaced
    <3>4. QED
      BY <2>1, <2>2, <2>3, <3>1, <3>3 DEF BootInv, processes, units, sockets
  <2>6. QED
    BY <2>4, <2>5
<1>4. QED
  BY <1>1, <1>2, <1>3

(* So every step keeps the invariant. *)
LEMMA BootStep == BootInv /\ [BootNext]_bootVars => BootInv'
<1> SUFFICES ASSUME BootInv, [BootNext]_bootVars PROVE BootInv'
  OBVIOUS
<1>1. CASE BootNext
  BY <1>1, WorldKeepsBootInv, LookingKeepsBootInv, PreparingKeepsBootInv DEF BootNext
<1>2. CASE UNCHANGED bootVars
  BY <1>2 DEF bootVars, BootInv, BootTypeOK, UnitReplaced, PreparedServiceIsReplaced, NotedBuild,
              NotedActive, Active
<1>3. QED
  BY <1>1, <1>2

(***************************************************************************)
(* The state keeps its shape, for any number of daemon processes.          *)
(***************************************************************************)
THEOREM BootTypesHold == BootSpec => []BootTypeOK
<1>1. BootInv => BootTypeOK
  BY DEF BootInv
<1>2. QED
  BY <1>1, BootStart, BootStep, PTL DEF BootSpec

(***************************************************************************)
(* An interface that waits for the service it has updated, or whose unit   *)
(* it has replaced, waits for a process started since its look at the      *)
(* services, and in the second case for one of its own build: whoever      *)
(* kills and starts daemons or makes systemd read its units, and whatever  *)
(* interfaces before it left half done.                                    *)
(***************************************************************************)
THEOREM ServicesAreReplaced == BootSpec => []PreparedServiceIsReplaced
<1>1. BootInv => PreparedServiceIsReplaced
  BY DEF BootInv
<1>2. QED
  BY <1>1, BootStart, BootStep, PTL DEF BootSpec

-----------------------------------------------------------------------------
(***************************************************************************)
(* Pairing and sessions, for all browsers and pins and any number of       *)
(* tokens and daemon runs.                                                 *)
(***************************************************************************)
USE AuthAssumption

(***************************************************************************)
(* What every step relies on.  A token whose revocation is over is listed  *)
(* as revoked or has expired (an expired token is dropped from the list);  *)
(* the sessions known, and the one being recorded, were signed with the    *)
(* secret in memory; state.toml has that one or none.                      *)
(***************************************************************************)
RevokedOrExpired == revokedNow \subseteq revoked \cup expired
OneSecret == secret.file \in {0, secret.memory}
SessionsAreSigned ==
    \A t \in sessions : t \notin expired /\ signedWith[t] = secret.memory /\ secret.memory # 0
ApprovedIsSigned ==
    approval.pc # "idle" =>
        /\ approval.token \in Token
        /\ signedWith[approval.token] = secret.memory /\ secret.memory # 0
AuthInv ==
    AuthTypeOK /\ RevokedOrExpired /\ OneSecret /\ SessionsAreSigned /\ ApprovedIsSigned

(* Tokens are numbered from 1; 0 stands for none. *)
LEMMA TokenFacts == NoToken \notin Token /\ Token \subseteq Nat
  BY DEF NoToken, Token

(* Making sure that there is a secret keeps the one there is.              *)
LEMMA SecretStep ==
  ASSUME AuthTypeOK, OneSecret
  PROVE  /\ Ensured(secret) \in [memory : 0 .. MaxDaemonRuns, file : 0 .. MaxDaemonRuns]
         /\ Ensured(secret).file \in {0, Ensured(secret).memory}
         /\ Ensured(secret).memory # 0
         /\ secret.memory # 0 => Ensured(secret) = secret
  BY DEF AuthTypeOK, OneSecret, Ensured

(* A server without sessions satisfies the invariant. *)
LEMMA AuthInit_Inv == AuthInit => AuthInv
  BY DEF AuthInit, AuthInv, AuthTypeOK, RevokedOrExpired, OneSecret, SessionsAreSigned,
         ApprovedIsSigned, NoPairing, NoApproval, NoPin, NoToken

(* Every step keeps it. *)
LEMMA AuthStep == AuthInv /\ [AuthNext]_authVars => AuthInv'
  <1> SUFFICES ASSUME AuthInv, [AuthNext]_authVars PROVE AuthInv'
    OBVIOUS
  <1> USE DEF AuthInv, AuthTypeOK, RevokedOrExpired, OneSecret, SessionsAreSigned,
              ApprovedIsSigned, tokens
  <1>1. ASSUME NEW b \in Browser, RequestPairing(b) PROVE AuthInv'
    BY <1>1 DEF RequestPairing, FreePins
  <1>2. ASSUME NEW b \in Browser, PollPairing(b) PROVE AuthInv'
    BY <1>2 DEF PollPairing
  <1>3. ASSUME NEW b \in Browser, PairingExpires(b) PROVE AuthInv'
    BY <1>3 DEF PairingExpires, NoPairing
  <1>4. ASSUME NEW b \in Browser, Logout(b) PROVE AuthInv'
    BY <1>4 DEF Logout
  <1>5. ASSUME NEW pin \in Pin, IssueToken(pin) PROVE AuthInv'
    <2>1. PICK t \in Token \ Issued :
             /\ signedWith' = [signedWith EXCEPT ![t] = secret'.memory]
             /\ approval' = [pc |-> "find", pin |-> pin, token |-> t]
      BY <1>5 DEF IssueToken
    <2>2. /\ secret' \in [memory : 0 .. MaxDaemonRuns, file : 0 .. MaxDaemonRuns]
          /\ secret'.file \in {0, secret'.memory} /\ secret'.memory # 0
          /\ secret.memory # 0 => secret' = secret
      BY <1>5, SecretStep DEF IssueToken
    <2>3. AuthTypeOK'
      BY <1>5, <2>1, <2>2 DEF IssueToken
    <2>4. SessionsAreSigned'
      BY <1>5, <2>1, <2>2 DEF IssueToken
    <2> QED
      BY <1>5, <2>1, <2>2, <2>3, <2>4 DEF IssueToken
  <1>6. ASSUME NEW t \in Token, RevokeOne(t) PROVE AuthInv'
    BY <1>6 DEF RevokeOne
  <1>7. ASSUME NEW t \in Token, SessionExpires(t) PROVE AuthInv'
    BY <1>7 DEF SessionExpires, Issued
  <1>8. ASSUME FindPairing PROVE AuthInv'
    BY <1>8 DEF FindPairing, NoApproval
  <1>9. ASSUME RecordSession PROVE AuthInv'
    BY <1>9 DEF RecordSession, NoApproval
  <1>10. ASSUME RevokeAll PROVE AuthInv'
    BY <1>10 DEF RevokeAll
  <1>11. ASSUME DaemonIsRestarted PROVE AuthInv'
    BY <1>11 DEF DaemonIsRestarted, NoApproval, NoPairing
  <1>12. ASSUME SecretNotSaved \/ SaveState PROVE AuthInv'
    BY <1>12 DEF SecretNotSaved, SaveState
  <1>13. CASE UNCHANGED authVars
    BY <1>13 DEF authVars
  <1> QED
    BY <1>1, <1>2, <1>3, <1>4, <1>5, <1>6, <1>7, <1>8, <1>9, <1>10, <1>11, <1>12, <1>13 DEF AuthNext

(***************************************************************************)
(* In every reachable state the sessions known were signed with the secret *)
(* that is in memory, which state.toml has or which it has no other for,   *)
(* none of them has expired, and a token once revoked is still listed as   *)
(* such or has expired.                                                    *)
(***************************************************************************)
THEOREM AuthInvariant == AuthSpec => []AuthInv
  BY AuthInit_Inv, AuthStep, PTL DEF AuthSpec

(***************************************************************************)
(* A session a daemon has revoked stays invalid while that daemon runs:    *)
(* neither an approval still being recorded nor the expiry of the token,   *)
(* which takes it off the list of revoked ones, makes it valid again.      *)
(***************************************************************************)
THEOREM RevocationHolds == AuthSpec => []RevokedStaysOut
  <1>1. AuthInv => RevokedStaysOut
    BY DEF AuthInv, RevokedOrExpired, SessionsAreSigned, RevokedStaysOut, SessionIsValid,
           SignatureHolds
  <1> QED
    BY <1>1, AuthInvariant, PTL

(***************************************************************************)
(* A cookie that was valid and has been left alone stays valid in every    *)
(* step that neither expires a token nor ends a revocation: the approvals  *)
(* of other browsers add to what is valid, and a restarted daemon checks   *)
(* with the secret it has saved.                                           *)
(***************************************************************************)
LEMMA ValidToken ==
  ASSUME AuthInv, NEW t, SessionIsValid(t)
  PROVE  /\ t \notin revoked /\ t # NoToken
         /\ signedWith[t] = secret.memory /\ secret.memory # 0 /\ t \notin expired
  BY DEF AuthInv, SessionsAreSigned, SessionIsValid, SignatureHolds

(* A step that neither replaces, ends nor revokes a session leaves it valid. *)
LEMMA ValidityStep ==
  ASSUME AuthInv, AuthNext, NEW b \in Browser, SessionIsValid(cookie[b]),
         cookie'[b] = cookie[b], ~EndsUnsaved, expired' = expired, revokedNow' \subseteq revokedNow
  PROVE  SessionIsValid(cookie[b])'
  <1> DEFINE t == cookie[b]
  <1>1. /\ t \notin revoked /\ t # NoToken
        /\ signedWith[t] = secret.memory /\ secret.memory # 0 /\ t \notin expired
    BY ValidToken
  <1>2. t \in Token
    BY <1>1 DEF AuthInv, AuthTypeOK
  <1>3. SUFFICES t \notin revoked' /\ signedWith'[t] = secret'.memory /\ secret'.memory # 0
    BY <1>1, <1>3 DEF SessionIsValid, SignatureHolds
  <1> USE DEF tokens, AuthInv, AuthTypeOK
  <1>4. ASSUME NEW c \in Browser, \/ RequestPairing(c) \/ PollPairing(c)
                                  \/ PairingExpires(c) \/ Logout(c)
        PROVE  t \notin revoked' /\ signedWith'[t] = secret'.memory /\ secret'.memory # 0
    BY <1>1, <1>4 DEF RequestPairing, PollPairing, PairingExpires, Logout
  <1>5. ASSUME NEW pin \in Pin, IssueToken(pin)
        PROVE  t \notin revoked' /\ signedWith'[t] = secret'.memory /\ secret'.memory # 0
    BY <1>1, <1>2, <1>5 DEF IssueToken, Issued, Ensured
  <1>6. ASSUME NEW u \in Token, RevokeOne(u)
        PROVE  t \notin revoked' /\ signedWith'[t] = secret'.memory /\ secret'.memory # 0
    <2>1. u \in revokedNow
      BY <1>6 DEF RevokeOne
    <2>2. u # t
      BY <1>1, <2>1 DEF RevokedOrExpired
    <2> QED
      BY <1>1, <1>6, <2>2 DEF RevokeOne
  <1>7. ASSUME NEW u \in Token, SessionExpires(u) PROVE FALSE
    BY <1>7 DEF SessionExpires
  <1>8. ASSUME FindPairing \/ RecordSession \/ RevokeAll
        PROVE  t \notin revoked' /\ signedWith'[t] = secret'.memory /\ secret'.memory # 0
    BY <1>1, <1>8 DEF FindPairing, RecordSession, RevokeAll
  <1>9. ASSUME DaemonIsRestarted
        PROVE  t \notin revoked' /\ signedWith'[t] = secret'.memory /\ secret'.memory # 0
    BY <1>1, <1>9 DEF DaemonIsRestarted, EndsUnsaved
  <1>10. ASSUME SecretNotSaved \/ SaveState
         PROVE  t \notin revoked' /\ signedWith'[t] = secret'.memory /\ secret'.memory # 0
    BY <1>1, <1>10 DEF SecretNotSaved, SaveState
  <1> QED
    BY <1>4, <1>5, <1>6, <1>7, <1>8, <1>9, <1>10 DEF AuthNext

(***************************************************************************)
(* A session that is valid stays valid through every step that does not    *)
(* end it: other browsers pairing and leaving, tokens being issued, saved  *)
(* or revoked, and restarts of a daemon whose secret is on file.           *)
(***************************************************************************)
THEOREM SessionsAreKept == AuthSpec => SessionsSurvive
  <1>1. AuthInv /\ [AuthNext]_authVars =>
          [\A b \in Browser :
              SessionIsValid(cookie[b]) /\ cookie'[b] = cookie[b] /\ ~EndsUnsaved
              /\ expired' = expired /\ revokedNow' \subseteq revokedNow
                  => SessionIsValid(cookie[b])']_authVars
    BY ValidityStep
  <1> QED
    BY <1>1, AuthInvariant, PTL DEF AuthSpec, SessionsSurvive
-----------------------------------------------------------------------------
(* The web server's supervisor, and all the services together.             *)

(* A server is started only with settings that want one, so whatever serves  *)
(* has a configuration.                                                      *)
StartsWhatIsWanted == round \in {"start", "bind"} => read # Off
SupervisorInv == SupervisorTypeOK /\ StartsWhatIsWanted

(* The supervisor's numbers are numbers, and there is a configuration. *)
LEMMA SupervisorNumbers ==
  MaxWebChanges \in Nat /\ MaxWebFaults \in Nat /\ Off \notin WebConfig
  /\ \E c \in WebConfig : TRUE
  BY SupervisorAssumption DEF Off

(* The supervisor starts with no server. *)
LEMMA SupervisorStart == ASSUME SupervisorInit PROVE SupervisorInv
  <1>1. wanted \in WebConfig
    BY SupervisorNumbers DEF SupervisorInit
  <1>2. webChanges \in 0 .. MaxWebChanges /\ webFaults \in 0 .. MaxWebFaults
    BY SupervisorNumbers, SMT DEF SupervisorInit
  <1> QED
    BY <1>1, <1>2 DEF SupervisorInit, SupervisorInv, SupervisorTypeOK, StartsWhatIsWanted

(* Every step of the supervisor, of a server and of a request keeps it. *)
LEMMA SupervisorStep == SupervisorInv /\ [SupervisorNext]_webVars => SupervisorInv'
  <1> SUFFICES ASSUME SupervisorInv, [SupervisorNext]_webVars PROVE SupervisorInv'
    OBVIOUS
  <1>0. /\ wanted \in WebConfig \cup {Off} /\ read \in WebConfig \cup {Off}
        /\ active \in WebConfig \cup {Off}
        /\ webFaults \in 0 .. MaxWebFaults /\ webChanges \in 0 .. MaxWebChanges
    BY DEF SupervisorInv, SupervisorTypeOK
  <1>1. ASSUME WebTrouble PROVE webFaults' \in 0 .. MaxWebFaults
    BY <1>0, <1>1, SupervisorNumbers, SMT DEF WebTrouble
  <1> USE <1>0 DEF SupervisorInv, SupervisorTypeOK, StartsWhatIsWanted
  <1>2. CASE UNCHANGED webVars
    BY <1>2 DEF webVars
  <1>3. CASE ReadDesired
    BY <1>3 DEF ReadDesired
  <1>4. CASE StopOutdated
    <2>1. CASE Outdated
      BY <1>4, <2>1 DEF StopOutdated
    <2>2. CASE ~Outdated
      BY <1>4, <2>2 DEF StopOutdated
    <2> QED
      BY <2>1, <2>2
  <1>5. CASE StartServer
    BY <1>5 DEF StartServer
  <1>6. CASE Bind
    <2>1. read # Off /\ serving' \in BOOLEAN
      BY <1>6 DEF Bind
    <2>2. webFaults' \in 0 .. MaxWebFaults
      BY <1>1, <1>6 DEF Bind
    <2>3. active' \in WebConfig \cup {Off} /\ (serving' => active' # Off)
      BY <1>6, <2>1 DEF Bind
    <2>4. round' \in {"publish", "failed"} /\ UNCHANGED <<wanted, read, shown, requested, webChanges>>
      BY <1>6 DEF Bind
    <2> QED
      BY <2>1, <2>2, <2>3, <2>4
  <1>7. CASE PublishStart
    BY <1>7 DEF PublishStart
  <1>8. CASE ServerEnds
    BY <1>1, <1>8 DEF ServerEnds
  <1>9. CASE SaveWebSettings
    <2>1. webChanges' \in 0 .. MaxWebChanges
      BY <1>9, SupervisorNumbers, SMT DEF SaveWebSettings
    <2> QED
      BY <1>9, <2>1 DEF SaveWebSettings
  <1>10. CASE ResetStatus
    BY <1>10 DEF ResetStatus
  <1> QED
    BY <1>2, <1>3, <1>4, <1>5, <1>6, <1>7, <1>8, <1>9, <1>10 DEF SupervisorNext, Supervise

(***************************************************************************)
(* The state of the supervisor keeps its shape, and a server that serves   *)
(* has a configuration.                                                    *)
(***************************************************************************)
THEOREM SupervisorTypes == SupervisorSpec => []SupervisorTypeOK
  <1>1. SupervisorInit => SupervisorInv
    BY SupervisorStart
  <1>2. SupervisorInv => SupervisorTypeOK
    BY DEF SupervisorInv
  <1> QED
    BY <1>1, <1>2, SupervisorStep, PTL DEF SupervisorSpec

(* The invariant of every part, and of all of them together. *)
ServicesInv ==
    /\ EntriesInv /\ RuntimeInv /\ AuthInv /\ SupervisorInv /\ BootInv
    /\ AddInv /\ TorrentInv

(* All parts start together. *)
LEMMA ServicesStart == Init => ServicesInv
  BY EntriesAtStart, RuntimeInitInv, AuthInit_Inv, SupervisorStart, BootStart, AddsStart,
     TorrentsStart
     DEF Init, ServicesInv

(* Each part takes its own step or none, and that step keeps its invariant. *)
LEMMA ServicesStep == ServicesInv /\ [Next]_vars => ServicesInv'
  <1> SUFFICES ASSUME ServicesInv, [Next]_vars PROVE ServicesInv'
    OBVIOUS
  <1>1. /\ [RetryNext]_retryVars /\ [RuntimeNext]_runtimeVars /\ [AuthNext]_authVars
        /\ [SupervisorNext]_webVars /\ [BootNext]_bootVars /\ [AddNext]_addVars
        /\ [TorrentNext]_torrentVars
    BY DEF Next, vars, Retries, Runtime, Auth, Web, Boot, Adds, Engine
  <1>2. EntriesInv'
    BY <1>1, EntriesStep DEF ServicesInv
  <1>3. RuntimeInv'
    BY <1>1, RuntimeStepInv DEF ServicesInv
  <1>4. AuthInv'
    BY <1>1, AuthStep DEF ServicesInv
  <1>5. SupervisorInv'
    BY <1>1, SupervisorStep DEF ServicesInv
  <1>6. BootInv'
    BY <1>1, BootStep DEF ServicesInv
  <1>7. AddInv'
    BY <1>1, AddStep DEF ServicesInv
  <1>8. TorrentInv'
    BY <1>1, TorrentStep DEF ServicesInv
  <1> QED
    BY <1>2, <1>3, <1>4, <1>5, <1>6, <1>7, <1>8 DEF ServicesInv

(***************************************************************************)
(* The daemon's services keep the shape of their state whichever of them   *)
(* moves, for any number of downloads, refreshers, browsers, requests and  *)
(* restarts.                                                               *)
(***************************************************************************)
THEOREM ServicesTypes == Spec => []ServicesTypeOK
  <1>1. ServicesInv => ServicesTypeOK
    BY TypesSuffice DEF ServicesInv, ServicesTypeOK, EntriesInv, RuntimeInv, AuthInv,
       SupervisorInv, BootInv, AddInv, TorrentInv
  <1> QED
    BY <1>1, ServicesStart, ServicesStep, PTL DEF Spec
=============================================================================
