------------------------------ MODULE Torrents ------------------------------
(***************************************************************************)
(* The torrent engine (src/torrent_engine.rs) and what the daemon keeps    *)
(* about torrents: the speed limits of the session and of every torrent,   *)
(* and the set of torrents to be read from start to end.  The limit of the *)
(* session is set by a refresh after aria2 has taken the same limit; an    *)
(* add request works with the settings it read when it began.  The session *)
(* has one torrent per info hash.                                          *)
(***************************************************************************)
EXTENDS Naturals

CONSTANTS
    Hash,               \* info hashes
    Cap,                \* effective_limit_bps
    Unlimited,          \* no limit: the greatest of them
    MaxTorrentOps,      \* BOUND: changes of limit and streaming mode, cancels, toggles
    MaxTorrentFaults    \* BOUND: failed refreshes, refused adds and restarts

ASSUME TorrentAssumption ==
    /\ Hash # {}
    /\ Cap \subseteq Nat \ {0} /\ Unlimited \in Cap /\ \A c \in Cap : c <= Unlimited
    /\ {MaxTorrentOps, MaxTorrentFaults} \subseteq Nat

VARIABLES
    torrents,       \* what the session has of each hash
    sessionCap,     \* the session's rate limit
    desiredCap,     \* desired_limit_bps
    capNow,         \* the limit the settings ask for
    streaming,      \* torrent_streaming_mode is not off
    sequential,     \* sequential_torrents
    readers,        \* torrents this daemon has given a sequential reader
    published,      \* sequential_download of each torrent in the snapshot
    adding,         \* the add request in progress, with the settings it read
    syncing,        \* the refresh in progress, with the limit it read
    inSync,         \* history variable: a refresh begun since the last change has ended
    recycled,       \* history variable: torrents added while already marked
    torrentOps, torrentFaults

torrentVars == <<torrents, sessionCap, desiredCap, capNow, streaming, sequential, readers,
                 published, adding, syncing, inSync, recycled, torrentOps, torrentFaults>>

NoTorrent == [status |-> "none", cap |-> Unlimited]
NoSync == [cap |-> Unlimited, on |-> FALSE, fresh |-> FALSE]
NoAdd == [hash |-> CHOOSE h \in Hash : TRUE, cap |-> Unlimited, sequential |-> FALSE, on |-> FALSE]
Managed == {h \in Hash : torrents[h].status # "none"}

TorrentTypeOK ==
    /\ torrents \in [Hash -> [status : {"none", "live", "paused", "complete", "error"}, cap : Cap]]
    /\ {sessionCap, desiredCap, capNow} \subseteq Cap
    /\ {streaming, inSync} \subseteq BOOLEAN
    /\ sequential \subseteq Hash /\ readers \subseteq Managed /\ recycled \subseteq Hash
    /\ published \in [Hash -> {"absent", "plain", "marked"}]
    /\ adding \in [hash : Hash, cap : Cap, sequential : BOOLEAN, on : BOOLEAN]
    /\ syncing \in [cap : Cap, on : BOOLEAN, fresh : BOOLEAN]
    /\ torrentOps \in 0 .. MaxTorrentOps /\ torrentFaults \in 0 .. MaxTorrentFaults

TorrentInit ==
    /\ torrents = [h \in Hash |-> NoTorrent]
    /\ sessionCap = Unlimited /\ desiredCap = Unlimited /\ capNow = Unlimited
    /\ streaming = FALSE /\ sequential = {} /\ readers = {} /\ recycled = {}
    /\ published = [h \in Hash |-> "absent"]
    /\ adding = NoAdd /\ syncing = NoSync /\ inSync = FALSE
    /\ torrentOps = 0 /\ torrentFaults = 0

Operate == torrentOps < MaxTorrentOps /\ torrentOps' = torrentOps + 1
Trouble == torrentFaults < MaxTorrentFaults /\ torrentFaults' = torrentFaults + 1

caps == <<sessionCap, desiredCap, capNow, inSync>>
marksOf == <<streaming, sequential, readers, recycled>>
requests == <<published, adding, syncing>>

-----------------------------------------------------------------------------
(* Requests. *)

BeginAdd(h) ==
    /\ ~adding.on
    /\ adding' = [hash |-> h, cap |-> capNow, sequential |-> streaming, on |-> TRUE]
    /\ UNCHANGED <<torrents, caps, marksOf, published, syncing, torrentOps, torrentFaults>>

(* add_url; a hash the session has already keeps its torrent and its limit. *)
AddTorrent ==
    /\ adding.on /\ adding' = NoAdd
    /\ LET h == adding.hash
       IN  /\ torrents' = IF h \in Managed THEN torrents
                          ELSE [torrents EXCEPT ![h] = [status |-> "live", cap |-> adding.cap]]
           /\ IF adding.sequential
              THEN /\ sequential' = sequential \cup {h} /\ readers' = readers \cup {h}
                   /\ recycled' = recycled \ {h}
              ELSE /\ recycled' = IF h \in sequential \ Managed THEN recycled \cup {h} ELSE recycled
                   /\ UNCHANGED <<sequential, readers>>
    /\ UNCHANGED <<caps, streaming, published, syncing, torrentOps, torrentFaults>>

AddRefused ==
    /\ adding.on /\ adding' = NoAdd /\ Trouble
    /\ UNCHANGED <<torrents, caps, marksOf, published, syncing, torrentOps>>

TorrentMoves(h) ==
    /\ \E move \in {<<"live", "paused">>, <<"paused", "live">>,
                    <<"live", "complete">>, <<"live", "error">>} :
           /\ torrents[h].status = move[1]
           /\ torrents' = [torrents EXCEPT ![h].status = move[2]]
    /\ UNCHANGED <<caps, marksOf, requests, torrentOps, torrentFaults>>

(* The mark of a cancelled torrent stays. *)
CancelTorrent(h) ==
    /\ h \in Managed /\ Operate
    /\ torrents' = [torrents EXCEPT ![h] = NoTorrent]
    /\ readers' = readers \ {h}
    /\ UNCHANGED <<caps, streaming, sequential, recycled, requests, torrentFaults>>

(***************************************************************************)
(* set_sequential_by_hash, with the opposite of what the snapshot shows,   *)
(* for a torrent that may be gone from the session by now.                 *)
(***************************************************************************)
MarkOnly(h) ==
    /\ published[h] # "absent" /\ Operate
    /\ sequential' = IF published[h] = "plain" THEN sequential \cup {h} ELSE sequential \ {h}
    /\ UNCHANGED <<torrents, caps, streaming, readers, recycled, requests, torrentFaults>>

SetSequential(h) ==
    /\ published[h] # "absent" /\ Operate
    /\ IF published[h] = "plain"
       THEN /\ sequential' = sequential \cup {h}
            /\ readers' = readers \cup ({h} \cap Managed)
            /\ recycled' = recycled \ ({h} \cap Managed)
       ELSE sequential' = sequential \ {h} /\ UNCHANGED <<readers, recycled>>
    /\ UNCHANGED <<torrents, caps, streaming, requests, torrentFaults>>

SetStreaming ==
    /\ Operate /\ streaming' = ~streaming
    /\ UNCHANGED <<torrents, caps, sequential, readers, recycled, requests, torrentFaults>>

ChangeLimit ==
    /\ Operate
    /\ capNow' \in Cap \ {capNow}
    /\ inSync' = FALSE /\ syncing' = [syncing EXCEPT !.fresh = FALSE]
    /\ UNCHANGED <<torrents, sessionCap, desiredCap, marksOf, published, adding, torrentFaults>>

-----------------------------------------------------------------------------
(* perform_refresh, from reading the settings to publishing. *)

ReadLimit ==
    /\ ~syncing.on /\ syncing' = [cap |-> capNow, on |-> TRUE, fresh |-> TRUE]
    /\ UNCHANGED <<torrents, caps, marksOf, published, adding, torrentOps, torrentFaults>>

PublishTorrents ==
    published' = [h \in Hash |-> IF h \notin Managed THEN "absent"
                                 ELSE IF h \in sequential THEN "marked" ELSE "plain"]

RefreshOfAriaOnly ==
    /\ syncing.on /\ syncing' = NoSync
    /\ desiredCap' = syncing.cap
    /\ inSync' = (inSync \/ syncing.fresh) /\ PublishTorrents
    /\ UNCHANGED <<torrents, capNow, sessionCap, marksOf, adding, torrentOps, torrentFaults>>

RefreshTorrents ==
    /\ syncing.on /\ syncing' = NoSync
    /\ desiredCap' = syncing.cap
    /\ sessionCap' = IF desiredCap = syncing.cap THEN sessionCap ELSE syncing.cap
    /\ inSync' = (inSync \/ syncing.fresh) /\ PublishTorrents
    /\ UNCHANGED <<torrents, capNow, marksOf, adding, torrentOps, torrentFaults>>

(* aria2 does not take the limit: the refresh ends before the session is asked. *)
RefreshWithoutAria ==
    /\ syncing.on /\ syncing' = NoSync /\ Trouble
    /\ UNCHANGED <<torrents, caps, marksOf, published, adding, torrentOps>>

(* The session comes back from its files, with or without the torrents' limits. *)
RestartWithTorrents ==
    /\ Trouble
    /\ \/ UNCHANGED torrents
       \/ torrents' = [h \in Hash |-> [torrents[h] EXCEPT !.cap = Unlimited]]
    /\ sessionCap' = Unlimited /\ desiredCap' = Unlimited /\ inSync' = FALSE
    /\ sequential' = {} /\ readers' = {} /\ recycled' = {}
    /\ published' = [h \in Hash |-> "absent"] /\ adding' = NoAdd /\ syncing' = NoSync
    /\ UNCHANGED <<capNow, streaming, torrentOps>>

-----------------------------------------------------------------------------
TorrentNext ==
    \/ \E h \in Hash : BeginAdd(h) \/ TorrentMoves(h) \/ CancelTorrent(h) \/ SetSequential(h)
    \/ AddTorrent \/ AddRefused \/ SetStreaming \/ ChangeLimit
    \/ ReadLimit \/ RefreshTorrents \/ RefreshWithoutAria \/ RestartWithTorrents

TorrentSpec == TorrentInit /\ [][TorrentNext]_torrentVars

-----------------------------------------------------------------------------
CapOf(h) == IF torrents[h].cap <= sessionCap THEN torrents[h].cap ELSE sessionCap

(***************************************************************************)
(* Once a refresh begun after the last change of the limit is over, no     *)
(* torrent may be faster than the limit, however adds, failed refreshes    *)
(* and restarts are ordered (README.md:14).                                *)
(***************************************************************************)
TorrentsUnderLimit == inSync => \A h \in Managed : CapOf(h) <= capNow

(***************************************************************************)
(* A torrent shown as sequential has been given a reader by this daemon,   *)
(* except one added again while its hash was still marked.                 *)
(***************************************************************************)
ShownSequentialIsRead ==
    \A h \in Managed : h \in sequential \ recycled => h \in readers
=============================================================================
