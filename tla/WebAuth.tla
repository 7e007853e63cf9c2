------------------------------ MODULE WebAuth ------------------------------
(***************************************************************************)
(* Pairing a browser and its session (src/web/mod.rs; the login, session   *)
(* and logout handlers of src/web/server.rs; the approve and revoke        *)
(* requests of src/daemon/reconcile.rs).                                   *)
(*                                                                         *)
(* A browser asks for a PIN, the user approves the PIN in the terminal,    *)
(* the browser's next poll gets a signed session token.  The token's       *)
(* signature is checked with a secret kept in state.toml; pairings,        *)
(* sessions and revoked tokens are in memory only and each has a lock of   *)
(* its own, so an approval and a revocation take several steps.            *)
(***************************************************************************)
EXTENDS Naturals, FiniteSets

CONSTANTS
    Browser,        \* browsers; a browser's pairing request is named after it
    Pin,            \* four-digit pins
    MaxTokens,      \* BOUND: session tokens ever issued
    MaxDaemonRuns   \* BOUND: times the daemon is started

ASSUME AuthAssumption ==
    /\ MaxTokens \in Nat \ {0} /\ MaxDaemonRuns \in Nat \ {0}
    /\ IsFiniteSet(Pin) /\ Cardinality(Pin) >= Cardinality(Browser)

Token == 1 .. MaxTokens
NoToken == 0
NoPin == "none"

VARIABLES
    pairings,   \* web_pairings: pin and approved_session_token per request, or NoPairing
    sessions,   \* web_sessions
    revoked,    \* web_revoked_sessions
    secret,     \* web_ui_session_secret in memory and in state.toml, 0 when there is none
    signedWith, \* the secret each issued token is signed with, 0 for a token not issued
    expired,    \* tokens past their date
    cookie,     \* the session cookie of each browser
    approval,   \* the approve request in progress
    revocation, \* the revoke-all or logout in progress: the tokens still to do
    runs,       \* daemon starts so far
    revokedNow  \* history variable: tokens whose revocation this daemon has finished

authVars == <<pairings, sessions, revoked, secret, signedWith, expired, cookie, approval,
              revocation, runs, revokedNow>>

NoPairing == [pin |-> NoPin, token |-> NoToken]
NoApproval == [pc |-> "idle", pin |-> NoPin, token |-> NoToken]

AuthTypeOK ==
    /\ pairings \in [Browser -> [pin : Pin \cup {NoPin}, token : Token \cup {NoToken}]]
    /\ sessions \subseteq Token /\ revoked \subseteq Token /\ expired \subseteq Token
    /\ secret \in [memory : 0 .. MaxDaemonRuns, file : 0 .. MaxDaemonRuns]
    /\ signedWith \in [Token -> 0 .. MaxDaemonRuns]
    /\ cookie \in [Browser -> Token \cup {NoToken}]
    /\ approval \in [pc : {"idle", "find", "record"}, pin : Pin \cup {NoPin},
                     token : Token \cup {NoToken}]
    /\ revocation \subseteq Token /\ revokedNow \subseteq Token
    /\ runs \in 1 .. MaxDaemonRuns

AuthInit ==
    /\ pairings = [b \in Browser |-> NoPairing]
    /\ sessions = {} /\ revoked = {} /\ expired = {}
    /\ secret = [memory |-> 0, file |-> 0]
    /\ signedWith = [t \in Token |-> 0]
    /\ cookie = [b \in Browser |-> NoToken]
    /\ approval = NoApproval /\ revocation = {} /\ runs = 1
    /\ revokedNow = {}

Issued == {t \in Token : signedWith[t] # 0}
Paired(b) == pairings[b] # NoPairing
SignatureHolds(t) ==
    /\ secret.memory # 0 /\ signedWith[t] = secret.memory
    /\ t \notin expired

(* session_is_valid *)
SessionIsValid(t) ==
    /\ t # NoToken
    /\ t \notin revoked
    /\ SignatureHolds(t) \/ t \in sessions

tokens == <<secret, signedWith, expired>>

-----------------------------------------------------------------------------
(* authenticated, auth_redirect: what every page asks first *)
LoggedOut(b) == ~SessionIsValid(cookie[b])

(* login_page, api_create_pairing: create_or_get_pairing *)
FreePins == {pin \in Pin : \A other \in Browser : pairings[other].pin # pin}
RequestPairing(b) ==
    /\ LoggedOut(b) /\ ~Paired(b)
    /\ \E pin \in FreePins :
          pairings' = [pairings EXCEPT ![b] = [pin |-> pin, token |-> NoToken]]
    /\ UNCHANGED <<sessions, revoked, tokens, cookie, approval, revocation, runs, revokedNow>>

(* login_status, api_pairing_status: the cookie is set from the approved pairing. *)
PollPairing(b) ==
    /\ Paired(b) /\ pairings[b].token # NoToken /\ cookie[b] # pairings[b].token
    /\ cookie' = [cookie EXCEPT ![b] = pairings[b].token]
    /\ UNCHANGED <<pairings, sessions, revoked, tokens, approval, revocation, runs, revokedNow>>

PairingExpires(b) ==
    /\ Paired(b)
    /\ pairings' = [pairings EXCEPT ![b] = NoPairing]
    /\ UNCHANGED <<sessions, revoked, tokens, cookie, approval, revocation, runs, revokedNow>>

(***************************************************************************)
(* approve_pairing_pin: a token is issued, with a new secret if there is   *)
(* none (ensure_session_secret), then the pairing is looked up, then the   *)
(* session is recorded.  A new secret is in memory before it is saved: if  *)
(* that fails the approval is refused, and later ones sign with it.        *)
(***************************************************************************)
EnsuredAnew(s) == [memory |-> runs, file |-> runs]
Ensured(s) == IF s.memory = 0 THEN [memory |-> runs, file |-> runs] ELSE s

IssueToken(pin) ==
    /\ approval.pc = "idle"
    /\ secret' = Ensured(secret)
    /\ \E t \in Token \ Issued :
          /\ \A u \in Token \ Issued : t <= u
          /\ signedWith' = [signedWith EXCEPT ![t] = secret'.memory]
          /\ approval' = [pc |-> "find", pin |-> pin, token |-> t]
    /\ UNCHANGED <<pairings, sessions, revoked, expired, cookie, revocation, runs, revokedNow>>

SecretNotSaved ==
    /\ approval.pc = "idle" /\ secret.memory = 0
    /\ secret' = [secret EXCEPT !.memory = runs]
    /\ UNCHANGED <<pairings, sessions, revoked, signedWith, expired, cookie, approval, revocation,
                   runs, revokedNow>>

(* Any change of another setting saves the whole state, the secret too. *)
SaveState ==
    /\ secret' = [secret EXCEPT !.file = secret.memory]
    /\ UNCHANGED <<pairings, sessions, revoked, signedWith, expired, cookie, approval, revocation,
                   runs, revokedNow>>

Matches(b) == Paired(b) /\ pairings[b].pin = approval.pin /\ pairings[b].token = NoToken
FindPairing ==
    /\ approval.pc = "find"
    /\ IF \E b \in Browser : Matches(b)
       THEN /\ \E b \in Browser :
                  Matches(b) /\ pairings' = [pairings EXCEPT ![b].token = approval.token]
            /\ approval' = [approval EXCEPT !.pc = "record"]
       ELSE approval' = NoApproval /\ UNCHANGED pairings
    /\ UNCHANGED <<sessions, revoked, tokens, cookie, revocation, runs, revokedNow>>

RecordSession ==
    /\ approval.pc = "record"
    /\ sessions' = sessions \cup ({approval.token} \ expired)
    /\ approval' = NoApproval
    /\ UNCHANGED <<pairings, revoked, tokens, cookie, revocation, runs, revokedNow>>

(***************************************************************************)
(* revoke_session, for the cookie of a browser that logs out or for every  *)
(* session the daemon knows (RevokeAllWebUiSessions).                      *)
(***************************************************************************)
Logout(b) ==
    /\ revocation = {} /\ cookie[b] # NoToken
    /\ revocation' = {cookie[b]}
    /\ cookie' = [cookie EXCEPT ![b] = NoToken]
    /\ UNCHANGED <<pairings, sessions, revoked, tokens, approval, runs, revokedNow>>

RevokeAll ==
    /\ revocation = {} /\ sessions # {}
    /\ revocation' = sessions
    /\ UNCHANGED <<pairings, sessions, revoked, tokens, cookie, approval, runs, revokedNow>>

RevokeOneForgetting(t) ==
    /\ t \in revocation
    /\ sessions' = sessions \ {t}
    /\ revocation' = revocation \ {t} /\ revokedNow' = revokedNow \cup {t}
    /\ UNCHANGED <<pairings, revoked, tokens, cookie, approval, runs>>

RevokeOne(t) ==
    /\ t \in revocation
    /\ sessions' = sessions \ {t}
    /\ revoked' = revoked \cup ({t} \ expired)
    /\ revocation' = revocation \ {t} /\ revokedNow' = revokedNow \cup {t}
    /\ UNCHANGED <<pairings, tokens, cookie, approval, runs>>

SessionExpires(t) ==
    /\ t \in Issued \ expired
    /\ expired' = expired \cup {t}
    /\ sessions' = sessions \ {t} /\ revoked' = revoked \ {t}
    /\ UNCHANGED <<pairings, secret, signedWith, cookie, approval, revocation, runs, revokedNow>>

DaemonIsRestarted ==
    /\ runs < MaxDaemonRuns /\ runs' = runs + 1
    /\ pairings' = [b \in Browser |-> NoPairing]
    /\ sessions' = {} /\ revoked' = {}
    /\ approval' = NoApproval /\ revocation' = {} /\ revokedNow' = {}
    /\ secret' = [secret EXCEPT !.memory = secret.file]
    /\ UNCHANGED <<signedWith, expired, cookie>>

AuthNext ==
    \/ \E b \in Browser : RequestPairing(b) \/ PollPairing(b) \/ PairingExpires(b) \/ Logout(b)
    \/ \E pin \in Pin : IssueToken(pin)
    \/ \E t \in Token : RevokeOne(t) \/ SessionExpires(t)
    \/ SecretNotSaved \/ SaveState
    \/ FindPairing \/ RecordSession \/ RevokeAll \/ DaemonIsRestarted

AuthSpec == AuthInit /\ [][AuthNext]_authVars

-----------------------------------------------------------------------------
(***************************************************************************)
(* Once a daemon has revoked a session the session stays invalid under     *)
(* that daemon, even if its approval was still being recorded.             *)
(***************************************************************************)
RevokedStaysOut == \A t \in revokedNow : ~SessionIsValid(t)

(***************************************************************************)
(* README.md:149, "the browser keeps a signed session cookie": neither     *)
(* other browsers' approvals nor a restart of the daemon log a browser     *)
(* out; only time and a revocation do, and the end of a daemon that could  *)
(* not save its secret and has saved no setting since.                     *)
(***************************************************************************)
EndsUnsaved == runs' # runs /\ secret.file # secret.memory
SessionsSurvive ==
    [][\A b \in Browser :
          SessionIsValid(cookie[b]) /\ cookie'[b] = cookie[b] /\ ~EndsUnsaved
          /\ expired' = expired /\ revokedNow' \subseteq revokedNow
              => SessionIsValid(cookie[b])']_authVars
=============================================================================
