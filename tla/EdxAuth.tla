------------------------------ MODULE EdxAuth ------------------------------
(***************************************************************************)
(* The OAuth tokens with which one learner's edX calls are made            *)
(* (openedx/api.py, create_edx_auth_token to get_edx_api_client, and the   *)
(* OpenEdxApiAuth row of openedx/models.py).                               *)
(*                                                                         *)
(* Workers share the row.  Each one that means to change it locks it       *)
(* (select_for_update) and writes inside a transaction: a failure on the   *)
(* way rolls everything back, but not what edX has done by then.  edX      *)
(* replaces a refresh token when it is used and may drop it at any time.   *)
(*                                                                         *)
(* A refresh token and the access token issued with it are one number, in  *)
(* the order of issue; 0 stands for blank tokens.  Time is the moment when *)
(* the stored access token no longer lasts for the time asked for.         *)
(***************************************************************************)
EXTENDS Naturals

CONSTANTS
    Workers,        \* web and celery processes
    NoWorker,
    MaxRequests,    \* bound on requests, tasks and commands
    MaxExpiries,    \* bound on access tokens that grow old
    MaxRevoked,     \* bound on refresh tokens edX drops
    MaxFaults       \* bound on failed or unanswered edX calls, crashes, and
                    \* changes of the learner's sync state

ASSUME EdxAuthAssumption ==
    /\ NoWorker \notin Workers
    /\ {MaxRequests, MaxExpiries, MaxRevoked, MaxFaults} \subseteq Nat

VARIABLES
    auth,       \* the committed OpenEdxApiAuth row
    live,       \* refresh tokens edX would accept
    synced,     \* the learner has a synced OpenEdxUser row
    lock,       \* the worker that has the row locked
    proc,       \* what each worker is doing, with its uncommitted row
    count       \* what has happened so far

vars == <<auth, live, synced, lock, proc, count>>

MaxTokens == MaxRequests * 2
Auth == [exists: BOOLEAN, token: 0 .. MaxTokens, fresh: BOOLEAN]
NoAuth == [exists |-> FALSE, token |-> 0, fresh |-> FALSE]
Issued(n) == [exists |-> TRUE, token |-> n, fresh |-> TRUE]

Handler == [pc: {"idle", "delete", "ensure", "authorize", "check", "lock",
                 "refresh", "commit"},
            client: BOOLEAN,    \* get_edx_api_client, or create_edx_auth_token alone
            inst: Auth]
Idle == [pc |-> "idle", client |-> FALSE, inst |-> NoAuth]

TypeOK ==
    /\ auth \in Auth
    /\ live \in SUBSET (1 .. MaxTokens)
    /\ synced \in BOOLEAN
    /\ lock \in Workers \cup {NoWorker}
    /\ proc \in [Workers -> Handler]
    /\ count \in [requests: 0 .. MaxRequests, expiries: 0 .. MaxExpiries,
                  revoked: 0 .. MaxRevoked, faults: 0 .. MaxFaults,
                  issued: 0 .. MaxTokens, deleted: 0 .. MaxRequests]

Init ==
    /\ auth = NoAuth
    /\ live = {}
    /\ synced \in BOOLEAN
    /\ lock = NoWorker
    /\ proc = [w \in Workers |-> Idle]
    /\ count = [requests |-> 0, expiries |-> 0, revoked |-> 0, faults |-> 0,
                issued |-> 0, deleted |-> 0]

Becomes(w, h) == proc' = [proc EXCEPT ![w] = h]
Goto(w, label) == Becomes(w, [proc[w] EXCEPT !.pc = label])

Counts(what, limit) ==
    /\ count[what] < limit
    /\ count' = [count EXCEPT ![what] = @ + 1]

\* The lock is free, or goes on being held by the transaction that has it.
Lockable == lock = NoWorker

-----------------------------------------------------------------------------
(* Requests *)

\* get_edx_api_client; create_user and the repair job make sure of tokens only.
Request(w, client) ==
    /\ proc[w].pc = "idle"
    /\ Counts("requests", MaxRequests)
    /\ Becomes(w, [Idle EXCEPT !.pc = "ensure", !.client = client])
    /\ UNCHANGED <<auth, live, synced, lock>>

\* The command regenerate_edx_auth_tokens deletes the row first.
Regenerate(w) ==
    /\ proc[w].pc = "idle"
    /\ Counts("requests", MaxRequests)
    /\ Becomes(w, [Idle EXCEPT !.pc = "delete"])
    /\ UNCHANGED <<auth, live, synced, lock>>

DeleteAuth(w) ==
    /\ proc[w].pc = "delete"
    /\ Lockable
    /\ auth' = NoAuth
    /\ count' = [count EXCEPT !.deleted = @ + 1]
    /\ Goto(w, "ensure")
    /\ UNCHANGED <<live, synced, lock>>

\* The end of create_edx_auth_token: a client goes on to get_valid_edx_api_auth.
Ensured(w) ==
    Becomes(w, IF proc[w].client THEN [proc[w] EXCEPT !.pc = "check"] ELSE Idle)

\* create_edx_auth_token: the row is locked, or inserted, and found complete
\* or to be filled.
EnsureAuth(w) ==
    /\ proc[w].pc = "ensure"
    /\ IF ~synced
       THEN Becomes(w, Idle) /\ UNCHANGED lock
       ELSE /\ Lockable
            /\ IF auth.exists /\ auth.token # 0
               THEN Ensured(w) /\ UNCHANGED lock
               ELSE Goto(w, "authorize") /\ lock' = w
    /\ UNCHANGED <<auth, live, synced, count>>

-----------------------------------------------------------------------------
(* Calls of edX, inside the transaction *)

\* Every exception leaves the transaction: nothing is written.
RollBack(w) ==
    /\ Becomes(w, Idle)
    /\ lock' = IF lock = w THEN NoWorker ELSE lock

\* Login, authorization and redemption of the code: a new pair of tokens.
Authorize(w) ==
    /\ proc[w].pc = "authorize"
    /\ count' = [count EXCEPT !.issued = @ + 1]
    /\ live' = live \cup {count'.issued}
    /\ Becomes(w, [proc[w] EXCEPT !.pc = "commit", !.inst = Issued(count'.issued)])
    /\ UNCHANGED <<auth, synced, lock>>

\* One of the calls fails, before or after edX has issued tokens, which then
\* are nobody's.
AuthorizeFails(w) ==
    /\ proc[w].pc = "authorize"
    /\ Counts("faults", MaxFaults)
    /\ RollBack(w)
    /\ UNCHANGED <<auth, live, synced>>

\* The first look of get_valid_edx_api_auth, without the lock.
CheckAuth(w) ==
    /\ proc[w].pc = "check"
    /\ IF auth.exists /\ auth.fresh THEN Becomes(w, Idle) ELSE Goto(w, "lock")
    /\ UNCHANGED <<auth, live, synced, lock, count>>

\* The worker ends once it has refreshed the row it holds.
Refreshing == [pc |-> "refresh", client |-> FALSE, inst |-> auth]

\* A plausible slip: no second look once the row is locked.
LockAuthUnchecked(w) ==
    /\ proc[w].pc = "lock"
    /\ Lockable
    /\ IF ~auth.exists
       THEN Becomes(w, Idle) /\ UNCHANGED lock
       ELSE /\ Becomes(w, Refreshing)
            /\ lock' = w
    /\ UNCHANGED <<auth, live, synced, count>>

\* The second look, with the lock: the row is gone, or was refreshed by
\* another worker, or is refreshed now.
LockAuth(w) ==
    /\ proc[w].pc = "lock"
    /\ Lockable
    /\ IF ~auth.exists \/ auth.fresh
       THEN Becomes(w, Idle) /\ UNCHANGED lock
       ELSE /\ Becomes(w, Refreshing)
            /\ lock' = w
    /\ UNCHANGED <<auth, live, synced, count>>

\* A plausible slip: of the answer only the access token is stored.
RefreshAccessOnly(w) ==
    /\ proc[w].pc = "refresh"
    /\ proc[w].inst.token \in live
    /\ count' = [count EXCEPT !.issued = @ + 1]
    /\ live' = (live \ {proc[w].inst.token}) \cup {count'.issued}
    /\ Becomes(w, [proc[w] EXCEPT !.pc = "commit", !.inst.fresh = TRUE])
    /\ UNCHANGED <<auth, synced, lock>>

\* _refresh_edx_api_auth: edX takes the token and gives the next one.
Refresh(w) ==
    /\ proc[w].pc = "refresh"
    /\ proc[w].inst.token \in live
    /\ count' = [count EXCEPT !.issued = @ + 1]
    /\ live' = (live \ {proc[w].inst.token}) \cup {count'.issued}
    /\ Becomes(w, [proc[w] EXCEPT !.pc = "commit", !.inst = Issued(count'.issued)])
    /\ UNCHANGED <<auth, synced, lock>>

\* A plausible slip: the blank tokens are saved outside the transaction.
InvalidGrantCommitted(w) ==
    /\ proc[w].pc = "refresh"
    /\ proc[w].inst.token \notin live
    /\ auth' = [auth EXCEPT !.token = 0]
    /\ IF synced THEN Goto(w, "authorize") /\ UNCHANGED lock ELSE RollBack(w)
    /\ UNCHANGED <<live, synced, count>>

\* invalid_grant: the tokens are blanked in the transaction and authorized
\* anew, unless the learner has no synced account any more.
InvalidGrant(w) ==
    /\ proc[w].pc = "refresh"
    /\ proc[w].inst.token \notin live
    /\ IF synced THEN Goto(w, "authorize") /\ UNCHANGED lock ELSE RollBack(w)
    /\ UNCHANGED <<auth, live, synced, count>>

\* Any other error, or an answer that is lost after edX has done its part.
RefreshFails(w) ==
    /\ proc[w].pc = "refresh"
    /\ Counts("faults", MaxFaults)
    /\ live' \in {live, live \ {proc[w].inst.token}}
    /\ RollBack(w)
    /\ UNCHANGED <<auth, synced>>

Commit(w) ==
    /\ proc[w].pc = "commit"
    /\ auth' = proc[w].inst
    /\ lock' = IF lock = w THEN NoWorker ELSE lock
    /\ Ensured(w)
    /\ UNCHANGED <<live, synced, count>>

-----------------------------------------------------------------------------
(* Around the workers *)

AccessTokenExpires ==
    /\ auth.fresh
    /\ Counts("expiries", MaxExpiries)
    /\ auth' = [auth EXCEPT !.fresh = FALSE]
    /\ UNCHANGED <<live, synced, lock, proc>>

\* Swept away or revoked in edX.
RefreshTokenDies ==
    /\ Counts("revoked", MaxRevoked)
    /\ \E t \in live : live' = live \ {t}
    /\ UNCHANGED <<auth, synced, lock, proc>>

\* EdxAccount registers the learner, or a late save there takes it back.
SyncChanges ==
    /\ Counts("faults", MaxFaults)
    /\ synced' = ~synced
    /\ UNCHANGED <<auth, live, lock, proc>>

Crash(w) ==
    /\ proc[w].pc # "idle"
    /\ Counts("faults", MaxFaults)
    /\ RollBack(w)
    /\ UNCHANGED <<auth, live, synced>>

Step(w) ==
    \/ DeleteAuth(w)
    \/ EnsureAuth(w)
    \/ Authorize(w)
    \/ AuthorizeFails(w)
    \/ CheckAuth(w)
    \/ LockAuth(w)
    \/ Refresh(w)
    \/ InvalidGrant(w)
    \/ RefreshFails(w)
    \/ Commit(w)

Next ==
    \/ \E w \in Workers :
          \/ \E client \in BOOLEAN : Request(w, client)
          \/ Regenerate(w)
          \/ Step(w)
          \/ Crash(w)
    \/ AccessTokenExpires
    \/ RefreshTokenDies
    \/ SyncChanges

Spec == Init /\ [][Next]_vars

-----------------------------------------------------------------------------
(* Properties *)

\* Whatever fails or dies on the way, the stored row has its tokens: nobody
\* else ever sees the row that create_edx_auth_token inserts empty or the
\* tokens that _refresh_edx_api_auth blanks.
StoredTokensComplete == auth.exists => auth.token # 0

\* Workers that find the same token expired get one new token between them:
\* edX issues at most one for each expiry and each deletion of the row, the
\* first one and one for each fault apart (get_valid_edx_api_auth looks again
\* once it has the lock).
NoThunderingHerd ==
    count.issued <= 1 + count.expiries + count.deleted + count.faults

\* Unless edX has dropped a token or a call has failed, the row that everyone
\* sees holds a refresh token edX still takes: rotation leaves nobody with the
\* token that was used up, and no slow worker puts it back.
StoredTokenIsLive ==
    /\ lock = NoWorker /\ auth.exists
    /\ count.faults = 0 /\ count.revoked = 0
    => auth.token \in live
=============================================================================
