----------------------------- MODULE EdxAccount -----------------------------
(***************************************************************************)
(* Registering learners in edX (openedx/api.py, create_edx_user and what   *)
(* it calls; OpenEdxUser of openedx/models.py).                            *)
(*                                                                         *)
(* A learner is registered from web requests, the repair job and commands, *)
(* any number of them at once.  A redis lock per learner, which expires on *)
(* its own, keeps them apart; every save writes the whole OpenEdxUser row  *)
(* from the worker's instance.  edX refuses names and mail addresses it    *)
(* knows, may fail, and may register a learner without the answer          *)
(* arriving.                                                               *)
(*                                                                         *)
(* A username is a model value; the ones made by appending digits are the  *)
(* other members of Names.  Reads that nothing separates but computation   *)
(* are one step with what follows them.                                    *)
(***************************************************************************)
EXTENDS Naturals

CONSTANTS
    Users,          \* learners
    Visitors,       \* learners for whom create_user is called again
    Registered,     \* learners already registered under the desired name
    Names,          \* usernames
    Desired,        \* the username each learner would get: a function
    Others,         \* usernames edX may have given to people unknown here
    LtiUsers,       \* learners whose address belongs to an LTI account in edX
    Workers,        \* web and celery processes
    NoName, Nobody, \* no username; nobody's username
    MaxAttempts,    \* max_attempts of _create_edx_user_request
    MaxRequests,    \* bound on create_user calls other than the repair job's
    MaxGenerated,   \* bound on names generated in answer to a collision
    MaxFaults,      \* bound on calls edX fails, refuses or does not answer,
                    \* workers that die and locks that expire too early
    MaxEdits        \* bound on profile edits

ASSUME EdxAccountAssumption ==
    /\ Users # {}
    /\ Registered \subseteq Users /\ Visitors \subseteq Users
    /\ Desired \in [Users -> Names]
    /\ \A u, v \in Users : Desired[u] = Desired[v] => u = v
    /\ Others \subseteq Names
    /\ LtiUsers \subseteq Users
    /\ NoName \notin Names
    /\ Nobody \notin Users \cup {"someone"}
    /\ "someone" \notin Users
    /\ MaxAttempts \in Nat \ {0}
    /\ {MaxRequests, MaxGenerated, MaxFaults, MaxEdits} \subseteq Nat

VARIABLES
    row,        \* the OpenEdxUser table
    account,    \* edX: whose account a username is
    lti,        \* edX: learners whose address an LTI account holds
    lock,       \* learners whose registration lock is taken
    proc,       \* what each worker is doing
    late,       \* learners whose row a worker may save without the lock: it
                \* outlived its lock, or is choosing the first username
    used        \* how much of each bound is used up

vars == <<row, account, lti, lock, proc, late, used>>

-----------------------------------------------------------------------------
(* Rows and workers *)

Row == [username: Names \cup {NoName}, desired: Names \cup {NoName},
        synced: BOOLEAN, error: BOOLEAN]
NewRow(name) ==
    [username |-> name, desired |-> name, synced |-> FALSE, error |-> FALSE]

Handler == [pc: {"idle", "choose", "save_name", "lock", "save", "post",
                 "synced", "error"},
            user: Users, inst: Row, name: Names \cup {NoName},
            attempt: 0 .. MaxAttempts, fixed: BOOLEAN, owns: BOOLEAN]
Idle == [pc |-> "idle", user |-> CHOOSE u \in Users : TRUE,
         inst |-> NewRow(NoName), name |-> NoName, attempt |-> 0,
         fixed |-> FALSE, owns |-> FALSE]

Bounds == [requests: 0 .. MaxRequests, generated: 0 .. MaxGenerated,
           faults: 0 .. MaxFaults, edits: 0 .. MaxEdits]

\* The shape of rows and workers, and the bounds.
TypeOK ==
    /\ row \in [Users -> Row]
    /\ account \in [Names -> Users \cup {Nobody, "someone"}]
    /\ lti \in SUBSET Users
    /\ lock \in SUBSET Users
    /\ proc \in [Workers -> Handler]
    /\ late \in SUBSET Users
    /\ used \in Bounds

\* Learners sign up with a username, or without one through SCIM.
Init ==
    /\ row \in {[u \in Users |-> [NewRow(f[u]) EXCEPT !.synced = u \in Registered]] :
                 f \in {g \in [Users -> Names \cup {NoName}] :
                          \A u \in Users :
                             g[u] \in {Desired[u]} \cup
                                      (IF u \in Registered THEN {} ELSE {NoName})}}
    /\ \E gone \in SUBSET Others :
          account = [n \in Names |->
                       IF \E u \in Registered : Desired[u] = n
                       THEN CHOOSE u \in Registered : Desired[u] = n
                       ELSE IF n \in gone THEN "someone" ELSE Nobody]
    /\ lti = LtiUsers
    /\ lock = {}
    /\ proc = [w \in Workers |-> Idle]
    /\ late = {}
    /\ used = [requests |-> 0, generated |-> 0, faults |-> 0, edits |-> 0]

Becomes(w, h) == proc' = [proc EXCEPT ![w] = h]
Goto(w, label) == Becomes(w, [proc[w] EXCEPT !.pc = label])

Uses(bound, limit) ==
    /\ used[bound] < limit
    /\ used' = [used EXCEPT ![bound] = @ + 1]

\* A save that would break the unique constraint on edx_username raises.
Taken(n, u) == \E v \in Users \ {u} : row[v].username = n
CanSave(u, inst) == inst.username = NoName \/ ~Taken(inst.username, u)
Save(u, inst) == row' = [row EXCEPT ![u] = inst]

\* lock.release() in the finally block; a lock that has expired is not ours.
ReleaseAndStop(w) ==
    /\ lock' = IF proc[w].owns THEN lock \ {proc[w].user} ELSE lock
    /\ Becomes(w, Idle)

\* What generate_unique_username may return: random digits after the base
\* name, up to five digits; nothing when every candidate is in use here.
Generated(base) ==
    LET candidates == Names \ {base}
        inUse == {n \in candidates : \E v \in Users : row[v].username = n}
    IN  IF candidates = inUse THEN {NoName} ELSE candidates \ inUse

\* get_attemptable_username
Attemptable(u, desired) ==
    IF ~Taken(desired, u) THEN {desired} ELSE Generated(desired)

-----------------------------------------------------------------------------
(* create_edx_user up to the registration request *)

\* What create_edx_user does with the row r it loads: without a username the
\* learner is skipped, and so is a synced one whom edX confirms; a synced one
\* is not skipped when edX cannot be asked (_edx_user_exists).
Loaded(u, r) ==
    (IF r.username = NoName \/ r.synced THEN {Idle} ELSE {}) \cup
    (IF r.username = NoName THEN {}
     ELSE {IF n = NoName THEN Idle
           ELSE [Idle EXCEPT !.pc = "lock", !.user = u, !.inst = r, !.name = n] :
             n \in Attemptable(u, r.desired)})

\* reconcile_edx_username finds the row: it has a username, or needs one.
Reconcile(w, u) ==
    /\ proc[w].pc = "idle"
    /\ IF row[u].username = NoName
       THEN /\ Becomes(w, [Idle EXCEPT !.pc = "choose", !.user = u, !.inst = row[u]])
            /\ late' = late \cup {u}
       ELSE /\ \E h \in Loaded(u, row[u]) : Becomes(w, h)
            /\ UNCHANGED late
    /\ UNCHANGED <<row, account, lti, lock>>

\* create_user from registration, checkout, enrollment or a command.
CreateUser(w, u) ==
    /\ u \in Visitors
    /\ Uses("requests", MaxRequests)
    /\ Reconcile(w, u)

\* The repair job's pick: faulty users without a recorded error.
Faulty(u) == ~row[u].synced /\ ~row[u].error
RepairFaultyUser(w, u) ==
    /\ Faulty(u)
    /\ Reconcile(w, u)
    /\ UNCHANGED used

\* The name is looked for in the whole table, the learner's own row included.
ChooseName(w) ==
    LET h == proc[w]
        wanted == Desired[h.user]
        exists == \E v \in Users : row[v].username = wanted
    IN  /\ h.pc = "choose"
        /\ \E n \in IF exists THEN Generated(wanted) ELSE {wanted} :
              IF n = NoName
              THEN \E g \in Loaded(h.user, row[h.user]) : Becomes(w, g)
              ELSE Becomes(w, [h EXCEPT !.pc = "save_name",
                                 !.inst.username = n, !.inst.desired = n])
        /\ UNCHANGED <<row, account, lti, lock, late, used>>

\* The instance from before the choice is saved whole.
SaveName(w) ==
    LET h == proc[w]
    IN  /\ h.pc = "save_name"
        /\ IF CanSave(h.user, h.inst)
           THEN /\ Save(h.user, h.inst)
                /\ \E g \in Loaded(h.user, h.inst) : Becomes(w, g)
           ELSE UNCHANGED row /\ Becomes(w, Idle)
        /\ UNCHANGED <<account, lti, lock, late, used>>

-----------------------------------------------------------------------------
(* _create_edx_user_request *)

\* A plausible slip: the row is not read again once the lock is held.
AcquireLockNoRefresh(w) ==
    LET h == proc[w]
    IN  /\ h.pc = "lock"
        /\ h.user \notin lock
        /\ lock' = lock \cup {h.user}
        /\ Becomes(w, IF h.inst.synced THEN Idle
                      ELSE [h EXCEPT !.pc = "save", !.owns = TRUE])
        /\ UNCHANGED <<row, account, lti, late, used>>

\* The lock is not released when the learner turns out to be synced: the
\* return stands before the try block.
AcquireLock(w) ==
    LET h == proc[w]
        r == row[h.user]
    IN  /\ h.pc = "lock"
        /\ h.user \notin lock
        /\ lock' = lock \cup {h.user}
        /\ Becomes(w, IF r.synced THEN Idle
                      ELSE [h EXCEPT !.pc = "save", !.inst = r, !.owns = TRUE])
        /\ UNCHANGED <<row, account, lti, late, used>>

\* The five seconds of the acquire are over.
LockTimeout(w) ==
    /\ proc[w].pc = "lock"
    /\ proc[w].user \in lock
    /\ Becomes(w, Idle)
    /\ UNCHANGED <<row, account, lti, lock, late, used>>

\* The username is saved before each request: edX asks for it.
SaveAttempt(w) ==
    LET h == proc[w]
        inst == [h.inst EXCEPT !.username = h.name]
    IN  /\ h.pc = "save"
        /\ IF CanSave(h.user, inst)
           THEN /\ Save(h.user, inst)
                /\ Becomes(w, [h EXCEPT !.pc = "post", !.inst = inst,
                                        !.attempt = @ + 1])
                /\ UNCHANGED lock
           ELSE UNCHANGED row /\ ReleaseAndStop(w)
        /\ UNCHANGED <<account, lti, late, used>>

\* The loop goes on with a name, or ends with the last answer.
NextAttempt(w, h) ==
    Becomes(w, [h EXCEPT !.pc = IF h.attempt < MaxAttempts THEN "save" ELSE "error"])

\* What the registration API of edX may do with a request.
EmailTaken(u) == u \in lti \/ \E n \in Names : account[n] = u
RegistrationFree(u, n) == account[n] = Nobody /\ ~EmailTaken(u)
Register(u, n) == account' = [account EXCEPT ![n] = u]

PostRegistered(w) ==
    LET h == proc[w]
    IN  /\ h.pc = "post"
        /\ RegistrationFree(h.user, h.name)
        /\ Register(h.user, h.name)
        /\ Goto(w, "synced")
        /\ UNCHANGED <<row, lti, lock, late, used>>

\* A server error or a lost connection: raised, whatever edX has done.
PostFails(w) ==
    LET h == proc[w]
    IN  /\ h.pc = "post"
        /\ Uses("faults", MaxFaults)
        /\ \/ UNCHANGED account
           \/ RegistrationFree(h.user, h.name) /\ Register(h.user, h.name)
        /\ ReleaseAndStop(w)
        /\ UNCHANGED <<row, lti, late>>

\* 400: something in the learner's profile.
PostInvalid(w) ==
    /\ proc[w].pc = "post"
    /\ Uses("faults", MaxFaults)
    /\ Goto(w, "error")
    /\ UNCHANGED <<row, account, lti, lock, late>>

\* 409 duplicate-username: edX's first suggestion that is free here, or else
\* a name generated here, which also resets the attempts.
PostDuplicateUsername(w) ==
    LET h == proc[w]
        suggestions == {n \in Names : account[n] = Nobody /\ ~Taken(n, h.user)}
    IN  /\ h.pc = "post"
        /\ account[h.name] # Nobody
        /\ \/ /\ \E n \in suggestions : NextAttempt(w, [h EXCEPT !.name = n])
              /\ UNCHANGED used
           \/ \E n \in Generated(h.inst.desired) :
                 IF n = NoName
                 THEN Goto(w, "error") /\ UNCHANGED used
                 ELSE /\ Uses("generated", MaxGenerated)
                      /\ NextAttempt(w, [h EXCEPT !.name = n, !.attempt = 0])
        /\ UNCHANGED <<row, account, lti, lock, late>>

\* A plausible slip: an address edX knows is taken for a learner who is done.
PostDuplicateEmailIsDone(w) ==
    LET h == [proc[w] EXCEPT !.fixed = TRUE]
    IN  /\ h.pc = "post"
        /\ EmailTaken(h.user)
        /\ IF ~proc[w].fixed /\ h.user \in lti
           THEN /\ lti' = lti \ {h.user}
                /\ NextAttempt(w, h)
           ELSE /\ UNCHANGED lti
                /\ Goto(w, "synced")
        /\ UNCHANGED <<row, account, lock, late, used>>

\* 409 duplicate-email: fix_lti_user moves an LTI account out of the way,
\* once, and the registration is tried again.
PostDuplicateEmail(w) ==
    LET h == [proc[w] EXCEPT !.fixed = TRUE]
    IN  /\ h.pc = "post"
        /\ EmailTaken(h.user)
        /\ IF ~proc[w].fixed /\ h.user \in lti
           THEN /\ lti' = lti \ {h.user}
                /\ NextAttempt(w, h)
           ELSE /\ UNCHANGED lti
                /\ Goto(w, "error")
        /\ UNCHANGED <<row, account, lock, late, used>>

\* has_been_synced or has_sync_error is saved with the rest of the instance.
SaveOutcome(w, label, inst) ==
    /\ proc[w].pc = label
    /\ IF CanSave(proc[w].user, inst) THEN Save(proc[w].user, inst) ELSE UNCHANGED row
    /\ ReleaseAndStop(w)
    /\ UNCHANGED <<account, lti, late, used>>
SaveSynced(w) == SaveOutcome(w, "synced", [proc[w].inst EXCEPT !.synced = TRUE])
SetEdxError(w) == SaveOutcome(w, "error", [proc[w].inst EXCEPT !.error = TRUE])

-----------------------------------------------------------------------------
(* Around the handlers *)

\* An edit of the profile, by the learner or in the admin, gives the learner
\* another chance to sync; it updates the error fields alone.
ClearSyncError(u) ==
    /\ Uses("edits", MaxEdits)
    /\ row[u].error
    /\ row' = [row EXCEPT ![u].error = FALSE]
    /\ UNCHANGED <<account, lti, lock, proc, late>>

\* A plausible slip: a lock without expire.
LockExpiresNever(u) == u \notin Users /\ UNCHANGED vars

\* 120 seconds are over.
Holders(u) == {w \in Workers : proc[w].owns /\ proc[w].user = u}
LockExpires(u) ==
    /\ u \in lock
    /\ lock' = lock \ {u}
    /\ proc' = [w \in Workers |-> IF w \in Holders(u)
                                  THEN [proc[w] EXCEPT !.owns = FALSE]
                                  ELSE proc[w]]
    /\ IF Holders(u) = {}
       THEN UNCHANGED <<late, used>>
       ELSE late' = late \cup {u} /\ Uses("faults", MaxFaults)
    /\ UNCHANGED <<row, account, lti>>

Crash(w) ==
    /\ proc[w].pc # "idle"
    /\ Uses("faults", MaxFaults)
    /\ Becomes(w, Idle)
    /\ UNCHANGED <<row, account, lti, lock, late>>

Step(w) ==
    \/ ChooseName(w)
    \/ SaveName(w)
    \/ AcquireLock(w)
    \/ LockTimeout(w)
    \/ SaveAttempt(w)
    \/ PostRegistered(w)
    \/ PostFails(w)
    \/ PostInvalid(w)
    \/ PostDuplicateUsername(w)
    \/ PostDuplicateEmail(w)
    \/ SaveSynced(w)
    \/ SetEdxError(w)

Next ==
    \/ \E w \in Workers :
          \/ \E u \in Users : CreateUser(w, u) \/ RepairFaultyUser(w, u)
          \/ Step(w)
          \/ Crash(w)
    \/ \E u \in Users : ClearSyncError(u) \/ LockExpires(u)

\* Workers run what they have begun, the repair job runs every few minutes
\* and locks expire by themselves.
Fairness ==
    /\ \A w \in Workers : WF_vars(Step(w))
    /\ \A u \in Users : WF_vars(\E w \in Workers : RepairFaultyUser(w, u))
    /\ \A u \in Users : WF_vars(Holders(u) = {} /\ LockExpires(u))

Spec == Init /\ [][Next]_vars /\ Fairness

-----------------------------------------------------------------------------
(* Properties *)

\* A row that says its learner has been synced carries a username that edX
\* gave to this very learner, whichever workers saved the row, in whichever
\* order, and with or without the lock (OpenEdxUser.has_been_synced).
SyncedNameIsInEdx ==
    \A u \in Users : row[u].synced => account[row[u].username] = u

\* A learner who has been synced stays so, under the same name: the lock and
\* the second look at the row keep later workers away, unless some worker
\* outlived its lock or the learner had no username when two of them came
\* (the comment at openedx/api.py:344).
OnceSynced ==
    [][\A u \in Users \ late :
          row[u].synced => row'[u].synced /\ row'[u].username = row[u].username]_vars

\* Every learner ends up synced or with an error on record, for which a person
\* looks: no crash, lock left behind or lost answer makes the repair job go
\* over the same learner forever.
EveryLearnerSettles ==
    \A u \in Users : <>[](row[u].synced \/ row[u].error)
=============================================================================
