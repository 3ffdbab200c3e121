--------------------------- MODULE ContractCodes ---------------------------
(***************************************************************************)
(* The enrollment codes of one B2B contract (b2b/views/v0, b2b/mail.py,    *)
(* the code and Mailgun parts of b2b/api.py).                              *)
(*                                                                         *)
(* A code is a discount with a secret.  Managers assign codes to addresses *)
(* and take them back, tasks mail the secrets, Mailgun reports on the      *)
(* mails in any order, and any learner who knows a secret may redeem it to *)
(* join the contract.  A DiscountContractAttachmentRedemption record says  *)
(* to whom a code is assigned and who redeemed it.  A code belongs to the  *)
(* contract by its link to a product (DiscountProduct).  Nothing here runs *)
(* in a transaction, and most saves write whole rows.                      *)
(*                                                                         *)
(* The contract is one with one product, whose learners come by code, or   *)
(* by enrolling in its run, which admits them unasked (courses/api.py      *)
(* create_run_enrollments).                                                *)
(* Learners and addresses are the same set.  A secret is the number of     *)
(* times the code's secret has been replaced; the delivery status of a     *)
(* mail is the timestamp of the event it comes from, 0 while pending.      *)
(***************************************************************************)
EXTENDS Naturals, FiniteSetsExt

CONSTANTS
    Users, NoUser,
    Workers,
    SeatChoices,    \* values of max_learners in use; 0 for no limit
    FirstCodes,     \* how many codes there may be at first
    MaxCodes, MaxRecords,   \* bounds on the tables
    MaxOps,         \* bound on requests and tasks
    MaxMails,       \* bound on mails sent
    MaxTime,        \* bound on Mailgun's timestamps
    MaxCrashes      \* bound on workers that die

ASSUME ContractCodesAssumption ==
    /\ NoUser \notin Users
    /\ IsFiniteSet(Workers)
    /\ SeatChoices \subseteq Nat /\ FirstCodes \subseteq 0 .. MaxCodes
    /\ {MaxCodes, MaxRecords, MaxOps, MaxMails, MaxTime, MaxCrashes} \subseteq Nat

VARIABLES
    seats,      \* max_learners
    code,       \* the discounts: [exists, linked, unlimited, secret]
    rec,        \* the assignment and redemption records
    members,    \* learners in the contract
    enrolled,   \* those of them whom an enrollment brought in
    queue,      \* queued mail tasks for each record
    mailed,     \* mails that left
    proc,       \* what each worker is doing
    newest,     \* the latest event seen for each record since its last mail
    disturbed,  \* codes whose handlers overlapped, or one of which died;
                \* and Check, when checks of the codes overlapped
    count       \* operations, crashes and records so far

vars == <<seats, code, rec, members, enrolled, queue, mailed, proc, newest,
          disturbed, count>>

Codes == 1 .. MaxCodes
Check == MaxCodes + 1       \* stands for the codes of the contract together
Records == 1 .. MaxRecords

Code == [exists: BOOLEAN, linked: BOOLEAN, unlimited: BOOLEAN, secret: 0 .. MaxOps]
Record == [exists: BOOLEAN, code: Codes, email: Users \cup {NoUser},
           user: Users \cup {NoUser}, mid: 0 .. MaxMails, ts: 0 .. MaxTime]
NoRecord == [exists |-> FALSE, code |-> 1, email |-> NoUser, user |-> NoUser,
             mid |-> 0, ts |-> 0]

Idle == [pc |-> "idle", code |-> 0, user |-> NoUser, rec |-> 0, inst |-> NoRecord,
         n |-> 0, picks |-> {}]

Init ==
    /\ seats \in SeatChoices
    /\ \E n \in FirstCodes, unlimited \in BOOLEAN :
          code = [c \in Codes |-> [exists |-> c <= n, linked |-> c <= n,
                                   unlimited |-> unlimited, secret |-> 0]]
    /\ rec = [r \in Records |-> NoRecord]
    /\ members = {}
    /\ enrolled = {}
    /\ queue = [r \in Records |-> 0]
    /\ mailed = {}
    /\ proc = [w \in Workers |-> Idle]
    /\ newest = [r \in Records |-> 0]
    /\ disturbed = {}
    /\ count = [ops |-> 0, crashes |-> 0, records |-> 0]

\* contract.get_discounts(), and rows there may be none for yet.
Existing == {c \in Codes : code[c].exists /\ code[c].linked}
Fresh == {c \in Codes : ~code[c].exists}
RecordsOf(c) == {r \in Records : rec[r].exists /\ rec[r].code = c}
\* discount.contract_redemptions.first()
FirstRecord(c) == Min(RecordsOf(c))
Redeemed(r) == rec[r].user # NoUser
Unused(c) == RecordsOf(c) = {}

\* A handler that works on code c starts; it may be one of several.
Begin(w, h) ==
    /\ proc[w].pc = "idle"
    /\ count.ops < MaxOps
    /\ count' = [count EXCEPT !.ops = @ + 1]
    /\ proc' = [proc EXCEPT ![w] = h]
    /\ disturbed' = IF h.code # 0 /\ \E x \in Workers : proc[x].code = h.code
                    THEN disturbed \cup {h.code} ELSE disturbed
Continue(w, h) ==
    /\ proc' = [proc EXCEPT ![w] = h]
    /\ UNCHANGED disturbed
Finish(w) == Continue(w, Idle)
At(w, label) == proc[w].pc = label

\* A new record; its task is queued when there is a mail to send.
CreateRecord(c, email, user) ==
    LET r == count.records + 1
    IN  /\ r \in Records
        /\ rec' = [rec EXCEPT ![r] = [exists |-> TRUE, code |-> c, email |-> email,
                                      user |-> user, mid |-> 0, ts |-> 0]]
        /\ count' = [count EXCEPT !.records = r]
        /\ queue' = IF email = NoUser THEN queue ELSE [queue EXCEPT ![r] = @ + 1]

\* A whole row is written, also one that was deleted in the meantime.
SaveRecord(r, inst) == rec' = [rec EXCEPT ![r] = inst]

-----------------------------------------------------------------------------
(* Redeeming a code: AttachContractApi *)

\* _get_valid_discount: assignments do not count, redemptions do.
ValidDiscount(c) ==
    /\ code[c].exists
    /\ code[c].unlimited \/ \A r \in RecordsOf(c) : ~Redeemed(r)

\* A plausible slip: one seat more than the contract has.
IsFullOffByOne == seats # 0 /\ Cardinality(members) > seats
IsFull == seats # 0 /\ Cardinality(members) >= seats

\* The checks.  A learner who is in the contract already changes nothing.
AttachCheck(w, u, c) ==
    /\ ValidDiscount(c)
    /\ code[c].linked
    /\ u \notin members
    /\ ~IsFull
    /\ Begin(w, [Idle EXCEPT !.pc = "attach", !.code = c, !.user = u])
    /\ UNCHANGED <<seats, code, rec, members, enrolled, queue, mailed, newest>>

\* A plausible slip: the redemption is recorded before the learner is added.
AttachAddLate(w) ==
    LET h == proc[w]
    IN  /\ At(w, "attach")
        /\ code[h.code].exists
        /\ CreateRecord(h.code, NoUser, h.user)
        /\ Continue(w, [h EXCEPT !.pc = "redeem"])
        /\ UNCHANGED <<seats, code, members, enrolled, mailed, newest>>

\* Keycloak has been told; the learner is added to the contract.
AttachAdd(w) ==
    /\ At(w, "attach")
    /\ members' = members \cup {proc[w].user}
    /\ Continue(w, [proc[w] EXCEPT !.pc = "redeem"])
    /\ UNCHANGED <<seats, code, rec, enrolled, queue, mailed, newest, count>>

\* update_or_create on the record without a user: it is filled in, or one is
\* made; several of them, or a code deleted meanwhile, raise.
AttachRedeem(w) ==
    LET h == proc[w]
        open == {r \in RecordsOf(h.code) : ~Redeemed(r)}
    IN  /\ At(w, "redeem")
        /\ CASE open = {} /\ code[h.code].exists ->
                   CreateRecord(h.code, NoUser, h.user)
             [] Cardinality(open) = 1 ->
                   /\ \E r \in open : SaveRecord(r, [rec[r] EXCEPT !.user = h.user])
                   /\ UNCHANGED <<queue, count>>
             [] OTHER -> UNCHANGED <<rec, queue, count>>
        /\ Finish(w)
        /\ UNCHANGED <<seats, code, members, enrolled, mailed, newest>>

\* create_run_enrollments, for whoever posts a run of the contract, buys it or
\* is enrolled by staff: the seats are not looked at.
Enroll(u) ==
    /\ count.ops < MaxOps
    /\ count' = [count EXCEPT !.ops = @ + 1]
    /\ members' = members \cup {u}
    /\ enrolled' = enrolled \cup ({u} \ members)
    /\ UNCHANGED <<seats, code, rec, queue, mailed, proc, newest, disturbed>>

-----------------------------------------------------------------------------
(* Managers *)

AssignCode(w, c, email) ==
    /\ c \in Existing
    /\ Unused(c)
    /\ Begin(w, [Idle EXCEPT !.pc = "assign", !.code = c, !.user = email])
    /\ UNCHANGED <<seats, code, rec, members, enrolled, queue, mailed, newest>>

\* bulk_assign for one address: the first free code, or a new one if the
\* contract has no limit.
BulkAssign(w, email) ==
    LET free == {c \in Existing : Unused(c)}
        c == IF free # {} THEN Min(free) ELSE Min(Fresh)
    IN  /\ \A r \in Records : rec[r].exists => email \notin {rec[r].email, rec[r].user}
        /\ free # {} \/ (seats = 0 /\ Fresh # {})
        /\ code' = IF free # {} THEN code
                   ELSE [code EXCEPT ![c].exists = TRUE, ![c].linked = TRUE,
                                     ![c].unlimited = FALSE]
        /\ Begin(w, [Idle EXCEPT !.pc = "assign", !.code = c, !.user = email])
        /\ UNCHANGED <<seats, rec, members, enrolled, queue, mailed, newest>>

\* bulk_create, which fails when the code is gone; then the mail task.
AssignSave(w) ==
    LET h == proc[w]
    IN  /\ At(w, "assign")
        /\ IF code[h.code].exists
           THEN CreateRecord(h.code, h.user, NoUser)
           ELSE UNCHANGED <<rec, queue, count>>
        /\ Finish(w)
        /\ UNCHANGED <<seats, code, members, enrolled, mailed, newest>>

\* A plausible slip: a manager may change records that have been redeemed.
EditRecordAnyTime(w, label, c, email) ==
    /\ c \in Existing
    /\ ~Unused(c)
    /\ Begin(w, [Idle EXCEPT !.pc = label, !.code = c, !.user = email,
                             !.rec = FirstRecord(c), !.inst = rec[FirstRecord(c)]])
    /\ UNCHANGED <<seats, code, rec, members, enrolled, queue, mailed, newest>>

\* revoke_code, reassign_code and remind begin by loading the record.
EditRecord(w, label, c, email) ==
    /\ c \in Existing
    /\ ~Unused(c)
    /\ ~Redeemed(FirstRecord(c))
    /\ Begin(w, [Idle EXCEPT !.pc = label, !.code = c, !.user = email,
                             !.rec = FirstRecord(c), !.inst = rec[FirstRecord(c)]])
    /\ UNCHANGED <<seats, code, rec, members, enrolled, queue, mailed, newest>>

Revoke(w, c) == EditRecord(w, "revoke", c, NoUser)
Reassign(w, c, email) == EditRecord(w, "reassign", c, email)
Remind(w, c) ==
    /\ ~Unused(c) /\ rec[FirstRecord(c)].email # NoUser
    /\ EditRecord(w, "remind", c, NoUser)

RevokeDelete(w) ==
    /\ At(w, "revoke")
    /\ rec' = [rec EXCEPT ![proc[w].rec].exists = FALSE]
    /\ Continue(w, [proc[w] EXCEPT !.pc = "new_secret"])
    /\ UNCHANGED <<seats, code, members, enrolled, queue, mailed, newest, count>>

\* A plausible slip: the secret the previous assignee was sent goes on working.
NewSecretKept(c) == UNCHANGED code
NewSecret(c) == code' = [code EXCEPT ![c].secret = @ + 1]

RevokeSecret(w) ==
    /\ At(w, "new_secret")
    /\ NewSecret(proc[w].code)
    /\ Finish(w)
    /\ UNCHANGED <<seats, rec, members, enrolled, queue, mailed, newest, count>>

ReassignSecret(w) ==
    /\ At(w, "reassign")
    /\ NewSecret(proc[w].code)
    /\ Continue(w, [proc[w] EXCEPT !.pc = "remind", !.inst.email = proc[w].user])
    /\ UNCHANGED <<seats, rec, members, enrolled, queue, mailed, newest, count>>

\* The record is saved whole, its delivery fields cleared, and a mail queued.
SaveAndMail(w) ==
    LET h == proc[w]
    IN  /\ At(w, "remind")
        /\ SaveRecord(h.rec, [h.inst EXCEPT !.mid = 0, !.ts = 0])
        /\ queue' = [queue EXCEPT ![h.rec] = @ + 1]
        /\ newest' = [newest EXCEPT ![h.rec] = 0]
        /\ Finish(w)
        /\ UNCHANGED <<seats, code, members, enrolled, mailed, count>>

-----------------------------------------------------------------------------
(* Mails and what Mailgun says about them *)

\* The task reads the record with its code and sends, if there still is one.
SendMail(w, r) ==
    LET m == Cardinality(mailed) + 1
    IN  /\ queue[r] > 0
        /\ queue' = [queue EXCEPT ![r] = @ - 1]
        /\ IF rec[r].exists
           THEN /\ m <= MaxMails
                /\ mailed' = mailed \cup {[mid |-> m, rec |-> r, email |-> rec[r].email,
                                           code |-> rec[r].code,
                                           secret |-> code[rec[r].code].secret]}
                /\ Begin(w, [Idle EXCEPT !.pc = "mid", !.code = rec[r].code,
                                         !.rec = r, !.n = m])
           ELSE Begin(w, Idle) /\ UNCHANGED mailed
        /\ UNCHANGED <<seats, code, rec, members, enrolled, newest>>

\* Only the fields of the mail are saved.
SaveMessageId(w) ==
    /\ At(w, "mid")
    /\ rec' = IF rec[proc[w].rec].exists
              THEN [rec EXCEPT ![proc[w].rec].mid = proc[w].n] ELSE rec
    /\ Finish(w)
    /\ UNCHANGED <<seats, code, members, enrolled, queue, mailed, newest, count>>

\* A plausible slip: events are taken in the order they arrive.
IsNewsAlways(inst, ts) == TRUE
IsNews(inst, ts) == ts > inst.ts

\* An event of some mail, late, repeated or out of order.  One for a mail that
\* no record knows (any more) raises.
Webhook(w, r, ts) ==
    /\ rec[r].exists
    /\ rec[r].mid # 0
    /\ IsNews(rec[r], ts)
    /\ Begin(w, [Idle EXCEPT !.pc = "event", !.code = rec[r].code, !.rec = r,
                             !.inst = rec[r], !.n = ts])
    /\ UNCHANGED <<seats, code, rec, members, enrolled, queue, mailed, newest>>

SaveEvent(w) ==
    LET h == proc[w]
    IN  /\ At(w, "event")
        /\ SaveRecord(h.rec, [h.inst EXCEPT !.ts = h.n])
        /\ newest' = [newest EXCEPT ![h.rec] = Max({@, h.n})]
        /\ Finish(w)
        /\ UNCHANGED <<seats, code, members, enrolled, queue, mailed, count>>

-----------------------------------------------------------------------------
(* ensure_enrollment_codes_exist: staff's commands and saves of the contract *)

\* The codes are counted; those of a contract with a limit are made one-time
\* before, which is taken as one step with the count.
CountCodes(w) ==
    /\ Begin(w, [Idle EXCEPT !.pc = "codes", !.code = Check,
                             !.n = Cardinality(Existing)])
    /\ code' = [c \in Codes |-> IF c \in Existing /\ seats # 0
                                THEN [code[c] EXCEPT !.unlimited = FALSE]
                                ELSE code[c]]
    /\ UNCHANGED <<seats, rec, members, enrolled, queue, mailed, newest>>

\* New codes, with their link; what n and the limit ask for.
CreateCodes(k, unlimited) ==
    \E new \in kSubset(k, Fresh) :
        /\ \A c \in new, d \in Fresh \ new : c < d
        /\ code' = [c \in Codes |-> IF c \in new
                                    THEN [code[c] EXCEPT !.exists = TRUE, !.linked = TRUE,
                                                         !.unlimited = unlimited]
                                    ELSE code[c]]

\* The codes that are missing are made, or the one of a contract without a limit
\* is updated.  Extra codes are counted again, to be removed.
WriteCodes(w) ==
    LET n == proc[w].n
        extra == Cardinality(Existing) - seats
    IN  /\ At(w, "codes")
        /\ CASE seats = 0 /\ n = 0 -> CreateCodes(1, TRUE)
             [] seats = 0 /\ n = 1 ->
                   code' = [code EXCEPT ![Min(Existing)].unlimited = TRUE]
             [] seats # 0 /\ n < seats -> CreateCodes(seats - n, FALSE)
             [] OTHER -> UNCHANGED code
        /\ IF seats # 0 /\ n > seats /\ extra > 0
           THEN Continue(w, [proc[w] EXCEPT !.pc = "select", !.n = extra])
           ELSE Finish(w)
        /\ UNCHANGED <<seats, rec, members, enrolled, queue, mailed, newest, count>>

\* A plausible slip: codes are removed whether they are in use or not.
RemovableAny(k) ==
    {c \in Existing : Cardinality({d \in Existing : d > c}) < k}
\* The newest codes that nobody was given or used.
Removable(k) ==
    LET unused == {c \in Existing : Unused(c)}
    IN  {c \in unused : Cardinality({d \in unused : d > c}) < k}

\* _handle_extra_enrollment_codes: the codes are picked by one query (which
\* records there were then is kept in rec), and removed one by one.
SelectCodes(w) ==
    LET picks == Removable(proc[w].n)
    IN  /\ At(w, "select")
        /\ IF picks = {} THEN Finish(w)
           ELSE Continue(w, [proc[w] EXCEPT !.pc = "unlink", !.picks = picks,
                                            !.rec = count.records])
        /\ UNCHANGED <<seats, code, rec, members, enrolled, queue, mailed, newest, count>>

\* The link goes first, in a commit of its own.
UnlinkCode(w) ==
    LET c == Max(proc[w].picks)
    IN  /\ At(w, "unlink")
        /\ code' = [code EXCEPT ![c].linked = FALSE]
        /\ Continue(w, [proc[w] EXCEPT !.pc = "delete", !.n = c])
        /\ UNCHANGED <<seats, rec, members, enrolled, queue, mailed, newest, count>>

\* Then the code, if no product is left; refresh_from_db raises when it is gone,
\* and the delete when there is a record of it by now.
DeleteCode(w) ==
    LET c == proc[w].n
        left == proc[w].picks \ {c}
        deleted == code[c].exists /\ ~code[c].linked /\ Unused(c)
    IN  /\ At(w, "delete")
        /\ code' = IF deleted THEN [code EXCEPT ![c].exists = FALSE] ELSE code
        /\ IF left # {} /\ (deleted \/ (code[c].exists /\ code[c].linked))
           THEN Continue(w, [proc[w] EXCEPT !.pc = "unlink", !.picks = left])
           ELSE Finish(w)
        /\ UNCHANGED <<seats, rec, members, enrolled, queue, mailed, newest, count>>

-----------------------------------------------------------------------------

Crash(w) ==
    /\ proc[w].pc # "idle"
    /\ count.crashes < MaxCrashes
    /\ count' = [count EXCEPT !.crashes = @ + 1]
    /\ proc' = [proc EXCEPT ![w] = Idle]
    /\ disturbed' = disturbed \cup ({proc[w].code} \cap Codes)
    /\ UNCHANGED <<seats, code, rec, members, enrolled, queue, mailed, newest>>

Start(w) ==
    \/ \E c \in Codes, u \in Users :
          AttachCheck(w, u, c) \/ AssignCode(w, c, u) \/ Reassign(w, c, u)
    \/ \E u \in Users : BulkAssign(w, u)
    \/ \E c \in Codes : Revoke(w, c) \/ Remind(w, c)
    \/ \E r \in Records : SendMail(w, r) \/ \E ts \in 1 .. MaxTime : Webhook(w, r, ts)
    \/ CountCodes(w)

Step(w) ==
    \/ AttachAdd(w) \/ AttachRedeem(w) \/ AssignSave(w)
    \/ RevokeDelete(w) \/ RevokeSecret(w) \/ ReassignSecret(w) \/ SaveAndMail(w)
    \/ SaveMessageId(w) \/ SaveEvent(w)
    \/ WriteCodes(w) \/ SelectCodes(w) \/ UnlinkCode(w) \/ DeleteCode(w)

Next ==
    \/ \E w \in Workers : Start(w) \/ Step(w) \/ Crash(w)
    \/ \E u \in Users : Enroll(u)

Spec == Init /\ [][Next]_vars

-----------------------------------------------------------------------------
(* Properties *)

\* Whoever a record says redeemed its code is in the contract, whatever
\* overlaps or dies: a code is never spent on a learner who was not let in
\* (_attach_user_to_contracts adds the learner first).
RedeemerIsMember ==
    \A r \in Records : rec[r].exists /\ Redeemed(r) => rec[r].user \in members

\* The seats are checked before Keycloak is called and never again, so
\* learners who join by code at the same moment may exceed them; by no more than
\* the requests that were under way together, though.  Learners whom an
\* enrollment brought in are bounded by nothing, and not counted.
SeatsNearlyKept ==
    seats # 0 =>
        Cardinality(members \ enrolled) <= seats + Cardinality(Workers) - 1

\* Handlers of a code that follow one another never lose a redemption: neither
\* a manager's change nor a late event or mail gives the code back.
RedemptionKept ==
    [][\A r \in Records :
          rec[r].exists /\ Redeemed(r) /\ rec[r].code \notin disturbed
             => rec'[r].exists /\ rec'[r].user = rec[r].user]_vars

\* A secret that still opens an assigned code was mailed to nobody but the
\* present assignee, however late the mails of earlier assignments leave.
SecretOnlyForAssignee ==
    \A m \in mailed, r \in Records :
        /\ m.code \notin disturbed
        /\ rec[r].exists /\ rec[r].code = m.code /\ ~Redeemed(r)
        /\ m.secret = code[m.code].secret
        => m.email = rec[r].email

\* The delivery status shown comes from the latest event that was received,
\* in whatever order Mailgun delivers them.
StatusIsNewest ==
    \A r \in Records :
        rec[r].exists /\ rec[r].code \notin disturbed => rec[r].ts = newest[r]

\* Checks of the codes that follow one another make up what is missing to the
\* seats and no more, and leave no fewer codes than seats, though they count,
\* count again, pick and remove at different moments, and may die in between.
UpToSeats ==
    seats # 0 /\ Check \notin disturbed =>
        /\ Cardinality(Existing') > Cardinality(Existing)
              => Cardinality(Existing') = seats
        /\ Cardinality(Existing') < Cardinality(Existing)
              => Cardinality(Existing') >= seats

\* A code in use is taken from the contract only if it was picked unused, and
\* given to somebody between the pick and the removal.
OnlyPickedGo ==
    \A c \in Existing \ Existing' :
        c \notin disturbed =>
            \E w \in Workers : /\ c \in proc[w].picks
                              /\ \A r \in RecordsOf(c) : r > proc[w].rec

\* What checks of the codes do to them, however assignments, redemptions and
\* revocations come in between (ensure_enrollment_codes_exist).
CodesFitSeats == [][UpToSeats /\ OnlyPickedGo]_vars
=============================================================================
