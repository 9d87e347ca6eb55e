--------------------------- MODULE RolloutExecution ---------------------------
(***************************************************************************)
(* Rollout executions (packages/database/src/rollout-automation.ts): the   *)
(* restore drill, the secret rotation, the promotion and the upstream      *)
(* identity sync of one target environment, with the registry of targets   *)
(* they are sent to (operational-integrations.ts), the store their proof   *)
(* is copied to (operational-proof-storage.ts) and the ledger that records *)
(* them (rollout-executions.ts).  An execution is no transaction: it runs  *)
(* a command of the outside world and then files, copies and records what  *)
(* it did, and it may be refused or cut at any step.                       *)
(***************************************************************************)
EXTENDS Naturals, Sequences, FiniteSets

CONSTANTS
    Calls,        \* the executions that may be asked for
    Targets,      \* the rows of the registry: kind, provider and label
    KindOf,       \* the kind of a target
    Keys,         \* the secrets
    Required,     \* the secrets a promotion wants rotated
    Window,       \* how many periods a drill or a rotation stays fresh
    ModesOf,      \* the modes the processes are configured for
    LocalOf,      \* whether executions of a kind are for the local environment
    StoreProofs,  \* OPERATIONAL_PROOF_STORAGE_MODE is not "disabled"
    MaxInFlight,  \* bound: executions in flight together
    MaxOf,        \* bound: executions of a kind
    Asked,        \* bound: the actions a sync brings upstream
    SetUp,        \* bound: targets verified before the first execution
    Contested,    \* bound: the targets that may lose their standing
    NoTarget

Kinds     == {"RESTORE_DRILL", "SECRET_ROTATION", "DEPLOYMENT_AUTOMATION", "UPSTREAM_IDENTITY"}
Modes     == {"command", "psql", "dry-run"}
Accounts  == {"ACTIVE", "SUSPENDED", "REVOKED"}
Lifecycle == {"PROVISION", "SUSPEND", "REACTIVATE", "REVOKE"}
Exits     == {"ZERO", "OTHER", "NONE"}

ASSUME RolloutAssumption ==
    /\ KindOf \in [Targets -> Kinds \cup {"PROOF_STORAGE"}]
    /\ NoTarget \notin Targets
    /\ Required \subseteq Keys
    /\ Window \in Nat /\ MaxInFlight \in Nat /\ MaxOf \in [Kinds -> Nat]
    /\ Asked \subseteq Lifecycle /\ SetUp \subseteq Targets /\ Contested \subseteq Targets
    /\ StoreProofs \in BOOLEAN
    /\ ModesOf \in [Kinds -> SUBSET Modes]
    /\ \A k \in Kinds : "psql" \in ModesOf[k] => k = "RESTORE_DRILL"
    /\ LocalOf \in [Kinds -> SUBSET BOOLEAN]
    /\ \A k \in Kinds : TRUE \in LocalOf[k] => k \in {"RESTORE_DRILL", "UPSTREAM_IDENTITY"}

VARIABLES
    integrations,  \* OperationalIntegration rows
    calls,         \* the executions: what was asked, and how far it came
    ran,           \* outside: the executions whose command did its work
    rotated,       \* outside: how long ago each secret was rotated
    identity,      \* upstreamStatus of an assignment; outside: its account,
                   \* and (history) the sync whose command was the last
    files,         \* manifests and reports on disk
    objects,       \* the executions whose proof is in the proof store
    ledger         \* the executions an OperationalExecution row records

world == <<ran, rotated>>
proof == <<files, objects, ledger>>
vars  == <<integrations, calls, world, identity, proof>>

Ages  == 0..(Window + 1)

(* A target that is suspended and one that is revoked are told apart by    *)
(* nothing, nor are the ways not to be verified.  History: a row that an   *)
(* operator verified at some time is vouched for.                          *)
NoRow  == [status |-> "NONE", verified |-> FALSE, vouched |-> FALSE, lastUsed |-> FALSE]
GoodRow == [status |-> "ACTIVE", verified |-> TRUE, vouched |-> TRUE, lastUsed |-> FALSE]
Row    == [status: {"ACTIVE", "SUSPENDED"}, verified: BOOLEAN,
           vouched: BOOLEAN, lastUsed: BOOLEAN]

(* A call that was not made yet has no kind.  `exit' is the exit code its  *)
(* report shows, `age' the age of the timestamp of its proof; `raced' is   *)
(* history.                                                                *)
NotMade == [kind |-> "NONE", mode |-> "dry-run", local |-> FALSE, keys |-> {},
            action |-> "NONE", at |-> 1, live |-> FALSE, target |-> NoTarget,
            exit |-> "NONE", age |-> 0, raced |-> FALSE]
Call    == [kind: Kinds, mode: Modes, local: BOOLEAN, keys: SUBSET Keys,
            action: Lifecycle \cup {"NONE"}, at: 1..8, live: BOOLEAN,
            target: Targets \cup {NoTarget}, exit: Exits, age: Ages, raced: BOOLEAN]

TypeOK ==
    /\ integrations \in [Targets -> Row \cup {NoRow}]
    /\ calls   \in [Calls -> Call \cup {NotMade}]
    /\ ran     \subseteq Calls
    /\ rotated \in [Keys -> Ages]
    /\ identity \in [upstream: Accounts \cup {"NONE"}, account: Accounts \cup {"NONE"},
                     last: SUBSET Calls]
    /\ files   \subseteq Calls \X {"MANIFEST", "REPORT"}
    /\ objects \subseteq Calls
    /\ ledger  \subseteq Calls

Init ==
    /\ integrations = [t \in Targets |-> IF t \in SetUp THEN GoodRow ELSE NoRow]
    /\ calls    = [c \in Calls |-> NotMade]
    /\ ran      = {}
    /\ rotated  = [k \in Keys |-> Window + 1]
    /\ identity = [upstream |-> "NONE", account |-> "NONE", last |-> {}]
    /\ files    = {} /\ objects = {} /\ ledger = {}

-----------------------------------------------------------------------------
(* The registry.  No operation looks at the status a row has.              *)
Register(t) ==
    /\ integrations[t] = NoRow
    /\ integrations' = [integrations EXCEPT ![t] =
            [NoRow EXCEPT !.status = "ACTIVE"]]
    /\ UNCHANGED <<calls, world, identity, proof>>

ChangeLifecycle(t, status) ==
    /\ integrations[t] # NoRow /\ t \in Contested
    /\ integrations' = [integrations EXCEPT ![t].status = status]
    /\ UNCHANGED <<calls, world, identity, proof>>

Verify(t, verified) ==
    /\ integrations[t] # NoRow /\ (verified \/ t \in Contested)
    /\ integrations' = [integrations EXCEPT ![t].verified = verified,
                                            ![t].vouched = @ \/ verified]
    /\ UNCHANGED <<calls, world, identity, proof>>

(* Faulty: what nobody verified is eligible too.                           *)
EligibleUnverified(kind) ==
    {t \in Targets : KindOf[t] = kind /\ integrations[t].status = "ACTIVE"}

Eligible(kind) ==
    {t \in Targets : /\ KindOf[t] = kind
                     /\ integrations[t].status = "ACTIVE" /\ integrations[t].verified}

Touched(t) == [integrations EXCEPT ![t].lastUsed = TRUE]

-----------------------------------------------------------------------------
(* The order of the steps of an execution, from its first await on.        *)

(* Faulty: the ledger row is written as soon as the command is back.       *)
PlanRecordsFirst(kind, mode, local) ==
    IF mode = "dry-run" THEN <<"file", "store", "record">>
    ELSE <<"resolve", "command", "file", "record", "store", "touch">>

(* Faulty: the row is brought up to date before the command is sent.       *)
PlanSyncsFirst(kind, mode, local) ==
    IF mode = "dry-run" THEN <<"file", "store", "record">>
    ELSE IF kind = "UPSTREAM_IDENTITY"
         THEN <<"resolve", "sync", "command", "file", "store", "touch", "record">>
         ELSE <<"resolve", "command", "file", "store", "touch", "record">>

Unexecuted == <<"file", "store", "record">>
Commanded  == <<"resolve", "command", "file", "store", "touch", "record">>

(* A drill touches its target before it is reported; psql has no target.   *)
DrillPlan(mode) ==
    CASE mode = "dry-run" -> Unexecuted
      [] mode = "psql"    -> <<"command", "file", "store", "record">>
      [] OTHER            -> <<"resolve", "command", "touch", "file", "store", "record">>

RotationPlan(mode)  == IF mode = "dry-run" THEN Unexecuted ELSE Commanded
PromotionPlan(mode) == IF mode = "dry-run" THEN Unexecuted ELSE Commanded

(* The assignment is brought up to date before anything is filed.          *)
UpstreamPlan(mode) ==
    IF mode = "dry-run" THEN Unexecuted
    ELSE <<"resolve", "command", "sync", "file", "store", "touch", "record">>

(* The local environment has neither a target nor a proof store.           *)
LocalPlan(kind, mode) ==
    IF mode = "dry-run" THEN <<"file", "record">>
    ELSE IF kind = "UPSTREAM_IDENTITY" THEN <<"command", "sync", "file", "record">>
    ELSE <<"command", "file", "record">>

Plan(kind, mode, local) ==
    IF local THEN LocalPlan(kind, mode) ELSE
    CASE kind = "RESTORE_DRILL"         -> DrillPlan(mode)
      [] kind = "SECRET_ROTATION"       -> RotationPlan(mode)
      [] kind = "DEPLOYMENT_AUTOMATION" -> PromotionPlan(mode)
      [] OTHER                          -> UpstreamPlan(mode)

PlanOf(c)       == Plan(calls[c].kind, calls[c].mode, calls[c].local)
AtStep(c, step) == /\ calls[c].live /\ calls[c].at <= Len(PlanOf(c))
                   /\ PlanOf(c)[calls[c].at] = step
Passed(c, step) == \E i \in 1..(calls[c].at - 1) : PlanOf(c)[i] = step

NewCall(kind, mode, local, keys, action) ==
    [kind |-> kind, mode |-> mode, local |-> local, keys |-> keys, action |-> action,
     at |-> 1, live |-> TRUE, target |-> NoTarget, exit |-> "NONE", age |-> 0,
     raced |-> FALSE]

InFlight == {c \in Calls : calls[c].live}

Begin(c, call) ==
    /\ calls[c] = NotMade
    /\ Cardinality(InFlight) < MaxInFlight
    /\ Cardinality({d \in Calls : calls[d].kind = call.kind}) < MaxOf[call.kind]
    /\ calls' = [calls EXCEPT ![c] = call]
    /\ UNCHANGED <<integrations, world, identity, objects, ledger>>

(* executeAtlasRestoreDrill: by command, by psql, or not executed at all.  *)
RestoreDrill(c, mode, local) ==
    /\ Begin(c, NewCall("RESTORE_DRILL", mode, local, {}, "NONE"))
    /\ UNCHANGED files

(* executeAtlasSecretRotation: the manifest is dated and filed at once.    *)
RotateSecrets(c, mode, keys) ==
    /\ Begin(c, NewCall("SECRET_ROTATION", mode, FALSE, keys, "NONE"))
    /\ files' = files \cup {<<c, "MANIFEST">>}

Fresh(c) == calls[c].age <= Window

(* A drill proves itself if it was executed, in the environment promoted   *)
(* to, which is never the local one.                                       *)
DrillProof(c) ==
    /\ calls[c].kind = "RESTORE_DRILL" /\ <<c, "REPORT">> \in files
    /\ calls[c].mode # "dry-run" /\ ~calls[c].local /\ Fresh(c)

(* Faulty: the age of the rotation is not looked at.                       *)
RotationProofOfAnyAge(c, file) ==
    /\ calls[c].kind = "SECRET_ROTATION" /\ <<c, file>> \in files
    /\ Required \subseteq calls[c].keys

RotationProof(c, file) ==
    /\ calls[c].kind = "SECRET_ROTATION" /\ <<c, file>> \in files
    /\ Required \subseteq calls[c].keys /\ Fresh(c)

(* executeAtlasPromotionAutomation on the files an operator names; the     *)
(* operator page names the newest reports.                                 *)
Promote(c, mode, drill, rotation, file) ==
    /\ DrillProof(drill) /\ RotationProof(rotation, file)
    /\ Begin(c, NewCall("DEPLOYMENT_AUTOMATION", mode, FALSE, {}, "NONE"))
    /\ UNCHANGED files

(* executeAtlasUpstreamIdentityLifecycle, after the same action was taken  *)
(* on the assignment itself, in a transaction of its own.                  *)
SyncUpstream(c, mode, local, action) ==
    /\ Begin(c, NewCall("UPSTREAM_IDENTITY", mode, local, {}, action))
    /\ UNCHANGED files

-----------------------------------------------------------------------------
(* The call with its step behind it; the last step ends it.                *)
Stepped(c) == [calls[c] EXCEPT !.at = @ + 1, !.live = calls[c].at < Len(PlanOf(c))]
Advance(c) == calls' = [calls EXCEPT ![c] = Stepped(c)]

Resolve(c) ==
    /\ AtStep(c, "resolve")
    /\ \E t \in Eligible(calls[c].kind) :
        /\ Eligible(calls[c].kind) = {t}
        /\ calls' = [calls EXCEPT ![c] = [Stepped(c) EXCEPT !.target = t]]
    /\ UNCHANGED <<integrations, world, identity, proof>>

(* Faulty: the action is kept in place of the status it leads to.          *)
mapUpstreamLifecycleAction(action) == action

mapUpstreamLifecycleStatus(action) ==
    CASE action = "SUSPEND" -> "SUSPENDED"
      [] action = "REVOKE"  -> "REVOKED"
      [] OTHER              -> "ACTIVE"

(* A command answers zero, another code, or none: it was killed, said too  *)
(* much or could not be started.  Only a drill takes no code for a failure.*)
Accepted(kind, exit) == exit = "ZERO" \/ (exit = "NONE" /\ kind # "RESTORE_DRILL")

(* History: another sync has its command behind it and not yet its row.    *)
Answered(c, exit) ==
    IF Accepted(calls[c].kind, exit)
    THEN [Stepped(c) EXCEPT !.exit = exit, !.raced = \E d \in Calls : AtStep(d, "sync")]
    ELSE [calls[c] EXCEPT !.exit = exit, !.live = FALSE]

(* The command is waited for; whatever else runs meanwhile is another      *)
(* process.  One that does not answer zero may have done its work or not.  *)
Command(c) ==
    /\ AtStep(c, "command")
    /\ \E exit \in Exits, worked \in BOOLEAN :
        /\ exit = "ZERO" => worked
        /\ calls' = [calls EXCEPT ![c] = Answered(c, exit)]
        /\ ran' = IF worked THEN ran \cup {c} ELSE ran
        /\ rotated' = [k \in Keys |-> IF worked /\ k \in calls[c].keys THEN 0 ELSE rotated[k]]
        /\ identity' = IF calls[c].kind # "UPSTREAM_IDENTITY" THEN identity
                       ELSE [identity EXCEPT !.last = {c}, !.account =
                               IF worked THEN mapUpstreamLifecycleStatus(calls[c].action) ELSE @]
    /\ UNCHANGED <<integrations, proof>>

(* persistUpstreamIdentityAssignmentState                                  *)
SyncAssignment(c) ==
    /\ AtStep(c, "sync")
    /\ identity' = [identity EXCEPT !.upstream =
                                mapUpstreamLifecycleStatus(calls[c].action)]
    /\ Advance(c)
    /\ UNCHANGED <<integrations, world, proof>>

FileReport(c) ==
    /\ AtStep(c, "file")
    /\ files' = files \cup {<<c, "REPORT">>}
    /\ Advance(c)
    /\ UNCHANGED <<integrations, world, identity, objects, ledger>>

(* storeAtlasOperationalProofArtifacts: through a target of its own.       *)
Stored(c) ==
    IF StoreProofs /\ ~calls[c].local
    THEN \E t \in Eligible("PROOF_STORAGE") :
            /\ Eligible("PROOF_STORAGE") = {t}
            /\ integrations' = Touched(t)
            /\ objects' = objects \cup {c}
    ELSE UNCHANGED <<integrations, objects>>

StoreProof(c) ==
    /\ AtStep(c, "store")
    /\ Stored(c)
    /\ Advance(c)
    /\ UNCHANGED <<world, identity, files, ledger>>

Touch(c) ==
    /\ AtStep(c, "touch")
    /\ integrations' = Touched(calls[c].target)
    /\ Advance(c)
    /\ UNCHANGED <<world, identity, proof>>

(* createOperationalExecutionRecord stores every artifact once more.       *)
Record(c) ==
    /\ AtStep(c, "record")
    /\ Stored(c)
    /\ ledger' = ledger \cup {c}
    /\ Advance(c)
    /\ UNCHANGED <<world, identity, files>>

(* No eligible target or more than one, a store that does not answer, a    *)
(* process that dies.                                                      *)
Cut(c) ==
    /\ calls[c].live
    /\ calls' = [calls EXCEPT ![c].live = FALSE]
    /\ UNCHANGED <<integrations, world, identity, proof>>

(* A rotation is dated when it is asked for, a drill when it is reported.  *)
Dated(c) == \/ calls[c].kind = "SECRET_ROTATION"
            \/ calls[c].kind = "RESTORE_DRILL" /\ <<c, "REPORT">> \in files
Older(age) == IF age <= Window THEN age + 1 ELSE age

Pass ==
    /\ calls'   = [c \in Calls |-> IF Dated(c) THEN [calls[c] EXCEPT !.age = Older(@)]
                                   ELSE calls[c]]
    /\ rotated' = [k \in Keys |-> Older(rotated[k])]
    /\ UNCHANGED <<integrations, ran, identity, proof>>

Step(c) == \/ Resolve(c) \/ Command(c) \/ SyncAssignment(c) \/ FileReport(c)
           \/ StoreProof(c) \/ Touch(c) \/ Record(c) \/ Cut(c)

Ask(c) ==
    \/ \E mode \in ModesOf["RESTORE_DRILL"], local \in LocalOf["RESTORE_DRILL"] :
            RestoreDrill(c, mode, local)
    \/ \E mode \in ModesOf["SECRET_ROTATION"], keys \in (SUBSET Keys) \ {{}} :
            RotateSecrets(c, mode, keys)
    \/ \E mode \in ModesOf["DEPLOYMENT_AUTOMATION"], drill, rotation \in Calls,
         file \in {"MANIFEST", "REPORT"} : Promote(c, mode, drill, rotation, file)
    \/ \E mode \in ModesOf["UPSTREAM_IDENTITY"], local \in LocalOf["UPSTREAM_IDENTITY"],
         action \in Asked : SyncUpstream(c, mode, local, action)

Govern(t) ==
    \/ Register(t)
    \/ \E status \in {"ACTIVE", "SUSPENDED"} : ChangeLifecycle(t, status)
    \/ \E verified \in BOOLEAN : Verify(t, verified)

Next == \/ \E c \in Calls : Ask(c) \/ Step(c)
        \/ \E t \in Targets : Govern(t)
        \/ Pass

Spec == Init /\ [][Next]_vars

-----------------------------------------------------------------------------
(* What the ledger records is proven, and took place as far as its exit    *)
(* code tells: the command of a drill, and any that answered zero, did its *)
(* work; the report is on disk and in the proof store, and the target is   *)
(* marked as used, however the execution was cut and whatever became of    *)
(* the targets meanwhile.                                                  *)
LedgerRecordsWhatRan ==
    \A c \in ledger :
        /\ calls[c].mode # "dry-run" =>
                c \in ran \/ (calls[c].exit = "NONE" /\ calls[c].kind # "RESTORE_DRILL")
        /\ <<c, "REPORT">> \in files
        /\ StoreProofs /\ ~calls[c].local => c \in objects
        /\ calls[c].mode = "command" /\ ~calls[c].local =>
                integrations[calls[c].target].lastUsed

(* A target that was used was verified by an operator at some time before. *)
UsedTargetsWereVerified ==
    \A t \in Targets : integrations[t].lastUsed => integrations[t].vouched

(* The upstream status kept with an assignment is that of its account once *)
(* the sync whose command was the last one has written its row, whatever   *)
(* was cut or raced before: but for a command that did not answer zero and *)
(* one that came while another sync had not written its row yet.           *)
RowTellsAccount ==
    \A c \in identity.last :
        calls[c].exit = "ZERO" /\ Passed(c, "sync") /\ ~calls[c].raced
            => identity.upstream = identity.account

(* A promotion that is let through on the report of a rotation whose       *)
(* command answered zero follows a drill that did restore and a rotation,  *)
(* no older than allowed, of every secret the promotion wants rotated.     *)
PromotionsAreProven ==
    [][\A c \in Calls : calls[c] = NotMade /\ calls'[c] # NotMade =>
        \A drill, rotation \in Calls, mode \in Modes :
            /\ calls[rotation].exit = "ZERO"
            /\ Promote(c, mode, drill, rotation, "REPORT")
            => drill \in ran /\ \A k \in Required : rotated[k] <= Window]_vars
=============================================================================
