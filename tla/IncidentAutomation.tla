-------------------------- MODULE IncidentAutomation --------------------------
(***************************************************************************)
(* The automation that turns observability alerts into durable incident    *)
(* triggers: the scheduler of the worker process (apps/worker/src/lib/     *)
(* observability-automation.ts and main.ts), the automation and recovery   *)
(* runs it and the operators start (packages/database/src/observability-   *)
(* runtime.ts), and the synchronisation of triggers and notifications at   *)
(* the end of each (observability-operations.ts).  No run is a             *)
(* transaction: every statement commits by itself.                         *)
(***************************************************************************)
EXTENDS FiniteSets, Integers

CONSTANTS
    Causes,         \* alerts raised by metrics, telemetry and open cases
    Owned,          \* those of them about the ownership of telemetry
    Cadence,        \* the alert telemetry-ownership-automation-cadence
    Unread,         \* the alert operator-unread-notifications
    Minimum,        \* incidentMinimumSeverity
    Policies,       \* the automation policies a deployment may choose
    Processes,      \* worker processes
    Runs,           \* runs that may be in flight together
    MaxChanges,     \* bound on changes, failures, stops and operators' runs
    None            \* no run, no process

Alerts == Causes \cup {Cadence, Unread}

ASSUME AutomationAssumption ==
    /\ Owned \subseteq Causes
    /\ Cadence \notin Causes /\ Unread \notin Causes /\ Cadence # Unread
    /\ IsFiniteSet(Causes)
    /\ Minimum \in {"critical", "warning", "info"}
    /\ Policies \subseteq {"monitor", "recover"}
    /\ None \notin Runs /\ None \notin Processes
    /\ MaxChanges \in Nat

VARIABLES
    policy,         \* automationTelemetryOwnershipPolicy of the deployment
    raised,         \* the causes at or above the minimum severity now
    cadence,        \* the newest automation-cadence sample, by its run's start
    triggers,       \* ObservabilityIncidentTrigger rows, by alert
    notices,        \* their Notification rows
    processes,      \* what each worker process is doing
    activeRun,      \* activeRun of its scheduler
    runs,           \* the runs in flight
    changes         \* how much of MaxChanges is used

rows == <<triggers, notices>>
vars == <<policy, raised, cadence, triggers, notices, processes, activeRun, runs, changes>>

-----------------------------------------------------------------------------
(* A run: who started it; whether it monitors, recovers or only reconciles *)
(* the incidents (when an operator resolves a remediation); the alerts it  *)
(* selected, the triggers it read, those left to open and to close, and    *)
(* the one whose notification is next.  History: whether another run has   *)
(* written triggers since it read them (quiet).  before is the runs it     *)
(* began after; late, that one which began after it has left its sample.   *)
Idle == [pc |-> "idle"]
Began(by, kind) ==
    [pc |-> "begun", by |-> by, kind |-> kind, recording |-> FALSE,
     alerts |-> {}, seen |-> [a \in Alerts |-> "NONE"], open |-> {}, close |-> {},
     next |-> None, quiet |-> TRUE, late |-> FALSE,
     before |-> {r \in Runs : runs[r] # Idle}]

Status  == {"NONE", "ACTIVE", "RESOLVED"}
Kinds   == {"monitor", "recover", "reconcile"}
Running == [pc: {"begun", "degraded", "alerted", "syncing", "noticing", "synced", "failed"},
            by: Processes \cup {None}, kind: Kinds, recording: BOOLEAN,
            alerts: SUBSET Alerts, seen: [Alerts -> Status],
            open: SUBSET Alerts, close: SUBSET Alerts, next: Alerts \cup {None},
            quiet: BOOLEAN, late: BOOLEAN, before: SUBSET Runs]

TypeOK ==
    /\ policy    \in Policies
    /\ raised    \subseteq Causes
    /\ cadence   \in {"HEALTHY", "CRITICAL"}
    /\ triggers  \in [Alerts -> Status]
    /\ notices   \in [Alerts -> {"NONE", "UNREAD", "READ"}]
    /\ processes \in [Processes -> {"down", "up", "stopping"}]
    /\ activeRun \in [Processes -> Runs \cup {None}]
    /\ runs      \in [Runs -> {Idle} \cup Running]
    /\ changes   \in 0..MaxChanges

Init ==
    /\ policy    \in Policies
    /\ raised    \in SUBSET Causes
    /\ cadence   = "CRITICAL"
    /\ triggers  = [a \in Alerts |-> "NONE"]
    /\ notices   = [a \in Alerts |-> "NONE"]
    /\ processes = [p \in Processes |-> "down"]
    /\ activeRun = [p \in Processes |-> None]
    /\ runs      = [r \in Runs |-> Idle]
    /\ changes   = 0

Spend == changes < MaxChanges /\ changes' = changes + 1

-----------------------------------------------------------------------------
(* buildAtlasObservabilityAlerts, of the alerts at or above the minimum.   *)
(* Unread notifications are information, from five on a warning; every     *)
(* notification of an incident counts, whatever became of its cause.       *)
UnreadLimit == CASE Minimum = "info" -> 1 [] Minimum = "warning" -> 5 [] OTHER -> Cardinality(Alerts) + 1

UnreadRaised == Cardinality({a \in Alerts : notices[a] = "UNREAD"}) >= UnreadLimit

CadenceAlert(sample) == {a \in {Cadence} : sample = "CRITICAL"}

SelectedAlerts(sample) ==
    raised \cup CadenceAlert(sample) \cup {a \in {Unread} : UnreadRaised}

Degraded == (raised \cap Owned) \cup CadenceAlert(cadence)

ActiveTriggers == {a \in Alerts : triggers[a] = "ACTIVE"}

(* A run that goes on as t; the others stay as they are.                   *)
Continue(r, t) == runs' = [runs EXCEPT ![r] = t]

(* Faulty: a failed run is filed as a warning.                             *)
SampleAfterFailure(r, status) ==
    IF runs[r].late THEN cadence ELSE IF status = "CRITICAL" THEN "WARNING" ELSE status

(* A sample is filed under the start of its run: the newest is that of the *)
(* run that began last.                                                    *)
SampleAfter(r, status) == IF runs[r].late THEN cadence ELSE status
Sampled(r, t) ==
    [x \in Runs |-> IF x = r THEN t
                     ELSE IF runs[x] # Idle /\ x \in t.before THEN [runs[x] EXCEPT !.late = TRUE]
                     ELSE runs[x]]

(* Faulty: a cycle that failed leaves its promise where it is.             *)
ReleasedOnSuccess(r) ==
    [p \in Processes |-> IF activeRun[p] = r /\ ~runs[r].recording THEN None ELSE activeRun[p]]

(* r is over: no run remembers it, and its scheduler may start another.    *)
Ended(r, f) ==
    [x \in Runs |-> IF x = r \/ f[x] = Idle THEN Idle ELSE [f[x] EXCEPT !.before = @ \ {r}]]
Released(r) == [p \in Processes |-> IF activeRun[p] = r THEN None ELSE activeRun[p]]

(* History: a write to the rows disturbs the runs that have read them.     *)
Written(r, t) ==
    [x \in Runs |-> IF x = r THEN t
                     ELSE IF runs[x] = Idle THEN Idle ELSE [runs[x] EXCEPT !.quiet = FALSE]]

-----------------------------------------------------------------------------
(* startWorkerObservabilityAutomationScheduler: the start of the process   *)
(* files a healthy sample of this moment.                                  *)
Start(p) ==
    /\ processes[p] = "down"
    /\ processes' = [processes EXCEPT ![p] = "up"]
    /\ cadence' = "HEALTHY"
    /\ runs' = [r \in Runs |-> IF runs[r] = Idle THEN Idle ELSE [runs[r] EXCEPT !.late = TRUE]]
    /\ UNCHANGED <<policy, raised, rows, activeRun, changes>>

(* shutdown: the timers are cleared, a cycle under way goes on until       *)
(* process.exit or a kill cuts it wherever it is.                          *)
Stop(p) ==
    /\ processes[p] = "up"
    /\ Spend
    /\ processes' = [processes EXCEPT ![p] = "stopping"]
    /\ UNCHANGED <<policy, raised, cadence, rows, activeRun, runs>>

Exit(p) ==
    /\ \/ processes[p] = "stopping" /\ UNCHANGED changes
       \/ processes[p] = "up" /\ Spend
    /\ processes' = [processes EXCEPT ![p] = "down"]
    /\ activeRun' = [activeRun EXCEPT ![p] = None]
    /\ LET left == {r \in Runs : runs[r] # Idle /\ runs[r].by # p} IN
       runs' = [r \in Runs |-> IF r \in left THEN [runs[r] EXCEPT !.before = @ \cap left] ELSE Idle]
    /\ UNCHANGED <<policy, raised, cadence, rows>>

(* Runs are told apart by nothing but what they do: one that is free.      *)
FreeRuns == {r \in Runs : runs[r] = Idle}
FreeRun  == CHOOSE r \in FreeRuns : TRUE

(* Faulty: the interval starts a cycle whether or not one is under way.    *)
MayStartAlways(p) == processes[p] = "up"

MayStart(p) == processes[p] = "up" /\ activeRun[p] = None

(* runScheduledCycle, of the startup timer and of the interval.            *)
Tick(p) ==
    /\ MayStart(p)
    /\ FreeRuns # {}
    /\ Continue(FreeRun, Began(p, policy))
    /\ activeRun' = [activeRun EXCEPT ![p] = FreeRun]
    /\ UNCHANGED <<policy, raised, cadence, rows, processes, changes>>

(* An operator's run from the console or the command line.                 *)
Ask(kind) ==
    /\ Spend
    /\ FreeRuns # {}
    /\ Continue(FreeRun, Began(None, kind))
    /\ UNCHANGED <<policy, raised, cadence, rows, processes, activeRun>>

(* What is measured changes; or the newest cadence sample grows too old,   *)
(* or falls out of the 200 samples that are read and the last run speaks   *)
(* for it.                                                                 *)
Change ==
    /\ Spend
    /\ \/ /\ \E c \in Causes : raised' = IF c \in raised THEN raised \ {c} ELSE raised \cup {c}
          /\ UNCHANGED cadence
       \/ cadence' \in {"HEALTHY", "CRITICAL"} /\ UNCHANGED raised
    /\ UNCHANGED <<policy, rows, processes, activeRun, runs>>

-----------------------------------------------------------------------------
End(r, f) ==
    /\ runs' = Ended(r, f)
    /\ activeRun' = Released(r)

(* recoverObservabilityTelemetryOwnership: with nothing degraded it files  *)
(* a healthy sample and returns, without looking at the incidents.         *)
CheckOwnership(r) ==
    /\ runs[r].pc = "begun" /\ runs[r].kind = "recover"
    /\ IF Degraded = {}
       THEN /\ cadence' = SampleAfter(r, "HEALTHY")
            /\ End(r, Sampled(r, runs[r]))
       ELSE /\ Continue(r, [runs[r] EXCEPT !.pc = "degraded"])
            /\ UNCHANGED <<cadence, activeRun>>
    /\ UNCHANGED <<policy, raised, rows, processes, changes>>

(* buildObservabilityAutomationPosture.  A recovery files its healthy      *)
(* sample here and selects the alerts that are left after it.              *)
ReadPosture(r) ==
    LET recovers == runs[r].kind = "recover"
        t == [runs[r] EXCEPT !.pc = "alerted", !.alerts = SelectedAlerts(cadence')] IN
    /\ runs[r].pc \in {"begun", "degraded"}
    /\ recovers <=> runs[r].pc = "degraded"
    /\ cadence' = IF recovers THEN SampleAfter(r, "HEALTHY") ELSE cadence
    /\ runs' = IF recovers THEN Sampled(r, t) ELSE [runs EXCEPT ![r] = t]
    /\ UNCHANGED <<policy, raised, rows, processes, activeRun, changes>>

-----------------------------------------------------------------------------
(* Faulty: a trigger is resolved by nobody.                                *)
StaleTriggersNever(t) == {}

(* syncObservabilityIncidentTriggers.  The rows are read once; those of    *)
(* the selected alerts are opened one by one, and then the ones that were  *)
(* active and are not selected are resolved.  (A row that was deleted and  *)
(* made anew counts as the row that was read.)                             *)
StaleTriggers(t) == {a \in Alerts : t.seen[a] = "ACTIVE"} \ t.alerts

ReadTriggers(r) ==
    LET t == [runs[r] EXCEPT !.seen = triggers] IN
    /\ runs[r].pc = "alerted"
    /\ Continue(r, [t EXCEPT !.pc = "syncing", !.open = t.alerts,
                             !.close = StaleTriggers(t), !.quiet = TRUE])
    /\ UNCHANGED <<policy, raised, cadence, rows, processes, activeRun, changes>>

NextOpen(t)  == CHOOSE a \in t.open  : TRUE
NextClose(t) == CHOOSE a \in t.close : TRUE

(* Creating a row that exists by now, or updating one that retention has   *)
(* deleted, fails.                                                         *)
Fits(t, a) == (t.seen[a] = "NONE") <=> (triggers[a] = "NONE")

(* Faulty: a trigger that was resolved is opened without a notification.   *)
OpensWhenNew(t, a) == t.seen[a] = "NONE"

(* Only a trigger that was not active is announced.                        *)
Opens(t, a) == t.seen[a] # "ACTIVE"

Write(r, a, status, t) ==
    /\ triggers' = [triggers EXCEPT ![a] = status]
    /\ runs' = Written(r, t)
    /\ UNCHANGED <<policy, raised, cadence, notices, processes, activeRun, changes>>

OpenTrigger(r) ==
    LET t == runs[r]  a == NextOpen(t)
        rest == [t EXCEPT !.open = @ \ {a}] IN
    /\ t.pc = "syncing" /\ t.open # {}
    /\ Fits(t, a)
    /\ Write(r, a, "ACTIVE",
             IF Opens(t, a) THEN [rest EXCEPT !.pc = "noticing", !.next = a] ELSE rest)

CloseTrigger(r) ==
    LET t == runs[r]  a == NextClose(t) IN
    /\ t.pc = "syncing" /\ t.open = {} /\ t.close # {}
    /\ Fits(t, a)
    /\ Write(r, a, "RESOLVED",
             [t EXCEPT !.close = @ \ {a}, !.pc = "noticing", !.next = a])

(* upsertObservabilityNotification: a later statement than the trigger's.  *)
WriteNotice(r) ==
    LET t == runs[r] IN
    /\ t.pc = "noticing"
    /\ notices' = [notices EXCEPT ![t.next] = IF t.next \in t.alerts THEN "UNREAD" ELSE "READ"]
    /\ runs' = Written(r, [t EXCEPT !.pc = "syncing", !.next = None])
    /\ UNCHANGED <<policy, raised, cadence, triggers, processes, activeRun, changes>>

(* applyObservabilityRetentionPolicy deletes old triggers, never an active *)
(* one.  (Each of its calls in a run is this one.)                         *)
Prunable == {a \in Alerts : triggers[a] = "RESOLVED"}

FinishSync(r) ==
    LET t == runs[r] IN
    /\ t.pc = "syncing" /\ t.open = {} /\ t.close = {}
    /\ \E old \in SUBSET Prunable :
         triggers' = [a \in Alerts |-> IF a \in old THEN "NONE" ELSE triggers[a]]
    /\ Continue(r, [t EXCEPT !.pc = "synced"])
    /\ UNCHANGED <<policy, raised, cadence, notices, processes, activeRun, changes>>

(* The end of a run.  An operator's monitoring run files a healthy sample; *)
(* the scheduler's does not, and a recovery has done so before.            *)
Finish(r) ==
    LET t == runs[r] IN
    /\ t.pc = "synced"
    /\ IF t.kind = "monitor" /\ t.by = None
       THEN cadence' = SampleAfter(r, "HEALTHY") /\ End(r, Sampled(r, t))
       ELSE UNCHANGED cadence /\ End(r, runs)
    /\ UNCHANGED <<policy, raised, rows, processes, changes>>

-----------------------------------------------------------------------------
(* A statement or the dispatch fails.  An operator's run is over.  In the  *)
(* scheduler's the cycle catches it and records the failure; a failure     *)
(* while it does so is caught as well.                                     *)
Broken(t) ==
    /\ t.pc = "syncing"
    /\ \/ t.open # {} /\ ~Fits(t, NextOpen(t))
       \/ t.open = {} /\ t.close # {} /\ ~Fits(t, NextClose(t))

(* The statements that record a failure are caught one by one: what failed *)
(* then is left to a later run.                                            *)
EndsIt(t) == t.by = None \/ t.recording

Fail(r) ==
    LET t == runs[r] IN
    /\ t # Idle
    /\ \/ Broken(t) /\ UNCHANGED changes
       \/ Spend
    /\ IF EndsIt(t)
       THEN End(r, runs)
       ELSE /\ Continue(r, [Began(t.by, t.kind) EXCEPT !.pc = "failed", !.recording = TRUE,
                                                      !.before = t.before, !.late = t.late])
            /\ UNCHANGED activeRun
    /\ UNCHANGED <<policy, raised, cadence, rows, processes>>

(* recordObservabilityAutomationFailure: the sample is critical, and the   *)
(* incidents are synchronised with the alerts of the failure among them.   *)
RecordFailure(r) ==
    /\ runs[r].pc = "failed"
    /\ cadence' = SampleAfter(r, "CRITICAL")
    /\ runs' = Sampled(r, [runs[r] EXCEPT !.pc = "alerted", !.alerts = SelectedAlerts(cadence')])
    /\ UNCHANGED <<policy, raised, rows, processes, activeRun, changes>>

-----------------------------------------------------------------------------
Step(r) ==
    \/ CheckOwnership(r) \/ ReadPosture(r) \/ ReadTriggers(r)
    \/ OpenTrigger(r) \/ CloseTrigger(r) \/ WriteNotice(r) \/ FinishSync(r)
    \/ Finish(r) \/ RecordFailure(r)

Next ==
    \/ \E p \in Processes : Start(p) \/ Stop(p) \/ Exit(p) \/ Tick(p)
    \/ \E kind \in Kinds : Ask(kind)
    \/ Change
    \/ \E r \in Runs : Step(r) \/ Fail(r)

(* The interval keeps firing while the process is up, and a run under way  *)
(* goes on.  Nothing is assumed of operators, stops, restarts or failures. *)
Fairness ==
    /\ \A p \in Processes : WF_vars(Tick(p))
    /\ \A r \in Runs : WF_vars(Step(r) \/ (Broken(runs[r]) /\ Fail(r)))

Spec == Init /\ [][Next]_vars /\ Fairness

-----------------------------------------------------------------------------
(* A worker process never has two scheduled cycles under way, failures     *)
(* that are being recorded included (activeRun and its finally).           *)
SingleFlight ==
    \A p \in Processes : \A r, s \in Runs :
        runs[r] # Idle /\ runs[s] # Idle /\ runs[r].by = p /\ runs[s].by = p => r = s

(* A synchronisation that no other run wrote across leaves exactly its     *)
(* selected alerts active, the ones it opened announced as unread and the  *)
(* ones it closed as read.                                                 *)
QuietSyncIsExact ==
    \A r \in Runs : runs[r] # Idle =>
        LET t == runs[r] IN t.pc = "synced" /\ t.quiet =>
            /\ ActiveTriggers = t.alerts
            /\ \A a \in t.alerts : t.seen[a] # "ACTIVE" => notices[a] = "UNREAD"
            /\ \A a \in StaleTriggers(t) : notices[a] = "READ"

(* Once things have settled and a worker stays up, the active triggers are *)
(* the alerts that are raised, for good.                                   *)
IncidentsFollowAlerts ==
    (<>[]\E p \in Processes : processes[p] = "up")
        => <>[](ActiveTriggers = SelectedAlerts(cadence))

(* The same of a deployment that monitors.                                 *)
MonitoredIncidentsFollowAlerts == policy = "monitor" => IncidentsFollowAlerts

(* Under either policy a loss of telemetry that lasts becomes an incident  *)
(* that stays open, a recovery that has nothing to sync notwithstanding.   *)
DegradationIsReported ==
    \A a \in Owned :
        (<>[](a \in raised /\ \E p \in Processes : processes[p] = "up"))
            => <>[](triggers[a] = "ACTIVE")
=============================================================================
