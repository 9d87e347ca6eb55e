-------------------------- MODULE ObservabilityProofs --------------------------
(***************************************************************************)
(* Proofs about the two halves of the observability automation.  The first *)
(* part is about IncidentAutomation, for any alerts, worker processes,     *)
(* policies and number of runs in flight together.  The second is about    *)
(* TelemetryRemediation, for any operators, calls in flight, threshold and *)
(* bounds: its state is that of RemediationState, and R is what its calls  *)
(* do to it.                                                               *)
(***************************************************************************)
EXTENDS IncidentAutomation, RemediationState,
        FunctionTheorems, SequenceTheorems, WellFoundedInduction, TLAPS

R == INSTANCE TelemetryRemediation

-----------------------------------------------------------------------------
(* Type correctness.                                                       *)

RunStates == {Idle} \cup Running

(* A run in any phase but the idle one is a running one.                   *)
LEMMA RunShape ==
    ASSUME TypeOK, NEW r \in Runs
    PROVE  /\ runs[r] # Idle <=> runs[r] \in Running
           /\ runs[r].pc # "idle" <=> runs[r] \in Running
           /\ runs[r].pc \in {"begun", "degraded", "alerted", "syncing", "noticing", "synced",
                              "failed"} => runs[r] \in Running
<1>1. runs[r] \in {Idle} \cup Running
  BY DEF TypeOK
<1>2. Idle.pc = "idle" /\ \A t \in Running : t.pc # "idle"
  BY DEF Idle, Running
<1> QED
  BY <1>1, <1>2

(* A run begins in the shape of a running one.                             *)
LEMMA BeganShape ==
    ASSUME NEW by \in Processes \cup {None}, NEW kind \in Kinds
    PROVE  Began(by, kind) \in Running
<1>1. [a \in Alerts |-> "NONE"] \in [Alerts -> Status]
  BY DEF Status
<1> QED
  BY <1>1 DEF Began, Running

(* The alerts a run selects are alerts.                                    *)
LEMMA SelectedShape ==
    ASSUME TypeOK, NEW sample
    PROVE  SelectedAlerts(sample) \subseteq Alerts
BY DEF TypeOK, SelectedAlerts, CadenceAlert, Alerts

(* The sample a run files is one of the two, and it depends on nothing of  *)
(* the run but its place.                                                  *)
LEMMA SampleShape ==
    ASSUME TypeOK, NEW r \in Runs, NEW status \in {"HEALTHY", "CRITICAL"}
    PROVE  SampleAfter(r, status) \in {"HEALTHY", "CRITICAL"}
BY DEF TypeOK, SampleAfter

(* One run goes on; all of them keep their shape.                          *)
LEMMA ContinueShape ==
    ASSUME TypeOK, NEW r \in Runs, NEW t \in RunStates
    PROVE  [runs EXCEPT ![r] = t] \in [Runs -> RunStates]
BY DEF TypeOK, RunStates

(* Filing a sample marks the runs that began before as late.               *)
LEMMA SampledShape ==
    ASSUME TypeOK, NEW r \in Runs, NEW t \in Running
    PROVE  Sampled(r, t) \in [Runs -> RunStates]
<1>1. ASSUME NEW x \in Runs PROVE Sampled(r, t)[x] \in RunStates
  <2>1. CASE x # r /\ runs[x] # Idle /\ x \in t.before
    <3>1. runs[x] \in Running
      BY <2>1, RunShape
    <3>2. [runs[x] EXCEPT !.late = TRUE] \in Running
      BY <3>1 DEF Running
    <3>3. Sampled(r, t)[x] = [runs[x] EXCEPT !.late = TRUE]
      BY <2>1 DEF Sampled
    <3> QED
      BY <3>2, <3>3 DEF RunStates
  <2>2. CASE ~(x # r /\ runs[x] # Idle /\ x \in t.before)
    <3>1. Sampled(r, t)[x] = IF x = r THEN t ELSE runs[x]
      BY <2>2 DEF Sampled
    <3> QED
      BY <3>1 DEF TypeOK, RunStates
  <2> QED
    BY <2>1, <2>2
<1> QED
  BY <1>1 DEF Sampled

(* Writing a row disturbs the other runs.                                  *)
LEMMA WrittenShape ==
    ASSUME TypeOK, NEW r \in Runs, NEW t \in Running
    PROVE  Written(r, t) \in [Runs -> RunStates]
<1>1. ASSUME NEW x \in Runs PROVE Written(r, t)[x] \in RunStates
  <2>1. CASE x # r /\ runs[x] # Idle
    <3>1. runs[x] \in Running
      BY <2>1, RunShape
    <3>2. [runs[x] EXCEPT !.quiet = FALSE] \in Running
      BY <3>1 DEF Running
    <3>3. Written(r, t)[x] = [runs[x] EXCEPT !.quiet = FALSE]
      BY <2>1 DEF Written
    <3> QED
      BY <3>2, <3>3 DEF RunStates
  <2>2. CASE ~(x # r /\ runs[x] # Idle)
    <3>1. Written(r, t)[x] = IF x = r THEN t ELSE Idle
      BY <2>2 DEF Written
    <3> QED
      BY <3>1 DEF RunStates
  <2> QED
    BY <2>1, <2>2
<1> QED
  BY <1>1 DEF Written

(* The end of a run is remembered by no other.                             *)
LEMMA EndedShape ==
    ASSUME NEW r \in Runs, NEW f \in [Runs -> RunStates]
    PROVE  Ended(r, f) \in [Runs -> RunStates]
<1>1. ASSUME NEW x \in Runs PROVE Ended(r, f)[x] \in RunStates
  <2>1. CASE x # r /\ f[x] # Idle
    <3>1. f[x] \in Running
      BY <2>1 DEF RunStates
    <3>2. [f[x] EXCEPT !.before = @ \ {r}] \in Running
      BY <3>1 DEF Running
    <3>3. Ended(r, f)[x] = [f[x] EXCEPT !.before = @ \ {r}]
      BY <2>1 DEF Ended
    <3> QED
      BY <3>2, <3>3 DEF RunStates
  <2>2. CASE ~(x # r /\ f[x] # Idle)
    <3>1. Ended(r, f)[x] = Idle
      BY <2>2 DEF Ended
    <3> QED
      BY <3>1 DEF RunStates
  <2> QED
    BY <2>1, <2>2
<1> QED
  BY <1>1 DEF Ended

(* A scheduler that is released may start another cycle.                   *)
LEMMA ReleasedShape ==
    ASSUME TypeOK, NEW r \in Runs
    PROVE  Released(r) \in [Processes -> Runs \cup {None}]
BY DEF TypeOK, Released

(* Nothing has run yet.                                                    *)
LEMMA InitTypeOK == Init => TypeOK
<1> SUFFICES ASSUME Init PROVE TypeOK
  OBVIOUS
<1>1. changes \in 0..MaxChanges
  BY AutomationAssumption DEF Init
<1> QED
  BY <1>1 DEF Init, TypeOK, Status

(* Processes starting, stopping and leaving, and what they leave behind.   *)
LEMMA ProcessTypeOK ==
    ASSUME TypeOK, NEW p \in Processes, Start(p) \/ Stop(p) \/ Exit(p)
    PROVE  TypeOK'
<1>1. CASE Start(p)
  <2>1. ASSUME NEW r \in Runs PROVE runs'[r] \in RunStates
    <3>1. CASE runs[r] # Idle
      <4>1. runs[r] \in Running
        BY <3>1, RunShape
      <4>2. [runs[r] EXCEPT !.late = TRUE] \in Running
        BY <4>1 DEF Running
      <4>3. runs'[r] = [runs[r] EXCEPT !.late = TRUE]
        BY <1>1, <3>1 DEF Start
      <4> QED
        BY <4>2, <4>3 DEF RunStates
    <3>2. CASE runs[r] = Idle
      BY <1>1, <3>2 DEF Start, RunStates
    <3> QED
      BY <3>1, <3>2
  <2> QED
    BY <1>1, <2>1 DEF Start, TypeOK, rows, RunStates
<1>2. CASE Stop(p)
  BY <1>2, AutomationAssumption DEF Stop, Spend, TypeOK, rows
<1>3. CASE Exit(p)
  <2> DEFINE left == {r \in Runs : runs[r] # Idle /\ runs[r].by # p}
  <2>1. ASSUME NEW r \in Runs PROVE runs'[r] \in RunStates
    <3>1. CASE r \in left
      <4>1. runs[r] \in Running
        BY <3>1, RunShape
      <4>2. [runs[r] EXCEPT !.before = @ \cap left] \in Running
        BY <4>1 DEF Running
      <4> QED
        BY <1>3, <3>1, <4>2 DEF Exit, RunStates
    <3>2. CASE r \notin left
      BY <1>3, <3>2 DEF Exit, RunStates
    <3> QED
      BY <3>1, <3>2
  <2>2. runs' \in [Runs -> RunStates]
    BY <1>3, <2>1 DEF Exit
  <2>3. changes' \in 0..MaxChanges
    BY <1>3, AutomationAssumption DEF Exit, Spend, TypeOK
  <2> QED
    BY <1>3, <2>2, <2>3 DEF Exit, TypeOK, rows, RunStates
<1> QED
  BY <1>1, <1>2, <1>3

(* Beginning a run, and the changes of what is measured.                   *)
LEMMA BeginTypeOK ==
    ASSUME TypeOK, \/ \E p \in Processes : Tick(p)
                   \/ \E kind \in Kinds : Ask(kind)
                   \/ Change
    PROVE  TypeOK'
<1>1. ASSUME NEW p \in Processes, Tick(p) PROVE TypeOK'
  <2>1. policy \in Kinds
    BY AutomationAssumption DEF TypeOK, Kinds
  <2>2. FreeRun \in Runs
    BY <1>1 DEF Tick, FreeRun, FreeRuns
  <2>3. runs' \in [Runs -> RunStates]
    BY <1>1, <2>1, <2>2, BeganShape, ContinueShape DEF Tick, Continue, RunStates
  <2> QED
    BY <1>1, <2>2, <2>3 DEF Tick, TypeOK, rows, RunStates
<1>2. ASSUME NEW kind \in Kinds, Ask(kind) PROVE TypeOK'
  <2>1. FreeRun \in Runs
    BY <1>2 DEF Ask, FreeRun, FreeRuns
  <2>2. runs' \in [Runs -> RunStates]
    BY <1>2, <2>1, BeganShape, ContinueShape DEF Ask, Continue, RunStates
  <2>3. changes' \in 0..MaxChanges
    BY <1>2, AutomationAssumption DEF Ask, Spend, TypeOK
  <2> QED
    BY <1>2, <2>2, <2>3 DEF Ask, TypeOK, rows, RunStates
<1>3. CASE Change
  <2>1. changes' \in 0..MaxChanges
    BY <1>3, AutomationAssumption DEF Change, Spend, TypeOK
  <2>2. raised' \subseteq Causes /\ cadence' \in {"HEALTHY", "CRITICAL"}
    BY <1>3 DEF Change, TypeOK
  <2> QED
    BY <1>3, <2>1, <2>2 DEF Change, TypeOK, rows
<1> QED
  BY <1>1, <1>2, <1>3

(* The reads of a run: each leaves it in the shape of a running one.       *)
LEMMA ReadTypeOK ==
    ASSUME TypeOK, NEW r \in Runs, CheckOwnership(r) \/ ReadPosture(r) \/ ReadTriggers(r)
    PROVE  TypeOK'
<1>1. runs[r] \in Running
  BY RunShape DEF CheckOwnership, ReadPosture, ReadTriggers
<1>2. CASE CheckOwnership(r)
  <2>1. CASE Degraded = {}
    <3>1. Sampled(r, runs[r]) \in [Runs -> RunStates]
      BY <1>1, SampledShape
    <3>2. runs' \in [Runs -> RunStates]
      BY <1>2, <2>1, <3>1, EndedShape DEF CheckOwnership, End
    <3>3. activeRun' \in [Processes -> Runs \cup {None}]
      BY <1>2, <2>1, ReleasedShape DEF CheckOwnership, End
    <3>4. cadence' \in {"HEALTHY", "CRITICAL"}
      BY <1>2, <2>1, SampleShape DEF CheckOwnership
    <3> QED
      BY <1>2, <3>2, <3>3, <3>4 DEF CheckOwnership, TypeOK, rows, RunStates
  <2>2. CASE Degraded # {}
    <3>1. [runs[r] EXCEPT !.pc = "degraded"] \in RunStates
      BY <1>1 DEF Running, RunStates
    <3>2. runs' \in [Runs -> RunStates]
      BY <1>2, <2>2, <3>1, ContinueShape DEF CheckOwnership, Continue
    <3> QED
      BY <1>2, <2>2, <3>2 DEF CheckOwnership, TypeOK, rows, RunStates
  <2> QED
    BY <2>1, <2>2
<1>3. CASE ReadPosture(r)
  <2> DEFINE t == [runs[r] EXCEPT !.pc = "alerted", !.alerts = SelectedAlerts(cadence')]
  <2>1. t \in Running
    <3>1. SelectedAlerts(cadence') \subseteq Alerts
      BY SelectedShape
    <3> QED
      BY <1>1, <3>1 DEF Running
  <2>2. runs' = Sampled(r, t) \/ runs' = [runs EXCEPT ![r] = t]
    BY <1>3 DEF ReadPosture
  <2>3. runs' \in [Runs -> RunStates]
    BY <2>1, <2>2, SampledShape, ContinueShape DEF RunStates
  <2>4. cadence' \in {"HEALTHY", "CRITICAL"}
    BY <1>3, SampleShape DEF ReadPosture, TypeOK
  <2> QED
    BY <1>3, <2>3, <2>4 DEF ReadPosture, TypeOK, rows, RunStates
<1>4. CASE ReadTriggers(r)
  <2>1. StaleTriggers([runs[r] EXCEPT !.seen = triggers]) \subseteq Alerts
    BY DEF StaleTriggers
  <2>2. [[runs[r] EXCEPT !.seen = triggers] EXCEPT
            !.pc = "syncing", !.open = [runs[r] EXCEPT !.seen = triggers].alerts,
            !.close = StaleTriggers([runs[r] EXCEPT !.seen = triggers]), !.quiet = TRUE]
            \in Running
    BY <1>1, <2>1 DEF Running, TypeOK
  <2>3. runs' \in [Runs -> RunStates]
    BY <1>4, <2>2, ContinueShape DEF ReadTriggers, Continue, RunStates
  <2> QED
    BY <1>4, <2>3 DEF ReadTriggers, TypeOK, rows, RunStates
<1> QED
  BY <1>2, <1>3, <1>4

(* The next trigger to open or to close is one of those left.              *)
LEMMA NextTrigger ==
    ASSUME NEW t
    PROVE  /\ t.open # {} => NextOpen(t) \in t.open
           /\ t.close # {} => NextClose(t) \in t.close
BY DEF NextOpen, NextClose

(* The writes of a run to triggers and notifications keep the types.       *)
LEMMA WriteTypeOK ==
    ASSUME TypeOK, NEW r \in Runs, OpenTrigger(r) \/ CloseTrigger(r) \/ WriteNotice(r)
    PROVE  TypeOK'
<1>1. runs[r] \in Running
  BY RunShape DEF OpenTrigger, CloseTrigger, WriteNotice
<1>2. CASE OpenTrigger(r)
  <2> DEFINE t    == runs[r]
             a    == NextOpen(t)
             rest == [t EXCEPT !.open = @ \ {a}]
             next == IF Opens(t, a) THEN [rest EXCEPT !.pc = "noticing", !.next = a] ELSE rest
  <2>1. a \in Alerts
    BY <1>1, <1>2, NextTrigger DEF OpenTrigger, Running
  <2>2. rest \in Running
    BY <1>1 DEF Running
  <2>3. [rest EXCEPT !.pc = "noticing", !.next = a] \in Running
    BY <2>1, <2>2 DEF Running
  <2>4. next \in Running
    BY <2>2, <2>3
  <2>5. Write(r, a, "ACTIVE", next)
    BY <1>2 DEF OpenTrigger
  <2> HIDE DEF next, rest, a, t
  <2>6. runs' \in [Runs -> RunStates]
    BY <2>4, <2>5, WrittenShape DEF Write
  <2>7. triggers' \in [Alerts -> Status]
    BY <2>1, <2>5 DEF Write, TypeOK, Status
  <2> QED
    BY <2>5, <2>6, <2>7 DEF Write, TypeOK, RunStates
<1>3. CASE CloseTrigger(r)
  <2> DEFINE t    == runs[r]
             a    == NextClose(t)
             next == [t EXCEPT !.close = @ \ {a}, !.pc = "noticing", !.next = a]
  <2>1. a \in Alerts
    BY <1>1, <1>3, NextTrigger DEF CloseTrigger, Running
  <2>2. next \in Running
    BY <1>1, <2>1 DEF Running
  <2>3. Write(r, a, "RESOLVED", next)
    BY <1>3 DEF CloseTrigger
  <2> HIDE DEF next, a, t
  <2>4. runs' \in [Runs -> RunStates]
    BY <2>2, <2>3, WrittenShape DEF Write
  <2>5. triggers' \in [Alerts -> Status]
    BY <2>1, <2>3 DEF Write, TypeOK, Status
  <2> QED
    BY <2>3, <2>4, <2>5 DEF Write, TypeOK, RunStates
<1>4. CASE WriteNotice(r)
  <2>1. [runs[r] EXCEPT !.pc = "syncing", !.next = None] \in Running
    BY <1>1 DEF Running
  <2>2. runs' \in [Runs -> RunStates]
    BY <1>4, <2>1, WrittenShape DEF WriteNotice
  <2>3. notices' \in [Alerts -> {"NONE", "UNREAD", "READ"}]
    BY <1>4 DEF WriteNotice, TypeOK
  <2> QED
    BY <1>4, <2>2, <2>3 DEF WriteNotice, TypeOK, RunStates
<1> QED
  BY <1>2, <1>3, <1>4

(* The end of a run, its failure and the record of the failure.            *)
LEMMA EndTypeOK ==
    ASSUME TypeOK, NEW r \in Runs, FinishSync(r) \/ Finish(r) \/ Fail(r) \/ RecordFailure(r)
    PROVE  TypeOK'
<1>1. runs[r] \in Running
  BY RunShape DEF FinishSync, Finish, Fail, RecordFailure
<1>2. CASE FinishSync(r)
  <2>1. [runs[r] EXCEPT !.pc = "synced"] \in RunStates
    BY <1>1 DEF Running, RunStates
  <2>2. runs' \in [Runs -> RunStates]
    BY <1>2, <2>1, ContinueShape DEF FinishSync, Continue
  <2>3. triggers' \in [Alerts -> Status]
    BY <1>2 DEF FinishSync, TypeOK, Status
  <2> QED
    BY <1>2, <2>2, <2>3 DEF FinishSync, TypeOK, RunStates
<1>3. CASE Finish(r)
  <2>1. Sampled(r, runs[r]) \in [Runs -> RunStates] /\ runs \in [Runs -> RunStates]
    BY <1>1, SampledShape DEF TypeOK, RunStates
  <2>2. End(r, Sampled(r, runs[r])) \/ End(r, runs)
    BY <1>3 DEF Finish
  <2>3. runs' \in [Runs -> RunStates] /\ activeRun' \in [Processes -> Runs \cup {None}]
    BY <2>1, <2>2, EndedShape, ReleasedShape DEF End
  <2>4. cadence' \in {"HEALTHY", "CRITICAL"}
    BY <1>3, SampleShape DEF Finish, TypeOK
  <2> QED
    BY <1>3, <2>3, <2>4 DEF Finish, TypeOK, rows, RunStates
<1>4. CASE Fail(r)
  <2> DEFINE t == runs[r]
  <2>1. changes' \in 0..MaxChanges
    BY <1>4, AutomationAssumption DEF Fail, Spend, TypeOK
  <2>2. runs' \in [Runs -> RunStates] /\ activeRun' \in [Processes -> Runs \cup {None}]
    <3>1. CASE EndsIt(t)
      <4>1. End(r, runs)
        BY <1>4, <3>1 DEF Fail
      <4>2. runs \in [Runs -> RunStates]
        BY DEF TypeOK, RunStates
      <4> QED
        BY <4>1, <4>2, EndedShape, ReleasedShape DEF End
    <3>2. CASE ~EndsIt(t)
      <4> DEFINE next == [Began(t.by, t.kind) EXCEPT !.pc = "failed", !.recording = TRUE,
                                                    !.before = t.before, !.late = t.late]
      <4>1. Began(t.by, t.kind) \in Running
        BY <1>1, BeganShape DEF Running
      <4>2. next \in Running
        BY <1>1, <4>1 DEF Running
      <4>3. Continue(r, next) /\ UNCHANGED activeRun
        BY <1>4, <3>2 DEF Fail
      <4> HIDE DEF next
      <4> QED
        BY <4>2, <4>3, ContinueShape DEF Continue, RunStates, TypeOK
    <3> QED
      BY <3>1, <3>2
  <2> QED
    BY <1>4, <2>1, <2>2 DEF Fail, TypeOK, rows, RunStates
<1>5. CASE RecordFailure(r)
  <2> DEFINE t == [runs[r] EXCEPT !.pc = "alerted", !.alerts = SelectedAlerts(cadence')]
  <2>1. SelectedAlerts(cadence') \subseteq Alerts
    BY SelectedShape
  <2>2. t \in Running
    BY <1>1, <2>1 DEF Running
  <2>3. runs' \in [Runs -> RunStates]
    BY <1>5, <2>2, SampledShape DEF RecordFailure
  <2>4. cadence' \in {"HEALTHY", "CRITICAL"}
    BY <1>5, SampleShape DEF RecordFailure
  <2> QED
    BY <1>5, <2>3, <2>4 DEF RecordFailure, TypeOK, rows, RunStates
<1> QED
  BY <1>2, <1>3, <1>4, <1>5

(* Every step keeps every type.                                            *)
LEMMA NextTypeOK == TypeOK /\ [Next]_vars => TypeOK'
<1> SUFFICES ASSUME TypeOK, [Next]_vars PROVE TypeOK'
  OBVIOUS
<1>1. CASE UNCHANGED vars
  BY <1>1 DEF vars, rows, TypeOK
<1>2. CASE Next
  BY <1>2, ProcessTypeOK, BeginTypeOK, ReadTypeOK, WriteTypeOK, EndTypeOK DEF Next, Step
<1> QED
  BY <1>1, <1>2

(* Triggers, notifications, samples, schedulers and runs keep their types, *)
(* wherever a run is cut and whichever runs overlap.                       *)
THEOREM TypeCorrect == Spec => []TypeOK
  BY InitTypeOK, NextTypeOK, PTL DEF Spec

-----------------------------------------------------------------------------
(* What the steps of a synchronisation make of their run.                  *)

(* The read of the triggers.                                               *)
LEMMA ReadTriggersStep ==
    ASSUME TypeOK, NEW r \in Runs, ReadTriggers(r)
    PROVE  \E t \in Running :
              /\ runs' = [runs EXCEPT ![r] = t]
              /\ t.by = runs[r].by /\ t.pc = "syncing"
              /\ t.alerts = runs[r].alerts /\ t.seen = triggers
              /\ t.open = t.alerts /\ t.close = StaleTriggers(t)
<1> DEFINE read == [runs[r] EXCEPT !.seen = triggers]
           t    == [read EXCEPT !.pc = "syncing", !.open = read.alerts,
                                !.close = StaleTriggers(read), !.quiet = TRUE]
<1>1. runs[r] \in Running
  BY RunShape DEF ReadTriggers
<1>2. read \in Running /\ read.by = runs[r].by /\ read.alerts = runs[r].alerts
      /\ read.seen = triggers
  BY <1>1 DEF Running, TypeOK
<1>3. runs' = [runs EXCEPT ![r] = t]
  BY DEF ReadTriggers, Continue
<1> HIDE DEF read
<1>4. StaleTriggers(read) \subseteq Alerts
  BY DEF StaleTriggers
<1>5. t \in Running /\ t.by = read.by /\ t.pc = "syncing" /\ t.alerts = read.alerts
      /\ t.seen = read.seen /\ t.open = read.alerts /\ t.close = StaleTriggers(read)
  BY <1>2, <1>4 DEF Running
<1>6. StaleTriggers(t) = StaleTriggers(read)
  BY <1>5 DEF StaleTriggers
<1> QED
  BY <1>2, <1>3, <1>5, <1>6

(* Opening a trigger: an announcement follows if it was not active when    *)
(* it was read.                                                            *)
LEMMA OpenTriggerStep ==
    ASSUME TypeOK, NEW r \in Runs, OpenTrigger(r)
    PROVE  \E t \in Running, a \in runs[r].open :
              /\ runs' = Written(r, t) /\ triggers' = [triggers EXCEPT ![a] = "ACTIVE"]
              /\ t.by = runs[r].by /\ t.quiet = runs[r].quiet
              /\ t.alerts = runs[r].alerts /\ t.seen = runs[r].seen
              /\ t.open = runs[r].open \ {a} /\ t.close = runs[r].close
              /\ IF t.seen[a] = "ACTIVE" THEN t.pc = "syncing" ELSE t.pc = "noticing" /\ t.next = a
<1> DEFINE a    == NextOpen(runs[r])
           rest == [runs[r] EXCEPT !.open = @ \ {a}]
           t    == IF Opens(runs[r], a) THEN [rest EXCEPT !.pc = "noticing", !.next = a] ELSE rest
<1>1. runs[r] \in Running /\ runs[r].pc = "syncing"
  BY RunShape DEF OpenTrigger
<1>2. a \in runs[r].open /\ a \in Alerts
  BY <1>1, NextTrigger DEF OpenTrigger, Running
<1>3. Write(r, a, "ACTIVE", t)
  BY DEF OpenTrigger
<1> HIDE DEF a
<1>4. /\ rest \in Running /\ rest.pc = "syncing" /\ rest.by = runs[r].by
      /\ rest.quiet = runs[r].quiet /\ rest.alerts = runs[r].alerts
      /\ rest.seen = runs[r].seen /\ rest.open = runs[r].open \ {a}
      /\ rest.close = runs[r].close
  BY <1>1 DEF Running
<1> HIDE DEF rest
<1>5. CASE Opens(runs[r], a)
  <2>1. t = [rest EXCEPT !.pc = "noticing", !.next = a]
    BY <1>5
  <2>2. /\ t \in Running /\ t.by = rest.by /\ t.quiet = rest.quiet /\ t.alerts = rest.alerts
        /\ t.seen = rest.seen /\ t.open = rest.open /\ t.close = rest.close
        /\ t.pc = "noticing" /\ t.next = a
    BY <1>2, <1>4, <2>1 DEF Running
  <2> HIDE DEF t
  <2> QED
    BY <1>2, <1>3, <1>4, <1>5, <2>2 DEF Write, Opens
<1>6. CASE ~Opens(runs[r], a)
  <2>1. t = rest
    BY <1>6
  <2> HIDE DEF t
  <2> QED
    BY <1>2, <1>3, <1>4, <1>6, <2>1 DEF Write, Opens
<1> QED
  BY <1>5, <1>6

(* Closing one: it is always announced.                                    *)
LEMMA CloseTriggerStep ==
    ASSUME TypeOK, NEW r \in Runs, CloseTrigger(r)
    PROVE  \E t \in Running, a \in runs[r].close :
              /\ runs' = Written(r, t) /\ triggers' = [triggers EXCEPT ![a] = "RESOLVED"]
              /\ t.by = runs[r].by /\ t.quiet = runs[r].quiet
              /\ t.alerts = runs[r].alerts /\ t.seen = runs[r].seen
              /\ t.open = runs[r].open /\ t.close = runs[r].close \ {a}
              /\ t.pc = "noticing" /\ t.next = a
<1> DEFINE a == NextClose(runs[r])
           t == [runs[r] EXCEPT !.close = @ \ {a}, !.pc = "noticing", !.next = a]
<1>1. runs[r] \in Running
  BY RunShape DEF CloseTrigger
<1>2. a \in runs[r].close /\ a \in Alerts
  BY <1>1, NextTrigger DEF CloseTrigger, Running
<1>3. Write(r, a, "RESOLVED", t)
  BY DEF CloseTrigger
<1> HIDE DEF a
<1>4. /\ t \in Running /\ t.by = runs[r].by /\ t.quiet = runs[r].quiet
      /\ t.alerts = runs[r].alerts /\ t.seen = runs[r].seen /\ t.open = runs[r].open
      /\ t.close = runs[r].close \ {a} /\ t.pc = "noticing" /\ t.next = a
  BY <1>1, <1>2 DEF Running
<1> HIDE DEF t
<1> QED
  BY <1>2, <1>3, <1>4 DEF Write

-----------------------------------------------------------------------------
(* One scheduled cycle per process.                                        *)

(* A run a process has under way is the one its scheduler holds on to:     *)
(* activeRun is cleared by the end of that run and by nothing before it.   *)
FlightInv ==
    \A r \in Runs : runs[r] # Idle =>
        \A p \in Processes : runs[r].by = p => activeRun[p] = r

(* A run that is under way after the step was so before, for the same      *)
(* process.                                                                *)
NoneBegins ==
    \A x \in Runs : runs'[x] # Idle => runs[x] # Idle /\ runs'[x].by = runs[x].by

(* Where none begins and the schedulers hold on to theirs, they still do.  *)
LEMMA FlightKept ==
    ASSUME FlightInv, NoneBegins, UNCHANGED activeRun
    PROVE  FlightInv'
BY DEF FlightInv, NoneBegins

(* One run goes on as t, for the process that began it.                    *)
LEMMA ContinueNone ==
    ASSUME TypeOK, NEW r \in Runs, NEW t, runs[r] # Idle, t.by = runs[r].by,
           runs' = [runs EXCEPT ![r] = t]
    PROVE  NoneBegins
BY DEF TypeOK, NoneBegins

(* Filing a sample begins no run.                                          *)
LEMMA SampledNone ==
    ASSUME TypeOK, NEW r \in Runs, NEW t, runs[r] # Idle, t.by = runs[r].by, t # Idle,
           NEW x \in Runs
    PROVE  /\ Sampled(r, t)[x] # Idle <=> runs[x] # Idle
           /\ Sampled(r, t)[x] # Idle => Sampled(r, t)[x].by = runs[x].by
<1>1. CASE x # r /\ runs[x] # Idle /\ x \in t.before
  <2>1. runs[x] \in Running
    BY <1>1, RunShape
  <2>2. /\ [runs[x] EXCEPT !.late = TRUE].by = runs[x].by
        /\ [runs[x] EXCEPT !.late = TRUE].pc # "idle"
    BY <2>1 DEF Running
  <2>3. Sampled(r, t)[x] = [runs[x] EXCEPT !.late = TRUE]
    BY <1>1 DEF Sampled
  <2> QED
    BY <1>1, <2>2, <2>3 DEF Idle
<1>2. CASE ~(x # r /\ runs[x] # Idle /\ x \in t.before)
  <2>1. Sampled(r, t)[x] = IF x = r THEN t ELSE runs[x]
    BY <1>2 DEF Sampled
  <2> QED
    BY <2>1
<1> QED
  BY <1>1, <1>2

(* Writing a row begins no run.                                            *)
LEMMA WrittenNone ==
    ASSUME TypeOK, NEW r \in Runs, NEW t, runs[r] # Idle, t.by = runs[r].by,
           runs' = Written(r, t)
    PROVE  NoneBegins
<1>1. ASSUME NEW x \in Runs, runs'[x] # Idle PROVE runs[x] # Idle /\ runs'[x].by = runs[x].by
  <2>1. CASE x = r
    BY <2>1 DEF Written
  <2>2. CASE x # r
    <3>1. runs[x] # Idle /\ runs'[x] = [runs[x] EXCEPT !.quiet = FALSE]
      BY <1>1, <2>2 DEF Written
    <3>2. runs[x] \in Running
      BY <3>1, RunShape
    <3> QED
      BY <3>1, <3>2 DEF Running
  <2> QED
    BY <2>1, <2>2
<1> QED
  BY <1>1 DEF NoneBegins

(* The end of a run releases the scheduler that began it, and no other.    *)
LEMMA EndFlight ==
    ASSUME TypeOK, FlightInv, NEW r \in Runs, NEW f \in [Runs -> RunStates], End(r, f),
           \A x \in Runs : f[x] # Idle => runs[x] # Idle /\ f[x].by = runs[x].by
    PROVE  FlightInv'
<1>1. ASSUME NEW x \in Runs, runs'[x] # Idle
      PROVE  x # r /\ runs[x] # Idle /\ runs'[x].by = runs[x].by
  <2>1. x # r /\ f[x] # Idle /\ runs'[x] = [f[x] EXCEPT !.before = @ \ {r}]
    BY <1>1 DEF End, Ended
  <2>2. f[x] \in Running
    BY <2>1 DEF RunStates
  <2> QED
    BY <2>1, <2>2 DEF Running
<1>2. \A p \in Processes : activeRun[p] # r => activeRun'[p] = activeRun[p]
  BY DEF End, Released
<1> QED
  BY <1>1, <1>2 DEF FlightInv

(* A scheduler starts a cycle only when it holds on to none, and then to   *)
(* the one it starts.                                                      *)
LEMMA TickFlight ==
    ASSUME TypeOK, FlightInv, NEW p \in Processes, Tick(p)
    PROVE  FlightInv'
<1> DEFINE f == FreeRun
<1>1. f \in Runs /\ runs[f] = Idle
  BY DEF Tick, FreeRun, FreeRuns
<1>2. Began(p, policy).by = p
  BY DEF Began
<1>3. /\ runs'[f].by = p /\ activeRun'[p] = f
      /\ \A x \in Runs : x # f => runs'[x] = runs[x]
      /\ \A q \in Processes : q # p => activeRun'[q] = activeRun[q]
  BY <1>1, <1>2 DEF Tick, Continue, TypeOK
<1>4. activeRun[p] = None /\ None \notin Runs
  BY AutomationAssumption DEF Tick, MayStart
<1>5. \A x \in Runs : runs[x] # Idle => runs[x].by # p
  BY <1>4 DEF FlightInv
<1> QED
  BY <1>1, <1>3, <1>5 DEF FlightInv

(* Every step preserves it.                                                *)
LEMMA NextFlight == TypeOK /\ FlightInv /\ [Next]_vars => FlightInv'
<1> SUFFICES ASSUME TypeOK, FlightInv, [Next]_vars PROVE FlightInv'
  OBVIOUS
<1>1. CASE UNCHANGED <<runs, activeRun>>
  BY <1>1 DEF FlightInv
<1>2. ASSUME NEW p \in Processes, Start(p) PROVE FlightInv'
  <2>1. ASSUME NEW x \in Runs, runs'[x] # Idle
        PROVE  runs[x] # Idle /\ runs'[x].by = runs[x].by
    <3>1. runs[x] # Idle /\ runs'[x] = [runs[x] EXCEPT !.late = TRUE]
      BY <1>2, <2>1 DEF Start
    <3>2. runs[x] \in Running
      BY <3>1, RunShape
    <3> QED
      BY <3>1, <3>2 DEF Running
  <2> QED
    BY <1>2, <2>1, FlightKept DEF Start, NoneBegins
<1>3. ASSUME NEW p \in Processes, Exit(p) PROVE FlightInv'
  <2>1. ASSUME NEW x \in Runs, runs'[x] # Idle
        PROVE  runs[x] # Idle /\ runs[x].by # p /\ runs'[x].by = runs[x].by
    <3>1. /\ runs[x] # Idle /\ runs[x].by # p
          /\ \E left : runs'[x] = [runs[x] EXCEPT !.before = left]
      BY <1>3, <2>1 DEF Exit
    <3>2. runs[x] \in Running
      BY <3>1, RunShape
    <3> QED
      BY <3>1, <3>2 DEF Running
  <2>2. \A q \in Processes : q # p => activeRun'[q] = activeRun[q]
    BY <1>3 DEF Exit, TypeOK
  <2> QED
    BY <2>1, <2>2 DEF FlightInv
<1>4. ASSUME NEW kind, Ask(kind) PROVE FlightInv'
  <2>1. FreeRun \in Runs
    BY <1>4 DEF Ask, FreeRun, FreeRuns
  <2>2. Began(None, kind).by = None /\ None \notin Processes
    BY AutomationAssumption DEF Began
  <2>3. /\ runs'[FreeRun].by = None
        /\ \A x \in Runs : x # FreeRun => runs'[x] = runs[x]
        /\ UNCHANGED activeRun
    BY <1>4, <2>1, <2>2 DEF Ask, Continue, TypeOK
  <2> HIDE DEF FreeRun
  <2> QED
    BY <2>1, <2>2, <2>3 DEF FlightInv
<1>5. ASSUME NEW r \in Runs, Step(r) \/ Fail(r) PROVE FlightInv'
  <2>1. runs[r] \in Running /\ runs[r] # Idle
    BY <1>5, RunShape DEF Step, CheckOwnership, ReadPosture, ReadTriggers, OpenTrigger,
       CloseTrigger, WriteNotice, FinishSync, Finish, RecordFailure, Fail
  <2>2. Sampled(r, runs[r]) \in [Runs -> RunStates] /\ runs \in [Runs -> RunStates]
    BY <2>1, SampledShape DEF TypeOK, RunStates
  <2>3. \A x \in Runs : Sampled(r, runs[r])[x] # Idle =>
            runs[x] # Idle /\ Sampled(r, runs[r])[x].by = runs[x].by
    BY <2>1, SampledNone
  <2>4. CASE End(r, runs) \/ End(r, Sampled(r, runs[r]))
    BY <2>2, <2>3, <2>4, EndFlight
  <2>5. ASSUME NEW t, t.by = runs[r].by, UNCHANGED activeRun,
               runs' = [runs EXCEPT ![r] = t] \/ runs' = Written(r, t)
        PROVE  FlightInv'
    BY <2>1, <2>5, ContinueNone, WrittenNone, FlightKept
  <2>6. ASSUME NEW t \in Running, t.by = runs[r].by, UNCHANGED activeRun, runs' = Sampled(r, t)
        PROVE  FlightInv'
    <3>1. t # Idle
      BY DEF Running, Idle
    <3>2. NoneBegins
      BY <2>1, <2>6, <3>1, SampledNone DEF NoneBegins
    <3> QED
      BY <2>6, <3>2, FlightKept
  <2>7. CASE CheckOwnership(r)
    <3>1. [runs[r] EXCEPT !.pc = "degraded"].by = runs[r].by
      BY <2>1 DEF Running
    <3> QED
      BY <2>4, <2>5, <2>7, <3>1 DEF CheckOwnership, Continue
  <2>8. CASE ReadPosture(r) \/ RecordFailure(r)
    <3> DEFINE t == [runs[r] EXCEPT !.pc = "alerted", !.alerts = SelectedAlerts(cadence')]
    <3>1. SelectedAlerts(cadence') \subseteq Alerts
      BY SelectedShape
    <3>2. t \in Running /\ t.by = runs[r].by
      BY <2>1, <3>1 DEF Running
    <3>3. (runs' = Sampled(r, t) \/ runs' = [runs EXCEPT ![r] = t]) /\ UNCHANGED activeRun
      BY <2>8 DEF ReadPosture, RecordFailure
    <3> HIDE DEF t
    <3> QED
      BY <2>5, <2>6, <3>2, <3>3
  <2>9. CASE ReadTriggers(r)
    <3>1. \E t : runs' = [runs EXCEPT ![r] = t] /\ t.by = runs[r].by
      BY <2>9, ReadTriggersStep
    <3> QED
      BY <2>5, <2>9, <3>1 DEF ReadTriggers
  <2>10. CASE OpenTrigger(r)
    <3>1. \E t : runs' = Written(r, t) /\ t.by = runs[r].by
      BY <2>10, OpenTriggerStep
    <3> QED
      BY <2>5, <2>10, <3>1 DEF OpenTrigger, Write
  <2>11. CASE CloseTrigger(r)
    <3>1. \E t : runs' = Written(r, t) /\ t.by = runs[r].by
      BY <2>11, CloseTriggerStep
    <3> QED
      BY <2>5, <2>11, <3>1 DEF CloseTrigger, Write
  <2>12. CASE WriteNotice(r)
    <3>1. [runs[r] EXCEPT !.pc = "syncing", !.next = None].by = runs[r].by
      BY <2>1 DEF Running
    <3> QED
      BY <2>5, <2>12, <3>1 DEF WriteNotice
  <2>13. CASE FinishSync(r)
    <3>1. [runs[r] EXCEPT !.pc = "synced"].by = runs[r].by
      BY <2>1 DEF Running
    <3> QED
      BY <2>5, <2>13, <3>1 DEF FinishSync, Continue
  <2>14. CASE Finish(r)
    BY <2>4, <2>14 DEF Finish
  <2>15. CASE Fail(r)
    <3> DEFINE t == [Began(runs[r].by, runs[r].kind) EXCEPT !.pc = "failed", !.recording = TRUE,
                        !.before = runs[r].before, !.late = runs[r].late]
    <3>1. t.by = runs[r].by
      BY DEF Began
    <3>2. End(r, runs) \/ (runs' = [runs EXCEPT ![r] = t] /\ UNCHANGED activeRun)
      BY <2>15 DEF Fail, Continue
    <3> HIDE DEF t
    <3> QED
      BY <2>4, <2>5, <3>1, <3>2
  <2> QED
    BY <1>5, <2>7, <2>8, <2>9, <2>10, <2>11, <2>12, <2>13, <2>14, <2>15 DEF Step
<1> QED
  BY <1>1, <1>2, <1>3, <1>4, <1>5, TickFlight DEF Next, Stop, Change, vars

(* A worker process never has two scheduled cycles under way, however its  *)
(* cycles fail, are recorded, overlap operators' runs and are cut by stops.*)
THEOREM OneFlight == Spec => []SingleFlight
<1>1. Init => FlightInv
  BY DEF Init, FlightInv
<1>2. TypeOK /\ FlightInv => SingleFlight
  BY DEF FlightInv, SingleFlight
<1> QED
  BY <1>1, <1>2, InitTypeOK, NextTypeOK, NextFlight, PTL DEF Spec

-----------------------------------------------------------------------------
(* What a synchronisation nobody wrote across has achieved so far.         *)

Opened(t) == t.alerts \ t.open
Closed(t) == StaleTriggers(t) \ t.close
Due(t, a) == t.pc = "noticing" /\ t.next = a

(* The triggers it has opened and the ones it had read as active and not   *)
(* closed yet are the active ones; those it changed are announced, except  *)
(* the one whose notification is next.                                     *)
SyncHolds(t, active, told) ==
    /\ t.open \subseteq t.alerts /\ t.close \subseteq StaleTriggers(t)
    /\ t.pc = "synced" => t.open = {} /\ t.close = {}
    /\ t.pc = "noticing" => t.next \in Opened(t) \cup Closed(t)
    /\ active = Opened(t) \cup {a \in Alerts : t.seen[a] = "ACTIVE" /\ a \notin Closed(t)}
    /\ \A a \in Opened(t) : t.seen[a] = "ACTIVE" \/ Due(t, a) \/ told[a] = "UNREAD"
    /\ \A a \in Closed(t) : Due(t, a) \/ told[a] = "READ"

Syncing(t) == t.pc \in {"syncing", "noticing", "synced"} /\ t.quiet

SyncInv == \A r \in Runs : Syncing(runs[r]) => SyncHolds(runs[r], ActiveTriggers, notices)

(* What the invariant says of a run that has come to its end.              *)
LEMMA SyncIsExact == TypeOK /\ SyncInv => QuietSyncIsExact
<1> SUFFICES ASSUME TypeOK, SyncInv, NEW r \in Runs, runs[r] # Idle, runs[r].pc = "synced",
                    runs[r].quiet
             PROVE  /\ ActiveTriggers = runs[r].alerts
                    /\ \A a \in runs[r].alerts : runs[r].seen[a] # "ACTIVE" => notices[a] = "UNREAD"
                    /\ \A a \in StaleTriggers(runs[r]) : notices[a] = "READ"
  BY DEF QuietSyncIsExact
<1> DEFINE t == runs[r]
<1>1. t \in Running
  BY RunShape
<1>2. SyncHolds(t, ActiveTriggers, notices)
  BY DEF SyncInv, Syncing
<1>3. Opened(t) = t.alerts /\ Closed(t) = StaleTriggers(t)
  BY <1>2 DEF SyncHolds, Opened, Closed
<1>4. ActiveTriggers = t.alerts
  BY <1>1, <1>2, <1>3 DEF SyncHolds, StaleTriggers, Running
<1> QED
  BY <1>2, <1>3, <1>4 DEF SyncHolds, Due

(* What a run has achieved depends on these of its fields.                 *)
Alike(u, t) ==
    /\ u.pc = t.pc /\ u.next = t.next /\ u.quiet = t.quiet
    /\ u.open = t.open /\ u.close = t.close /\ u.alerts = t.alerts /\ u.seen = t.seen

(* A step that keeps the active triggers and the notifications, and those  *)
(* fields of every run that goes on synchronising.                         *)
LEMMA SyncKept ==
    ASSUME SyncInv, ActiveTriggers' = ActiveTriggers, UNCHANGED notices,
           \A x \in Runs : Syncing(runs'[x]) =>
               \/ Alike(runs'[x], runs[x])
               \/ SyncHolds(runs'[x], ActiveTriggers, notices)
    PROVE  SyncInv'
<1>1. ASSUME NEW x \in Runs, Syncing(runs'[x])
      PROVE  SyncHolds(runs'[x], ActiveTriggers, notices)
  <2>1. CASE Alike(runs'[x], runs[x])
    <3> DEFINE t == runs[x]
               u == runs'[x]
    <3>1. Syncing(t) /\ SyncHolds(t, ActiveTriggers, notices)
      BY <1>1, <2>1 DEF SyncInv, Syncing, Alike
    <3>2. /\ Opened(u) = Opened(t) /\ Closed(u) = Closed(t)
          /\ StaleTriggers(u) = StaleTriggers(t)
          /\ \A a : Due(u, a) <=> Due(t, a)
      BY <2>1 DEF Alike, Opened, Closed, Due, StaleTriggers
    <3>3. Alike(u, t)
      BY <2>1
    <3> HIDE DEF t, u
    <3>4. SyncHolds(u, ActiveTriggers, notices)
      BY <3>1, <3>2, <3>3 DEF Alike, SyncHolds
    <3> QED
      BY <3>4 DEF u
  <2> QED
    BY <1>1, <2>1
<1> QED
  BY <1>1 DEF SyncInv

(* Idle runs and runs that are not synchronising have nothing to keep.     *)
LEMMA NotSyncing ==
    ASSUME NEW t, t.pc \notin {"syncing", "noticing", "synced"}
    PROVE  ~Syncing(t)
BY DEF Syncing

(* A write to the rows leaves at most its own run undisturbed.             *)
LEMMA WrittenSync ==
    ASSUME TypeOK, NEW r \in Runs, NEW t, runs' = Written(r, t),
           Syncing(t) => SyncHolds(t, ActiveTriggers', notices')
    PROVE  SyncInv'
<1>1. ASSUME NEW x \in Runs, Syncing(runs'[x])
      PROVE  SyncHolds(runs'[x], ActiveTriggers', notices')
  <2>1. CASE x = r
    BY <1>1, <2>1 DEF Written
  <2>2. CASE x # r /\ runs[x] = Idle
    BY <1>1, <2>2, NotSyncing DEF Written, Idle
  <2>3. CASE x # r /\ runs[x] # Idle
    <3>1. runs'[x] = [runs[x] EXCEPT !.quiet = FALSE]
      BY <2>3 DEF Written
    <3>2. runs[x] \in Running
      BY <2>3, RunShape
    <3>3. runs'[x].quiet = FALSE
      BY <3>1, <3>2 DEF Running
    <3> QED
      BY <1>1, <3>3 DEF Syncing
  <2> QED
    BY <2>1, <2>2, <2>3
<1> QED
  BY <1>1 DEF SyncInv

(* Filing a sample leaves what the other runs have achieved.               *)
LEMMA SampledAlike ==
    ASSUME TypeOK, NEW r \in Runs, NEW t, NEW x \in Runs, x # r \/ t = runs[r]
    PROVE  Alike(Sampled(r, t)[x], runs[x])
<1>1. CASE x # r /\ runs[x] # Idle /\ x \in t.before
  <2>1. runs[x] \in Running
    BY <1>1, RunShape
  <2>2. Sampled(r, t)[x] = [runs[x] EXCEPT !.late = TRUE]
    BY <1>1 DEF Sampled
  <2> QED
    BY <2>1, <2>2 DEF Running, Alike
<1>2. CASE ~(x # r /\ runs[x] # Idle /\ x \in t.before)
  <2>1. Sampled(r, t)[x] = runs[x]
    BY <1>2 DEF Sampled
  <2> QED
    BY <2>1 DEF Alike
<1> QED
  BY <1>1, <1>2

(* So does the end of a run.                                               *)
LEMMA EndSync ==
    ASSUME TypeOK, SyncInv, NEW r \in Runs, NEW f \in [Runs -> RunStates], End(r, f),
           \A x \in Runs : Alike(f[x], runs[x]), UNCHANGED <<triggers, notices>>
    PROVE  SyncInv'
<1>1. ASSUME NEW x \in Runs, Syncing(runs'[x]) PROVE Alike(runs'[x], runs[x])
  <2>1. runs'[x] = IF x = r \/ f[x] = Idle THEN Idle ELSE [f[x] EXCEPT !.before = @ \ {r}]
    BY DEF End, Ended
  <2>2. x # r /\ f[x] # Idle
    BY <1>1, <2>1, NotSyncing DEF Idle
  <2>3. f[x] \in Running /\ runs'[x] = [f[x] EXCEPT !.before = @ \ {r}]
    BY <2>1, <2>2 DEF RunStates
  <2>4. Alike(runs'[x], f[x])
    BY <2>3 DEF Running, Alike
  <2> QED
    BY <2>4 DEF Alike
<1>2. ActiveTriggers' = ActiveTriggers
  BY DEF ActiveTriggers
<1> QED
  BY <1>1, <1>2, SyncKept

(* A run goes on outside its synchronisation.                              *)
LEMMA ContinueSync ==
    ASSUME TypeOK, SyncInv, NEW r \in Runs, NEW t,
           t.pc \notin {"syncing", "noticing", "synced"},
           runs' = [runs EXCEPT ![r] = t] \/ runs' = Sampled(r, t),
           UNCHANGED <<triggers, notices>>
    PROVE  SyncInv'
<1>1. ASSUME NEW x \in Runs, Syncing(runs'[x]) PROVE Alike(runs'[x], runs[x])
  <2>1. x # r
    BY <1>1, NotSyncing DEF Sampled, TypeOK
  <2> QED
    BY <2>1, SampledAlike DEF TypeOK, Alike
<1>2. ActiveTriggers' = ActiveTriggers
  BY DEF ActiveTriggers
<1> QED
  BY <1>1, <1>2, SyncKept

(* Reading the triggers begins a synchronisation: the active ones are the  *)
(* ones it read as active.                                                 *)
LEMMA ReadTriggersSync ==
    ASSUME TypeOK, SyncInv, NEW r \in Runs, ReadTriggers(r)
    PROVE  SyncInv'
<1>1. PICK t \in Running :
         /\ runs' = [runs EXCEPT ![r] = t]
         /\ t.pc = "syncing" /\ t.seen = triggers
         /\ t.open = t.alerts /\ t.close = StaleTriggers(t)
  BY ReadTriggersStep
<1>2. Opened(t) = {} /\ Closed(t) = {}
  BY <1>1 DEF Opened, Closed
<1>3. SyncHolds(t, ActiveTriggers, notices)
  BY <1>1, <1>2 DEF SyncHolds, ActiveTriggers
<1>4. ASSUME NEW x \in Runs
      PROVE  \/ Alike(runs'[x], runs[x])
             \/ SyncHolds(runs'[x], ActiveTriggers, notices)
  BY <1>1, <1>3 DEF TypeOK, Alike
<1>5. ActiveTriggers' = ActiveTriggers /\ UNCHANGED notices
  BY DEF ReadTriggers, rows, ActiveTriggers
<1> QED
  BY <1>4, <1>5, SyncKept

(* Opening a trigger makes it active, and its notification due.            *)
LEMMA OpenTriggerSync ==
    ASSUME TypeOK, SyncInv, NEW r \in Runs, OpenTrigger(r)
    PROVE  SyncInv'
<1> DEFINE s == runs[r]
<1>1. PICK t \in Running, a \in s.open :
         /\ runs' = Written(r, t) /\ triggers' = [triggers EXCEPT ![a] = "ACTIVE"]
         /\ t.quiet = s.quiet /\ t.alerts = s.alerts /\ t.seen = s.seen
         /\ t.open = s.open \ {a} /\ t.close = s.close
         /\ IF t.seen[a] = "ACTIVE" THEN t.pc = "syncing" ELSE t.pc = "noticing" /\ t.next = a
  BY OpenTriggerStep
<1>2. s \in Running /\ s.pc = "syncing" /\ UNCHANGED notices
  BY RunShape DEF OpenTrigger, Write
<1>3. a \in Alerts
  BY <1>2 DEF Running
<1>4. ActiveTriggers' = ActiveTriggers \cup {a}
  BY <1>1, <1>3 DEF ActiveTriggers, TypeOK
<1>5. ASSUME s.quiet PROVE SyncHolds(t, ActiveTriggers', notices')
  <2>1. SyncHolds(s, ActiveTriggers, notices)
    BY <1>2, <1>5 DEF SyncInv, Syncing
  <2>2. StaleTriggers(t) = StaleTriggers(s) /\ Closed(t) = Closed(s)
    BY <1>1 DEF Closed, StaleTriggers
  <2>3. a \in s.alerts /\ a \notin Closed(s)
    BY <2>1 DEF SyncHolds, Closed, StaleTriggers
  <2>4. Opened(t) = Opened(s) \cup {a}
    BY <1>1, <2>3 DEF Opened
  <2>5. ActiveTriggers' = Opened(t) \cup
            {b \in Alerts : t.seen[b] = "ACTIVE" /\ b \notin Closed(t)}
    BY <1>1, <1>4, <2>1, <2>2, <2>4 DEF SyncHolds
  <2>6. \A b \in Opened(t) : t.seen[b] = "ACTIVE" \/ Due(t, b) \/ notices'[b] = "UNREAD"
    BY <1>1, <1>2, <2>1, <2>4 DEF SyncHolds, Due
  <2>7. \A b \in Closed(t) : Due(t, b) \/ notices'[b] = "READ"
    BY <1>2, <2>1, <2>2 DEF SyncHolds, Due
  <2> QED
    BY <1>1, <2>1, <2>2, <2>4, <2>5, <2>6, <2>7 DEF SyncHolds
<1> QED
  BY <1>1, <1>5, WrittenSync DEF Syncing

(* Closing one likewise.                                                   *)
LEMMA CloseTriggerSync ==
    ASSUME TypeOK, SyncInv, NEW r \in Runs, CloseTrigger(r)
    PROVE  SyncInv'
<1> DEFINE s == runs[r]
<1>1. PICK t \in Running, a \in s.close :
         /\ runs' = Written(r, t) /\ triggers' = [triggers EXCEPT ![a] = "RESOLVED"]
         /\ t.quiet = s.quiet /\ t.alerts = s.alerts /\ t.seen = s.seen
         /\ t.open = s.open /\ t.close = s.close \ {a}
         /\ t.pc = "noticing" /\ t.next = a
  BY CloseTriggerStep
<1>2. s \in Running /\ s.pc = "syncing" /\ UNCHANGED notices
  BY RunShape DEF CloseTrigger, Write
<1>3. a \in Alerts
  BY <1>2 DEF Running
<1>4. ActiveTriggers' = ActiveTriggers \ {a}
  BY <1>1, <1>3 DEF ActiveTriggers, TypeOK
<1>5. ASSUME s.quiet PROVE SyncHolds(t, ActiveTriggers', notices')
  <2>1. SyncHolds(s, ActiveTriggers, notices)
    BY <1>2, <1>5 DEF SyncInv, Syncing
  <2>2. StaleTriggers(t) = StaleTriggers(s) /\ Opened(t) = Opened(s)
    BY <1>1 DEF Opened, StaleTriggers
  <2>3. a \in StaleTriggers(s) /\ a \notin Opened(s)
    BY <2>1 DEF SyncHolds, Opened, StaleTriggers
  <2>4. Closed(t) = Closed(s) \cup {a}
    BY <1>1, <2>2, <2>3 DEF Closed
  <2>5. ActiveTriggers' = Opened(t) \cup
            {b \in Alerts : t.seen[b] = "ACTIVE" /\ b \notin Closed(t)}
    BY <1>1, <1>4, <2>1, <2>2, <2>3, <2>4 DEF SyncHolds
  <2>6. \A b \in Opened(t) : t.seen[b] = "ACTIVE" \/ Due(t, b) \/ notices'[b] = "UNREAD"
    BY <1>1, <1>2, <2>1, <2>2 DEF SyncHolds, Due
  <2>7. \A b \in Closed(t) : Due(t, b) \/ notices'[b] = "READ"
    BY <1>1, <1>2, <2>1, <2>4 DEF SyncHolds, Due
  <2> QED
    BY <1>1, <2>1, <2>2, <2>4, <2>5, <2>6, <2>7 DEF SyncHolds
<1> QED
  BY <1>1, <1>5, WrittenSync DEF Syncing

(* The notification that was due is written.                               *)
LEMMA WriteNoticeSync ==
    ASSUME TypeOK, SyncInv, NEW r \in Runs, WriteNotice(r)
    PROVE  SyncInv'
<1> DEFINE s == runs[r]
           t == [s EXCEPT !.pc = "syncing", !.next = None]
<1>1. s \in Running /\ s.pc = "noticing"
  BY RunShape DEF WriteNotice
<1>2. /\ t.pc = "syncing" /\ t.quiet = s.quiet /\ t.alerts = s.alerts /\ t.seen = s.seen
      /\ t.open = s.open /\ t.close = s.close
  BY <1>1 DEF Running
<1>3. /\ runs' = Written(r, t) /\ UNCHANGED triggers
      /\ notices' = [notices EXCEPT ![s.next] = IF s.next \in s.alerts THEN "UNREAD" ELSE "READ"]
  BY DEF WriteNotice
<1> HIDE DEF t
<1>4. ASSUME s.quiet PROVE SyncHolds(t, ActiveTriggers', notices')
  <2>1. SyncHolds(s, ActiveTriggers, notices) /\ s.next \in Opened(s) \cup Closed(s)
    BY <1>1, <1>4 DEF SyncInv, Syncing, SyncHolds
  <2>2. /\ StaleTriggers(t) = StaleTriggers(s)
        /\ Opened(t) = Opened(s) /\ Closed(t) = Closed(s)
    BY <1>2 DEF Opened, Closed, StaleTriggers
  <2>3. ActiveTriggers' = ActiveTriggers
    BY <1>3 DEF ActiveTriggers
  <2>4. /\ \A b \in Opened(s) : b \in Alerts /\ b \in s.alerts
        /\ \A b \in Closed(s) : b \in Alerts /\ b \notin s.alerts
    BY <1>1 DEF Opened, Closed, StaleTriggers, Running
  <2>5. ASSUME NEW b \in Opened(t) PROVE t.seen[b] = "ACTIVE" \/ notices'[b] = "UNREAD"
    BY <1>2, <1>3, <2>1, <2>2, <2>4 DEF SyncHolds, Due, TypeOK
  <2>6. ASSUME NEW b \in Closed(t) PROVE notices'[b] = "READ"
    BY <1>2, <1>3, <2>1, <2>2, <2>4 DEF SyncHolds, Due, TypeOK
  <2> QED
    BY <1>2, <2>1, <2>2, <2>3, <2>5, <2>6 DEF SyncHolds
<1> QED
  BY <1>2, <1>3, <1>4, WrittenSync DEF Syncing

(* Retention deletes no active trigger: neither this run nor one beside it *)
(* loses anything by it.                                                   *)
LEMMA FinishSyncSync ==
    ASSUME TypeOK, SyncInv, NEW r \in Runs, FinishSync(r)
    PROVE  SyncInv'
<1> DEFINE s == runs[r]
           t == [s EXCEPT !.pc = "synced"]
<1>1. s \in Running /\ s.pc = "syncing" /\ s.open = {} /\ s.close = {}
  BY RunShape DEF FinishSync
<1>2. /\ t.pc = "synced" /\ t.quiet = s.quiet /\ t.alerts = s.alerts /\ t.seen = s.seen
      /\ t.open = s.open /\ t.close = s.close
  BY <1>1 DEF Running
<1>3. /\ runs' = [runs EXCEPT ![r] = t] /\ UNCHANGED notices
  BY DEF FinishSync, Continue
<1>4. ActiveTriggers' = ActiveTriggers
  BY DEF FinishSync, ActiveTriggers, Prunable, TypeOK
<1> HIDE DEF t
<1>5. ASSUME s.quiet PROVE SyncHolds(t, ActiveTriggers, notices)
  <2>1. SyncHolds(s, ActiveTriggers, notices)
    BY <1>1, <1>5 DEF SyncInv, Syncing
  <2>2. /\ StaleTriggers(t) = StaleTriggers(s)
        /\ Opened(t) = Opened(s) /\ Closed(t) = Closed(s)
    BY <1>2 DEF Opened, Closed, StaleTriggers
  <2> QED
    BY <1>1, <1>2, <2>1, <2>2 DEF SyncHolds, Due
<1>6. ASSUME NEW x \in Runs, Syncing(runs'[x])
      PROVE  \/ Alike(runs'[x], runs[x])
             \/ SyncHolds(runs'[x], ActiveTriggers, notices)
  BY <1>2, <1>3, <1>5, <1>6 DEF TypeOK, Alike, Syncing
<1> QED
  BY <1>3, <1>4, <1>6, SyncKept

(* Every step preserves it.                                                *)
LEMMA NextSync == TypeOK /\ SyncInv /\ [Next]_vars => SyncInv'
<1> SUFFICES ASSUME TypeOK, SyncInv, [Next]_vars PROVE SyncInv'
  OBVIOUS
<1>1. CASE UNCHANGED <<runs, triggers, notices>>
  BY <1>1 DEF SyncInv, ActiveTriggers
<1>2. ASSUME ActiveTriggers' = ActiveTriggers, UNCHANGED notices,
             \A x \in Runs : Syncing(runs'[x]) => Alike(runs'[x], runs[x])
      PROVE  SyncInv'
  BY <1>2, SyncKept
<1>3. ASSUME NEW p \in Processes, Start(p) PROVE SyncInv'
  <2>1. ASSUME NEW x \in Runs, Syncing(runs'[x]) PROVE Alike(runs'[x], runs[x])
    <3>1. runs[x] # Idle /\ runs'[x] = [runs[x] EXCEPT !.late = TRUE]
      BY <1>3, <2>1, NotSyncing DEF Start, Idle
    <3>2. runs[x] \in Running
      BY <3>1, RunShape
    <3> QED
      BY <3>1, <3>2 DEF Running, Alike
  <2> QED
    BY <1>2, <1>3, <2>1 DEF Start, rows, ActiveTriggers
<1>4. ASSUME NEW p \in Processes, Exit(p) PROVE SyncInv'
  <2>1. ASSUME NEW x \in Runs, Syncing(runs'[x]) PROVE Alike(runs'[x], runs[x])
    <3>1. /\ runs[x] # Idle
          /\ \E left : runs'[x] = [runs[x] EXCEPT !.before = left]
      BY <1>4, <2>1, NotSyncing DEF Exit, Idle
    <3>2. runs[x] \in Running
      BY <3>1, RunShape
    <3> QED
      BY <3>1, <3>2 DEF Running, Alike
  <2> QED
    BY <1>2, <1>4, <2>1 DEF Exit, rows, ActiveTriggers
<1>5. ASSUME NEW by, NEW kind, FreeRuns # {}, Continue(FreeRun, Began(by, kind)),
             UNCHANGED <<triggers, notices>>
      PROVE  SyncInv'
  <2>1. FreeRun \in Runs /\ Began(by, kind).pc = "begun"
    BY <1>5 DEF FreeRun, FreeRuns, Began
  <2> QED
    BY <1>5, <2>1, ContinueSync DEF Continue
<1>6. ASSUME NEW r \in Runs, Step(r) \/ Fail(r) PROVE SyncInv'
  <2>1. runs[r] \in Running
    BY <1>6, RunShape DEF Step, CheckOwnership, ReadPosture, ReadTriggers, OpenTrigger,
       CloseTrigger, WriteNotice, FinishSync, Finish, RecordFailure, Fail
  <2>2. /\ Sampled(r, runs[r]) \in [Runs -> RunStates] /\ runs \in [Runs -> RunStates]
        /\ \A x \in Runs : Alike(Sampled(r, runs[r])[x], runs[x]) /\ Alike(runs[x], runs[x])
    BY <2>1, SampledShape, SampledAlike DEF TypeOK, RunStates, Alike
  <2>3. ASSUME End(r, runs) \/ End(r, Sampled(r, runs[r])), UNCHANGED <<triggers, notices>>
        PROVE  SyncInv'
    BY <2>2, <2>3, EndSync
  <2>4. CASE CheckOwnership(r)
    <3>1. [runs[r] EXCEPT !.pc = "degraded"].pc = "degraded"
      BY <2>1 DEF Running
    <3> QED
      BY <2>3, <2>4, <3>1, ContinueSync DEF CheckOwnership, Continue, rows
  <2>5. CASE ReadPosture(r) \/ RecordFailure(r)
    <3> DEFINE t == [runs[r] EXCEPT !.pc = "alerted", !.alerts = SelectedAlerts(cadence')]
    <3>1. t.pc = "alerted"
      BY <2>1 DEF Running
    <3>2. /\ runs' = Sampled(r, t) \/ runs' = [runs EXCEPT ![r] = t]
          /\ UNCHANGED <<triggers, notices>>
      BY <2>5 DEF ReadPosture, RecordFailure, rows
    <3> HIDE DEF t
    <3> QED
      BY <3>1, <3>2, ContinueSync
  <2>6. CASE Finish(r)
    BY <2>3, <2>6 DEF Finish, rows
  <2>7. CASE Fail(r)
    <3> DEFINE t == [Began(runs[r].by, runs[r].kind) EXCEPT !.pc = "failed", !.recording = TRUE,
                        !.before = runs[r].before, !.late = runs[r].late]
    <3>1. t.pc = "failed"
      BY DEF Began
    <3>2. /\ End(r, runs) \/ runs' = [runs EXCEPT ![r] = t]
          /\ UNCHANGED <<triggers, notices>>
      BY <2>7 DEF Fail, Continue, rows
    <3> HIDE DEF t
    <3> QED
      BY <2>3, <3>1, <3>2, ContinueSync
  <2> QED
    BY <1>6, <2>4, <2>5, <2>6, <2>7, ReadTriggersSync, OpenTriggerSync, CloseTriggerSync,
       WriteNoticeSync, FinishSyncSync
       DEF Step
<1>7. ASSUME NEW p \in Processes, Tick(p) PROVE SyncInv'
  BY <1>5, <1>7 DEF Tick, rows
<1>8. ASSUME NEW kind \in Kinds, Ask(kind) PROVE SyncInv'
  BY <1>5, <1>8 DEF Ask, rows
<1> QED
  BY <1>1, <1>3, <1>4, <1>6, <1>7, <1>8 DEF Next, Stop, Change, vars, rows

(* A synchronisation no other run wrote across ends with exactly its       *)
(* selected alerts active and announced, although it reads the triggers    *)
(* once, writes them one statement at a time and is cut by retention runs. *)
THEOREM ExactSync == Spec => []QuietSyncIsExact
<1>1. Init => SyncInv
  BY NotSyncing DEF Init, SyncInv, Idle
<1> QED
  BY <1>1, SyncIsExact, InitTypeOK, NextTypeOK, NextSync, PTL DEF Spec

-----------------------------------------------------------------------------
(* Sequences, for the histories of TelemetryRemediation.                   *)

(* A set of places of a sequence has a last one.                           *)
LEMMA LastPlace ==
    ASSUME NEW n \in Nat, NEW S, S \subseteq 1..n, S # {}
    PROVE  \E i \in S : \A j \in S : j <= i
<1> DEFINE T == {n - i : i \in S}
<1>0. \A i \in S : n - i \in Nat
  OBVIOUS
<1>1. T \subseteq Nat /\ T # {}
  BY <1>0
<1>2. PICK x \in T : \A y \in T : ~(<<y, x>> \in OpToRel(<, Nat))
  <2> HIDE DEF T
  <2> QED
    BY <1>1, NatLessThanWellFounded, WFMin
<1>3. ASSUME NEW y \in T PROVE x <= y
  <2>1. x \in Nat /\ y \in Nat
    BY <1>1
  <2>2. ~(y < x)
    BY <1>2, <2>1 DEF OpToRel
  <2> QED
    BY <2>1, <2>2
<1>4. PICK i \in S : x = n - i
  BY <1>2
<1>5. ASSUME NEW j \in S PROVE j <= i
  <2>1. n - i <= n - j
    BY <1>3, <1>4
  <2> QED
    BY <2>1
<1> QED
  BY <1>5

(* Latest is the place of the last entry of the kinds, or 0.               *)
LEMMA LatestIsLast ==
    ASSUME NEW X, NEW h \in Seq(X), NEW kinds
    PROVE  /\ R!Latest(h, kinds) \in 0..Len(h)
           /\ R!Latest(h, kinds) # 0 => h[R!Latest(h, kinds)].kind \in kinds
           /\ \A j \in 1..Len(h) : h[j].kind \in kinds => j <= R!Latest(h, kinds)
<1> DEFINE found == {i \in DOMAIN h : h[i].kind \in kinds}
<1>1. Len(h) \in Nat /\ DOMAIN h = 1..Len(h)
  BY LenProperties
<1>2. CASE found = {}
  <2>1. R!Latest(h, kinds) = 0
    BY <1>2 DEF R!Latest
  <2> QED
    BY <1>1, <1>2, <2>1
<1>3. CASE found # {}
  <2>1. found \subseteq 1..Len(h)
    BY <1>1
  <2>2. \E i \in found : \A j \in found : j <= i
    <3> HIDE DEF found
    <3> QED
      BY <1>1, <1>3, <2>1, LastPlace
  <2>3. R!Latest(h, kinds) = CHOOSE i \in found : \A j \in found : j <= i
    BY <1>3 DEF R!Latest
  <2>4. R!Latest(h, kinds) \in found /\ \A j \in found : j <= R!Latest(h, kinds)
    <3> HIDE DEF found
    <3> QED
      BY <2>2, <2>3
  <2> QED
    BY <1>1, <2>1, <2>4
<1> QED
  BY <1>2, <1>3

(* g is h with e inserted at k.                                            *)
IsInsertion(X, h, k, e, g) ==
    /\ g \in Seq(X)
    /\ Len(g) = Len(h) + 1
    /\ \A i \in 1..(Len(h) + 1) : g[i] = IF i < k THEN h[i] ELSE IF i = k THEN e ELSE h[i - 1]

(* An insertion moves what is at its place and after it by one.            *)
LEMMA InsertShape ==
    ASSUME NEW X, NEW h \in Seq(X), NEW k \in 1..(Len(h) + 1), NEW e \in X
    PROVE  IsInsertion(X, h, k, e, R!InsertAt(h, k, e))
<1> DEFINE s == SubSeq(h, 1, k - 1)
           m == <<e>>
           t == SubSeq(h, k, Len(h))
<1>1. Len(h) \in Nat /\ k \in Int /\ 1 <= k /\ k <= Len(h) + 1
  BY LenProperties
<1>2. \A i \in 1..Len(h) : h[i] \in X
  BY ElementOfSeq
<1>3. /\ s \in Seq(X) /\ Len(s) = k - 1
      /\ \A i \in 1..(k - 1) : s[i] = h[i]
  <2>1. \A i \in 1..(k - 1) : h[i] \in X
    BY <1>1, <1>2
  <2>2. /\ s \in Seq(X) /\ Len(s) = IF 1 <= k - 1 THEN (k - 1) - 1 + 1 ELSE 0
        /\ \A i \in 1..((k - 1) - 1 + 1) : s[i] = h[1 + i - 1]
    BY <1>1, <2>1, SubSeqProperties
  <2> HIDE DEF s
  <2> QED
    BY <1>1, <2>2
<1>4. /\ t \in Seq(X) /\ Len(t) = Len(h) - k + 1
      /\ \A i \in 1..(Len(h) - k + 1) : t[i] = h[k + i - 1]
  <2>1. \A i \in k..Len(h) : h[i] \in X
    BY <1>1, <1>2
  <2>2. /\ t \in Seq(X) /\ Len(t) = IF k <= Len(h) THEN Len(h) - k + 1 ELSE 0
        /\ \A i \in 1..(Len(h) - k + 1) : t[i] = h[k + i - 1]
    BY <1>1, <2>1, SubSeqProperties
  <2> HIDE DEF t
  <2> QED
    BY <1>1, <2>2
<1>5. m \in Seq(X) /\ Len(m) = 1 /\ m[1] = e
  OBVIOUS
<1>6. R!InsertAt(h, k, e) = (s \o m) \o t
  BY DEF R!InsertAt
<1> HIDE DEF s, m, t
<1>7. /\ s \o m \in Seq(X) /\ Len(s \o m) = k
      /\ \A i \in 1..k : (s \o m)[i] = IF i <= k - 1 THEN s[i] ELSE m[i - (k - 1)]
  <2>1. /\ s \o m \in Seq(X) /\ Len(s \o m) = Len(s) + Len(m)
        /\ \A i \in 1..(Len(s) + Len(m)) :
             (s \o m)[i] = IF i <= Len(s) THEN s[i] ELSE m[i - Len(s)]
    BY <1>3, <1>5, ConcatProperties
  <2>2. Len(s) + Len(m) = k
    BY <1>1, <1>3, <1>5
  <2> QED
    BY <1>3, <2>1, <2>2
<1>8. /\ (s \o m) \o t \in Seq(X) /\ Len((s \o m) \o t) = Len(h) + 1
      /\ \A i \in 1..(Len(h) + 1) : ((s \o m) \o t)[i] = IF i <= k THEN (s \o m)[i] ELSE t[i - k]
  <2> DEFINE sm == s \o m
  <2>0. sm \in Seq(X) /\ Len(sm) = k
    BY <1>7
  <2> HIDE DEF sm
  <2>1. /\ sm \o t \in Seq(X) /\ Len(sm \o t) = Len(sm) + Len(t)
        /\ \A i \in 1..(Len(sm) + Len(t)) :
             (sm \o t)[i] = IF i <= Len(sm) THEN sm[i] ELSE t[i - Len(sm)]
    BY <1>4, <2>0, ConcatProperties
  <2>2. Len(sm) + Len(t) = Len(h) + 1
    BY <1>1, <1>4, <2>0
  <2> QED
    BY <2>0, <2>1, <2>2 DEF sm
<1>9. ASSUME NEW i \in 1..(Len(h) + 1)
      PROVE  R!InsertAt(h, k, e)[i] = IF i < k THEN h[i] ELSE IF i = k THEN e ELSE h[i - 1]
  <2>1. CASE i < k
    BY <1>1, <1>3, <1>6, <1>7, <1>8, <2>1
  <2>2. CASE i = k
    <3>1. i \in 1..k /\ i \in 1..(Len(h) + 1) /\ i <= k /\ ~(i <= k - 1) /\ i - (k - 1) = 1
      BY <1>1, <2>2
    <3>2. ((s \o m) \o t)[i] = (s \o m)[i]
      BY <1>8, <3>1
    <3>3. (s \o m)[i] = m[1]
      BY <1>7, <3>1
    <3> QED
      BY <1>1, <1>5, <1>6, <2>2, <3>2, <3>3
  <2>3. CASE i > k
    <3>1. i - k \in 1..(Len(h) - k + 1) /\ k + (i - k) - 1 = i - 1
      BY <1>1, <2>3
    <3> QED
      BY <1>1, <1>4, <1>6, <1>8, <2>3, <3>1
  <2> QED
    BY <1>1, <2>1, <2>2, <2>3
<1> QED
  BY <1>6, <1>8, <1>9 DEF IsInsertion

(* The entries of a sequence after the first n.                            *)
LEMMA TailShape ==
    ASSUME NEW X, NEW h \in Seq(X), NEW n \in 0..Len(h)
    PROVE  /\ SubSeq(h, n + 1, Len(h)) \in Seq(X)
           /\ Len(SubSeq(h, n + 1, Len(h))) = Len(h) - n
           /\ \A i \in 1..(Len(h) - n) : SubSeq(h, n + 1, Len(h))[i] = h[i + n]
<1>1. Len(h) \in Nat /\ n \in Nat /\ n <= Len(h)
  BY LenProperties
<1>2. \A i \in (n + 1)..Len(h) : h[i] \in X
  BY <1>1, ElementOfSeq
<1>3. /\ SubSeq(h, n + 1, Len(h)) \in Seq(X)
      /\ Len(SubSeq(h, n + 1, Len(h))) = IF n + 1 <= Len(h) THEN Len(h) - (n + 1) + 1 ELSE 0
      /\ \A i \in 1..(Len(h) - (n + 1) + 1) : SubSeq(h, n + 1, Len(h))[i] = h[(n + 1) + i - 1]
  BY <1>1, <1>2, SubSeqProperties
<1> QED
  BY <1>1, <1>3

(* The first n entries of a sequence.                                      *)
LEMMA HeadShape ==
    ASSUME NEW X, NEW h \in Seq(X), NEW n \in 0..Len(h)
    PROVE  /\ SubSeq(h, 1, n) \in Seq(X)
           /\ Len(SubSeq(h, 1, n)) = n
           /\ \A i \in 1..n : SubSeq(h, 1, n)[i] = h[i]
<1>1. Len(h) \in Nat /\ n \in Nat /\ n <= Len(h)
  BY LenProperties
<1>2. \A i \in 1..n : h[i] \in X
  BY <1>1, ElementOfSeq
<1>3. /\ SubSeq(h, 1, n) \in Seq(X)
      /\ Len(SubSeq(h, 1, n)) = IF 1 <= n THEN n - 1 + 1 ELSE 0
      /\ \A i \in 1..(n - 1 + 1) : SubSeq(h, 1, n)[i] = h[1 + i - 1]
  BY <1>1, <1>2, SubSeqProperties
<1> QED
  BY <1>1, <1>3

(* A removal moves what is after its place by one.                         *)
LEMMA RemoveShape ==
    ASSUME NEW X, NEW h \in Seq(X), NEW k \in 1..Len(h)
    PROVE  /\ R!RemoveAt(h, k) \in Seq(X)
           /\ Len(R!RemoveAt(h, k)) = Len(h) - 1
           /\ \A i \in 1..(Len(h) - 1) : R!RemoveAt(h, k)[i] = IF i < k THEN h[i] ELSE h[i + 1]
<1> DEFINE s == SubSeq(h, 1, k - 1)
           t == SubSeq(h, k + 1, Len(h))
<1>1. Len(h) \in Nat /\ k \in Int /\ 1 <= k /\ k <= Len(h) /\ k - 1 \in 0..Len(h) /\ k \in 0..Len(h)
  BY LenProperties
<1>2. s \in Seq(X) /\ Len(s) = k - 1 /\ \A i \in 1..(k - 1) : s[i] = h[i]
  BY <1>1, HeadShape
<1>3. t \in Seq(X) /\ Len(t) = Len(h) - k /\ \A i \in 1..(Len(h) - k) : t[i] = h[i + k]
  BY <1>1, TailShape
<1>4. R!RemoveAt(h, k) = s \o t
  BY DEF R!RemoveAt
<1> HIDE DEF s, t
<1>5. /\ s \o t \in Seq(X) /\ Len(s \o t) = Len(h) - 1
      /\ \A i \in 1..(Len(h) - 1) : (s \o t)[i] = IF i <= k - 1 THEN s[i] ELSE t[i - (k - 1)]
  <2>1. /\ s \o t \in Seq(X) /\ Len(s \o t) = Len(s) + Len(t)
        /\ \A i \in 1..(Len(s) + Len(t)) :
             (s \o t)[i] = IF i <= Len(s) THEN s[i] ELSE t[i - Len(s)]
    BY <1>2, <1>3, ConcatProperties
  <2>2. Len(s) + Len(t) = Len(h) - 1
    BY <1>1, <1>2, <1>3
  <2> QED
    BY <1>2, <2>1, <2>2
<1>6. ASSUME NEW i \in 1..(Len(h) - 1)
      PROVE  R!RemoveAt(h, k)[i] = IF i < k THEN h[i] ELSE h[i + 1]
  <2>1. CASE i < k
    BY <1>1, <1>2, <1>4, <1>5, <2>1
  <2>2. CASE i >= k
    <3>1. i - (k - 1) \in 1..(Len(h) - k) /\ (i - (k - 1)) + k = i + 1
      BY <1>1, <2>2
    <3> QED
      BY <1>1, <1>3, <1>4, <1>5, <2>2, <3>1
  <2> QED
    BY <1>1, <2>1, <2>2
<1> QED
  BY <1>4, <1>5, <1>6

-----------------------------------------------------------------------------
-----------------------------------------------------------------------------
(* The inductive invariant.                                                *)

CallStates == {R!NoCall} \cup R!Busy

(* j is the latest ownership before the place i; or there is none.         *)
Before(h, j, i) ==
    /\ j \in 1..(i - 1) /\ h[j].kind \in R!Ownership
    /\ \A l \in (j + 1)..(i - 1) : h[l].kind \notin R!Ownership
Vacant(h, i) == \A l \in 1..(i - 1) : h[l].kind \notin R!Ownership

SameOwner(h, i, owner)  == \A j \in 1..Len(h) : Before(h, j, i) => h[j].owner = owner
OtherOwner(h, i, owner) == \A j \in 1..Len(h) : Before(h, j, i) => h[j].owner # owner

(* What an action of the kind is checked for, of the place i;              *)
Meets(h, i, kind, owner) ==
    /\ kind \in {"ACKNOWLEDGED", "ASSIGNED"}   => Vacant(h, i)
    /\ kind \in {"REACKNOWLEDGED", "RESOLVED"} => SameOwner(h, i, owner)
    /\ kind = "TRANSFERRED"                    => OtherOwner(h, i, owner)

(* and what an escalation is.                                              *)
Late(h, j, i) == h[j].age - h[i].age >= 2 \/ h[j].age = R!Oldest
DueBefore(h, i) ==
    \A j \in 1..(i - 1) :
      /\ h[j].kind \in R!Ownership => Late(h, j, i)
      /\ h[j].kind = "ESCALATED" => \E l \in j..i : h[l].kind \in R!Ownership

(* The properties, of one entry.                                           *)
LinkOK(h, i) == h[i].quiet => Meets(h, i, h[i].kind, h[i].owner)
DueAt(h, i)  == h[i].kind = "ESCALATED" /\ h[i].quiet => DueBefore(h, i)

EntriesOK(h) == \A i \in 1..Len(h) : DueAt(h, i) /\ LinkOK(h, i)

(* The entries are in the order of their times, the marks are recent and   *)
(* a call has one at most.                                                 *)
HistoryOK(h) ==
    /\ h \in Seq(R!Entry)
    /\ \A i \in 1..Len(h) :
         /\ h[i].kind \in R!Ownership => h[i].owner \in Operators
         /\ h[i].kind = "NOW" => h[i].age <= 1
    /\ \A i, j \in 1..Len(h) : i < j => h[j].age <= h[i].age
    /\ \A i, j \in 1..Len(h) :
         h[i].kind = "NOW" /\ h[j].kind = "NOW" /\ h[i].owner = h[j].owner => i = j

(* What a call is about to file that others may mind, NOW if nothing;      *)
(* whether a call that is quiet minds such an entry when it comes before   *)
(* its own; and which entries would have minded what it files.             *)
Takes(t) == t.pc = "stamped" /\ t.kind \in R!Ownership
Files(t) == IF t.pc = "due" THEN "ESCALATED" ELSE IF Takes(t) THEN t.kind ELSE "NOW"
Minds(t, kind) ==
    \/ t.pc \in {"checked", "stamped", "due"} /\ t.quiet /\ kind \in R!Ownership
    \/ t.pc = "due" /\ t.quiet /\ kind = "ESCALATED"
Misses(t, kind) ==
    \/ Takes(t) /\ kind # "NOW"
    \/ t.pc = "due" /\ kind = "ESCALATED"

(* A call has a mark from its time to its end.  While it is quiet, what it *)
(* is to file still meets what it was checked for; and no entry that is    *)
(* quiet and would have minded it stands behind its mark.                  *)
CallOK(h, w, t) ==
    /\ t.pc \notin {"idle", "checked"} <=> R!MarksOf(h, w) # {}
    /\ t.pc \in {"checked", "stamped"} =>
         w # Scheduler /\ t.owner \in Operators /\ t.kind \in R!Ownership \cup {"RESOLVED"}
    /\ t.pc = "due" => t.owner \in Operators
    /\ t.pc = "checked" => (t.quiet => Meets(h, Len(h) + 1, t.kind, t.owner))
    /\ \A i \in R!MarksOf(h, w) :
         /\ t.pc = "stamped" => (t.quiet => Meets(h, i, t.kind, t.owner))
         /\ t.pc = "due" => (t.quiet => DueBefore(h, i))
         /\ \A j \in (i + 1)..Len(h) : Misses(t, h[j].kind) => ~h[j].quiet

(* What the call of w is about to file, the call of x does not mind: its   *)
(* own time is earlier.                                                    *)
Apart(h, w, t, x, s) ==
    Minds(s, Files(t)) =>
      s.pc # "checked" /\ \A i \in R!MarksOf(h, x), j \in R!MarksOf(h, w) : i < j

CallsOK(h, calls, W) ==
    \A w \in W :
      /\ CallOK(h, w, calls[w])
      /\ \A x \in W \ {w} : Apart(h, w, calls[w], x, calls[x])

-----------------------------------------------------------------------------
(* Histories that follow from one another.  g is h with a new entry at n,  *)
(* if there is an n in g, and without some entries of h: a prefix without  *)
(* marks, and the marks of gone.  f maps the places of g to those of h.    *)
Follows(f, g, h, n, gone) ==
    /\ f \in [1..(Len(g) + 1) -> 1..(Len(h) + 1)]
    /\ f[Len(g) + 1] = Len(h) + 1
    /\ \A i, j \in 1..(Len(g) + 1) : i < j => f[i] <= f[j] /\ (i # n => f[i] < f[j])
    /\ \A i \in 1..Len(g) : i # n => g[i] = h[f[i]]
    /\ \A l \in 1..Len(h) :
         \/ \E i \in 1..Len(g) : i # n /\ f[i] = l
         \/ h[l].kind # "NOW" /\ l < f[1]
         \/ h[l].kind = "NOW" /\ h[l].owner \in gone

(* An entry of g that is not the new one is an entry of h.                 *)
LEMMA FollowsPlaces ==
    ASSUME NEW h \in Seq(R!Entry), NEW g \in Seq(R!Entry), NEW f, NEW n \in 0..Len(g), NEW gone,
           Follows(f, g, h, n, gone)
    PROVE  /\ \A i \in 1..(Len(g) + 1) : f[i] \in 1..(Len(h) + 1)
           /\ \A i \in 1..Len(g) : i # n => f[i] \in 1..Len(h) /\ g[i] = h[f[i]]
<1>1. Len(h) \in Nat /\ Len(g) \in Nat
  BY LenProperties
<1>2. \A i \in 1..(Len(g) + 1) : f[i] \in 1..(Len(h) + 1)
  BY DEF Follows
<1>3. ASSUME NEW i \in 1..Len(g), i # n PROVE f[i] \in 1..Len(h) /\ g[i] = h[f[i]]
  <2>1. i \in 1..(Len(g) + 1) /\ Len(g) + 1 \in 1..(Len(g) + 1) /\ i < Len(g) + 1
    BY <1>1
  <2>2. f[i] < f[Len(g) + 1] /\ f[Len(g) + 1] = Len(h) + 1
    BY <1>3, <2>1 DEF Follows
  <2> QED
    BY <1>1, <1>2, <1>3, <2>1, <2>2 DEF Follows
<1> QED
  BY <1>2, <1>3

(* The order of places is kept.                                            *)
LEMMA FollowsOrder ==
    ASSUME NEW h \in Seq(R!Entry), NEW g \in Seq(R!Entry), NEW f, NEW n \in 0..Len(g), NEW gone,
           Follows(f, g, h, n, gone),
           NEW i \in 1..(Len(g) + 1), NEW j \in 1..(Len(g) + 1), i < j
    PROVE  f[i] <= f[j] /\ (i # n => f[i] < f[j])
BY DEF Follows

(* No ownership comes between where none was.                              *)
LEMMA BeforeFollows ==
    ASSUME NEW h \in Seq(R!Entry), NEW g \in Seq(R!Entry), NEW f, NEW n \in 0..Len(g), NEW gone,
           Follows(f, g, h, n, gone),
           NEW i \in 1..(Len(g) + 1), i # n,
           n \in 1..(i - 1) => g[n].kind \notin R!Ownership,
           NEW j \in 1..Len(g), Before(g, j, i)
    PROVE  /\ j # n /\ f[j] \in 1..Len(h) /\ f[i] \in 1..(Len(h) + 1)
           /\ g[j] = h[f[j]] /\ Before(h, f[j], f[i])
<1>0. Len(h) \in Nat /\ Len(g) \in Nat
  BY LenProperties
<1>1. j \in 1..(i - 1) /\ g[j].kind \in R!Ownership
  BY DEF Before
<1>2. j # n
  BY <1>1
<1>3. f[j] \in 1..Len(h) /\ g[j] = h[f[j]] /\ f[i] \in 1..(Len(h) + 1)
  <2>1. \A x \in 1..Len(g) : x # n => f[x] \in 1..Len(h) /\ g[x] = h[f[x]]
    BY FollowsPlaces
  <2>2. f[i] \in 1..(Len(h) + 1)
    BY FollowsPlaces
  <2> QED
    BY <1>2, <2>1, <2>2
<1>4. f[j] < f[i]
  <2>1. j \in 1..(Len(g) + 1) /\ j < i
    BY <1>0, <1>1
  <2> QED
    BY <1>2, <2>1, FollowsOrder
<1>5. ASSUME NEW l \in (f[j] + 1)..(f[i] - 1) PROVE h[l].kind \notin R!Ownership
  <2>1. l \in 1..Len(h) /\ f[j] < l /\ l < f[i]
    BY <1>0, <1>3
  <2>2. CASE \E m \in 1..Len(g) : m # n /\ f[m] = l
    <3>1. PICK m \in 1..Len(g) : m # n /\ f[m] = l
      BY <2>2
    <3>2. j < m
      <4>1. m < j => f[m] < f[j]
        <5>1. m \in 1..(Len(g) + 1) /\ j \in 1..(Len(g) + 1)
          BY <1>0
        <5> QED
          BY <3>1, <5>1, FollowsOrder
      <4>2. ~(m < j) /\ m # j
        BY <1>0, <1>3, <2>1, <3>1, <4>1
      <4> QED
        BY <1>0, <4>2
    <3>3. m < i
      <4>1. i < m => f[i] < f[m]
        <5>1. m \in 1..(Len(g) + 1)
          BY <1>0
        <5> QED
          BY <5>1, FollowsOrder
      <4>2. ~(i < m) /\ m # i
        BY <1>0, <1>3, <2>1, <3>1, <4>1
      <4> QED
        BY <1>0, <4>2
    <3>4. m \in (j + 1)..(i - 1)
      BY <1>0, <3>2, <3>3
    <3>5. g[m].kind \notin R!Ownership
      BY <3>4 DEF Before
    <3> QED
      BY <3>1, <3>5, FollowsPlaces
  <2>3. CASE l < f[1]
    <3>1. f[1] <= f[j]
      <4>1. 1 \in 1..(Len(g) + 1) /\ j \in 1..(Len(g) + 1) /\ (j = 1 \/ 1 < j)
        BY <1>0
      <4>2. CASE j = 1
        BY <1>0, <1>3, <4>2
      <4>3. CASE 1 < j
        BY <4>1, <4>3, FollowsOrder
      <4> QED
        BY <4>1, <4>2, <4>3
    <3>2. f[1] \in 1..(Len(h) + 1)
      <4>1. 1 \in 1..(Len(g) + 1)
        BY <1>0
      <4> QED
        BY <4>1, FollowsPlaces
    <3> QED
      BY <1>0, <1>3, <2>1, <2>3, <3>1, <3>2
  <2>4. CASE h[l].kind = "NOW"
    BY <2>4 DEF R!Ownership, R!Handoffs
  <2> QED
    BY <2>1, <2>2, <2>3, <2>4 DEF Follows
<1>6. f[j] \in 1..(f[i] - 1)
  BY <1>0, <1>3, <1>4
<1> QED
  BY <1>1, <1>2, <1>3, <1>5, <1>6 DEF Before

(* Where no ownership came before, none does.                              *)
LEMMA VacantFollows ==
    ASSUME NEW h \in Seq(R!Entry), NEW g \in Seq(R!Entry), NEW f, NEW n \in 0..Len(g), NEW gone,
           Follows(f, g, h, n, gone),
           NEW i \in 1..(Len(g) + 1), i # n,
           n \in 1..(i - 1) => g[n].kind \notin R!Ownership,
           Vacant(h, f[i])
    PROVE  Vacant(g, i)
<1>0. Len(h) \in Nat /\ Len(g) \in Nat
  BY LenProperties
<1>1. ASSUME NEW l \in 1..(i - 1), l # n PROVE g[l].kind \notin R!Ownership
  <2>1. l \in 1..Len(g) /\ l \in 1..(Len(g) + 1) /\ l < i
    BY <1>0
  <2>2. f[l] \in 1..Len(h) /\ g[l] = h[f[l]] /\ f[i] \in 1..(Len(h) + 1)
    BY <1>1, <2>1, FollowsPlaces
  <2>3. f[l] < f[i]
    BY <1>1, <2>1, FollowsOrder
  <2>4. f[l] \in 1..(f[i] - 1)
    BY <1>0, <2>2, <2>3
  <2> QED
    BY <2>2, <2>4 DEF Vacant
<1> QED
  BY <1>1 DEF Vacant

(* Whom the owner is compared with does not change.                        *)
LEMMA OwnerFollows ==
    ASSUME NEW h \in Seq(R!Entry), NEW g \in Seq(R!Entry), NEW f, NEW n \in 0..Len(g), NEW gone,
           Follows(f, g, h, n, gone),
           NEW i \in 1..(Len(g) + 1), i # n,
           n \in 1..(i - 1) => g[n].kind \notin R!Ownership,
           NEW owner
    PROVE  /\ SameOwner(h, f[i], owner) => SameOwner(g, i, owner)
           /\ OtherOwner(h, f[i], owner) => OtherOwner(g, i, owner)
<1>1. ASSUME NEW j \in 1..Len(g), Before(g, j, i)
      PROVE  f[j] \in 1..Len(h) /\ g[j] = h[f[j]] /\ Before(h, f[j], f[i])
  BY <1>1, BeforeFollows
<1> QED
  BY <1>1 DEF SameOwner, OtherOwner

(* What an action was checked for still holds of it.                       *)
LEMMA MeetsFollows ==
    ASSUME NEW h \in Seq(R!Entry), NEW g \in Seq(R!Entry), NEW f, NEW n \in 0..Len(g), NEW gone,
           Follows(f, g, h, n, gone),
           NEW i \in 1..(Len(g) + 1), i # n,
           n \in 1..(i - 1) => g[n].kind \notin R!Ownership,
           NEW kind, NEW owner, Meets(h, f[i], kind, owner)
    PROVE  Meets(g, i, kind, owner)
<1>1. Vacant(h, f[i]) => Vacant(g, i)
  BY VacantFollows
<1>2. /\ SameOwner(h, f[i], owner) => SameOwner(g, i, owner)
      /\ OtherOwner(h, f[i], owner) => OtherOwner(g, i, owner)
  BY OwnerFollows
<1> QED
  BY <1>1, <1>2 DEF Meets

(* An escalation that was due stays so.                                    *)
LEMMA DueFollows ==
    ASSUME NEW h \in Seq(R!Entry), NEW g \in Seq(R!Entry), NEW f, NEW n \in 0..Len(g), NEW gone,
           Follows(f, g, h, n, gone),
           NEW i \in 1..Len(g), i # n,
           n \in 1..(i - 1) => g[n].kind \notin R!Ownership /\ g[n].kind # "ESCALATED",
           DueBefore(h, f[i])
    PROVE  DueBefore(g, i)
<1>0. Len(h) \in Nat /\ Len(g) \in Nat
  BY LenProperties
<1>1. g[i] = h[f[i]] /\ f[i] \in 1..Len(h) /\ i \in 1..(Len(g) + 1)
  BY <1>0, FollowsPlaces
<1>2. ASSUME NEW j \in 1..(i - 1), j # n
      PROVE  /\ g[j].kind \in R!Ownership => Late(g, j, i)
             /\ g[j].kind = "ESCALATED" => \E l \in j..i : g[l].kind \in R!Ownership
  <2>1. j \in 1..Len(g) /\ j \in 1..(Len(g) + 1) /\ j < i
    BY <1>0
  <2>2. f[j] \in 1..Len(h) /\ g[j] = h[f[j]]
    <3>1. \A x \in 1..Len(g) : x # n => f[x] \in 1..Len(h) /\ g[x] = h[f[x]]
      BY FollowsPlaces
    <3> QED
      BY <1>2, <2>1, <3>1
  <2>3. f[j] < f[i]
    BY <1>1, <1>2, <2>1, FollowsOrder
  <2>4. f[j] \in 1..(f[i] - 1)
    BY <1>0, <1>1, <2>2, <2>3
  <2>5. /\ h[f[j]].kind \in R!Ownership => Late(h, f[j], f[i])
        /\ h[f[j]].kind = "ESCALATED" => \E l \in f[j]..f[i] : h[l].kind \in R!Ownership
    BY <1>1, <2>4 DEF DueBefore
  <2>6. ASSUME g[j].kind = "ESCALATED" PROVE \E l \in j..i : g[l].kind \in R!Ownership
    <3>1. PICK l \in f[j]..f[i] : h[l].kind \in R!Ownership
      BY <2>2, <2>5, <2>6
    <3>2. l \in 1..Len(h) /\ f[j] <= l /\ l <= f[i]
      BY <1>0, <1>1, <2>2
    <3>3. h[l].kind # "NOW"
      BY <3>1 DEF R!Ownership, R!Handoffs
    <3>4. ~(l < f[1])
      <4>1. f[1] <= f[j]
        <5>1. 1 \in 1..(Len(g) + 1) /\ (j = 1 \/ 1 < j)
          BY <1>0
        <5>2. CASE j = 1
          BY <1>0, <2>2, <5>2
        <5>3. CASE 1 < j
          BY <2>1, <5>1, <5>3, FollowsOrder
        <5> QED
          BY <5>1, <5>2, <5>3
      <4>2. f[1] \in 1..(Len(h) + 1)
        <5>1. 1 \in 1..(Len(g) + 1)
          BY <1>0
        <5> QED
          BY <5>1, FollowsPlaces
      <4> QED
        BY <1>0, <2>2, <3>2, <4>1, <4>2
    <3>5. PICK m \in 1..Len(g) : m # n /\ f[m] = l
      BY <3>2, <3>3, <3>4 DEF Follows
    <3>6. m \in 1..(Len(g) + 1)
      BY <1>0
    <3>7. ~(m < j)
      <4>1. m < j => f[m] < f[j]
        BY <2>1, <3>5, <3>6, FollowsOrder
      <4> QED
        BY <1>0, <2>2, <3>2, <3>5, <4>1
    <3>8. ~(i < m)
      <4>1. i < m => f[i] < f[m]
        BY <1>1, <3>6, FollowsOrder
      <4> QED
        BY <1>0, <1>1, <3>2, <3>5, <4>1
    <3>9. m \in j..i
      BY <1>0, <2>1, <3>7, <3>8
    <3>10. g[m] = h[l]
      BY <3>5, FollowsPlaces
    <3> QED
      BY <3>1, <3>9, <3>10
  <2> QED
    BY <1>1, <2>2, <2>5, <2>6 DEF Late
<1>3. n \in 1..(i - 1) => g[n].kind \notin R!Ownership /\ g[n].kind # "ESCALATED"
  OBVIOUS
<1> QED
  BY <1>2, <1>3 DEF DueBefore

(* Marks stay, except those of gone and a new one.                         *)
LEMMA MarksFollow ==
    ASSUME NEW h \in Seq(R!Entry), NEW g \in Seq(R!Entry), NEW f, NEW n \in 0..Len(g), NEW gone,
           Follows(f, g, h, n, gone), NEW w,
           n \in 1..Len(g) => ~(g[n].kind = "NOW" /\ g[n].owner = w)
    PROVE  /\ \A i \in R!MarksOf(g, w) : i \in 1..Len(g) /\ i # n /\ f[i] \in R!MarksOf(h, w)
           /\ w \notin gone => (R!MarksOf(g, w) # {} <=> R!MarksOf(h, w) # {})
<1>0. DOMAIN h = 1..Len(h) /\ DOMAIN g = 1..Len(g)
  BY LenProperties
<1>1. ASSUME NEW i \in R!MarksOf(g, w)
      PROVE  i \in 1..Len(g) /\ i # n /\ f[i] \in R!MarksOf(h, w)
  <2>1. i \in 1..Len(g) /\ g[i].kind = "NOW" /\ g[i].owner = w
    BY <1>0 DEF R!MarksOf
  <2>2. i # n
    BY <2>1
  <2>3. f[i] \in 1..Len(h) /\ g[i] = h[f[i]]
    BY <2>1, <2>2, FollowsPlaces
  <2> QED
    BY <1>0, <2>1, <2>2, <2>3 DEF R!MarksOf
<1>2. ASSUME NEW l \in R!MarksOf(h, w), w \notin gone PROVE R!MarksOf(g, w) # {}
  <2>1. l \in 1..Len(h) /\ h[l].kind = "NOW" /\ h[l].owner = w
    BY <1>0 DEF R!MarksOf
  <2>2. PICK i \in 1..Len(g) : i # n /\ f[i] = l
    BY <1>2, <2>1 DEF Follows
  <2>3. g[i] = h[l]
    BY <2>2, FollowsPlaces
  <2>4. i \in R!MarksOf(g, w)
    BY <1>0, <2>1, <2>2, <2>3 DEF R!MarksOf
  <2> QED
    BY <2>4
<1> QED
  BY <1>1, <1>2

(* What is known of a call outlasts the change, if it does not mind the    *)
(* new entry and has not missed it;                                        *)
LEMMA CallFollows ==
    ASSUME NEW h \in Seq(R!Entry), NEW g \in Seq(R!Entry), NEW f, NEW n \in 0..Len(g), NEW gone,
           Follows(f, g, h, n, gone), NEW w, w \notin gone, NEW t,
           n \in 1..Len(g) =>
             /\ ~(g[n].kind = "NOW" /\ g[n].owner = w)
             /\ Minds(t, g[n].kind) => t.pc # "checked" /\ \A i \in R!MarksOf(g, w) : i < n
             /\ g[n].quiet => (Misses(t, g[n].kind) => \A i \in R!MarksOf(g, w) : n < i),
           CallOK(h, w, t)
    PROVE  CallOK(g, w, t)
<1>0. Len(h) \in Nat /\ Len(g) \in Nat /\ n \in Nat /\ n <= Len(g)
  BY LenProperties
<1>1. /\ R!MarksOf(g, w) # {} <=> R!MarksOf(h, w) # {}
      /\ \A i \in R!MarksOf(g, w) : i \in 1..Len(g) /\ i # n /\ f[i] \in R!MarksOf(h, w)
  BY MarksFollow
<1>2. ASSUME t.pc = "checked", t.quiet PROVE Meets(g, Len(g) + 1, t.kind, t.owner)
  <2>1. Meets(h, Len(h) + 1, t.kind, t.owner)
    BY <1>2 DEF CallOK
  <2>2. Len(g) + 1 \in 1..(Len(g) + 1) /\ f[Len(g) + 1] = Len(h) + 1 /\ Len(g) + 1 # n
    BY <1>0 DEF Follows
  <2>3. n \in 1..Len(g) => g[n].kind \notin R!Ownership
    BY <1>2 DEF Minds
  <2>4. n \in 1..(Len(g) + 1 - 1) => g[n].kind \notin R!Ownership
    BY <1>0, <2>3
  <2> QED
    BY <2>1, <2>2, <2>4, MeetsFollows
<1>3. ASSUME NEW i \in R!MarksOf(g, w), NEW kind, kind = g[n].kind, n \in 1..(i - 1)
      PROVE  ~Minds(t, kind)
  <2>1. n \in 1..Len(g) /\ ~(i < n)
    BY <1>0, <1>1, <1>3
  <2> QED
    BY <1>3, <2>1
<1>4. ASSUME t.pc = "stamped", t.quiet, NEW i \in R!MarksOf(g, w)
      PROVE  Meets(g, i, t.kind, t.owner)
  <2>1. i \in 1..(Len(g) + 1) /\ i # n /\ Meets(h, f[i], t.kind, t.owner)
    BY <1>0, <1>1, <1>4 DEF CallOK
  <2>2. n \in 1..(i - 1) => g[n].kind \notin R!Ownership
    BY <1>3, <1>4 DEF Minds
  <2> QED
    BY <2>1, <2>2, MeetsFollows
<1>5. ASSUME t.pc = "due", t.quiet, NEW i \in R!MarksOf(g, w) PROVE DueBefore(g, i)
  <2>1. i \in 1..Len(g) /\ i # n /\ DueBefore(h, f[i])
    BY <1>0, <1>1, <1>5 DEF CallOK
  <2>2. n \in 1..(i - 1) => g[n].kind \notin R!Ownership /\ g[n].kind # "ESCALATED"
    BY <1>3, <1>5 DEF Minds
  <2> QED
    BY <2>1, <2>2, DueFollows
<1>6. ASSUME NEW i \in R!MarksOf(g, w), NEW j \in (i + 1)..Len(g), Misses(t, g[j].kind)
      PROVE  ~g[j].quiet
  <2>1. i \in 1..Len(g) /\ i # n /\ f[i] \in R!MarksOf(h, w) /\ j \in 1..Len(g) /\ i < j
    BY <1>0, <1>1
  <2>2. CASE j = n
    <3>1. ~(n < i)
      BY <1>0, <2>1, <2>2
    <3> QED
      BY <1>6, <2>1, <2>2, <3>1
  <2>3. CASE j # n
    <3>1. f[j] \in 1..Len(h) /\ g[j] = h[f[j]] /\ f[i] \in 1..Len(h)
      BY <2>1, <2>3, FollowsPlaces
    <3>2. f[i] < f[j]
      <4>1. i \in 1..(Len(g) + 1) /\ j \in 1..(Len(g) + 1)
        BY <1>0, <2>1
      <4> QED
        BY <2>1, <4>1, FollowsOrder
    <3>3. f[j] \in (f[i] + 1)..Len(h)
      BY <1>0, <3>1, <3>2
    <3> QED
      BY <1>6, <2>1, <3>1, <3>3 DEF CallOK
  <2> QED
    BY <2>2, <2>3
<1> QED
  BY <1>1, <1>2, <1>4, <1>5, <1>6 DEF CallOK

(* and so does the order of two marks.                                     *)
LEMMA ApartFollows ==
    ASSUME NEW h \in Seq(R!Entry), NEW g \in Seq(R!Entry), NEW f, NEW n \in 0..Len(g), NEW gone,
           Follows(f, g, h, n, gone), NEW w, NEW x, NEW t, NEW s,
           n \in 1..Len(g) => /\ ~(g[n].kind = "NOW" /\ g[n].owner = w)
                              /\ ~(g[n].kind = "NOW" /\ g[n].owner = x),
           Apart(h, w, t, x, s)
    PROVE  Apart(g, w, t, x, s)
<1>0. Len(h) \in Nat /\ Len(g) \in Nat
  BY LenProperties
<1> SUFFICES ASSUME Minds(s, Files(t)),
                    NEW i \in R!MarksOf(g, x), NEW j \in R!MarksOf(g, w)
             PROVE  i < j
  BY DEF Apart
<1>1. i \in 1..Len(g) /\ i # n /\ f[i] \in R!MarksOf(h, x)
  BY MarksFollow
<1>2. j \in 1..Len(g) /\ j # n /\ f[j] \in R!MarksOf(h, w)
  BY MarksFollow
<1>3. f[i] < f[j] /\ f[i] \in 1..Len(h) /\ f[j] \in 1..Len(h)
  BY <1>1, <1>2, FollowsPlaces DEF Apart
<1>4. j < i => f[j] < f[i]
  <2>1. i \in 1..(Len(g) + 1) /\ j \in 1..(Len(g) + 1)
    BY <1>0, <1>1, <1>2
  <2> QED
    BY <1>2, <2>1, FollowsOrder
<1> QED
  BY <1>0, <1>1, <1>2, <1>3, <1>4

LEMMA CallsFollow ==
    ASSUME NEW h \in Seq(R!Entry), NEW g \in Seq(R!Entry), NEW f, NEW n \in 0..Len(g), NEW gone,
           Follows(f, g, h, n, gone), NEW calls, NEW W, CallsOK(h, calls, W),
           \A w \in W : w \notin gone,
           n \in 1..Len(g) => \A w \in W :
             /\ ~(g[n].kind = "NOW" /\ g[n].owner = w)
             /\ Minds(calls[w], g[n].kind) =>
                  calls[w].pc # "checked" /\ \A i \in R!MarksOf(g, w) : i < n
             /\ g[n].quiet => (Misses(calls[w], g[n].kind) => \A i \in R!MarksOf(g, w) : n < i)
    PROVE  CallsOK(g, calls, W)
<1>1. ASSUME NEW w \in W PROVE CallOK(g, w, calls[w])
  <2>1. CallOK(h, w, calls[w]) /\ w \notin gone
    BY DEF CallsOK
  <2>2. n \in 1..Len(g) =>
             /\ ~(g[n].kind = "NOW" /\ g[n].owner = w)
             /\ Minds(calls[w], g[n].kind) =>
                  calls[w].pc # "checked" /\ \A i \in R!MarksOf(g, w) : i < n
             /\ g[n].quiet => (Misses(calls[w], g[n].kind) => \A i \in R!MarksOf(g, w) : n < i)
    OBVIOUS
  <2> QED
    BY <2>1, <2>2, CallFollows
<1>2. ASSUME NEW w \in W, NEW x \in W \ {w} PROVE Apart(g, w, calls[w], x, calls[x])
  <2>1. Apart(h, w, calls[w], x, calls[x])
    BY DEF CallsOK
  <2> QED
    BY <2>1, ApartFollows
<1> QED
  BY <1>1, <1>2 DEF CallsOK

(* Calls of which no more is said than before.                             *)
SaysNoMore(s, t) == t.pc = s.pc /\ t.kind = s.kind /\ t.owner = s.owner /\ (t.quiet => s.quiet)

LEMMA CallsSayNoMore ==
    ASSUME NEW h, NEW W, NEW calls, NEW calls2, CallsOK(h, calls, W),
           \A x \in W : SaysNoMore(calls[x], calls2[x])
    PROVE  CallsOK(h, calls2, W)
<1>1. ASSUME NEW s, NEW t, SaysNoMore(s, t), NEW kind
      PROVE  /\ Files(t) = Files(s)
             /\ Minds(t, kind) => Minds(s, kind)
             /\ Misses(t, kind) => Misses(s, kind)
  BY <1>1 DEF SaysNoMore, Files, Takes, Minds, Misses
<1>2. ASSUME NEW w, NEW s, NEW t, SaysNoMore(s, t), CallOK(h, w, s) PROVE CallOK(h, w, t)
  <2>1. t.pc = s.pc /\ t.kind = s.kind /\ t.owner = s.owner /\ (t.quiet => s.quiet)
    BY <1>2 DEF SaysNoMore
  <2>2. \A kind : Misses(t, kind) => Misses(s, kind)
    BY <1>1, <1>2
  <2> QED
    BY <1>2, <2>1, <2>2 DEF CallOK
<1>3. ASSUME NEW w \in W, NEW x \in W \ {w} PROVE Apart(h, w, calls2[w], x, calls2[x])
  <2>1. Apart(h, w, calls[w], x, calls[x])
    BY DEF CallsOK
  <2>2. SaysNoMore(calls[w], calls2[w]) /\ SaysNoMore(calls[x], calls2[x])
    OBVIOUS
  <2>3. calls2[x].pc = calls[x].pc
    BY <2>2 DEF SaysNoMore
  <2>4. Files(calls2[w]) = Files(calls[w])
    BY <1>1, <2>2
  <2>5. Minds(calls2[x], Files(calls[w])) => Minds(calls[x], Files(calls[w]))
    BY <1>1, <2>2
  <2> QED
    BY <2>1, <2>3, <2>4, <2>5 DEF Apart
<1> QED
  BY <1>2, <1>3 DEF CallsOK

(* One call more,                                                          *)
LEMMA CallsJoin ==
    ASSUME NEW h, NEW calls, NEW w \in Workers, CallsOK(h, calls, Workers \ {w}),
           CallOK(h, w, calls[w]),
           \A x \in Workers \ {w} : /\ Apart(h, w, calls[w], x, calls[x])
                                    /\ Apart(h, x, calls[x], w, calls[w])
    PROVE  CallsOK(h, calls, Workers)
BY DEF CallsOK

(* which is easy when it is not about to file anything.                    *)
Phases == {"written", "running", "worked", "retained", "filed", "escalated", "notifying"}

LEMMA CallsCalm ==
    ASSUME NEW h, NEW calls, NEW w \in Workers, CallsOK(h, calls, Workers \ {w}),
           CallOK(h, w, calls[w]), calls[w].pc \in Phases \cup {"idle"}
    PROVE  CallsOK(h, calls, Workers)
<1>1. Files(calls[w]) = "NOW" /\ \A kind : ~Minds(calls[w], kind)
  BY DEF Files, Takes, Minds, Phases
<1>2. \A t : ~Minds(t, "NOW")
  BY DEF Minds, R!Ownership, R!Handoffs
<1>3. \A x : /\ Apart(h, w, calls[w], x, calls[x])
             /\ Apart(h, x, calls[x], w, calls[w])
  BY <1>1, <1>2 DEF Apart
<1> QED
  BY <1>3, CallsJoin

(* The order of times and the marks outlast the change.                    *)
LEMMA HistoryFollows ==
    ASSUME NEW h \in Seq(R!Entry), NEW g \in Seq(R!Entry), NEW f, NEW n \in 0..Len(g), NEW gone,
           Follows(f, g, h, n, gone), HistoryOK(h),
           n # 0 =>
             /\ g[n].kind \in R!Ownership => g[n].owner \in Operators
             /\ g[n].kind = "NOW" =>
                  /\ g[n].age <= 1
                  /\ \A l \in 1..Len(h) : ~(h[l].kind = "NOW" /\ h[l].owner = g[n].owner)
             /\ \A i \in 1..(n - 1) : g[n].age <= g[i].age
             /\ \A i \in (n + 1)..Len(g) : g[i].age <= g[n].age
    PROVE  HistoryOK(g)
<1>0. Len(h) \in Nat /\ Len(g) \in Nat /\ n \in Nat /\ n <= Len(g)
  BY LenProperties
<1>1. \A i \in 1..Len(g) : i # n => f[i] \in 1..Len(h) /\ g[i] = h[f[i]]
  BY FollowsPlaces
<1>2. ASSUME NEW i \in 1..Len(g)
      PROVE  /\ g[i].kind \in R!Ownership => g[i].owner \in Operators
             /\ g[i].kind = "NOW" => g[i].age <= 1
  BY <1>0, <1>1 DEF HistoryOK
<1>3. ASSUME NEW i \in 1..Len(g), NEW j \in 1..Len(g), i < j PROVE g[j].age <= g[i].age
  <2>1. CASE i # n /\ j # n
    <3>1. f[i] < f[j]
      BY <1>0, <1>3, <2>1 DEF Follows
    <3>2. /\ f[i] \in 1..Len(h) /\ g[i] = h[f[i]]
          /\ f[j] \in 1..Len(h) /\ g[j] = h[f[j]]
      BY <1>1, <2>1
    <3> QED
      BY <3>1, <3>2 DEF HistoryOK
  <2>2. CASE j = n
    <3>1. i \in 1..(n - 1)
      BY <1>0, <1>3, <2>2
    <3> QED
      BY <1>0, <2>2, <3>1
  <2>3. CASE i = n
    <3>1. j \in (n + 1)..Len(g)
      BY <1>0, <1>3, <2>3
    <3> QED
      BY <1>0, <2>3, <3>1
  <2> QED
    BY <2>1, <2>2, <2>3
<1>4. ASSUME NEW i \in 1..Len(g), NEW j \in 1..Len(g),
             g[i].kind = "NOW", g[j].kind = "NOW", g[i].owner = g[j].owner
      PROVE  i = j
  <2>1. CASE i # n /\ j # n
    <3>1. /\ f[i] \in 1..Len(h) /\ g[i] = h[f[i]]
          /\ f[j] \in 1..Len(h) /\ g[j] = h[f[j]]
      BY <1>1, <2>1
    <3>2. f[i] = f[j]
      BY <1>4, <3>1 DEF HistoryOK
    <3>3. ~(i < j) /\ ~(j < i)
      BY <1>0, <2>1, <3>1, <3>2 DEF Follows
    <3> QED
      BY <1>0, <3>3
  <2>2. CASE j = n /\ i # n
    BY <1>0, <1>1, <1>4, <2>2
  <2>3. CASE i = n /\ j # n
    BY <1>0, <1>1, <1>4, <2>3
  <2> QED
    BY <2>1, <2>2, <2>3
<1> QED
  BY <1>2, <1>3, <1>4 DEF HistoryOK

(* So do the properties of the entries, if those behind the new one that   *)
(* would mind it are not quiet.                                            *)
LEMMA EntriesFollow ==
    ASSUME NEW h \in Seq(R!Entry), NEW g \in Seq(R!Entry), NEW f, NEW n \in 0..Len(g), NEW gone,
           Follows(f, g, h, n, gone), EntriesOK(h),
           n # 0 =>
             /\ DueAt(g, n) /\ LinkOK(g, n)
             /\ \A i \in (n + 1)..Len(g) :
                  /\ g[n].kind \in R!Ownership /\ g[i].kind # "NOW" => ~g[i].quiet
                  /\ g[n].kind = "ESCALATED" /\ g[i].kind = "ESCALATED" => ~g[i].quiet
    PROVE  EntriesOK(g)
<1>0. Len(h) \in Nat /\ Len(g) \in Nat /\ n \in Nat /\ n <= Len(g)
  BY LenProperties
<1>1. ASSUME NEW i \in 1..Len(g), i # n PROVE DueAt(g, i) /\ LinkOK(g, i)
  <2>1. f[i] \in 1..Len(h) /\ g[i] = h[f[i]] /\ i \in 1..(Len(g) + 1)
    BY <1>0, <1>1, FollowsPlaces
  <2>2. DueAt(h, f[i]) /\ LinkOK(h, f[i])
    BY <2>1 DEF EntriesOK
  <2>3. n \in 1..(i - 1) => n # 0 /\ i \in (n + 1)..Len(g)
    BY <1>0
  <2>4. ASSUME g[i].kind = "ESCALATED", g[i].quiet PROVE DueBefore(g, i)
    <3>1. DueBefore(h, f[i])
      BY <2>1, <2>2, <2>4 DEF DueAt
    <3>2. n \in 1..(i - 1) => g[n].kind \notin R!Ownership /\ g[n].kind # "ESCALATED"
      BY <2>3, <2>4
    <3> QED
      BY <1>1, <3>1, <3>2, DueFollows
  <2>5. ASSUME g[i].quiet PROVE Meets(g, i, g[i].kind, g[i].owner)
    <3>1. CASE g[i].kind = "NOW"
      BY <3>1 DEF Meets
    <3>2. CASE g[i].kind # "NOW"
      <4>1. n \in 1..(i - 1) => g[n].kind \notin R!Ownership
        BY <2>3, <2>5, <3>2
      <4>2. Meets(h, f[i], g[i].kind, g[i].owner)
        BY <2>1, <2>2, <2>5 DEF LinkOK
      <4> QED
        BY <1>1, <2>1, <4>1, <4>2, MeetsFollows
    <3> QED
      BY <3>1, <3>2
  <2> QED
    BY <2>4, <2>5 DEF DueAt, LinkOK
<1>2. ASSUME NEW i \in 1..Len(g), i = n PROVE DueAt(g, i) /\ LinkOK(g, i)
  BY <1>0, <1>2
<1> QED
  BY <1>1, <1>2 DEF EntriesOK

-----------------------------------------------------------------------------
(* The ways a history changes.                                             *)

(* An insertion is such a change, with a new entry;                        *)
LEMMA InsertFollows ==
    ASSUME NEW h \in Seq(R!Entry), NEW k \in 1..(Len(h) + 1), NEW e \in R!Entry
    PROVE  \E f : Follows(f, R!InsertAt(h, k, e), h, k, {})
<1>0. Len(h) \in Nat /\ k \in Nat /\ 1 <= k /\ k <= Len(h) + 1
  BY LenProperties
<1> DEFINE g == R!InsertAt(h, k, e)
<1>b. IsInsertion(R!Entry, h, k, e, R!InsertAt(h, k, e))
  BY InsertShape
<1>1. /\ g \in Seq(R!Entry) /\ Len(g) = Len(h) + 1
      /\ \A i \in 1..(Len(h) + 1) : g[i] = IF i < k THEN h[i] ELSE IF i = k THEN e ELSE h[i - 1]
  BY <1>b DEF IsInsertion
<1> HIDE DEF g
<1>2. PICK f : f = [i \in 1..(Len(h) + 2) |-> IF i <= k THEN i ELSE i - 1]
  OBVIOUS
<1>3. \A i \in 1..(Len(h) + 2) : f[i] = IF i <= k THEN i ELSE i - 1
  BY <1>2
<1>4. Len(g) + 1 = Len(h) + 2
  BY <1>0, <1>1
<1>5. f \in [1..(Len(g) + 1) -> 1..(Len(h) + 1)]
  <2>1. \A i \in 1..(Len(h) + 2) : (IF i <= k THEN i ELSE i - 1) \in 1..(Len(h) + 1)
    BY <1>0
  <2> QED
    BY <1>2, <1>4, <2>1
<1>6. f[Len(g) + 1] = Len(h) + 1
  BY <1>0, <1>3, <1>4
<1>7. ASSUME NEW i \in 1..(Len(g) + 1), NEW j \in 1..(Len(g) + 1), i < j
      PROVE  f[i] <= f[j] /\ (i # k => f[i] < f[j])
  <2>1. /\ f[i] = IF i <= k THEN i ELSE i - 1
        /\ f[j] = IF j <= k THEN j ELSE j - 1
    BY <1>3, <1>4
  <2> QED
    BY <1>0, <1>4, <1>7, <2>1
<1>8. ASSUME NEW i \in 1..Len(g), i # k PROVE g[i] = h[f[i]]
  <2>1. i \in 1..(Len(h) + 1) /\ i \in 1..(Len(h) + 2) /\ (i < k \/ i > k)
    BY <1>0, <1>1, <1>8
  <2>2. CASE i < k
    BY <1>0, <1>1, <1>3, <2>1, <2>2
  <2>3. CASE i > k
    <3>1. ~(i <= k) /\ ~(i < k)
      BY <1>0, <2>3
    <3>2. f[i] = i - 1 /\ g[i] = h[i - 1]
      BY <1>1, <1>3, <1>8, <2>1, <3>1
    <3> QED
      BY <3>2
  <2> QED
    BY <2>1, <2>2, <2>3
<1>9. ASSUME NEW l \in 1..Len(h) PROVE \E i \in 1..Len(g) : i # k /\ f[i] = l
  <2>1. CASE l < k
    <3>1. l \in 1..Len(g) /\ l # k /\ f[l] = l
      BY <1>0, <1>1, <1>3, <1>4, <2>1
    <3> QED
      BY <3>1
  <2>2. CASE l >= k
    <3>1. l + 1 \in 1..Len(g) /\ l + 1 # k /\ f[l + 1] = l
      BY <1>0, <1>1, <1>3, <1>4, <2>2
    <3> QED
      BY <3>1
  <2> QED
    BY <1>0, <2>1, <2>2
<1>10. Follows(f, g, h, k, {})
  BY <1>5, <1>6, <1>7, <1>8, <1>9 DEF Follows
<1> QED
  BY <1>10 DEF g

(* so is an appended entry,                                                *)
LEMMA AppendIsInsert ==
    ASSUME NEW X, NEW h \in Seq(X), NEW e \in X
    PROVE  Append(h, e) = R!InsertAt(h, Len(h) + 1, e)
<1>0. Len(h) \in Nat /\ Len(h) + 1 \in 1..(Len(h) + 1)
  BY LenProperties
<1>1. /\ Append(h, e) \in Seq(X) /\ Len(Append(h, e)) = Len(h) + 1
      /\ \A i \in 1..Len(h) : Append(h, e)[i] = h[i]
      /\ Append(h, e)[Len(h) + 1] = e
  BY AppendProperties
<1>2. /\ R!InsertAt(h, Len(h) + 1, e) \in Seq(X) /\ Len(R!InsertAt(h, Len(h) + 1, e)) = Len(h) + 1
      /\ \A i \in 1..(Len(h) + 1) : R!InsertAt(h, Len(h) + 1, e)[i] =
           IF i < Len(h) + 1 THEN h[i] ELSE IF i = Len(h) + 1 THEN e ELSE h[i - 1]
  <2>1. IsInsertion(X, h, Len(h) + 1, e, R!InsertAt(h, Len(h) + 1, e))
    BY <1>0, InsertShape
  <2> QED
    BY <2>1 DEF IsInsertion
<1>3. ASSUME NEW i \in 1..(Len(h) + 1) PROVE Append(h, e)[i] = R!InsertAt(h, Len(h) + 1, e)[i]
  <2>1. CASE i = Len(h) + 1
    BY <1>0, <1>1, <1>2, <2>1
  <2>2. CASE i # Len(h) + 1
    <3>1. i \in 1..Len(h) /\ i < Len(h) + 1
      BY <1>0, <2>2
    <3> QED
      BY <1>1, <1>2, <3>1
  <2> QED
    BY <2>1, <2>2
<1>4. \A i \in 1..Len(Append(h, e)) : Append(h, e)[i] = R!InsertAt(h, Len(h) + 1, e)[i]
  BY <1>1, <1>3
<1> HIDE DEF R!InsertAt
<1> QED
  BY <1>1, <1>2, <1>4, SeqEqual

(* so is the removal of a mark, which loses that mark,                     *)
LEMMA RemoveFollows ==
    ASSUME NEW h \in Seq(R!Entry), NEW w, NEW k \in R!MarksOf(h, w)
    PROVE  /\ R!RemoveAt(h, k) \in Seq(R!Entry)
           /\ \E f : Follows(f, R!RemoveAt(h, k), h, 0, {w})
<1>a. k \in 1..Len(h) /\ h[k].kind = "NOW" /\ h[k].owner = w
  BY LenProperties DEF R!MarksOf
<1>0. Len(h) \in Nat /\ k \in Nat /\ 1 <= k /\ k <= Len(h)
  BY <1>a, LenProperties
<1> DEFINE g == R!RemoveAt(h, k)
<1>1. /\ g \in Seq(R!Entry) /\ Len(g) = Len(h) - 1
      /\ \A i \in 1..(Len(h) - 1) : g[i] = IF i < k THEN h[i] ELSE h[i + 1]
  BY <1>a, RemoveShape
<1> HIDE DEF g
<1>2. PICK f : f = [i \in 1..Len(h) |-> IF i < k THEN i ELSE i + 1]
  OBVIOUS
<1>3. \A i \in 1..Len(h) : f[i] = IF i < k THEN i ELSE i + 1
  BY <1>2
<1>4. Len(g) + 1 = Len(h)
  BY <1>0, <1>1
<1>5. f \in [1..(Len(g) + 1) -> 1..(Len(h) + 1)]
  <2>1. \A i \in 1..Len(h) : (IF i < k THEN i ELSE i + 1) \in 1..(Len(h) + 1)
    BY <1>0
  <2> QED
    BY <1>2, <1>4, <2>1
<1>6. f[Len(g) + 1] = Len(h) + 1
  BY <1>0, <1>3, <1>4
<1>7. ASSUME NEW i \in 1..(Len(g) + 1), NEW j \in 1..(Len(g) + 1), i < j
      PROVE  f[i] < f[j] /\ f[i] <= f[j]
  <2>1. /\ f[i] = IF i < k THEN i ELSE i + 1
        /\ f[j] = IF j < k THEN j ELSE j + 1
    BY <1>3, <1>4
  <2> QED
    BY <1>0, <1>4, <1>7, <2>1
<1>8. ASSUME NEW i \in 1..Len(g) PROVE g[i] = h[f[i]]
  <2>1. i \in 1..(Len(h) - 1) /\ i \in 1..Len(h)
    BY <1>0, <1>1
  <2>2. CASE i < k
    BY <1>1, <1>3, <2>1, <2>2
  <2>3. CASE ~(i < k)
    BY <1>1, <1>3, <2>1, <2>3
  <2> QED
    BY <2>2, <2>3
<1>9. ASSUME NEW l \in 1..Len(h)
      PROVE  \/ \E i \in 1..Len(g) : i # 0 /\ f[i] = l
             \/ h[l].kind = "NOW" /\ h[l].owner \in {w}
  <2>1. CASE l < k
    <3>1. l \in 1..Len(g) /\ l # 0 /\ f[l] = l
      BY <1>0, <1>1, <1>3, <1>4, <2>1
    <3> QED
      BY <3>1
  <2>2. CASE l = k
    BY <1>a, <2>2
  <2>3. CASE l > k
    <3>1. l - 1 \in 1..Len(g) /\ l - 1 # 0
      BY <1>0, <1>1, <2>3
    <3>2. l - 1 \in 1..Len(h) /\ ~(l - 1 < k) /\ (l - 1) + 1 = l
      BY <1>0, <2>3
    <3>3. f[l - 1] = l
      BY <1>3, <3>2
    <3> QED
      BY <3>1, <3>3
  <2> QED
    BY <1>0, <2>1, <2>2, <2>3
<1>10. Follows(f, g, h, 0, {w})
  BY <1>5, <1>6, <1>7, <1>8, <1>9 DEF Follows
<1> QED
  BY <1>1, <1>10 DEF g

(* and so is retention, since no mark is of the oldest age.                *)
LEMMA PrunedFollows ==
    ASSUME NEW h \in Seq(R!Entry), HistoryOK(h), NEW g \in R!Pruned(h)
    PROVE  g \in Seq(R!Entry) /\ \E f : Follows(f, g, h, 0, {})
<1>1. PICK n \in 0..Len(h) : /\ \A i \in 1..n : h[i].age = R!Oldest
                             /\ g = SubSeq(h, n + 1, Len(h))
  BY DEF R!Pruned
<1>0. Len(h) \in Nat /\ n \in Nat /\ n <= Len(h)
  BY LenProperties
<1>2. /\ g \in Seq(R!Entry) /\ Len(g) = Len(h) - n
      /\ \A i \in 1..(Len(h) - n) : g[i] = h[i + n]
  BY <1>1, TailShape
<1>3. PICK f : f = [i \in 1..(Len(g) + 1) |-> i + n]
  OBVIOUS
<1>4. \A i \in 1..(Len(g) + 1) : f[i] = i + n
  BY <1>3
<1>5. f \in [1..(Len(g) + 1) -> 1..(Len(h) + 1)]
  <2>1. \A i \in 1..(Len(g) + 1) : i + n \in 1..(Len(h) + 1)
    BY <1>0, <1>2
  <2> QED
    BY <1>3, <2>1
<1>6. f[Len(g) + 1] = Len(h) + 1 /\ f[1] = 1 + n
  BY <1>0, <1>2, <1>4
<1>7. ASSUME NEW i \in 1..(Len(g) + 1), NEW j \in 1..(Len(g) + 1), i < j
      PROVE  f[i] < f[j] /\ f[i] <= f[j]
  <2>1. f[i] = i + n /\ f[j] = j + n
    BY <1>4
  <2> QED
    BY <1>0, <1>2, <1>7, <2>1
<1>8. ASSUME NEW i \in 1..Len(g) PROVE g[i] = h[f[i]]
  BY <1>0, <1>2, <1>4
<1>9. ASSUME NEW l \in 1..Len(h)
      PROVE  \/ \E i \in 1..Len(g) : i # 0 /\ f[i] = l
             \/ h[l].kind # "NOW" /\ l < f[1]
  <2>1. CASE l <= n
    <3>1. h[l].age = R!Oldest
      BY <1>0, <1>1, <2>1
    <3>2. h[l].kind # "NOW"
      BY <3>1 DEF HistoryOK, R!Oldest
    <3> QED
      BY <1>0, <1>6, <2>1, <3>2
  <2>2. CASE l > n
    <3>1. l - n \in 1..Len(g) /\ l - n # 0
      BY <1>0, <1>2, <2>2
    <3>2. l - n \in 1..(Len(g) + 1) /\ (l - n) + n = l
      BY <1>0, <1>2, <2>2
    <3>3. f[l - n] = l
      BY <1>4, <3>2
    <3> QED
      BY <3>1, <3>3
  <2> QED
    BY <1>0, <2>1, <2>2
<1>10. Follows(f, g, h, 0, {})
  BY <1>5, <1>6, <1>7, <1>8, <1>9 DEF Follows
<1> QED
  BY <1>2, <1>10

(* What is before a place depends on what is before it.                    *)
LEMMA PrefixOwner ==
    ASSUME NEW h \in Seq(R!Entry), NEW g \in Seq(R!Entry), NEW i \in 1..(Len(h) + 1),
           i <= Len(g) + 1, \A l \in 1..(i - 1) : g[l] = h[l]
    PROVE  /\ Vacant(h, i) => Vacant(g, i)
           /\ \A owner : /\ SameOwner(h, i, owner) => SameOwner(g, i, owner)
                         /\ OtherOwner(h, i, owner) => OtherOwner(g, i, owner)
<1>0. Len(h) \in Nat /\ Len(g) \in Nat
  BY LenProperties
<1>1. Vacant(h, i) => Vacant(g, i)
  BY DEF Vacant
<1>2. ASSUME NEW j \in 1..Len(g), Before(g, j, i)
      PROVE  j \in 1..Len(h) /\ g[j] = h[j] /\ Before(h, j, i)
  <2>1. j \in 1..(i - 1) /\ j \in 1..Len(h)
    BY <1>0, <1>2 DEF Before
  <2>2. \A l \in (j + 1)..(i - 1) : l \in 1..(i - 1)
    BY <1>0, <2>1
  <2> QED
    BY <1>2, <2>1, <2>2 DEF Before
<1> QED
  BY <1>1, <1>2 DEF SameOwner, OtherOwner

(* The latest ownership is the one before the end.                         *)
LEMMA LatestOwner ==
    ASSUME NEW h \in Seq(R!Entry), NEW owner
    PROVE  /\ R!Latest(h, R!Ownership) = 0 => Vacant(h, Len(h) + 1)
           /\ R!Latest(h, R!Ownership) = 0 => SameOwner(h, Len(h) + 1, owner)
           /\ h[R!Latest(h, R!Ownership)].owner = owner => SameOwner(h, Len(h) + 1, owner)
           /\ h[R!Latest(h, R!Ownership)].owner # owner => OtherOwner(h, Len(h) + 1, owner)
<1> DEFINE o == R!Latest(h, R!Ownership)
<1>1. /\ o \in 0..Len(h) /\ (o # 0 => h[o].kind \in R!Ownership)
      /\ \A j \in 1..Len(h) : h[j].kind \in R!Ownership => j <= o
  BY LatestIsLast
<1> HIDE DEF o
<1>0. Len(h) \in Nat /\ o \in Nat /\ o <= Len(h) /\ (Len(h) + 1) - 1 = Len(h)
  BY <1>1, LenProperties
<1>2. ASSUME NEW j \in 1..Len(h), Before(h, j, Len(h) + 1) PROVE j = o
  <2>1. h[j].kind \in R!Ownership /\ j <= o
    BY <1>1, <1>2 DEF Before
  <2>2. ~(o \in (j + 1)..Len(h))
    BY <1>0, <1>1, <1>2 DEF Before
  <2> QED
    BY <1>0, <2>1, <2>2
<1>3. o = 0 => Vacant(h, Len(h) + 1)
  BY <1>0, <1>1 DEF Vacant
<1>4. o = 0 => \A j \in 1..Len(h) : ~Before(h, j, Len(h) + 1)
  BY <1>0, <1>2
<1> QED
  BY <1>2, <1>3, <1>4 DEF SameOwner, OtherOwner, o

(* The mark of a call that has one.                                        *)
LEMMA MarkInIsMark ==
    ASSUME NEW h \in Seq(R!Entry), NEW w, R!MarksOf(h, w) # {}
    PROVE  /\ R!MarkIn(h, w) \in R!MarksOf(h, w)
           /\ R!MarkIn(h, w) \in 1..Len(h)
           /\ h[R!MarkIn(h, w)].kind = "NOW" /\ h[R!MarkIn(h, w)].owner = w
<1>1. R!MarkIn(h, w) \in R!MarksOf(h, w)
  BY DEF R!MarkIn
<1> QED
  BY <1>1, LenProperties DEF R!MarksOf

(* A record is an entry of the history.                                    *)
LEMMA EntryShape ==
    ASSUME NEW kind \in R!EntryKinds, NEW owner \in Operators \cup Workers, NEW quiet \in BOOLEAN
    PROVE  /\ R!Record(kind, owner, quiet) \in R!Entry
           /\ R!Record(kind, owner, quiet).kind = kind
           /\ R!Record(kind, owner, quiet).owner = owner
           /\ R!Record(kind, owner, quiet).quiet = quiet
           /\ R!Record(kind, owner, quiet).age = 0
BY DEF R!Record, R!Entry, R!Oldest

(* A call takes its time.                                                  *)
LEMMA Marking ==
    ASSUME NEW h \in Seq(R!Entry), HistoryOK(h), EntriesOK(h), NEW w \in Workers,
           R!MarksOf(h, w) = {}, NEW g, g = Append(h, R!NowMark(w))
    PROVE  /\ HistoryOK(g) /\ EntriesOK(g)
           /\ Len(g) = Len(h) + 1
           /\ R!MarksOf(g, w) = {Len(h) + 1}
           /\ \A x : x # w => \A i \in R!MarksOf(g, x) : i \in Int /\ i < Len(h) + 1
           /\ \A calls, W : w \notin W /\ CallsOK(h, calls, W) => CallsOK(g, calls, W)
           /\ \A kind, owner : Meets(h, Len(h) + 1, kind, owner) => Meets(g, Len(h) + 1, kind, owner)
<1> DEFINE e == R!NowMark(w)
           n == Len(h) + 1
<1>0. Len(h) \in Nat /\ DOMAIN h = 1..Len(h)
  BY LenProperties
<1>1. e \in R!Entry /\ e.kind = "NOW" /\ e.owner = w /\ e.quiet = TRUE /\ e.age = 0
  BY DEF R!NowMark, R!Record, R!Entry, R!Oldest, R!EntryKinds
<1>2. /\ g \in Seq(R!Entry) /\ Len(g) = n
      /\ \A i \in 1..Len(h) : g[i] = h[i]
      /\ g[n] = e
  <2> HIDE DEF e
  <2> QED
    BY <1>1, AppendProperties DEF e
<1>3. PICK f, gone : gone = {} /\ Follows(f, g, h, n, gone)
  <2>1. n \in 1..(Len(h) + 1)
    BY <1>0
  <2>2. g = R!InsertAt(h, n, e)
    BY <1>1, AppendIsInsert
  <2> HIDE DEF n, e
  <2> QED
    BY <1>1, <2>1, <2>2, InsertFollows
<1>a. g[n].kind = "NOW" /\ g[n].owner = w /\ g[n].age = 0
  BY <1>1, <1>2
<1> HIDE DEF e
<1>4. n \in 0..Len(g) /\ n # 0 /\ n = Len(g) /\ n \in 1..Len(g) /\ Len(g) \in Nat
  BY <1>0, <1>2
<1> HIDE DEF n
<1>5. HistoryOK(g)
  <2>1. \A i \in 1..(n - 1) : g[n].age <= g[i].age
    <3>1. ASSUME NEW i \in 1..(n - 1) PROVE g[n].age <= g[i].age
      <4>1. g[i] \in R!Entry
        BY <1>2, <1>4, ElementOfSeq
      <4>2. g[i].age \in 0..3
        BY <4>1 DEF R!Entry, R!Oldest
      <4>3. g[n].age = 0
        BY <1>a
      <4>4. \A a, b : a = 0 /\ b \in 0..3 => a <= b
        OBVIOUS
      <4> QED
        BY <4>2, <4>3, <4>4, Zenon
    <3> QED
      BY <3>1
  <2>2. \A i \in (n + 1)..Len(g) : g[i].age <= g[n].age
    BY <1>4
  <2>3. g[n].kind \notin R!Ownership
    BY <1>a DEF R!Ownership, R!Handoffs
  <2>4. \A l \in 1..Len(h) : ~(h[l].kind = "NOW" /\ h[l].owner = w)
    BY <1>0 DEF R!MarksOf
  <2>5. g[n].kind = "NOW" /\ g[n].owner = w /\ g[n].age <= 1
    BY <1>a
  <2> QED
    BY <1>2, <1>3, <1>4, <2>1, <2>2, <2>3, <2>4, <2>5, HistoryFollows
<1>6. EntriesOK(g)
  <2>1. DueAt(g, n) /\ LinkOK(g, n)
    BY <1>a DEF DueAt, LinkOK, Meets
  <2>2. \A i \in (n + 1)..Len(g) : FALSE
    BY <1>4
  <2> QED
    BY <1>2, <1>3, <1>4, <2>1, <2>2, EntriesFollow
<1>b. ASSUME NEW x, NEW i \in R!MarksOf(g, x) PROVE i \in 1..n /\ g[i].owner = x /\ g[i].kind = "NOW"
  BY <1>2, LenProperties DEF R!MarksOf
<1>7. R!MarksOf(g, w) = {n}
  <2>1. DOMAIN g = 1..n
    BY <1>2, LenProperties
  <2>2. ASSUME NEW i \in 1..n, i # n PROVE ~(g[i].kind = "NOW" /\ g[i].owner = w)
    <3>1. i \in DOMAIN h /\ g[i] = h[i]
      BY <1>0, <1>2, <2>2 DEF n
    <3> QED
      BY <3>1 DEF R!MarksOf
  <2> QED
    BY <1>a, <1>4, <2>1, <2>2 DEF R!MarksOf
<1>8. ASSUME NEW x, x # w, NEW i \in R!MarksOf(g, x) PROVE i \in Int /\ i < n
  <2>1. i \in 1..n /\ i # n
    BY <1>a, <1>b, <1>8
  <2> QED
    BY <1>4, <2>1
<1>9. ASSUME NEW calls, NEW W, w \notin W, CallsOK(h, calls, W) PROVE CallsOK(g, calls, W)
  <2>1. ASSUME NEW x \in W
        PROVE  /\ x \notin gone
               /\ ~(g[n].kind = "NOW" /\ g[n].owner = x)
               /\ ~Minds(calls[x], g[n].kind)
               /\ ~Misses(calls[x], g[n].kind)
    <3>1. ~(g[n].owner = x)
      BY <1>a, <1>9
    <3>2. ~Minds(calls[x], "NOW") /\ ~Misses(calls[x], "NOW")
      BY DEF Minds, Misses, R!Ownership, R!Handoffs
    <3> QED
      BY <1>a, <1>3, <3>1, <3>2
  <2> QED
    BY <1>2, <1>3, <1>4, <1>9, <2>1, CallsFollow
<1>10. ASSUME NEW kind, NEW owner, Meets(h, n, kind, owner) PROVE Meets(g, n, kind, owner)
  <2>1. n \in 1..(Len(h) + 1) /\ n <= Len(g) + 1
    BY <1>0, <1>2, <1>4 DEF n
  <2>2. \A l \in 1..(n - 1) : g[l] = h[l]
    BY <1>0, <1>2 DEF n
  <2> QED
    BY <1>2, <1>10, <2>1, <2>2, PrefixOwner DEF Meets
<1> QED
  BY <1>2, <1>5, <1>6, <1>7, <1>8, <1>9, <1>10 DEF n

(* A call is over.                                                         *)
LEMMA Unmarking ==
    ASSUME NEW h \in Seq(R!Entry), HistoryOK(h), EntriesOK(h), NEW w,
           NEW g, g = R!Unmarked(h, w)
    PROVE  /\ HistoryOK(g) /\ EntriesOK(g)
           /\ R!MarksOf(g, w) = {}
           /\ \A calls, W : w \notin W /\ CallsOK(h, calls, W) => CallsOK(g, calls, W)
<1>1. CASE R!MarksOf(h, w) = {}
  BY <1>1 DEF R!Unmarked
<1>2. CASE R!MarksOf(h, w) # {}
  <2> DEFINE k == R!MarkIn(h, w)
  <2>1. /\ k \in R!MarksOf(h, w) /\ k \in 1..Len(h)
        /\ h[k].kind = "NOW" /\ h[k].owner = w
    BY <1>2, MarkInIsMark
  <2>2. g = R!RemoveAt(h, k)
    BY <1>2 DEF R!Unmarked
  <2> HIDE DEF k
  <2>3. g \in Seq(R!Entry)
    BY <2>1, <2>2, RemoveFollows
  <2>a. PICK f : Follows(f, g, h, 0, {w})
    BY <2>1, <2>2, RemoveFollows
  <2>4. PICK gone : gone = {w} /\ Follows(f, g, h, 0, gone)
    BY <2>a
  <2>5. Len(h) \in Nat /\ Len(g) \in Nat /\ DOMAIN g = 1..Len(g) /\ 0 \in 0..Len(g)
    BY <2>3, LenProperties
  <2>6. HistoryOK(g)
    BY <2>3, <2>4, <2>5, HistoryFollows
  <2>7. EntriesOK(g)
    BY <2>3, <2>4, <2>5, EntriesFollow
  <2>8. ASSUME NEW i \in R!MarksOf(g, w) PROVE FALSE
    <3>1. /\ Len(g) = Len(h) - 1
          /\ \A j \in 1..(Len(h) - 1) : g[j] = IF j < k THEN h[j] ELSE h[j + 1]
      BY <2>1, <2>2, RemoveShape
    <3>2. i \in 1..Len(g) /\ g[i].kind = "NOW" /\ g[i].owner = w
      BY <2>5 DEF R!MarksOf
    <3>3. PICK j \in 1..Len(h) : j # k /\ g[i] = h[j]
      <4>1. CASE i < k
        BY <2>1, <2>5, <3>1, <3>2, <4>1
      <4>2. CASE ~(i < k)
        <5>1. i + 1 \in 1..Len(h) /\ i + 1 # k /\ g[i] = h[i + 1]
          BY <2>1, <2>5, <3>1, <3>2, <4>2
        <5> QED
          BY <5>1
      <4> QED
        BY <4>1, <4>2
    <3> QED
      BY <2>1, <3>2, <3>3 DEF HistoryOK
  <2>9. ASSUME NEW calls, NEW W, w \notin W, CallsOK(h, calls, W) PROVE CallsOK(g, calls, W)
    <3>1. ~(0 \in 1..Len(g)) /\ \A x \in W : x \notin gone
      BY <2>4, <2>5, <2>9
    <3> QED
      BY <2>3, <2>4, <2>5, <2>9, <3>1, CallsFollow
  <2> QED
    BY <2>6, <2>7, <2>8, <2>9
<1> QED
  BY <1>1, <1>2

(* Retention deletes the oldest entries.                                   *)
LEMMA Pruning ==
    ASSUME NEW h \in Seq(R!Entry), HistoryOK(h), EntriesOK(h), NEW g \in R!Pruned(h)
    PROVE  /\ HistoryOK(g) /\ EntriesOK(g)
           /\ \A calls, W : CallsOK(h, calls, W) => CallsOK(g, calls, W)
           /\ \A w : R!MarksOf(h, w) # {} => R!MarksOf(g, w) # {}
<1>1. g \in Seq(R!Entry)
  BY PrunedFollows
<1>2. PICK f, gone : gone = {} /\ Follows(f, g, h, 0, gone)
  BY PrunedFollows
<1>3. Len(g) \in Nat /\ 0 \in 0..Len(g) /\ ~(0 \in 1..Len(g))
  BY <1>1, LenProperties
<1>4. HistoryOK(g)
  BY <1>1, <1>2, <1>3, HistoryFollows
<1>5. EntriesOK(g)
  BY <1>1, <1>2, <1>3, EntriesFollow
<1>6. ASSUME NEW calls, NEW W, CallsOK(h, calls, W) PROVE CallsOK(g, calls, W)
  BY <1>1, <1>2, <1>3, <1>6, CallsFollow
<1>7. ASSUME NEW w, R!MarksOf(h, w) # {} PROVE R!MarksOf(g, w) # {}
  <2>1. w \notin gone
    BY <1>2
  <2>2. w \notin gone => (R!MarksOf(g, w) # {} <=> R!MarksOf(h, w) # {})
    BY <1>1, <1>2, <1>3, MarksFollow
  <2> QED
    BY <1>7, <2>1, <2>2
<1> QED
  BY <1>4, <1>5, <1>6, <1>7

(* A call files an action or an escalation under its time: it is what the  *)
(* call was checked for, and the others do not mind.                       *)
LEMMA Filing ==
    ASSUME NEW h \in Seq(R!Entry), HistoryOK(h), EntriesOK(h),
           NEW calls, CallsOK(h, calls, Workers), NEW w \in Workers,
           NEW t, t = calls[w],
           NEW kind, \/ t.pc = "stamped" /\ kind = t.kind
                     \/ t.pc = "due" /\ kind = "ESCALATED",
           t.quiet \in BOOLEAN, NEW g, g = R!FiledAt(h, w, kind, t.owner, t.quiet)
    PROVE  /\ HistoryOK(g) /\ EntriesOK(g)
           /\ R!MarksOf(g, w) # {}
           /\ CallsOK(g, calls, Workers \ {w})
<1>a. CallOK(h, w, t)
  BY DEF CallsOK
<1>b. /\ R!MarksOf(h, w) # {} /\ t.owner \in Operators
      /\ kind \in R!Ownership \cup {"RESOLVED", "ESCALATED"}
      /\ kind # "NOW"
      /\ t.pc # "due" => kind # "ESCALATED"
      /\ kind \in R!Ownership \cup {"ESCALATED"} => kind = Files(t)
      /\ kind \in R!Ownership => Takes(t)
  BY <1>a DEF CallOK, Files, Takes, R!Ownership, R!Handoffs
<1>c. PICK k : k = R!MarkIn(h, w)
  OBVIOUS
<1>1. k \in R!MarksOf(h, w) /\ k \in 1..Len(h) /\ h[k].kind = "NOW" /\ h[k].owner = w
  BY <1>b, <1>c, MarkInIsMark
<1>2. h[k] \in R!Entry
  BY <1>1, ElementOfSeq
<1>3. PICK e : e = [R!Record(kind, t.owner, t.quiet) EXCEPT !.age = h[k].age]
  OBVIOUS
<1>4. g = R!InsertAt(h, k, e)
  BY <1>c, <1>3 DEF R!FiledAt
<1>5. e \in R!Entry /\ e.kind = kind /\ e.owner = t.owner /\ e.quiet = t.quiet /\ e.age = h[k].age
  <2>1. kind \in R!EntryKinds /\ h[k].age \in 0..R!Oldest
    BY <1>b, <1>2 DEF R!EntryKinds, R!Entry
  <2> QED
    BY <1>b, <1>3, <2>1 DEF R!Record, R!Entry
<1>0. Len(h) \in Nat /\ k \in Nat /\ 1 <= k /\ k <= Len(h) /\ k \in 1..(Len(h) + 1)
  BY <1>1, LenProperties
<1>6. /\ g \in Seq(R!Entry) /\ Len(g) = Len(h) + 1
      /\ \A i \in 1..(Len(h) + 1) : g[i] = IF i < k THEN h[i] ELSE IF i = k THEN e ELSE h[i - 1]
  <2>1. IsInsertion(R!Entry, h, k, e, g)
    BY <1>0, <1>4, <1>5, InsertShape
  <2> QED
    BY <2>1 DEF IsInsertion
<1>7. PICK f, gone : gone = {} /\ Follows(f, g, h, k, gone)
  BY <1>0, <1>4, <1>5, InsertFollows
<1>8. k \in 0..Len(g) /\ k # 0 /\ k \in 1..Len(g)
  BY <1>0, <1>6
<1>9. g[k] = e /\ g[k].kind = kind /\ g[k].kind # "NOW"
  BY <1>0, <1>b, <1>5, <1>6
<1>10. \A i \in 1..(k - 1) : i \in 1..Len(h) /\ g[i] = h[i]
  BY <1>0, <1>6
<1>11. \A i \in (k + 1)..Len(g) : i - 1 \in k..Len(h) /\ i - 1 \in 1..Len(h) /\ g[i] = h[i - 1]
  BY <1>0, <1>6
<1>12. HistoryOK(g)
  <2>1. ASSUME NEW i \in 1..(k - 1) PROVE g[k].age <= g[i].age
    <3>1. h[k].age <= h[i].age
      BY <1>0, <1>1, <1>10 DEF HistoryOK
    <3> QED
      BY <1>5, <1>9, <1>10, <3>1
  <2>2. ASSUME NEW i \in (k + 1)..Len(g) PROVE g[i].age <= g[k].age
    <3>1. CASE i - 1 = k
      <4>1. h[k].age \in 0..3
        BY <1>2 DEF R!Entry, R!Oldest
      <4> QED
        BY <1>5, <1>9, <1>11, <3>1, <4>1
    <3>2. CASE i - 1 # k
      <4>1. k < i - 1
        BY <1>0, <1>11, <3>2
      <4>2. h[i - 1].age <= h[k].age
        BY <1>1, <1>11, <4>1 DEF HistoryOK
      <4> QED
        BY <1>5, <1>9, <1>11, <4>2
    <3> QED
      BY <3>1, <3>2
  <2>3. g[k].owner \in Operators
    BY <1>b, <1>5, <1>9
  <2> QED
    BY <1>6, <1>7, <1>8, <1>9, <2>1, <2>2, <2>3, HistoryFollows
<1>13. LinkOK(g, k)
  <2>1. ASSUME t.quiet PROVE Meets(g, k, kind, t.owner)
    <3>1. CASE t.pc = "due"
      BY <1>a, <3>1 DEF Meets
    <3>2. CASE t.pc = "stamped"
      <4>1. Meets(h, k, kind, t.owner)
        BY <1>a, <1>1, <2>1, <3>2 DEF CallOK
      <4>2. k <= Len(g) + 1
        BY <1>0, <1>6
      <4> QED
        BY <1>0, <1>6, <1>10, <4>1, <4>2, PrefixOwner DEF Meets
    <3> QED
      BY <3>1, <3>2
  <2> QED
    BY <1>5, <1>9, <2>1 DEF LinkOK
<1>14. DueAt(g, k)
  <2>1. ASSUME kind = "ESCALATED", t.quiet, NEW j \in 1..(k - 1)
        PROVE  /\ g[j].kind \in R!Ownership => Late(g, j, k)
               /\ g[j].kind = "ESCALATED" => \E l \in j..k : g[l].kind \in R!Ownership
    <3>0. DueBefore(h, k)
      BY <1>a, <1>b, <1>1, <2>1 DEF CallOK
    <3>1. g[j] = h[j] /\ g[k].age = h[k].age
      BY <1>5, <1>9, <1>10
    <3>2. g[j].kind \in R!Ownership => Late(g, j, k)
      BY <2>1, <3>0, <3>1 DEF Late, DueBefore
    <3>3. ASSUME g[j].kind = "ESCALATED" PROVE \E l \in j..k : g[l].kind \in R!Ownership
      <4>1. PICK l \in j..k : h[l].kind \in R!Ownership
        BY <2>1, <3>0, <3>1, <3>3 DEF DueBefore
      <4>2. l # k
        BY <1>1, <4>1 DEF R!Ownership, R!Handoffs
      <4>3. l \in 1..(k - 1)
        BY <1>0, <4>2
      <4> QED
        BY <1>10, <4>1, <4>3
    <3> QED
      BY <3>2, <3>3
  <2> QED
    BY <1>5, <1>9, <2>1 DEF DueAt, DueBefore
<1>15. EntriesOK(g)
  <2>1. ASSUME NEW i \in (k + 1)..Len(g), g[i].kind # "NOW", Misses(t, g[i].kind)
        PROVE  ~g[i].quiet
    <3>1. i - 1 # k
      BY <1>1, <1>11, <2>1
    <3>2. i - 1 \in (k + 1)..Len(h) /\ g[i] = h[i - 1]
      BY <1>0, <1>11, <3>1
    <3> QED
      BY <1>a, <1>1, <2>1, <3>2 DEF CallOK
  <2>2. \A i \in (k + 1)..Len(g) :
          /\ g[k].kind \in R!Ownership /\ g[i].kind # "NOW" => ~g[i].quiet
          /\ g[k].kind = "ESCALATED" /\ g[i].kind = "ESCALATED" => ~g[i].quiet
    BY <1>b, <1>9, <2>1 DEF Misses
  <2> QED
    BY <1>6, <1>7, <1>8, <1>13, <1>14, <2>2, EntriesFollow
<1>d. ASSUME NEW x, NEW i \in R!MarksOf(g, x)
      PROVE  /\ i \in Int
             /\ i < k => i \in R!MarksOf(h, x)
             /\ ~(i < k) => k < i /\ i - 1 \in R!MarksOf(h, x) /\ k <= i - 1
  <2>1. i \in 1..Len(g) /\ g[i].kind = "NOW" /\ g[i].owner = x /\ i # k
    BY <1>6, <1>9, LenProperties DEF R!MarksOf
  <2>2. CASE i < k
    <3>1. i \in DOMAIN h /\ h[i] = g[i]
      BY <1>0, <1>10, <2>1, <2>2, LenProperties
    <3> QED
      BY <2>1, <2>2, <3>1 DEF R!MarksOf
  <2>3. CASE ~(i < k)
    <3>1. i \in (k + 1)..Len(g)
      BY <1>0, <1>6, <2>1, <2>3
    <3>2. i - 1 \in DOMAIN h /\ h[i - 1] = g[i] /\ k < i /\ k <= i - 1
      BY <1>0, <1>11, <3>1, LenProperties
    <3> QED
      BY <2>1, <2>3, <3>2 DEF R!MarksOf
  <2> QED
    BY <2>2, <2>3
<1>16. ASSUME NEW x \in Workers \ {w}, Minds(calls[x], kind)
       PROVE  calls[x].pc # "checked" /\ \A i \in R!MarksOf(g, x) : i < k
  <2>1. kind \in R!Ownership \cup {"ESCALATED"}
    BY <1>16 DEF Minds
  <2>2. Apart(h, w, t, x, calls[x])
    BY DEF CallsOK
  <2>3. calls[x].pc # "checked" /\ \A i \in R!MarksOf(h, x) : i < k
    BY <1>b, <1>1, <1>16, <2>1, <2>2 DEF Apart
  <2>4. ASSUME NEW i \in R!MarksOf(g, x), ~(i < k) PROVE FALSE
    <3>1. i - 1 < k /\ k <= i - 1 /\ i \in Int
      BY <1>d, <2>3, <2>4
    <3> QED
      BY <1>0, <3>1
  <2> QED
    BY <2>3, <2>4
<1>17. ASSUME NEW x \in Workers \ {w}, t.quiet, Misses(calls[x], kind), NEW i \in R!MarksOf(g, x)
       PROVE  k < i
  <2>1. Minds(t, Files(calls[x]))
    BY <1>b, <1>17 DEF Misses, Minds, Files, Takes, R!Ownership, R!Handoffs
  <2>2. Apart(h, x, calls[x], w, t)
    BY DEF CallsOK
  <2>3. \A j \in R!MarksOf(h, x) : k < j
    BY <1>1, <2>1, <2>2 DEF Apart
  <2>4. ~(i < k)
    BY <1>0, <1>d, <2>3
  <2> QED
    BY <1>d, <2>4
<1>18. CallsOK(g, calls, Workers \ {w})
  <2>1. CallsOK(h, calls, Workers \ {w})
    BY DEF CallsOK
  <2>2. ASSUME NEW x \in Workers \ {w}
        PROVE  /\ x \notin gone
               /\ ~(g[k].kind = "NOW" /\ g[k].owner = x)
               /\ Minds(calls[x], g[k].kind) =>
                    calls[x].pc # "checked" /\ \A i \in R!MarksOf(g, x) : i < k
               /\ g[k].quiet => (Misses(calls[x], g[k].kind) => \A i \in R!MarksOf(g, x) : k < i)
    BY <1>5, <1>7, <1>9, <1>16, <1>17
  <2> QED
    BY <1>6, <1>7, <1>8, <2>1, <2>2, CallsFollow
<1>19. R!MarksOf(g, w) # {}
  <2>1. PICK i : i \in R!MarksOf(h, w)
    BY <1>b
  <2>2. i \in 1..Len(h) /\ h[i].kind = "NOW" /\ h[i].owner = w
    BY <2>1, LenProperties DEF R!MarksOf
  <2>3. PICK j \in 1..Len(g) : g[j] = h[i]
    <3>1. CASE i < k
      <4>1. i \in 1..Len(g) /\ i \in 1..(k - 1)
        BY <1>0, <1>6, <2>2, <3>1
      <4> QED
        BY <1>10, <4>1
    <3>2. CASE ~(i < k)
      <4>1. i + 1 \in (k + 1)..Len(g) /\ i + 1 \in 1..Len(g) /\ (i + 1) - 1 = i
        BY <1>0, <1>6, <2>2, <3>2
      <4>2. g[i + 1] = h[(i + 1) - 1]
        BY <1>11, <4>1
      <4> QED
        BY <4>1, <4>2
    <3> QED
      BY <3>1, <3>2
  <2>4. j \in R!MarksOf(g, w)
    BY <1>6, <2>2, <2>3, LenProperties DEF R!MarksOf
  <2> QED
    BY <2>4
<1> QED
  BY <1>12, <1>15, <1>18, <1>19

(* A window of time goes by.                                               *)
LEMMA Passing ==
    ASSUME NEW h \in Seq(R!Entry), HistoryOK(h), EntriesOK(h),
           \A i \in DOMAIN h : h[i].kind = "NOW" => h[i].age = 0,
           NEW g, g = [i \in DOMAIN h |->
                         [h[i] EXCEPT !.age = IF @ = R!Oldest THEN @ ELSE @ + 1]]
    PROVE  /\ HistoryOK(g) /\ EntriesOK(g)
           /\ \A calls, W : CallsOK(h, calls, W) => CallsOK(g, calls, W)
<1>0. Len(h) \in Nat /\ DOMAIN h = 1..Len(h)
  BY LenProperties
<1>1. ASSUME NEW i \in 1..Len(h)
      PROVE  /\ g[i] \in R!Entry /\ h[i] \in R!Entry /\ h[i].age \in 0..3
             /\ g[i].kind = h[i].kind /\ g[i].owner = h[i].owner /\ g[i].quiet = h[i].quiet
             /\ g[i].age = IF h[i].age = 3 THEN 3 ELSE h[i].age + 1
  <2>1. h[i] \in R!Entry
    BY ElementOfSeq
  <2>2. g[i] = [h[i] EXCEPT !.age = IF @ = R!Oldest THEN @ ELSE @ + 1]
    BY <1>0
  <2>3. h[i].age \in 0..3 /\ (IF h[i].age = 3 THEN 3 ELSE h[i].age + 1) \in 0..3
    BY <2>1 DEF R!Entry, R!Oldest
  <2>4. g[i] = [h[i] EXCEPT !.age = IF h[i].age = 3 THEN 3 ELSE h[i].age + 1]
    BY <2>2 DEF R!Oldest
  <2>5. PICK a \in 0..3 : a = IF h[i].age = 3 THEN 3 ELSE h[i].age + 1
    BY <2>3
  <2>6. g[i] = [h[i] EXCEPT !.age = a]
    BY <2>4, <2>5
  <2>7. PICK e \in R!Entry : e = h[i]
    BY <2>1
  <2>8. PICK d : d = [e EXCEPT !.age = a]
    OBVIOUS
  <2>9. /\ d \in R!Entry /\ d.kind = e.kind /\ d.owner = e.owner /\ d.quiet = e.quiet
        /\ d.age = a
    BY <2>8 DEF R!Entry, R!Oldest
  <2> QED
    BY <2>1, <2>3, <2>5, <2>6, <2>7, <2>8, <2>9
<1>2. g \in Seq(R!Entry) /\ Len(g) = Len(h) /\ DOMAIN g = 1..Len(g)
  <2>1. g \in [1..Len(h) -> R!Entry]
    <3>1. DOMAIN g = 1..Len(h) /\ g = [i \in DOMAIN g |-> g[i]]
      BY <1>0
    <3> QED
      BY <1>1, <3>1
  <2> QED
    BY <1>0, <2>1
<1>3. HistoryOK(g)
  <2>1. ASSUME NEW i \in 1..Len(g)
        PROVE  /\ g[i].kind \in R!Ownership => g[i].owner \in Operators
               /\ g[i].kind = "NOW" => g[i].age <= 1
    BY <1>0, <1>1, <1>2 DEF HistoryOK
  <2>2. ASSUME NEW i \in 1..Len(g), NEW j \in 1..Len(g), i < j PROVE g[j].age <= g[i].age
    <3>1. h[j].age <= h[i].age
      BY <1>2, <2>2 DEF HistoryOK
    <3>2. /\ h[i].age \in 0..3 /\ g[i].age = IF h[i].age = 3 THEN 3 ELSE h[i].age + 1
          /\ h[j].age \in 0..3 /\ g[j].age = IF h[j].age = 3 THEN 3 ELSE h[j].age + 1
      BY <1>1, <1>2
    <3> QED
      BY <3>1, <3>2
  <2>3. ASSUME NEW i \in 1..Len(g), NEW j \in 1..Len(g),
               g[i].kind = "NOW", g[j].kind = "NOW", g[i].owner = g[j].owner
        PROVE  i = j
    BY <1>1, <1>2, <2>3 DEF HistoryOK
  <2> QED
    BY <1>2, <2>1, <2>2, <2>3 DEF HistoryOK
<1>4. \A i \in 1..(Len(h) + 1) : /\ Vacant(h, i) => Vacant(g, i)
                                 /\ \A o : /\ SameOwner(h, i, o) => SameOwner(g, i, o)
                                           /\ OtherOwner(h, i, o) => OtherOwner(g, i, o)
  <2>1. ASSUME NEW i \in 1..(Len(h) + 1)
        PROVE  /\ Vacant(h, i) => Vacant(g, i)
               /\ \A j \in 1..Len(h) : Before(g, j, i) => Before(h, j, i)
    <3>1. \A l \in 1..(i - 1) : g[l].kind = h[l].kind
      BY <1>0, <1>1
    <3>2. Vacant(h, i) => Vacant(g, i)
      BY <3>1 DEF Vacant
    <3>3. ASSUME NEW j \in 1..Len(h), Before(g, j, i) PROVE Before(h, j, i)
      <4>1. \A l \in (j + 1)..(i - 1) : l \in 1..(i - 1)
        BY <1>0
      <4> QED
        BY <3>1, <3>3, <4>1 DEF Before
    <3> QED
      BY <3>2, <3>3
  <2> QED
    BY <1>1, <1>2, <2>1 DEF SameOwner, OtherOwner
<1>a. \A i \in 1..(Len(h) + 1) : \A kind, owner :
        Meets(h, i, kind, owner) => Meets(g, i, kind, owner)
  BY <1>4 DEF Meets
<1>b. ASSUME NEW i \in 1..Len(h), DueBefore(h, i) PROVE DueBefore(g, i)
  <2>1. ASSUME NEW j \in 1..(i - 1)
        PROVE  /\ g[j].kind \in R!Ownership => Late(g, j, i)
               /\ g[j].kind = "ESCALATED" => \E l \in j..i : g[l].kind \in R!Ownership
    <3>1. j \in 1..Len(h)
      BY <1>0
    <3>2. /\ h[j].kind \in R!Ownership => Late(h, j, i)
          /\ h[j].kind = "ESCALATED" => \E l \in j..i : h[l].kind \in R!Ownership
      BY <1>b DEF DueBefore
    <3>3. Late(h, j, i) => Late(g, j, i)
      <4>1. /\ h[i].age \in 0..3 /\ g[i].age = IF h[i].age = 3 THEN 3 ELSE h[i].age + 1
            /\ h[j].age \in 0..3 /\ g[j].age = IF h[j].age = 3 THEN 3 ELSE h[j].age + 1
        BY <1>1, <3>1
      <4> QED
        BY <4>1 DEF Late, R!Oldest
    <3>4. \A l \in j..i : g[l].kind = h[l].kind
      <4>1. \A l \in j..i : l \in 1..Len(h)
        BY <1>0, <3>1
      <4> QED
        BY <1>1, <4>1
    <3> QED
      BY <1>1, <3>1, <3>2, <3>3, <3>4
  <2> QED
    BY <2>1 DEF DueBefore
<1>5. ASSUME NEW i \in 1..Len(h) PROVE DueAt(g, i) /\ LinkOK(g, i)
  <2>1. DueAt(h, i) /\ LinkOK(h, i) /\ i \in 1..(Len(h) + 1)
    BY <1>0 DEF EntriesOK
  <2>2. LinkOK(g, i)
    BY <1>1, <1>a, <2>1 DEF LinkOK
  <2>3. DueAt(g, i)
    BY <1>1, <1>b, <2>1 DEF DueAt
  <2> QED
    BY <2>2, <2>3
<1>6. EntriesOK(g)
  BY <1>2, <1>5 DEF EntriesOK
<1>7. ASSUME NEW x PROVE R!MarksOf(g, x) = R!MarksOf(h, x) /\ R!MarksOf(h, x) \subseteq 1..Len(h)
  BY <1>0, <1>1, <1>2 DEF R!MarksOf
<1>8. ASSUME NEW x, NEW t, CallOK(h, x, t) PROVE CallOK(g, x, t)
  <2>1. \A i \in R!MarksOf(g, x) : i \in 1..Len(h) /\ i \in R!MarksOf(h, x) /\ i \in 1..(Len(h) + 1)
    BY <1>0, <1>7
  <2>2. Len(h) + 1 \in 1..(Len(h) + 1) /\ Len(g) = Len(h)
    BY <1>0, <1>2
  <2>3. ASSUME NEW i \in R!MarksOf(g, x), NEW j \in (i + 1)..Len(g), Misses(t, g[j].kind)
        PROVE  ~g[j].quiet
    <3>1. j \in 1..Len(h) /\ j \in (i + 1)..Len(h) /\ i \in R!MarksOf(h, x)
      BY <1>0, <2>1, <2>2
    <3>2. g[j].kind = h[j].kind /\ g[j].quiet = h[j].quiet
      BY <1>1, <3>1
    <3> QED
      BY <1>8, <2>3, <3>1, <3>2 DEF CallOK
  <2>4. t.pc = "checked" => (t.quiet => Meets(g, Len(g) + 1, t.kind, t.owner))
    BY <1>8, <1>a, <2>2 DEF CallOK
  <2>5. \A i \in R!MarksOf(g, x) :
          /\ t.pc = "stamped" => (t.quiet => Meets(g, i, t.kind, t.owner))
          /\ t.pc = "due" => (t.quiet => DueBefore(g, i))
    BY <1>8, <1>a, <1>b, <2>1 DEF CallOK
  <2>6. R!MarksOf(g, x) = R!MarksOf(h, x)
    BY <1>7
  <2> QED
    BY <1>8, <2>3, <2>4, <2>5, <2>6 DEF CallOK
<1>9. ASSUME NEW calls, NEW W, CallsOK(h, calls, W) PROVE CallsOK(g, calls, W)
  <2>1. \A w, x, t, s : Apart(h, w, t, x, s) => Apart(g, w, t, x, s)
    BY <1>7 DEF Apart
  <2> QED
    BY <1>8, <1>9, <2>1 DEF CallsOK
<1> QED
  BY <1>3, <1>6, <1>9

(* An escalation that is due names the owner, and every handoff before it  *)
(* has been left for two windows.                                          *)
LEMMA DueMeans ==
    ASSUME NEW h \in Seq(R!Entry), HistoryOK(h), NEW k \in 1..Len(h), h[k].kind = "NOW", R!Due(h, k)
    PROVE  /\ R!Owner(h) \in Operators
           /\ DueBefore(h, k)
           /\ \A j \in (k + 1)..Len(h) : h[j].kind # "ESCALATED"
<1> PICK o, e : o = R!Latest(h, R!Ownership) /\ e = R!Latest(h, {"ESCALATED"})
  OBVIOUS
<1>0. Len(h) \in Nat /\ DOMAIN h = 1..Len(h)
  BY LenProperties
<1>1. /\ o \in 0..Len(h) /\ (o # 0 => h[o].kind \in R!Ownership)
      /\ \A j \in 1..Len(h) : h[j].kind \in R!Ownership => j <= o
  BY LatestIsLast
<1>2. e \in 0..Len(h) /\ \A j \in 1..Len(h) : h[j].kind = "ESCALATED" => j <= e
  BY LatestIsLast
<1>3. e < o /\ R!Owned(h) /\ R!Elapsed(h, o, k) \notin {0, 1}
  BY DEF R!Due, R!FollowUp
<1>4. o \in 1..Len(h) /\ h[o].kind \in R!Ownership /\ R!Owner(h) = h[o].owner
  BY <1>0, <1>1, <1>3 DEF R!Owned, R!Owner
<1>5. o < k /\ h[o].age - h[k].age \notin {0, 1}
  <2>1. o # k
    BY <1>4 DEF R!Ownership, R!Handoffs
  <2>2. ~(o > k)
    BY <1>3 DEF R!Elapsed
  <2>3. R!Elapsed(h, o, k) = h[o].age - h[k].age
    BY <1>0, <2>2 DEF R!Elapsed
  <2> QED
    BY <1>0, <1>3, <1>4, <2>1, <2>2, <2>3
<1>6. \A j \in 1..Len(h) : h[j].age \in 0..3
  <2>1. \A j \in 1..Len(h) : h[j] \in R!Entry
    BY ElementOfSeq
  <2> QED
    BY <2>1 DEF R!Entry, R!Oldest
<1>7. h[k].age <= h[o].age
  BY <1>4, <1>5 DEF HistoryOK
<1>8. ASSUME NEW j \in 1..(k - 1), h[j].kind \in R!Ownership PROVE Late(h, j, k)
  <2>1. j \in 1..Len(h) /\ j <= o
    BY <1>0, <1>1, <1>8
  <2>2. h[o].age <= h[j].age
    <3>1. CASE j = o
      BY <1>4, <1>6, <3>1
    <3>2. CASE j # o
      <4>1. j < o
        BY <1>0, <1>4, <2>1, <3>2
      <4> QED
        BY <1>4, <2>1, <4>1 DEF HistoryOK
    <3> QED
      BY <3>1, <3>2
  <2>3. h[j].age \in 0..3 /\ h[o].age \in 0..3 /\ h[k].age \in 0..3
    BY <1>4, <1>6, <2>1
  <2>4. h[j].age - h[k].age >= 2
    BY <1>5, <1>7, <2>2, <2>3
  <2> QED
    BY <2>4 DEF Late
<1>9. ASSUME NEW j \in 1..(k - 1), h[j].kind = "ESCALATED"
      PROVE  \E l \in j..k : h[l].kind \in R!Ownership
  <2>1. j \in 1..Len(h) /\ j <= e
    BY <1>0, <1>2, <1>9
  <2>2. o \in j..k
    BY <1>0, <1>2, <1>3, <1>4, <1>5, <2>1
  <2> QED
    BY <1>4, <2>2
<1>10. ASSUME NEW j \in (k + 1)..Len(h), h[j].kind = "ESCALATED" PROVE FALSE
  <2>1. j \in 1..Len(h) /\ j <= e /\ k < j
    BY <1>0, <1>2, <1>10
  <2> QED
    BY <1>0, <1>2, <1>3, <1>4, <1>5, <2>1
<1>11. R!Owner(h) \in Operators
  BY <1>4 DEF HistoryOK
<1> QED
  BY <1>8, <1>9, <1>10, <1>11 DEF DueBefore

-----------------------------------------------------------------------------
(* The invariant, and what the actions have in common.                     *)

Shape ==
    /\ degraded \in BOOLEAN
    /\ reports  \in Seq(R!Outcomes) /\ Len(reports) <= Threshold
    /\ notice   \in {"NONE", "UNREAD", "READ"}
    /\ tx       \in [Workers -> CallStates]
    /\ actions  \in 0..MaxActions
    /\ turns    \in 0..MaxTurns

RemediationInv ==
    /\ R!RemediationAssumption /\ Shape
    /\ HistoryOK(history) /\ EntriesOK(history)
    /\ CallsOK(history, tx, Workers)

(* A call is idle or a record of its phase.                                *)
LEMMA CallShape ==
    ASSUME Shape, NEW w \in Workers
    PROVE  /\ tx[w] \in CallStates
           /\ tx[w] = R!NoCall => tx[w].pc = "idle"
           /\ tx[w] # R!NoCall => tx[w] \in R!Busy /\ tx[w].pc # "idle"
           /\ tx[w].pc # "idle" => tx[w] \in R!Busy
           /\ tx[w] \in R!Busy => /\ tx[w].outcome \in R!Outcomes /\ tx[w].behind \in 0..Threshold
                                /\ tx[w].owner \in Operators \cup {Nobody} /\ tx[w].quiet \in BOOLEAN
                                /\ tx[w].kind \in R!RunKinds \cup R!Ownership \cup {"RESOLVED"}
<1>1. tx[w] \in CallStates
  BY DEF Shape
<1>2. R!NoCall.pc = "idle"
  BY DEF R!NoCall
<1>3. \A t \in R!Busy : /\ t.pc # "idle" /\ t.outcome \in R!Outcomes /\ t.behind \in 0..Threshold
                      /\ t.owner \in Operators \cup {Nobody} /\ t.quiet \in BOOLEAN
                      /\ t.kind \in R!RunKinds \cup R!Ownership \cup {"RESOLVED"}
  BY DEF R!Busy
<1> QED
  BY <1>1, <1>2, <1>3 DEF CallStates

(* What a call may become.                                                 *)
LEMMA BusyShape ==
    ASSUME NEW t \in R!Busy, NEW pc \in Phases
    PROVE  /\ [t EXCEPT !.pc = pc] \in R!Busy /\ [t EXCEPT !.pc = pc].pc = pc
           /\ \A o \in R!Outcomes : /\ [t EXCEPT !.pc = pc, !.outcome = o] \in R!Busy
                                    /\ [t EXCEPT !.pc = pc, !.outcome = o].pc = pc
<1>1. [t EXCEPT !.pc = pc] \in R!Busy /\ [t EXCEPT !.pc = pc].pc = pc
  BY DEF R!Busy, Phases
<1>2. ASSUME NEW o \in R!Outcomes
      PROVE  /\ [t EXCEPT !.pc = pc, !.outcome = o] \in R!Busy
             /\ [t EXCEPT !.pc = pc, !.outcome = o].pc = pc
  BY DEF R!Busy, Phases
<1> QED
  BY <1>1, <1>2

(* A call begins as a record.                                              *)
LEMMA CallBegun ==
    ASSUME R!RemediationAssumption, NEW pc \in Phases \cup {"checked"},
           NEW kind \in R!RunKinds \cup R!Ownership \cup {"RESOLVED"}, NEW owner \in Operators \cup {Nobody}
    PROVE  /\ R!Call(pc, kind, owner) \in R!Busy
           /\ R!Call(pc, kind, owner).pc = pc /\ R!Call(pc, kind, owner).kind = kind
           /\ R!Call(pc, kind, owner).owner = owner
<1>1. 0 \in 0..Threshold
  BY DEF R!RemediationAssumption
<1> QED
  BY <1>1 DEF R!Call, R!Busy, Phases, R!Outcomes

(* Of a call that has a mark and is not about to file anything, and of one *)
(* that is over, nothing else is said.                                     *)
LEMMA MarkedCall ==
    ASSUME NEW h, NEW w, NEW t, t.pc \in Phases, R!MarksOf(h, w) # {}
    PROVE  CallOK(h, w, t)
BY DEF CallOK, Phases, Misses, Takes

LEMMA IdleCall ==
    ASSUME NEW h, NEW w, R!MarksOf(h, w) = {}
    PROVE  CallOK(h, w, R!NoCall) /\ R!NoCall.pc = "idle"
BY DEF CallOK, R!NoCall

(* Which phases have a mark.                                               *)
LEMMA CallMarks ==
    ASSUME NEW h, NEW w \in Workers, NEW calls, CallsOK(h, calls, Workers)
    PROVE  /\ CallOK(h, w, calls[w])
           /\ calls[w].pc \in Phases \cup {"stamped", "due"} => R!MarksOf(h, w) # {}
           /\ calls[w].pc \in {"idle", "checked"} => R!MarksOf(h, w) = {}
<1>1. CallOK(h, w, calls[w])
  BY DEF CallsOK
<1> QED
  BY <1>1 DEF CallOK, Phases

(* A call has one mark.                                                    *)
LEMMA OneMark ==
    ASSUME NEW h \in Seq(R!Entry), HistoryOK(h), NEW w, NEW i \in R!MarksOf(h, w)
    PROVE  i = R!MarkIn(h, w) /\ i \in 1..Len(h) /\ h[i].kind = "NOW" /\ h[i].owner = w
<1>1. i \in 1..Len(h) /\ h[i].kind = "NOW" /\ h[i].owner = w
  BY LenProperties DEF R!MarksOf
<1>2. PICK k : k = R!MarkIn(h, w)
  OBVIOUS
<1>3. k \in 1..Len(h) /\ h[k].kind = "NOW" /\ h[k].owner = w
  BY <1>2, MarkInIsMark
<1> QED
  BY <1>1, <1>2, <1>3 DEF HistoryOK

(* The reports stay the newest ones.                                       *)
LEMMA NewestShape ==
    ASSUME NEW all \in Seq(R!Outcomes), R!RemediationAssumption
    PROVE  R!NewestRuns(all) \in Seq(R!Outcomes) /\ Len(R!NewestRuns(all)) <= Threshold
<1>1. PICK n : n = IF Len(all) > Threshold THEN Threshold ELSE Len(all)
  OBVIOUS
<1>2. n \in 0..Len(all) /\ n <= Threshold
  BY <1>1, LenProperties DEF R!RemediationAssumption
<1> QED
  BY <1>1, <1>2, HeadShape DEF R!NewestRuns

(* A step that leaves the call of w with nothing to file, and says no more *)
(* of the others than before.                                              *)
LEMMA CalmStep ==
    ASSUME RemediationInv, NEW w \in Workers, Shape',
           HistoryOK(history'), EntriesOK(history'), CallsOK(history', tx, Workers \ {w}),
           \A x \in Workers \ {w} : SaysNoMore(tx[x], tx'[x]),
           \/ tx'[w].pc \in Phases /\ R!MarksOf(history', w) # {}
           \/ tx'[w] = R!NoCall /\ R!MarksOf(history', w) = {}
    PROVE  RemediationInv'
<1>1. R!RemediationAssumption
  BY DEF RemediationInv
<1>2. CallsOK(history', tx', Workers \ {w})
  BY CallsSayNoMore
<1>3. CallOK(history', w, tx'[w]) /\ tx'[w].pc \in Phases \cup {"idle"}
  BY MarkedCall, IdleCall
<1>4. CallsOK(history', tx', Workers)
  BY <1>2, <1>3, CallsCalm
<1> QED
  BY <1>1, <1>4 DEF RemediationInv

(* One call goes on.                                                       *)
LEMMA Continuing ==
    ASSUME RemediationInv, NEW w \in Workers, NEW t \in CallStates, R!Continue(w, t)
    PROVE  /\ tx' \in [Workers -> CallStates]
           /\ tx'[w] = t
           /\ \A x \in Workers : x # w => tx'[x] = tx[x]
           /\ \A x \in Workers \ {w} : SaysNoMore(tx[x], tx'[x])
BY DEF RemediationInv, Shape, R!Continue, SaysNoMore

(* It goes on with the history as it was.                                  *)
LEMMA QuietStep ==
    ASSUME RemediationInv, NEW w \in Workers, NEW t \in CallStates, R!Continue(w, t),
           UNCHANGED history, R!MarksOf(history, w) # {}, t.pc \in Phases,
           degraded' \in BOOLEAN, UNCHANGED <<reports, notice>>,
           actions' \in 0..MaxActions, turns' \in 0..MaxTurns
    PROVE  RemediationInv'
<1>1. /\ tx' \in [Workers -> CallStates]
      /\ tx'[w] = t
      /\ \A x \in Workers \ {w} : SaysNoMore(tx[x], tx'[x])
  BY Continuing
<1>2. Shape'
  BY <1>1 DEF Shape, RemediationInv
<1>3. HistoryOK(history) /\ EntriesOK(history) /\ CallsOK(history, tx, Workers \ {w})
  BY DEF RemediationInv, CallsOK
<1>4. HistoryOK(history') /\ EntriesOK(history') /\ CallsOK(history', tx, Workers \ {w})
  BY <1>3
<1>5. tx'[w].pc \in Phases /\ R!MarksOf(history', w) # {}
  BY <1>1
<1> QED
  BY <1>1, <1>2, <1>4, <1>5, CalmStep

(* A report is filed, and the runs that began before know of it.           *)
LEMMA FiledShape ==
    ASSUME RemediationInv, NEW w \in Workers, NEW t \in R!Busy, NEW next \in CallStates,
           R!Filed(w, t, next)
    PROVE  /\ reports' \in Seq(R!Outcomes) /\ Len(reports') <= Threshold
           /\ tx' \in [Workers -> CallStates]
           /\ tx'[w] = next
           /\ \A x \in Workers \ {w} : SaysNoMore(tx[x], tx'[x])
<1>0. Shape /\ R!RemediationAssumption
  BY DEF RemediationInv
<1>1. reports' \in Seq(R!Outcomes) /\ Len(reports') <= Threshold
  <2>1. PICK place : /\ place = IF t.behind < Len(reports) THEN t.behind + 1 ELSE Len(reports) + 1
                     /\ reports' = R!NewestRuns(R!InsertAt(reports, place, t.outcome))
    BY DEF R!Filed
  <2>2. t.behind \in Nat /\ t.outcome \in R!Outcomes
    BY <1>0 DEF R!Busy, R!RemediationAssumption
  <2>3. reports \in Seq(R!Outcomes) /\ Len(reports) \in Nat
    BY <1>0, LenProperties DEF Shape
  <2>4. place \in 1..(Len(reports) + 1)
    BY <2>1, <2>2, <2>3
  <2>5. R!InsertAt(reports, place, t.outcome) \in Seq(R!Outcomes)
    BY <2>2, <2>3, <2>4, InsertShape DEF IsInsertion
  <2> HIDE DEF R!InsertAt
  <2> QED
    BY <1>0, <2>1, <2>5, NewestShape
<1>2. PICK E \in SUBSET Workers :
        tx' = [x \in Workers |-> CASE x = w -> next
                                   [] x # w /\ x \in E -> [tx[x] EXCEPT !.behind = R!More(@)]
                                   [] OTHER -> tx[x]]
           /\ \A x \in E : tx[x] # R!NoCall
  <2> DEFINE early(x) == tx[x] # R!NoCall /\ tx[x].kind \in R!RunKinds /\ R!MarkIn(history, x) < R!MarkIn(history, w)
             E == {x \in Workers : early(x)}
  <2>1. tx' = [x \in Workers |->
           CASE x = w -> next
             [] x # w /\ early(x) -> [tx[x] EXCEPT !.behind = R!More(@)]
             [] OTHER -> tx[x]]
    BY DEF R!Filed
  <2>2. \A x \in Workers : early(x) <=> x \in E
    OBVIOUS
  <2>3. \A x \in E : tx[x] # R!NoCall
    OBVIOUS
  <2>4. E \in SUBSET Workers
    OBVIOUS
  <2> HIDE DEF early, E
  <2>5. tx' = [x \in Workers |->
           CASE x = w -> next
             [] x # w /\ x \in E -> [tx[x] EXCEPT !.behind = R!More(@)]
             [] OTHER -> tx[x]]
    BY <2>1, <2>2
  <2> QED
    BY <2>3, <2>4, <2>5
<1>3. tx'[w] = next
  BY <1>2
<1>4. ASSUME NEW x \in Workers, x # w PROVE tx'[x] \in CallStates /\ SaysNoMore(tx[x], tx'[x])
  <2>1. CASE x \in E
    <3>1. tx[x] \in R!Busy
      BY <1>0, <1>2, <2>1, CallShape
    <3>2. tx'[x] = [tx[x] EXCEPT !.behind = R!More(@)]
      BY <1>2, <1>4, <2>1
    <3>3. PICK b \in 0..Threshold : b = R!More(tx[x].behind)
      BY <1>0, <3>1 DEF R!More, R!Busy, R!RemediationAssumption
    <3>4. /\ tx'[x] \in R!Busy /\ tx'[x].pc = tx[x].pc /\ tx'[x].kind = tx[x].kind
          /\ tx'[x].owner = tx[x].owner /\ tx'[x].quiet = tx[x].quiet
      BY <3>1, <3>2, <3>3 DEF R!Busy
    <3> QED
      BY <3>4 DEF CallStates, SaysNoMore
  <2>2. CASE x \notin E
    <3>1. tx'[x] = tx[x]
      BY <1>2, <1>4, <2>2
    <3> QED
      BY <1>0, <3>1 DEF Shape, SaysNoMore
  <2> QED
    BY <2>1, <2>2
<1>5. tx' \in [Workers -> CallStates]
  <2>1. \A x \in Workers : tx'[x] \in CallStates
    BY <1>3, <1>4
  <2>2. tx' = [x \in Workers |-> tx'[x]]
    BY <1>2
  <2> QED
    BY <2>1, <2>2
<1> QED
  BY <1>1, <1>3, <1>4, <1>5

-----------------------------------------------------------------------------
(* The invariant holds at first, and every action keeps it.                *)

(* No history, no calls.                                                   *)
LEMMA InitRemediation ==
    ASSUME R!RemediationAssumption, R!Init
    PROVE  RemediationInv
<1>1. history = <<>> /\ history \in Seq(R!Entry) /\ Len(history) = 0
  BY EmptySeq DEF R!Init
<1>2. HistoryOK(history) /\ EntriesOK(history)
  BY <1>1 DEF HistoryOK, EntriesOK
<1>3. reports \in Seq(R!Outcomes) /\ Len(reports) <= Threshold
  <2>1. reports = <<>>
    BY DEF R!Init
  <2> QED
    BY <2>1, EmptySeq DEF R!RemediationAssumption
<1>4. Shape
  BY <1>3 DEF R!Init, Shape, R!RemediationAssumption, CallStates
<1>5. CallsOK(history, tx, Workers)
  <2>1. ASSUME NEW w \in Workers PROVE tx[w] = R!NoCall /\ tx[w].pc = "idle" /\ CallOK(history, w, tx[w])
    <3>1. R!MarksOf(history, w) = {}
      BY <1>1, LenProperties DEF R!MarksOf
    <3>2. tx[w] = R!NoCall
      BY DEF R!Init
    <3> QED
      BY <3>1, <3>2, IdleCall
  <2>2. \A t, kind : t.pc = "idle" => ~Minds(t, kind)
    BY DEF Minds
  <2> QED
    BY <2>1, <2>2 DEF CallsOK, Apart
<1> QED
  BY <1>2, <1>4, <1>5 DEF RemediationInv

(* A call that starts has no mark.                                         *)
LEMMA AskShape ==
    ASSUME RemediationInv, NEW w \in Workers, R!AskFor(w)
    PROVE  /\ tx[w] = R!NoCall /\ w # Scheduler /\ R!MarksOf(history, w) = {}
           /\ actions' \in 0..MaxActions
<1>1. Shape /\ R!RemediationAssumption /\ tx[w] = R!NoCall /\ CallsOK(history, tx, Workers)
  BY DEF RemediationInv, R!AskFor
<1>2. R!MarksOf(history, w) = {}
  BY <1>1, CallMarks DEF R!NoCall
<1>3. actions' \in 0..MaxActions
  BY <1>1 DEF R!AskFor, Shape, R!RemediationAssumption
<1> QED
  BY <1>1, <1>2, <1>3 DEF R!AskFor

(* An action is checked.  It is quiet if no handoff has taken its time and *)
(* is not filed yet.                                                       *)
LEMMA CheckKeeps ==
    ASSUME RemediationInv, NEW w \in Workers, NEW kind \in R!Ownership \cup {"RESOLVED"},
           NEW owner \in Operators, R!Check(w, kind, owner),
           Meets(history, Len(history) + 1, kind, owner)
    PROVE  RemediationInv'
<1>0. /\ R!RemediationAssumption /\ Shape /\ HistoryOK(history) /\ EntriesOK(history)
      /\ CallsOK(history, tx, Workers)
  BY DEF RemediationInv
<1>1. /\ w # Scheduler /\ R!MarksOf(history, w) = {} /\ actions' \in 0..MaxActions
      /\ UNCHANGED <<degraded, history, reports, notice, turns>>
  BY AskShape DEF R!Check, R!files
<1>2. PICK q \in BOOLEAN :
        /\ q => \A x \in Workers : ~Takes(tx[x])
        /\ R!Continue(w, [R!Call("checked", kind, owner) EXCEPT !.quiet = q])
  BY DEF R!Check, R!Taking, Takes
<1>3. PICK c : c = R!Call("checked", kind, owner)
  OBVIOUS
<1>4. c \in R!Busy /\ c.pc = "checked" /\ c.kind = kind /\ c.owner = owner
  <2>1. /\ "checked" \in Phases \cup {"checked"} /\ R!RemediationAssumption
        /\ kind \in R!RunKinds \cup R!Ownership \cup {"RESOLVED"} /\ owner \in Operators \cup {Nobody}
    BY <1>0
  <2> QED
    BY ONLY <1>3, <2>1, CallBegun
<1>5. PICK t : t = [c EXCEPT !.quiet = q]
  OBVIOUS
<1>6. t \in R!Busy /\ t.pc = "checked" /\ t.kind = kind /\ t.owner = owner /\ t.quiet = q
  BY <1>4, <1>5 DEF R!Busy
<1>7. /\ tx' \in [Workers -> CallStates]
      /\ tx'[w] = t
      /\ \A x \in Workers : x # w => tx'[x] = tx[x]
      /\ \A x \in Workers \ {w} : SaysNoMore(tx[x], tx'[x])
  <2>1. t \in CallStates /\ R!Continue(w, t)
    BY <1>2, <1>3, <1>5, <1>6 DEF CallStates
  <2> QED
    BY <2>1, Continuing
<1>8. CallsOK(history, tx', Workers \ {w})
  <2>1. CallsOK(history, tx, Workers \ {w})
    BY <1>0 DEF CallsOK
  <2> QED
    BY <1>7, <2>1, CallsSayNoMore
<1>9. CallOK(history, w, t)
  BY <1>1, <1>6 DEF CallOK
<1>10. ASSUME NEW x \in Workers \ {w}
       PROVE  Apart(history, w, t, x, tx'[x]) /\ Apart(history, x, tx'[x], w, t)
  <2>1. Files(t) = "NOW"
    BY <1>6 DEF Files, Takes
  <2>2. ~Minds(tx'[x], "NOW")
    BY DEF Minds, R!Ownership, R!Handoffs
  <2>3. ~Minds(t, Files(tx'[x]))
    <3>1. tx'[x] = tx[x]
      BY <1>7
    <3>2. Minds(t, Files(tx[x])) => q /\ Files(tx[x]) \in R!Ownership
      BY <1>6 DEF Minds
    <3>3. Files(tx[x]) \in R!Ownership => Takes(tx[x])
      BY DEF Files, R!Ownership, R!Handoffs
    <3> QED
      BY <1>2, <3>1, <3>2, <3>3
  <2> QED
    BY <2>1, <2>2, <2>3 DEF Apart
<1>11. CallsOK(history, tx', Workers)
  BY <1>7, <1>8, <1>9, <1>10, CallsJoin
<1>12. HistoryOK(history') /\ EntriesOK(history') /\ CallsOK(history', tx', Workers)
  BY <1>0, <1>1, <1>11
<1>13. Shape'
  BY <1>0, <1>1, <1>7 DEF Shape
<1> QED
  BY <1>0, <1>12, <1>13 DEF RemediationInv

(* What the actions are checked for.                                       *)
LEMMA AcknowledgeKeeps ==
    ASSUME RemediationInv, NEW w \in Workers, NEW u \in Operators, R!Acknowledge(w, u)
    PROVE  RemediationInv'
<1>1. history \in Seq(R!Entry)
  BY DEF RemediationInv, HistoryOK
<1>2. R!Latest(history, R!Ownership) = 0
  BY DEF R!Acknowledge, R!Owned
<1>3. Meets(history, Len(history) + 1, "ACKNOWLEDGED", u)
  BY <1>1, <1>2, LatestOwner DEF Meets
<1>4. "ACKNOWLEDGED" \in R!Ownership \cup {"RESOLVED"} /\ R!Check(w, "ACKNOWLEDGED", u)
  BY DEF R!Ownership, R!Acknowledge
<1> QED
  BY <1>3, <1>4, CheckKeeps

LEMMA ReacknowledgeKeeps ==
    ASSUME RemediationInv, NEW w \in Workers, NEW u \in Operators, R!Reacknowledge(w, u)
    PROVE  RemediationInv'
<1>1. history \in Seq(R!Entry)
  BY DEF RemediationInv, HistoryOK
<1>2. history[R!Latest(history, R!Ownership)].owner = u
  <2>1. R!Owned(history) /\ R!Owner(history) \in {Nobody, u} /\ u # Nobody
    BY DEF R!Reacknowledge, R!MayAct, RemediationInv, R!RemediationAssumption
  <2>2. R!Owner(history) = history[R!Latest(history, R!Ownership)].owner
    BY <2>1 DEF R!Owner
  <2>3. R!Owner(history) \in Operators
    <3>1. R!Latest(history, R!Ownership) # 0
      BY <2>1 DEF R!Owned
    <3>2. PICK o : o = R!Latest(history, R!Ownership)
      OBVIOUS
    <3>3. o \in 1..Len(history) /\ history[o].kind \in R!Ownership
      BY <1>1, <3>1, <3>2, LatestIsLast, LenProperties
    <3> QED
      BY <2>2, <3>2, <3>3 DEF RemediationInv, HistoryOK
  <2>4. Nobody \notin Operators
    BY DEF RemediationInv, R!RemediationAssumption
  <2> QED
    BY <2>1, <2>2, <2>3, <2>4
<1>3. Meets(history, Len(history) + 1, "REACKNOWLEDGED", u)
  <2>1. SameOwner(history, Len(history) + 1, u)
    BY <1>1, <1>2, LatestOwner
  <2> QED
    BY <2>1 DEF Meets
<1>4. "REACKNOWLEDGED" \in R!Ownership \cup {"RESOLVED"} /\ R!Check(w, "REACKNOWLEDGED", u)
  BY DEF R!Ownership, R!Reacknowledge
<1> QED
  BY <1>3, <1>4, CheckKeeps

LEMMA HandoffKeeps ==
    ASSUME RemediationInv, NEW w \in Workers, NEW kind \in R!Handoffs,
           NEW u \in Operators, NEW v \in Operators, R!Handoff(w, kind, u, v)
    PROVE  RemediationInv'
<1>1. history \in Seq(R!Entry)
  BY DEF RemediationInv, HistoryOK
<1>2. kind = "ASSIGNED" => R!Latest(history, R!Ownership) = 0
  BY DEF R!Handoff, R!Owned
<1>3. kind # "ASSIGNED" => history[R!Latest(history, R!Ownership)].owner # v
  BY DEF R!Handoff, R!Owner
<1>4. kind \in {"ASSIGNED", "TRANSFERRED"}
  BY DEF R!Handoffs
<1>5. Meets(history, Len(history) + 1, kind, v)
  BY <1>1, <1>2, <1>3, <1>4, LatestOwner DEF Meets
<1>6. kind \in R!Ownership \cup {"RESOLVED"} /\ R!Check(w, kind, v)
  BY DEF R!Ownership, R!Handoff
<1> QED
  BY <1>5, <1>6, CheckKeeps

LEMMA ResolveKeeps ==
    ASSUME RemediationInv, NEW w \in Workers, NEW u \in Operators, R!Resolve(w, u)
    PROVE  RemediationInv'
<1>0. R!RemediationAssumption /\ HistoryOK(history) /\ history \in Seq(R!Entry)
  BY DEF RemediationInv, HistoryOK
<1>1. ~R!Needed /\ ~R!Resolved(history) /\ R!Owner(history) \in {Nobody, u}
  BY DEF R!Resolve, R!MayAct
<1>2. SameOwner(history, Len(history) + 1, u)
  <2> PICK o : o = R!Latest(history, R!Ownership)
    OBVIOUS
  <2>1. CASE o = 0
    BY <1>0, <2>1, LatestOwner
  <2>2. CASE o # 0
    <3>1. o \in 1..Len(history) /\ history[o].kind \in R!Ownership
      BY <1>0, <2>2, LatestIsLast, LenProperties
    <3>2. R!Owned(history)
      BY <1>1, <2>2 DEF R!Owned, R!Resolved
    <3>3. history[o].owner = u
      BY <1>0, <1>1, <3>1, <3>2 DEF HistoryOK, R!Owner, R!RemediationAssumption
    <3> QED
      BY <1>0, <3>3, LatestOwner
  <2> QED
    BY <2>1, <2>2
<1>3. Meets(history, Len(history) + 1, "RESOLVED", u)
  BY <1>2 DEF Meets
<1>4. R!Check(w, "RESOLVED", u)
  BY DEF R!Resolve
<1> QED
  BY <1>3, <1>4, CheckKeeps

(* An action takes its time, as the last one: it is still what it was      *)
(* checked for, and who has only been checked is not quiet any more.       *)
LEMMA StampKeeps ==
    ASSUME RemediationInv, NEW w \in Workers, R!Stamp(w)
    PROVE  RemediationInv'
<1>0. /\ R!RemediationAssumption /\ Shape /\ HistoryOK(history) /\ EntriesOK(history)
      /\ history \in Seq(R!Entry) /\ CallsOK(history, tx, Workers)
  BY DEF RemediationInv, HistoryOK
<1>1. /\ tx[w].pc = "checked" /\ history' = Append(history, R!NowMark(w))
      /\ UNCHANGED <<degraded, reports, notice, actions, turns>>
      /\ tx' = [x \in Workers |->
           CASE x = w -> [tx[w] EXCEPT !.pc = "stamped"]
             [] x # w /\ tx[x].pc = "checked" /\ tx[w].kind \in R!Ownership
                  -> [tx[x] EXCEPT !.quiet = FALSE]
             [] OTHER -> tx[x]]
  BY DEF R!Stamp
<1>2. tx[w] \in R!Busy
  BY <1>0, <1>1, CallShape
<1>3. CallOK(history, w, tx[w]) /\ R!MarksOf(history, w) = {}
  BY <1>0, <1>1, CallMarks
<1>4. PICK n : n = Len(history) + 1
  OBVIOUS
<1>5. /\ HistoryOK(history') /\ EntriesOK(history') /\ Len(history') = n /\ n \in Nat
      /\ R!MarksOf(history', w) = {n}
      /\ \A x : x # w => \A i \in R!MarksOf(history', x) : i \in Int /\ i < n
      /\ CallsOK(history, tx, Workers \ {w}) => CallsOK(history', tx, Workers \ {w})
      /\ \A kind, owner : Meets(history, n, kind, owner) => Meets(history', n, kind, owner)
  <2>1. w \notin Workers \ {w} /\ n \in Nat
    BY <1>0, <1>4, LenProperties
  <2>2. history' = Append(history, R!NowMark(w))
    BY <1>1
  <2> QED
    BY <1>0, <1>3, <1>4, <2>1, <2>2, Marking
<1>6. PICK t : t = [tx[w] EXCEPT !.pc = "stamped"]
  OBVIOUS
<1>7. /\ t \in R!Busy /\ t.pc = "stamped" /\ t.kind = tx[w].kind /\ t.owner = tx[w].owner
      /\ t.quiet = tx[w].quiet /\ t.quiet \in BOOLEAN
  BY <1>2, <1>6 DEF R!Busy
<1>8. tx'[w] = t
  BY <1>1, <1>6
<1>9. ASSUME NEW x \in Workers \ {w}
      PROVE  /\ tx'[x] \in CallStates /\ SaysNoMore(tx[x], tx'[x])
             /\ tx[x].pc = "checked" /\ tx[w].kind \in R!Ownership => ~tx'[x].quiet
  <2>1. CASE tx[x].pc = "checked" /\ tx[w].kind \in R!Ownership
    <3>1. tx[x] \in R!Busy
      BY <1>0, <2>1, CallShape
    <3>2. tx'[x] = [tx[x] EXCEPT !.quiet = FALSE]
      BY <1>1, <2>1
    <3> QED
      BY <3>1, <3>2 DEF R!Busy, CallStates, SaysNoMore
  <2>2. CASE ~(tx[x].pc = "checked" /\ tx[w].kind \in R!Ownership)
    <3>1. tx'[x] = tx[x]
      BY <1>1, <2>2
    <3> QED
      BY <1>0, <2>2, <3>1 DEF Shape, SaysNoMore
  <2> QED
    BY <2>1, <2>2
<1>10. CallsOK(history', tx', Workers \ {w})
  <2>1. CallsOK(history, tx, Workers \ {w})
    BY <1>0 DEF CallsOK
  <2> QED
    BY <1>5, <1>9, <2>1, CallsSayNoMore
<1>11. CallOK(history', w, t)
  <2>1. w # Scheduler /\ t.owner \in Operators /\ t.kind \in R!Ownership \cup {"RESOLVED"}
    BY <1>1, <1>3, <1>7 DEF CallOK
  <2>2. ASSUME t.quiet PROVE Meets(history', n, t.kind, t.owner)
    <3>1. Meets(history, n, t.kind, t.owner)
      BY <1>1, <1>3, <1>4, <1>7, <2>2 DEF CallOK
    <3> QED
      BY <1>5, <3>1
  <2>3. \A j \in (n + 1)..Len(history') : FALSE
    BY <1>5
  <2> QED
    BY <1>5, <1>7, <2>1, <2>2, <2>3 DEF CallOK
<1>12. ASSUME NEW x \in Workers \ {w} PROVE Apart(history', w, t, x, tx'[x])
  <2> SUFFICES ASSUME Minds(tx'[x], Files(t))
               PROVE  tx'[x].pc # "checked" /\ \A i \in R!MarksOf(history', x) : i < n
    BY <1>5 DEF Apart
  <2>1. Files(t) \in R!Ownership => tx[w].kind \in R!Ownership
    BY <1>7 DEF Files, Takes, R!Ownership, R!Handoffs
  <2>2. Files(t) \in R!Ownership /\ tx'[x].quiet
    BY <1>7 DEF Minds, Files, Takes, R!Ownership, R!Handoffs
  <2>3. tx'[x].pc # "checked"
    BY <1>9, <2>1, <2>2 DEF SaysNoMore
  <2> QED
    BY <1>5, <2>3
<1>13. ASSUME NEW x \in Workers \ {w} PROVE Apart(history', x, tx'[x], w, t)
  <2> SUFFICES ASSUME Minds(t, Files(tx'[x])) PROVE FALSE
    BY DEF Apart
  <2>1. t.quiet /\ Files(tx'[x]) \in R!Ownership
    BY <1>7 DEF Minds
  <2>2. Files(tx[x]) = Files(tx'[x])
    BY <1>9 DEF Files, Takes, SaysNoMore
  <2>3. Minds(tx[w], Files(tx[x]))
    BY <1>1, <1>7, <2>1, <2>2 DEF Minds
  <2>4. Apart(history, x, tx[x], w, tx[w])
    BY <1>0 DEF CallsOK
  <2> QED
    BY <1>1, <2>3, <2>4 DEF Apart
<1>14. CallsOK(history', tx', Workers)
  BY <1>8, <1>10, <1>11, <1>12, <1>13, CallsJoin
<1>15. Shape'
  <2>1. \A x \in Workers : tx'[x] \in CallStates
    BY <1>7, <1>8, <1>9 DEF CallStates
  <2>2. tx' = [x \in Workers |-> tx'[x]]
    BY <1>1
  <2>3. tx' \in [Workers -> CallStates]
    BY <2>1, <2>2
  <2> QED
    BY <1>0, <1>1, <2>3 DEF Shape
<1> QED
  BY <1>0, <1>5, <1>14, <1>15 DEF RemediationInv

(* What a call has checked is filed under its time.                        *)
LEMMA FileAsKeeps ==
    ASSUME RemediationInv, NEW w \in Workers, NEW kind, NEW next \in Phases,
           \/ tx[w].pc = "stamped" /\ kind = tx[w].kind
           \/ tx[w].pc = "due" /\ kind = "ESCALATED",
           R!FileAs(w, kind, next), UNCHANGED <<degraded, reports, notice, actions, turns>>
    PROVE  RemediationInv'
<1>0. /\ Shape /\ HistoryOK(history) /\ EntriesOK(history)
      /\ history \in Seq(R!Entry) /\ CallsOK(history, tx, Workers)
  BY DEF RemediationInv, HistoryOK
<1>1. tx[w] \in R!Busy /\ tx[w].quiet \in BOOLEAN
  BY <1>0, CallShape
<1>2. PICK s : s = tx[w]
  OBVIOUS
<1>3. history' = R!FiledAt(history, w, kind, s.owner, s.quiet)
  BY <1>2 DEF R!FileAs
<1>4. /\ HistoryOK(history') /\ EntriesOK(history')
      /\ R!MarksOf(history', w) # {} /\ CallsOK(history', tx, Workers \ {w})
  <2>1. \/ s.pc = "stamped" /\ kind = s.kind
        \/ s.pc = "due" /\ kind = "ESCALATED"
    BY <1>2
  <2>2. s.quiet \in BOOLEAN
    BY <1>1, <1>2
  <2> QED
    BY <1>0, <1>2, <1>3, <2>1, <2>2, Filing
<1>5. PICK t : t = [s EXCEPT !.pc = next, !.owner = Nobody, !.quiet = TRUE]
  OBVIOUS
<1>6. t \in CallStates /\ t.pc \in Phases
  <2>1. s \in R!Busy /\ next \in {"written", "running", "worked", "retained", "filed", "escalated", "notifying"}
    BY <1>1, <1>2 DEF Phases
  <2>2. t \in R!Busy /\ t.pc = next
    BY <1>5, <2>1 DEF R!Busy
  <2> QED
    BY <2>2 DEF CallStates
<1>7. /\ tx' \in [Workers -> CallStates]
      /\ tx'[w] = t
      /\ \A x \in Workers \ {w} : SaysNoMore(tx[x], tx'[x])
  <2>1. R!Continue(w, t)
    BY <1>2, <1>5 DEF R!FileAs
  <2> QED
    BY <1>6, <2>1, Continuing
<1>8. Shape'
  BY <1>0, <1>7 DEF Shape
<1> QED
  BY <1>4, <1>6, <1>7, <1>8, CalmStep

LEMMA FileActionKeeps ==
    ASSUME RemediationInv, NEW w \in Workers, R!FileAction(w)
    PROVE  RemediationInv'
<1>1. "written" \in Phases
  BY DEF Phases
<1> QED
  BY <1>1, FileAsKeeps DEF R!FileAction

LEMMA EscalateKeeps ==
    ASSUME RemediationInv, NEW w \in Workers, R!Escalate(w)
    PROVE  RemediationInv'
<1>1. "escalated" \in Phases
  BY DEF Phases
<1> QED
  BY <1>1, FileAsKeeps DEF R!Escalate

(* A run takes its time.                                                   *)
LEMMA BeginRunKeeps ==
    ASSUME RemediationInv, NEW w \in Workers, NEW kind \in {"MONITOR", "RECOVER"},
           tx[w] = R!NoCall, R!BeginRun(w, kind), actions' \in 0..MaxActions
    PROVE  RemediationInv'
<1>0. /\ R!RemediationAssumption /\ HistoryOK(history) /\ EntriesOK(history)
      /\ history \in Seq(R!Entry) /\ Shape /\ CallsOK(history, tx, Workers)
  BY DEF RemediationInv, HistoryOK
<1>1. /\ history' = Append(history, R!NowMark(w))
      /\ R!Continue(w, R!Call("running", kind, Nobody))
      /\ UNCHANGED <<degraded, reports, notice, turns>>
  BY DEF R!BeginRun
<1>2. R!MarksOf(history, w) = {}
  BY <1>0, CallMarks DEF R!NoCall
<1>3. /\ HistoryOK(history') /\ EntriesOK(history')
      /\ R!MarksOf(history', w) # {} /\ CallsOK(history', tx, Workers \ {w})
  <2>1. w \notin Workers \ {w} /\ CallsOK(history, tx, Workers \ {w})
    BY <1>0 DEF CallsOK
  <2>2. /\ HistoryOK(history') /\ EntriesOK(history')
        /\ R!MarksOf(history', w) = {Len(history) + 1}
        /\ \A calls, W : w \notin W /\ CallsOK(history, calls, W) => CallsOK(history', calls, W)
    BY <1>0, <1>1, <1>2, Marking
  <2> QED
    BY <2>1, <2>2
<1>4. PICK t : t = R!Call("running", kind, Nobody)
  OBVIOUS
<1>5. t \in R!Busy /\ t.pc = "running"
  <2>1. /\ "running" \in Phases \cup {"checked"}
        /\ kind \in R!RunKinds \cup R!Ownership \cup {"RESOLVED"}
        /\ Nobody \in Operators \cup {Nobody}
    BY DEF Phases, R!RunKinds, R!Ownership
  <2>2. R!RemediationAssumption
    BY <1>0
  <2>3. /\ R!Call("running", kind, Nobody) \in R!Busy
        /\ R!Call("running", kind, Nobody).pc = "running"
        /\ R!Call("running", kind, Nobody).kind = kind
        /\ R!Call("running", kind, Nobody).owner = Nobody
    BY ONLY <2>1, <2>2, CallBegun
  <2> QED
    BY <1>4, <2>3
<1>6. /\ tx' \in [Workers -> CallStates]
      /\ tx'[w] = t
      /\ \A x \in Workers \ {w} : SaysNoMore(tx[x], tx'[x])
  BY <1>1, <1>4, <1>5, Continuing DEF CallStates
<1>7. Shape'
  BY <1>0, <1>1, <1>6 DEF Shape
<1> QED
  BY <1>3, <1>5, <1>6, <1>7, CalmStep DEF Phases

(* An operator's run, and the scheduler's.                                 *)
LEMMA AskRunKeeps ==
    ASSUME RemediationInv, NEW w \in Workers, NEW u \in Operators,
           NEW kind \in {"MONITOR", "RECOVER"}, R!AskRun(w, u, kind)
    PROVE  RemediationInv'
BY AskShape, BeginRunKeeps DEF R!AskRun

LEMMA ScheduleKeeps ==
    ASSUME RemediationInv, R!Schedule
    PROVE  RemediationInv'
<1>1. Scheduler \in Workers /\ actions' \in 0..MaxActions
  BY DEF RemediationInv, R!RemediationAssumption, R!Schedule, Shape
<1>2. PICK kind \in {"MONITOR", "RECOVER"} : R!BeginRun(Scheduler, kind)
  BY DEF R!Schedule
<1> QED
  BY <1>1, <1>2, BeginRunKeeps DEF R!Schedule

(* Retention deletes old entries, behind every mark.                       *)
LEMMA RetainKeeps ==
    ASSUME RemediationInv, NEW w \in Workers, R!Retain(w)
    PROVE  RemediationInv'
<1>0. /\ HistoryOK(history) /\ EntriesOK(history) /\ history \in Seq(R!Entry)
      /\ Shape /\ CallsOK(history, tx, Workers)
  BY DEF RemediationInv, HistoryOK
<1>1. /\ tx[w].pc \in {"written", "running", "worked"}
      /\ history' \in R!Pruned(history)
      /\ UNCHANGED <<degraded, reports, notice, actions, turns>>
  BY DEF R!Retain
<1>2. PICK next \in {"retained", "filed"} : R!Continue(w, [tx[w] EXCEPT !.pc = next])
  BY DEF R!Retain
<1>3. tx[w] \in R!Busy
  BY <1>0, <1>1, CallShape
<1>4. PICK t : t = [tx[w] EXCEPT !.pc = next]
  OBVIOUS
<1>5. t \in CallStates /\ t.pc \in Phases
  <2>1. next \in Phases
    BY DEF Phases
  <2> QED
    BY <1>3, <1>4, <2>1, BusyShape DEF CallStates
<1>6. /\ tx' \in [Workers -> CallStates]
      /\ tx'[w] = t
      /\ \A x \in Workers \ {w} : SaysNoMore(tx[x], tx'[x])
  BY <1>2, <1>4, <1>5, Continuing
<1>7. /\ HistoryOK(history') /\ EntriesOK(history')
      /\ R!MarksOf(history', w) # {} /\ CallsOK(history', tx, Workers \ {w})
  <2>1. R!MarksOf(history, w) # {}
    <3>1. tx[w].pc \in Phases
      BY <1>1 DEF Phases
    <3> QED
      BY <1>0, <3>1, CallMarks
  <2>2. CallsOK(history, tx, Workers \ {w})
    BY <1>0 DEF CallsOK
  <2>3. /\ HistoryOK(history') /\ EntriesOK(history')
        /\ \A calls, W : CallsOK(history, calls, W) => CallsOK(history', calls, W)
        /\ \A x : R!MarksOf(history, x) # {} => R!MarksOf(history', x) # {}
    BY <1>0, <1>1, Pruning
  <2> QED
    BY <2>1, <2>2, <2>3
<1>8. Shape'
  BY <1>0, <1>1, <1>6 DEF Shape
<1> QED
  BY <1>5, <1>6, <1>7, <1>8, CalmStep

(* A report is filed.                                                      *)
LEMMA ReportKeeps ==
    ASSUME RemediationInv, NEW w \in Workers, NEW next \in CallStates,
           tx[w].pc \in Phases, next.pc \in Phases,
           R!Filed(w, tx[w], next), degraded' \in BOOLEAN,
           UNCHANGED <<history, notice, actions, turns>>
    PROVE  RemediationInv'
<1>0. /\ HistoryOK(history) /\ EntriesOK(history) /\ Shape /\ CallsOK(history, tx, Workers)
  BY DEF RemediationInv
<1>1. tx[w] \in R!Busy
  BY <1>0, CallShape DEF Phases
<1>2. /\ reports' \in Seq(R!Outcomes) /\ Len(reports') <= Threshold
      /\ tx' \in [Workers -> CallStates]
      /\ tx'[w] = next
      /\ \A x \in Workers \ {w} : SaysNoMore(tx[x], tx'[x])
  BY <1>1, FiledShape
<1>3. /\ HistoryOK(history') /\ EntriesOK(history') /\ CallsOK(history', tx, Workers \ {w})
      /\ R!MarksOf(history', w) # {}
  <2>1. CallsOK(history, tx, Workers \ {w}) /\ R!MarksOf(history, w) # {}
    <3>1. CallsOK(history, tx, Workers \ {w})
      BY <1>0 DEF CallsOK
    <3>2. R!MarksOf(history, w) # {}
      BY <1>0, CallMarks
    <3> QED
      BY <3>1, <3>2
  <2> QED
    BY <1>0, <2>1
<1>4. Shape'
  BY <1>0, <1>2 DEF Shape
<1> QED
  BY <1>2, <1>3, <1>4, CalmStep

(* A recovery with nothing to recover.                                     *)
LEMMA SkipRecoveryKeeps ==
    ASSUME RemediationInv, NEW w \in Workers, R!SkipRecovery(w)
    PROVE  RemediationInv'
<1>1. /\ tx[w].pc = "running" /\ R!Filed(w, tx[w], [tx[w] EXCEPT !.pc = "filed"])
      /\ UNCHANGED <<degraded, history, notice, actions, turns>>
  BY DEF R!SkipRecovery
<1>2. Shape
  BY DEF RemediationInv
<1>3. tx[w] \in R!Busy
  BY <1>1, <1>2, CallShape
<1>4. PICK t : t = [tx[w] EXCEPT !.pc = "filed"]
  OBVIOUS
<1>5. t \in CallStates /\ t.pc \in Phases /\ tx[w].pc \in Phases
  BY <1>1, <1>3, <1>4, BusyShape DEF Phases, CallStates
<1>6. degraded' \in BOOLEAN
  BY <1>1, <1>2 DEF Shape
<1> QED
  BY <1>1, <1>4, <1>5, <1>6, ReportKeeps

(* A recovery does its work.                                               *)
LEMMA RecoverKeeps ==
    ASSUME RemediationInv, NEW w \in Workers, R!Recover(w)
    PROVE  RemediationInv'
<1>0. Shape /\ CallsOK(history, tx, Workers)
  BY DEF RemediationInv
<1>1. /\ tx[w].pc = "running" /\ degraded' \in {degraded, FALSE}
      /\ UNCHANGED <<history, reports, notice, actions, turns>>
  BY DEF R!Recover, R!files
<1>2. PICK o \in R!Outcomes : R!Continue(w, [tx[w] EXCEPT !.pc = "worked", !.outcome = o])
  <2>1. (IF degraded' THEN "breach" ELSE "ok") \in R!Outcomes
    BY DEF R!Outcomes
  <2> QED
    BY <2>1 DEF R!Recover
<1>3. tx[w] \in R!Busy
  BY <1>0, <1>1, CallShape
<1>4. PICK t : t = [tx[w] EXCEPT !.pc = "worked", !.outcome = o]
  OBVIOUS
<1>5. t \in CallStates /\ t.pc \in Phases
  <2>1. "worked" \in Phases
    BY DEF Phases
  <2> QED
    BY <1>3, <1>4, <2>1, BusyShape DEF CallStates
<1>6. R!MarksOf(history, w) # {}
  BY <1>0, <1>1, CallMarks DEF Phases
<1>7. degraded' \in BOOLEAN /\ actions' \in 0..MaxActions /\ turns' \in 0..MaxTurns
  BY <1>0, <1>1 DEF Shape
<1> QED
  BY <1>1, <1>2, <1>4, <1>5, <1>6, <1>7, QuietStep

(* A run ends with its report.                                             *)
LEMMA FileReportKeeps ==
    ASSUME RemediationInv, NEW w \in Workers, R!FileReport(w)
    PROVE  RemediationInv'
<1>1. /\ tx[w].pc = "retained"
      /\ R!Filed(w, tx[w], [tx[w] EXCEPT !.pc = "filed", !.outcome = "ok"])
      /\ UNCHANGED <<history, notice, actions, turns>>
      /\ degraded' \in {degraded, FALSE}
  BY DEF R!FileReport
<1>2. Shape
  BY DEF RemediationInv
<1>3. tx[w] \in R!Busy
  BY <1>1, <1>2, CallShape
<1>4. PICK t : t = [tx[w] EXCEPT !.pc = "filed", !.outcome = "ok"]
  OBVIOUS
<1>5. t \in CallStates /\ t.pc \in Phases /\ tx[w].pc \in Phases
  <2>1. "filed" \in Phases /\ "ok" \in R!Outcomes /\ "retained" \in Phases
    BY DEF Phases, R!Outcomes
  <2> QED
    BY <1>1, <1>3, <1>4, <2>1, BusyShape DEF CallStates
<1>6. degraded' \in BOOLEAN
  BY <1>1, <1>2 DEF Shape
<1> QED
  BY <1>1, <1>4, <1>5, <1>6, ReportKeeps

(* A call is over, and with it its mark.                                   *)
LEMMA EndKeeps ==
    ASSUME RemediationInv, NEW w \in Workers, history' = R!Unmarked(history, w),
           tx' \in [Workers -> CallStates], tx'[w] = R!NoCall,
           \A x \in Workers \ {w} : SaysNoMore(tx[x], tx'[x]),
           reports' \in Seq(R!Outcomes), Len(reports') <= Threshold,
           degraded' \in BOOLEAN, notice' \in {"NONE", "UNREAD", "READ"},
           actions' \in 0..MaxActions, turns' \in 0..MaxTurns
    PROVE  RemediationInv'
<1>0. HistoryOK(history) /\ EntriesOK(history) /\ history \in Seq(R!Entry)
  BY DEF RemediationInv, HistoryOK
<1>1. /\ HistoryOK(history') /\ EntriesOK(history') /\ R!MarksOf(history', w) = {}
      /\ \A calls, W : w \notin W /\ CallsOK(history, calls, W) => CallsOK(history', calls, W)
  BY <1>0, Unmarking
<1>2. CallsOK(history', tx, Workers \ {w})
  <2>1. w \notin Workers \ {w} /\ CallsOK(history, tx, Workers \ {w})
    BY DEF RemediationInv, CallsOK
  <2> QED
    BY <1>1, <2>1
<1>3. Shape'
  BY DEF Shape
<1> QED
  BY <1>1, <1>2, <1>3, CalmStep

(* A call fails: an operator's is over, the scheduler's is a failed run.   *)
LEMMA FailKeeps ==
    ASSUME RemediationInv, NEW w \in Workers, R!Fail(w)
    PROVE  RemediationInv'
<1>0. R!RemediationAssumption /\ Shape /\ CallsOK(history, tx, Workers)
  BY DEF RemediationInv
<1>1. /\ tx[w] # R!NoCall /\ turns' \in 0..MaxTurns
      /\ notice' = notice /\ actions' = actions
  <2>1. /\ tx[w] # R!NoCall /\ turns < MaxTurns /\ turns' = turns + 1
        /\ notice' = notice /\ actions' = actions
    BY DEF R!Fail
  <2>2. turns' \in 0..MaxTurns
    BY <1>0, <2>1 DEF Shape, R!RemediationAssumption
  <2> QED
    BY <2>1, <2>2
<1>2. tx[w] \in R!Busy
  BY <1>0, <1>1, CallShape
<1>3. CASE w # Scheduler
  <2>1. /\ history' = R!Unmarked(history, w) /\ R!Continue(w, R!NoCall)
        /\ UNCHANGED <<degraded, reports>>
    BY <1>3 DEF R!Fail
  <2>2. /\ tx' \in [Workers -> CallStates] /\ tx'[w] = R!NoCall
        /\ \A x \in Workers \ {w} : SaysNoMore(tx[x], tx'[x])
    BY <2>1, Continuing DEF CallStates
  <2>3. /\ reports' \in Seq(R!Outcomes) /\ Len(reports') <= Threshold
        /\ degraded' \in BOOLEAN /\ notice' \in {"NONE", "UNREAD", "READ"}
        /\ actions' \in 0..MaxActions
    BY <1>0, <1>1, <2>1 DEF Shape
  <2> QED
    BY <1>1, <2>1, <2>2, <2>3, EndKeeps
<1>4. CASE w = Scheduler
  <2>1. PICK behind \in {tx[w].behind} \cup
                 (IF tx[w].pc \in {"running", "worked", "retained"} THEN {} ELSE {R!More(tx[w].behind)}) :
          LET f == [R!Call("worked", "FAILURE", Nobody) EXCEPT !.outcome = R!FailedRun, !.behind = behind] IN
          IF tx[w].kind # "FAILURE"
          THEN /\ degraded' \in {degraded, TRUE}
               /\ R!Continue(w, f)
               /\ UNCHANGED R!files
          ELSE /\ R!Filed(w, f, R!NoCall)
               /\ history' = R!Unmarked(history, w)
               /\ UNCHANGED degraded
    BY <1>4 DEF R!Fail
  <2>2. behind \in 0..Threshold
    BY <1>0, <1>2, <2>1 DEF R!Busy, R!More, R!RemediationAssumption
  <2>3. PICK f : f = [R!Call("worked", "FAILURE", Nobody) EXCEPT !.outcome = R!FailedRun, !.behind = behind]
    OBVIOUS
  <2>4. f \in R!Busy /\ f.pc = "worked"
    <3>1. R!FailedRun \in R!Outcomes
      BY DEF R!FailedRun, R!Outcomes
    <3>2. PICK c : c = R!Call("worked", "FAILURE", Nobody)
      OBVIOUS
    <3>3. c \in R!Busy /\ c.pc = "worked"
      <4>1. /\ "worked" \in Phases \cup {"checked"}
            /\ "FAILURE" \in R!RunKinds \cup R!Ownership \cup {"RESOLVED"}
            /\ Nobody \in Operators \cup {Nobody}
        BY DEF Phases, R!RunKinds
      <4>2. R!RemediationAssumption
        BY <1>0
      <4> QED
        BY ONLY <3>2, <4>1, <4>2, CallBegun
    <3>4. f = [c EXCEPT !.outcome = R!FailedRun, !.behind = behind]
      BY <2>3, <3>2
    <3> QED
      BY <2>2, <3>1, <3>3, <3>4 DEF R!Busy
  <2>5. CASE tx[w].kind # "FAILURE"
    <3>1. /\ degraded' \in {degraded, TRUE} /\ R!Continue(w, f)
          /\ UNCHANGED <<history, reports>>
      BY <2>1, <2>3, <2>5 DEF R!files
    <3>2. R!MarksOf(history, w) # {}
      <4>1. tx[w].pc \in Phases \cup {"checked", "stamped", "due"}
        BY <1>2 DEF R!Busy, Phases
      <4>2. tx[w].pc # "checked"
        BY <1>0, <1>4, CallMarks DEF CallOK
      <4> QED
        BY <1>0, <4>1, <4>2, CallMarks
    <3>3. degraded' \in BOOLEAN /\ actions' \in 0..MaxActions
      BY <1>0, <1>1, <3>1 DEF Shape
    <3>4. f \in CallStates /\ f.pc \in Phases
      BY <2>4 DEF CallStates, Phases
    <3> QED
      BY <1>1, <3>1, <3>2, <3>3, <3>4, QuietStep
  <2>6. CASE tx[w].kind = "FAILURE"
    <3>1. /\ R!Filed(w, f, R!NoCall) /\ history' = R!Unmarked(history, w) /\ UNCHANGED degraded
      BY <2>1, <2>3, <2>6
    <3>2. R!NoCall \in CallStates
      BY DEF CallStates
    <3>3. /\ reports' \in Seq(R!Outcomes) /\ Len(reports') <= Threshold
          /\ tx' \in [Workers -> CallStates]
          /\ tx'[w] = R!NoCall
          /\ \A x \in Workers \ {w} : SaysNoMore(tx[x], tx'[x])
      BY <2>4, <3>1, <3>2, FiledShape
    <3>4. /\ degraded' \in BOOLEAN /\ notice' \in {"NONE", "UNREAD", "READ"}
          /\ actions' \in 0..MaxActions
      BY <1>0, <1>1, <3>1 DEF Shape
    <3> QED
      BY <1>1, <3>1, <3>3, <3>4, EndKeeps
  <2> QED
    BY <2>5, <2>6
<1> QED
  BY <1>3, <1>4

(* What is read of the posture and put into the notification.              *)
LEMMA ViewShape ==
    ASSUME NEW t \in R!Busy, NEW h, NEW k
    PROVE  R!Viewed(t, h, k) \in CallStates /\ R!Viewed(t, h, k).pc \in Phases
<1>1. PICK v \in {"UNREAD", "READ"} :
        R!Viewed(t, h, k) = [t EXCEPT !.pc = "notifying", !.view = v]
  BY DEF R!Viewed
<1>2. PICK s : s = [t EXCEPT !.pc = "notifying", !.view = v]
  OBVIOUS
<1>3. s \in R!Busy /\ s.pc = "notifying"
  BY <1>2 DEF R!Busy
<1> HIDE DEF R!Viewed
<1> QED
  BY <1>1, <1>2, <1>3 DEF CallStates, Phases

(* A posture in which nothing is due, or not any more.                     *)
LEMMA ReadCalmly ==
    ASSUME RemediationInv, NEW w \in Workers, tx[w].pc \in Phases,
           R!Continue(w, R!Viewed(tx[w], history, R!MarkIn(history, w))),
           UNCHANGED <<degraded, history, reports, notice, actions, turns>>
    PROVE  RemediationInv'
<1>1. Shape /\ CallsOK(history, tx, Workers)
  BY DEF RemediationInv
<1>2. PICK t : t = R!Viewed(tx[w], history, R!MarkIn(history, w))
  OBVIOUS
<1>3. t \in CallStates /\ t.pc \in Phases
  <2>1. tx[w] \in R!Busy
    BY <1>1, CallShape DEF Phases
  <2> QED
    BY <1>2, <2>1, ViewShape
<1>4. R!MarksOf(history, w) # {}
  BY <1>1, CallMarks
<1>5. degraded' \in BOOLEAN /\ actions' \in 0..MaxActions /\ turns' \in 0..MaxTurns
  BY <1>1 DEF Shape
<1> QED
  BY <1>2, <1>3, <1>4, <1>5, QuietStep

(* An escalation that is due is about to be filed: it is quiet if nothing  *)
(* that would make it undue is about to be filed under an earlier time,    *)
(* and those that are due under a later time are not quiet any more.       *)
LEMMA DueKeeps ==
    ASSUME RemediationInv, NEW w \in Workers, tx[w].pc = "filed",
           R!Due(history, R!MarkIn(history, w)), R!SyncPosture(w)
    PROVE  RemediationInv'
<1>0. /\ R!RemediationAssumption /\ Shape /\ HistoryOK(history) /\ EntriesOK(history)
      /\ history \in Seq(R!Entry) /\ CallsOK(history, tx, Workers)
  BY DEF RemediationInv, HistoryOK
<1>1. PICK k : k = R!MarkIn(history, w)
  OBVIOUS
<1>2. /\ R!MarksOf(history, w) = {k} /\ k \in 1..Len(history) /\ k \in Nat
      /\ history[k].kind = "NOW" /\ history[k].owner = w
  <2>1. R!MarksOf(history, w) # {}
    BY <1>0, CallMarks DEF Phases
  <2> QED
    BY <1>0, <1>1, <2>1, OneMark, MarkInIsMark
<1>3. PICK q \in BOOLEAN :
        /\ q => \A x \in Workers \ {w} :
                  Takes(tx[x]) \/ tx[x].pc = "due" => R!MarkIn(history, x) > k
        /\ tx' = [x \in Workers |->
             CASE x = w -> [tx[w] EXCEPT !.pc = "due", !.owner = R!Owner(history), !.quiet = q]
               [] x # w /\ tx[x].pc = "due" /\ R!MarkIn(history, x) > k
                    -> [tx[x] EXCEPT !.quiet = FALSE]
               [] OTHER -> tx[x]]
  BY <1>1 DEF R!SyncPosture, R!Taking, Takes
<1>4. UNCHANGED <<degraded, history, reports, notice, actions, turns>>
  BY DEF R!SyncPosture, R!files
<1>5. /\ R!Owner(history) \in Operators /\ DueBefore(history, k)
      /\ \A j \in (k + 1)..Len(history) : history[j].kind # "ESCALATED"
  BY <1>0, <1>1, <1>2, DueMeans
<1>6. PICK o \in Operators : o = R!Owner(history)
  BY <1>5
<1>7. PICK t : t = [tx[w] EXCEPT !.pc = "due", !.owner = o, !.quiet = q]
  OBVIOUS
<1>8. t \in R!Busy /\ t.pc = "due" /\ t.owner = o /\ t.quiet = q
  <2>1. tx[w] \in R!Busy
    BY <1>0, CallShape
  <2> QED
    BY <1>7, <2>1 DEF R!Busy
<1>9. tx'[w] = t
  BY <1>3, <1>6, <1>7
<1>10. ASSUME NEW x \in Workers \ {w}
       PROVE  /\ tx'[x] \in CallStates /\ SaysNoMore(tx[x], tx'[x])
              /\ tx[x].pc = "due" /\ R!MarkIn(history, x) > k => ~tx'[x].quiet
  <2>1. CASE tx[x].pc = "due" /\ R!MarkIn(history, x) > k
    <3>1. tx[x] \in R!Busy
      BY <1>0, <2>1, CallShape
    <3>2. tx'[x] = [tx[x] EXCEPT !.quiet = FALSE]
      BY <1>3, <2>1
    <3> QED
      BY <3>1, <3>2 DEF R!Busy, CallStates, SaysNoMore
  <2>2. CASE ~(tx[x].pc = "due" /\ R!MarkIn(history, x) > k)
    <3>1. tx'[x] = tx[x]
      BY <1>3, <2>2
    <3> QED
      BY <1>0, <2>2, <3>1 DEF Shape, SaysNoMore
  <2> QED
    BY <2>1, <2>2
<1>11. CallsOK(history, tx', Workers \ {w})
  <2>1. CallsOK(history, tx, Workers \ {w})
    BY <1>0 DEF CallsOK
  <2> QED
    BY <1>10, <2>1, CallsSayNoMore
<1>12. CallOK(history, w, t)
  <2>1. ASSUME NEW j \in (k + 1)..Len(history) PROVE ~Misses(t, history[j].kind)
    BY <1>5, <1>8 DEF Misses, Takes
  <2> QED
    BY <1>2, <1>5, <1>8, <2>1 DEF CallOK
<1>13. ASSUME NEW x \in Workers \ {w}, NEW i \in R!MarksOf(history, x)
       PROVE  i = R!MarkIn(history, x) /\ i # k /\ i \in Nat
  <2>1. i = R!MarkIn(history, x) /\ i \in 1..Len(history) /\ history[i].owner = x
    BY <1>0, OneMark
  <2> QED
    BY <1>2, <2>1
<1>14. ASSUME NEW x \in Workers \ {w} PROVE Apart(history, w, t, x, tx'[x])
  <2> SUFFICES ASSUME Minds(tx'[x], "ESCALATED")
               PROVE  tx'[x].pc # "checked" /\ \A i \in R!MarksOf(history, x) : i < k
    BY <1>2, <1>8 DEF Apart, Files
  <2>1. tx'[x].pc = "due" /\ tx'[x].quiet
    BY DEF Minds, R!Ownership, R!Handoffs
  <2>2. tx[x].pc = "due" /\ ~(R!MarkIn(history, x) > k)
    BY <1>10, <2>1 DEF SaysNoMore
  <2>3. ASSUME NEW i \in R!MarksOf(history, x) PROVE i < k
    BY <1>2, <1>13, <2>2
  <2> QED
    BY <2>1, <2>3
<1>15. ASSUME NEW x \in Workers \ {w} PROVE Apart(history, x, tx'[x], w, t)
  <2> SUFFICES ASSUME Minds(t, Files(tx'[x])), NEW j \in R!MarksOf(history, x)
               PROVE  k < j
    BY <1>2, <1>8 DEF Apart
  <2>1. q /\ Files(tx'[x]) # "NOW"
    BY <1>8 DEF Minds, R!Ownership, R!Handoffs
  <2>2. Files(tx[x]) = Files(tx'[x])
    BY <1>10 DEF Files, Takes, SaysNoMore
  <2>3. Takes(tx[x]) \/ tx[x].pc = "due"
    BY <2>1, <2>2 DEF Files
  <2>4. R!MarkIn(history, x) > k
    BY <1>3, <2>1, <2>3
  <2> QED
    BY <1>2, <1>13, <2>4
<1>16. CallsOK(history, tx', Workers)
  BY <1>9, <1>11, <1>12, <1>14, <1>15, CallsJoin
<1>17. HistoryOK(history') /\ EntriesOK(history') /\ CallsOK(history', tx', Workers)
  BY <1>0, <1>4, <1>16
<1>18. Shape'
  <2>1. \A x \in Workers : tx'[x] \in CallStates
    BY <1>8, <1>9, <1>10 DEF CallStates
  <2>2. tx' = [x \in Workers |-> tx'[x]]
    BY <1>3
  <2>3. tx' \in [Workers -> CallStates]
    BY <2>1, <2>2
  <2> QED
    BY <1>0, <1>4, <2>3 DEF Shape
<1> QED
  BY <1>0, <1>17, <1>18 DEF RemediationInv

(* The posture is read.                                                    *)
LEMMA SyncPostureKeeps ==
    ASSUME RemediationInv, NEW w \in Workers, R!SyncPosture(w)
    PROVE  RemediationInv'
<1>1. tx[w].pc = "filed" /\ UNCHANGED <<degraded, history, reports, notice, actions, turns>>
  BY DEF R!SyncPosture, R!files
<1>2. CASE R!Due(history, R!MarkIn(history, w))
  BY <1>1, <1>2, DueKeeps
<1>3. CASE ~R!Due(history, R!MarkIn(history, w))
  <2>1. tx' = [x \in Workers |-> IF x = w THEN R!Viewed(tx[w], history, R!MarkIn(history, w)) ELSE tx[x]]
    BY <1>3 DEF R!SyncPosture
  <2>2. R!Continue(w, R!Viewed(tx[w], history, R!MarkIn(history, w)))
    <3> HIDE DEF R!Viewed, R!MarkIn
    <3>1. PICK t : t = R!Viewed(tx[w], history, R!MarkIn(history, w))
      OBVIOUS
    <3>2. DOMAIN tx = Workers /\ tx = [x \in DOMAIN tx |-> tx[x]]
      BY DEF RemediationInv, Shape
    <3>3. tx' = [tx EXCEPT ![w] = t]
      BY <2>1, <3>1, <3>2
    <3> QED
      BY <3>1, <3>3 DEF R!Continue
  <2> QED
    BY <1>1, <2>2, ReadCalmly DEF Phases
<1> QED
  BY <1>2, <1>3

(* It is read again after an escalation,                                   *)
LEMMA ReadAgainKeeps ==
    ASSUME RemediationInv, NEW w \in Workers, R!ReadAgain(w)
    PROVE  RemediationInv'
<1>1. tx[w].pc \in Phases /\ UNCHANGED <<degraded, history, reports, notice, actions, turns>>
  BY DEF R!ReadAgain, R!files, Phases
<1> QED
  BY <1>1, ReadCalmly DEF R!ReadAgain

(* and the notification ends the call.                                     *)
LEMMA NotifyKeeps ==
    ASSUME RemediationInv, NEW w \in Workers, R!Notify(w)
    PROVE  RemediationInv'
<1>0. Shape
  BY DEF RemediationInv
<1>1. /\ tx[w].pc = "notifying" /\ notice' = tx[w].view
      /\ history' = R!Unmarked(history, w)
      /\ R!Continue(w, R!NoCall)
      /\ UNCHANGED <<degraded, reports, actions, turns>>
  BY DEF R!Notify
<1>2. notice' \in {"NONE", "UNREAD", "READ"}
  <2>1. tx[w] \in R!Busy
    BY <1>0, <1>1, CallShape
  <2> QED
    BY <1>1, <2>1 DEF R!Busy
<1>3. /\ tx' \in [Workers -> CallStates] /\ tx'[w] = R!NoCall
      /\ \A x \in Workers \ {w} : SaysNoMore(tx[x], tx'[x])
  BY <1>1, Continuing DEF CallStates
<1>4. /\ reports' \in Seq(R!Outcomes) /\ Len(reports') <= Threshold
      /\ degraded' \in BOOLEAN /\ actions' \in 0..MaxActions /\ turns' \in 0..MaxTurns
  BY <1>0, <1>1 DEF Shape
<1> QED
  BY <1>1, <1>2, <1>3, <1>4, EndKeeps

(* A window of time goes by.                                               *)
LEMMA PassKeeps ==
    ASSUME RemediationInv, R!Pass
    PROVE  RemediationInv'
<1>0. /\ R!RemediationAssumption /\ HistoryOK(history) /\ EntriesOK(history)
      /\ history \in Seq(R!Entry) /\ Shape /\ CallsOK(history, tx, Workers)
  BY DEF RemediationInv, HistoryOK
<1>1. /\ \A i \in DOMAIN history : history[i].kind = "NOW" => history[i].age = 0
      /\ history' = [i \in DOMAIN history |->
            [history[i] EXCEPT !.age = IF @ = R!Oldest THEN @ ELSE @ + 1]]
      /\ UNCHANGED <<degraded, reports, notice, tx, actions, turns>>
  BY DEF R!Pass
<1>2. /\ HistoryOK(history') /\ EntriesOK(history')
      /\ \A calls, W : CallsOK(history, calls, W) => CallsOK(history', calls, W)
  BY <1>0, <1>1, Passing
<1>3. CallsOK(history', tx', Workers)
  BY <1>0, <1>1, <1>2
<1>4. Shape'
  BY <1>0, <1>1 DEF Shape
<1> QED
  BY <1>0, <1>2, <1>3, <1>4 DEF RemediationInv

(* Telemetry changes.                                                      *)
LEMMA ChangeKeeps ==
    ASSUME RemediationInv, R!Change
    PROVE  RemediationInv'
<1>1. Shape /\ R!RemediationAssumption
  BY DEF RemediationInv
<1>2. UNCHANGED <<history, reports, notice, tx, actions>> /\ degraded' = ~degraded
  BY DEF R!Change, R!files
<1>3. turns' \in 0..MaxTurns
  BY <1>1 DEF R!Change, Shape, R!RemediationAssumption
<1>4. Shape'
  BY <1>1, <1>2, <1>3 DEF Shape
<1> QED
  BY <1>2, <1>4 DEF RemediationInv

(* Every step keeps the invariant.                                         *)
LEMMA RemediationInductive ==
    ASSUME RemediationInv, [R!Next]_R!vars
    PROVE  RemediationInv'
<1>1. ASSUME NEW w \in Workers, R!Step(w) PROVE RemediationInv'
  BY <1>1, StampKeeps, FileActionKeeps, RetainKeeps, SkipRecoveryKeeps, RecoverKeeps,
     FileReportKeeps, SyncPostureKeeps, EscalateKeeps, ReadAgainKeeps, NotifyKeeps DEF R!Step
<1>2. ASSUME NEW w \in Workers, NEW u \in Operators,
             \/ R!Acknowledge(w, u) \/ R!Reacknowledge(w, u) \/ R!Resolve(w, u)
             \/ \E kind \in R!Handoffs, v \in Operators : R!Handoff(w, kind, u, v)
             \/ \E kind \in {"MONITOR", "RECOVER"} : R!AskRun(w, u, kind)
      PROVE  RemediationInv'
  BY <1>2, AcknowledgeKeeps, ReacknowledgeKeeps, ResolveKeeps, HandoffKeeps, AskRunKeeps
<1>3. ASSUME UNCHANGED R!vars PROVE RemediationInv'
  BY <1>3 DEF R!vars, RemediationInv, Shape
<1> QED
  BY <1>1, <1>2, <1>3, FailKeeps, ScheduleKeeps, PassKeeps, ChangeKeeps DEF R!Next

-----------------------------------------------------------------------------
(* What the invariant says.                                                *)

(* What R says of the state is what RemediationState says of it.           *)
LEMMA SameState ==
    /\ R!RemediationAssumption
    /\ R!Entry = Entry /\ R!Outcomes = Outcomes /\ R!NoCall = NoCall /\ R!Busy = Busy
    /\ R!Ownership = Ownership /\ R!Oldest = Oldest
    /\ \A h, kinds : R!Latest(h, kinds) = Latest(h, kinds)
<1>1. R!Ownership = Ownership /\ R!Oldest = Oldest /\ R!EntryKinds = EntryKinds
  BY DEF R!Ownership, Ownership, R!Handoffs, Handoffs, R!Oldest, Oldest, R!EntryKinds, EntryKinds
<1>2. R!RunKinds = RunKinds /\ R!Outcomes = Outcomes
  BY DEF R!RunKinds, RunKinds, R!Outcomes, Outcomes
<1> QED
  BY <1>1, <1>2, RemediationAssumption
  DEF R!RemediationAssumption, RemediationAssumption, R!Entry, Entry, R!NoCall, NoCall, R!Busy, Busy,
      R!Latest, Latest

(* The invariant has the types,                                            *)
LEMMA InvTypeOK ==
    ASSUME RemediationInv
    PROVE  RemediationTypeOK
<1>1. R!RemediationTypeOK
  BY DEF RemediationInv, Shape, HistoryOK, CallStates, R!RemediationTypeOK
<1> QED
  BY <1>1, SameState DEF RemediationTypeOK, R!RemediationTypeOK

(* the escalations that were due,                                          *)
LEMMA InvEscalations ==
    ASSUME RemediationInv
    PROVE  EscalationsAreDue
<1>1. EntriesOK(history) /\ history \in Seq(R!Entry)
  BY DEF RemediationInv, HistoryOK
<1>2. DOMAIN history = 1..Len(history)
  BY <1>1, LenProperties
<1>3. \A i \in DOMAIN history : DueAt(history, i)
  BY <1>1, <1>2 DEF EntriesOK
<1> QED
  BY <1>3, SameState DEF EscalationsAreDue, DueAt, DueBefore, Late

(* and the chain of owners.                                                *)
LEMMA InvChain ==
    ASSUME RemediationInv
    PROVE  OwnershipIsAChain
<1>1. EntriesOK(history) /\ history \in Seq(R!Entry)
  BY DEF RemediationInv, HistoryOK
<1>2. DOMAIN history = 1..Len(history) /\ Len(history) \in Nat
  BY <1>1, LenProperties
<1> SUFFICES ASSUME NEW i \in 1..Len(history), history[i].quiet
             PROVE  LET last == R!Latest(SubSeq(history, 1, i - 1), R!Ownership)
                        same == last # 0 => history[i].owner = history[last].owner IN
                    CASE history[i].kind \in {"ACKNOWLEDGED", "ASSIGNED"}   -> last = 0
                      [] history[i].kind \in {"REACKNOWLEDGED", "RESOLVED"} -> same
                      [] history[i].kind = "TRANSFERRED"                    -> last = 0 \/ ~same
                      [] OTHER                                              -> TRUE
  BY <1>2, SameState DEF OwnershipIsAChain
<1>3. PICK p, last : p = SubSeq(history, 1, i - 1) /\ last = R!Latest(p, R!Ownership)
  OBVIOUS
<1>4. p \in Seq(R!Entry) /\ Len(p) = i - 1 /\ \A l \in 1..(i - 1) : p[l] = history[l]
  <2>1. i - 1 \in 0..Len(history)
    BY <1>2
  <2> QED
    BY <1>1, <1>3, <2>1, HeadShape
<1>5. /\ last \in 0..(i - 1) /\ (last # 0 => p[last].kind \in R!Ownership)
      /\ \A j \in 1..(i - 1) : p[j].kind \in R!Ownership => j <= last
  BY <1>3, <1>4, LatestIsLast
<1>6. last # 0 => last \in 1..Len(history) /\ Before(history, last, i)
  <2>1. ASSUME last # 0 PROVE last \in 1..Len(history) /\ Before(history, last, i)
    <3>1. last \in 1..(i - 1) /\ last \in 1..Len(history) /\ history[last].kind \in R!Ownership
      BY <1>2, <1>4, <1>5, <2>1
    <3>2. ASSUME NEW l \in (last + 1)..(i - 1) PROVE history[l].kind \notin R!Ownership
      <4>1. l \in 1..(i - 1) /\ ~(l <= last)
        BY <1>2, <3>1
      <4> QED
        BY <1>4, <1>5, <4>1
    <3> QED
      BY <3>1, <3>2 DEF Before
  <2> QED
    BY <2>1
<1>7. Vacant(history, i) => last = 0
  BY <1>2, <1>4, <1>5 DEF Vacant
<1>8. LinkOK(history, i)
  BY <1>1 DEF EntriesOK
<1>9. /\ history[i].kind \in {"ACKNOWLEDGED", "ASSIGNED"} => last = 0
      /\ history[i].kind \in {"REACKNOWLEDGED", "RESOLVED"}
           => (last # 0 => history[i].owner = history[last].owner)
      /\ history[i].kind = "TRANSFERRED"
           => last = 0 \/ ~(last # 0 => history[i].owner = history[last].owner)
  BY <1>6, <1>7, <1>8 DEF LinkOK, Meets, SameOwner, OtherOwner
<1> QED
  BY <1>3, <1>9
(* Type correctness of the histories, reports, notification and calls.     *)
THEOREM RemediationTypes == R!Spec => []RemediationTypeOK
<1>1. R!Init => RemediationInv
  BY SameState, InitRemediation
<1>2. RemediationInv /\ [R!Next]_R!vars => RemediationInv'
  BY RemediationInductive
<1>3. RemediationInv => RemediationTypeOK
  BY InvTypeOK
<1> QED
  BY <1>1, <1>2, <1>3, PTL DEF R!Spec

(* An escalation is about a handoff that was let lie and was not escalated  *)
(* already, however calls overlap, files are deleted and time passes.  It  *)
(* is said of every escalation but those that, between the read of the     *)
(* posture and the filing, another call got in front of.                   *)
THEOREM EscalationsDue == R!Spec => []EscalationsAreDue
<1>1. R!Init => RemediationInv
  BY SameState, InitRemediation
<1>2. RemediationInv /\ [R!Next]_R!vars => RemediationInv'
  BY RemediationInductive
<1>3. RemediationInv => EscalationsAreDue
  BY InvEscalations
<1> QED
  BY <1>1, <1>2, <1>3, PTL DEF R!Spec

(* Each handoff takes over from the one before it, although every process  *)
(* checks an action first, takes its time then and files it last: each but *)
(* those that another one got in front of after the check.                 *)
THEOREM OwnershipChain == R!Spec => []OwnershipIsAChain
<1>1. R!Init => RemediationInv
  BY SameState, InitRemediation
<1>2. RemediationInv /\ [R!Next]_R!vars => RemediationInv'
  BY RemediationInductive
<1>3. RemediationInv => OwnershipIsAChain
  BY InvChain
<1> QED
  BY <1>1, <1>2, <1>3, PTL DEF R!Spec

=============================================================================
