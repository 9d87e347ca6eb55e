------------------------- MODULE TelemetryRemediation -------------------------
(***************************************************************************)
(* Who owns a degraded telemetry posture, when it is escalated and what    *)
(* the operators are told (packages/database/src/observability-            *)
(* runtime.ts).  Actions and runs are report files of the same directory   *)
(* tree: every process appends to them, nobody locks them, and each reader *)
(* derives the posture anew from the files in the order of their times.    *)
(***************************************************************************)
EXTENDS RemediationState, SequencesExt

files == <<history, reports>>
vars == <<degraded, history, reports, notice, tx, actions, turns>>

Init ==
    /\ degraded \in BOOLEAN
    /\ history  = <<>>
    /\ reports  = <<>>
    /\ notice   = "NONE"
    /\ tx       = [w \in Workers |-> NoCall]
    /\ actions  = 0
    /\ turns    = 0

-----------------------------------------------------------------------------
(* What is derived from a history h.                                       *)

(* buildTelemetryRecoveryEscalation: the newest runs all breach.           *)
Breaching     == Len(reports) = Threshold /\ \A i \in DOMAIN reports : reports[i] # "ok"
LastRunFailed == reports # <<>> /\ reports[1] = "failed"

(* buildAtlasObservabilityTelemetryRemediation recommends something.       *)
Needed == degraded \/ Breaching \/ LastRunFailed

(* buildTelemetryRemediationOwnership.                                     *)
Owned(h)    == Latest(h, Ownership) # 0 /\ (Needed \/ Latest(h, {"RESOLVED"}) = 0)
Resolved(h) == ~Needed /\ Latest(h, {"RESOLVED"}) # 0
Owner(h)    == IF Owned(h) THEN h[Latest(h, Ownership)].owner ELSE Nobody

(* Time from the entry i to the place k of the history (the present, when  *)
(* k is past its end), never negative.                                     *)
Elapsed(h, i, k) ==
    IF i > k THEN 0 ELSE h[i].age - (IF k \in DOMAIN h THEN h[k].age ELSE 0)
Present(h) == Len(h) + 1

(* buildTelemetryRemediationFollowUp at the time of k.                     *)
FollowUp(h, k) ==
    IF ~degraded \/ ~Owned(h) THEN "ready"
    ELSE CASE Elapsed(h, Latest(h, Ownership), k) = 0 -> "ready"
           [] Elapsed(h, Latest(h, Ownership), k) = 1 -> "warning"
           [] OTHER -> "critical"

(* Faulty: an acknowledged posture is silent however late it is.           *)
AttentionUntilOwned(h, k) == Needed /\ (Breaching \/ LastRunFailed \/ ~Owned(h))

(* The follow-up is overdue, or the owner's follow-through shows a gap,    *)
(* which it does only where the follow-up is overdue as well.              *)
Overdue(h, k) == FollowUp(h, k) # "ready"

(* buildTelemetryRemediationNotificationRecord.                            *)
Attention(h, k) ==
    Needed /\ (Breaching \/ LastRunFailed \/ ~Owned(h) \/ Overdue(h, k))

-----------------------------------------------------------------------------
(* Files and marks.                                                        *)
MarksOf(h, w) == {i \in DOMAIN h : h[i].kind = "NOW" /\ h[i].owner = w}
MarkIn(h, w)  == CHOOSE i \in MarksOf(h, w) : TRUE
NowMark(w)    == Record("NOW", w, TRUE)

Unmarked(h, w) == IF MarksOf(h, w) = {} THEN h ELSE RemoveAt(h, MarkIn(h, w))

(* An entry filed under the time of the mark of w.                         *)
FiledAt(h, w, kind, owner, quiet) ==
    LET k == MarkIn(h, w) IN
    InsertAt(h, k, [Record(kind, owner, quiet) EXCEPT !.age = h[k].age])

(* applyObservabilityRetentionPolicy deletes the actions up to some time.  *)
Pruned(h) ==
    {SubSeq(h, n + 1, Len(h)) : n \in {m \in 0..Len(h) : \A i \in 1..m : h[i].age = Oldest}}

Continue(w, t) == tx' = [tx EXCEPT ![w] = t]

(* w files what it has checked, under its time.                            *)
FileAs(w, kind, next) ==
    /\ history' = FiledAt(history, w, kind, tx[w].owner, tx[w].quiet)
    /\ Continue(w, [tx[w] EXCEPT !.pc = next, !.owner = Nobody, !.quiet = TRUE])

(* Faulty: runs are counted however old they are.                          *)
AllRuns(all) == all

NewestRuns(all) == SubSeq(all, 1, IF Len(all) > Threshold THEN Threshold ELSE Len(all))

(* The report of a run, filed behind those of the runs that began after it *)
(* (whose marks are later); w goes on as next.                             *)
More(behind) == IF behind < Threshold THEN behind + 1 ELSE behind
Filed(w, t, next) ==
    LET place == IF t.behind < Len(reports) THEN t.behind + 1 ELSE Len(reports) + 1
        early(x) == tx[x] # NoCall /\ tx[x].kind \in RunKinds /\ MarkIn(history, x) < MarkIn(history, w) IN
    /\ reports' = NewestRuns(InsertAt(reports, place, t.outcome))
    /\ tx' = [x \in Workers |->
           CASE x = w -> next
             [] x # w /\ early(x) -> [tx[x] EXCEPT !.behind = More(@)]
             [] OTHER -> tx[x]]

AskFor(w) ==
    /\ w # Scheduler /\ tx[w] = NoCall
    /\ actions < MaxActions
    /\ actions' = actions + 1

-----------------------------------------------------------------------------
(* recordObservabilityTelemetryRemediationAction.  An action is checked    *)
(* against the posture it reads, takes its time and is filed under it.     *)
(* Within a process, an acknowledgement awaits nothing between these       *)
(* steps, an assignment and a transfer await the lookup of a membership    *)
(* before they take their time, and a resolution awaits the reconciliation *)
(* of the incidents after it; but the other processes stop for none of it. *)
Taking(x) == tx[x].pc = "stamped" /\ tx[x].kind \in Ownership

Check(w, kind, owner) ==
    /\ AskFor(w)
    /\ LET quiet == \A x \in Workers : ~Taking(x) IN
       Continue(w, [Call("checked", kind, owner) EXCEPT !.quiet = quiet])
    /\ UNCHANGED <<degraded, files, notice, turns>>

Acknowledge(w, u) ==
    /\ Needed /\ ~Owned(history)
    /\ Check(w, "ACKNOWLEDGED", u)

(* Faulty: an operator acts for the owner.                                 *)
MayActAnyone(u) == TRUE

(* assertTelemetryRemediationOwnerActionAllowed.                           *)
MayAct(u) == Owner(history) \in {Nobody, u}

Reacknowledge(w, u) ==
    /\ Needed /\ Owned(history) /\ MayAct(u)
    /\ FollowUp(history, Present(history)) # "ready"
    /\ Check(w, "REACKNOWLEDGED", u)

Handoff(w, kind, u, v) ==
    /\ Needed
    /\ IF kind = "ASSIGNED" THEN ~Owned(history) /\ v # u
                            ELSE Owned(history) /\ v # Owner(history)
    /\ Check(w, kind, v)

Resolve(w, u) ==
    /\ ~Needed /\ ~Resolved(history) /\ MayAct(u)
    /\ Check(w, "RESOLVED", u)

(* An action takes its time: whoever has been checked and has not is       *)
(* behind it now.                                                          *)
Stamp(w) ==
    /\ tx[w].pc = "checked"
    /\ history' = Append(history, NowMark(w))
    /\ tx' = [x \in Workers |->
           CASE x = w -> [tx[w] EXCEPT !.pc = "stamped"]
             [] x # w /\ tx[x].pc = "checked" /\ tx[w].kind \in Ownership
                  -> [tx[x] EXCEPT !.quiet = FALSE]
             [] OTHER -> tx[x]]
    /\ UNCHANGED <<degraded, reports, notice, actions, turns>>

FileAction(w) ==
    /\ tx[w].pc = "stamped"
    /\ FileAs(w, tx[w].kind, "written")
    /\ UNCHANGED <<degraded, reports, notice, actions, turns>>

-----------------------------------------------------------------------------
(* Runs.  An operator recovers telemetry only while nobody else owns it;   *)
(* the scheduler does so whoever owns it.                                  *)
BeginRun(w, kind) ==
    /\ history' = Append(history, NowMark(w))
    /\ Continue(w, Call("running", kind, Nobody))
    /\ UNCHANGED <<degraded, reports, notice, turns>>

Schedule ==
    /\ Policy # "manual" /\ tx[Scheduler] = NoCall
    /\ BeginRun(Scheduler, IF Policy = "recover" THEN "RECOVER" ELSE "MONITOR")
    /\ UNCHANGED actions

AskRun(w, u, kind) ==
    /\ AskFor(w)
    /\ kind = "RECOVER" => MayAct(u)
    /\ BeginRun(w, kind)

(* recoverObservabilityTelemetryOwnership: with nothing degraded the       *)
(* report is filed at once; otherwise the healthy cadence sample of the    *)
(* run may be all that was missing.                                        *)
SkipRecovery(w) ==
    LET t == tx[w] IN
    /\ t.pc = "running" /\ t.kind = "RECOVER" /\ ~degraded
    /\ Filed(w, t, [t EXCEPT !.pc = "filed"])
    /\ UNCHANGED <<degraded, history, notice, actions, turns>>

Recover(w) ==
    LET t == tx[w] IN
    /\ t.pc = "running" /\ t.kind = "RECOVER"
    /\ degraded' \in {degraded, FALSE}
    /\ Continue(w, [t EXCEPT !.pc = "worked", !.outcome = IF degraded' THEN "breach" ELSE "ok"])
    /\ UNCHANGED <<files, notice, actions, turns>>

(* Retention follows an action that is filed, and a run's work.            *)
Retain(w) ==
    LET t == tx[w] IN
    /\ \/ t.pc \in {"written", "worked"}
       \/ t.pc = "running" /\ t.kind = "MONITOR"
    /\ history' \in Pruned(history)
    /\ Continue(w, [t EXCEPT !.pc = IF t.kind \in RunKinds THEN "retained" ELSE "filed"])
    /\ UNCHANGED <<degraded, reports, notice, actions, turns>>

(* The end of a run: its report, and the healthy sample of an operator's   *)
(* monitoring run.                                                         *)
FileReport(w) ==
    LET t == tx[w] IN
    /\ t.pc = "retained"
    /\ degraded' \in IF t.kind = "MONITOR" /\ w # Scheduler THEN {degraded, FALSE} ELSE {degraded}
    /\ Filed(w, t, [t EXCEPT !.pc = "filed", !.outcome = "ok"])
    /\ UNCHANGED <<history, notice, actions, turns>>

(* A call fails where it awaits.  An operator's is over.  The scheduler    *)
(* records a failed run, under the time of the cycle, and a critical       *)
(* cadence sample unless newer ones are there; of the same time as a       *)
(* report the cycle has filed before, either may count as the newer.  When *)
(* that fails as well, it files the report and nothing else.               *)
FailedRun == IF Policy = "recover" THEN "failed" ELSE "ok"

Fail(w) ==
    LET t == tx[w] IN
    /\ t # NoCall
    /\ turns < MaxTurns /\ turns' = turns + 1
    /\ IF w # Scheduler
       THEN /\ history' = Unmarked(history, w)
            /\ Continue(w, NoCall)
            /\ UNCHANGED <<degraded, reports>>
       ELSE \E behind \in {t.behind} \cup (IF t.pc \in {"running", "worked", "retained"} THEN {} ELSE {More(t.behind)}) :
            LET f == [Call("worked", "FAILURE", Nobody) EXCEPT !.outcome = FailedRun, !.behind = behind] IN
            IF t.kind # "FAILURE"
            THEN /\ degraded' \in {degraded, TRUE}
                 /\ Continue(w, f)
                 /\ UNCHANGED files
            ELSE /\ Filed(w, f, NoCall)
                 /\ history' = Unmarked(history, w)
                 /\ UNCHANGED degraded
    /\ UNCHANGED <<notice, actions>>

-----------------------------------------------------------------------------
(* Faulty: every late run escalates, also what has been escalated.         *)
DueAgain(h, k) == FollowUp(h, k) = "critical"

(* persistTelemetryRemediationEscalationIfNeeded: once for each handoff,   *)
(* when the follow-up has been missed twice over.                          *)
Due(h, k) ==
    /\ FollowUp(h, k) = "critical"
    /\ Latest(h, {"ESCALATED"}) < Latest(h, Ownership)

(* The posture as it is read at the time of the call, and what it calls    *)
(* for.                                                                    *)
Viewed(t, h, k) ==
    [t EXCEPT !.pc = "notifying", !.view = IF Attention(h, k) THEN "UNREAD" ELSE "READ"]

(* syncTelemetryRemediationNotificationFromCurrentStatus reads the posture. *)
(* An escalation that is due names the owner who is read here; of two      *)
(* processes that find one due, both file it, the later behind the other.  *)
SyncPosture(w) ==
    LET t == tx[w]
        k == MarkIn(history, w)
        first == \A x \in Workers \ {w} : Taking(x) \/ tx[x].pc = "due" => MarkIn(history, x) > k IN
    /\ t.pc = "filed"
    /\ tx' = [x \in Workers |->
           CASE x = w -> IF Due(history, k)
                         THEN [t EXCEPT !.pc = "due", !.owner = Owner(history), !.quiet = first]
                         ELSE Viewed(t, history, k)
             [] x # w /\ tx[x].pc = "due" /\ MarkIn(history, x) > k /\ Due(history, k)
                  -> [tx[x] EXCEPT !.quiet = FALSE]
             [] OTHER -> tx[x]]
    /\ UNCHANGED <<degraded, files, notice, actions, turns>>

(* The escalation is filed under the time of the call.                     *)
Escalate(w) ==
    /\ tx[w].pc = "due"
    /\ FileAs(w, "ESCALATED", "escalated")
    /\ UNCHANGED <<degraded, reports, notice, actions, turns>>

(* Its audit event is awaited, the posture is read again; and the          *)
(* notification is written of what was read.                               *)
ReadAgain(w) ==
    /\ tx[w].pc = "escalated"
    /\ Continue(w, Viewed(tx[w], history, MarkIn(history, w)))
    /\ UNCHANGED <<degraded, files, notice, actions, turns>>

Notify(w) ==
    /\ tx[w].pc = "notifying"
    /\ notice' = tx[w].view
    /\ history' = Unmarked(history, w)
    /\ Continue(w, NoCall)
    /\ UNCHANGED <<degraded, reports, actions, turns>>

-----------------------------------------------------------------------------
(* A window of follow-up time goes by.  A call outlasts no two of them.    *)
Pass ==
    /\ \A i \in DOMAIN history : history[i].kind = "NOW" => history[i].age = 0
    /\ history' = [i \in DOMAIN history |->
           [history[i] EXCEPT !.age = IF @ = Oldest THEN @ ELSE @ + 1]]
    /\ UNCHANGED <<degraded, reports, notice, tx, actions, turns>>

(* Telemetry degrades, or heals by itself.                                 *)
Change ==
    /\ turns < MaxTurns /\ turns' = turns + 1
    /\ degraded' = ~degraded
    /\ UNCHANGED <<files, notice, tx, actions>>

Step(w) ==
    \/ Stamp(w) \/ FileAction(w) \/ Retain(w)
    \/ SkipRecovery(w) \/ Recover(w) \/ FileReport(w)
    \/ SyncPosture(w) \/ Escalate(w) \/ ReadAgain(w) \/ Notify(w)

Next ==
    \/ \E w \in Workers :
         \/ Step(w) \/ Fail(w)
         \/ \E u \in Operators :
              \/ Acknowledge(w, u) \/ Reacknowledge(w, u) \/ Resolve(w, u)
              \/ \E kind \in Handoffs, v \in Operators : Handoff(w, kind, u, v)
              \/ \E kind \in {"MONITOR", "RECOVER"} : AskRun(w, u, kind)
    \/ Schedule \/ Pass \/ Change

(* Calls go on, time passes, and the scheduler of a worker that is up      *)
(* keeps starting runs.  Operators owe nothing.                            *)
Fairness ==
    /\ \A w \in Workers : WF_vars(Step(w))
    /\ WF_vars(Schedule)
    /\ WF_vars(Pass)

Spec == Init /\ [][Next]_vars /\ Fairness

-----------------------------------------------------------------------------
(* With runs recurring, the notification follows the telemetry: degraded   *)
(* for good and let lie, it is unread for good, whoever owns it; healthy   *)
(* for good, it is read.                                                   *)
NoticeFollowsTelemetry ==
    /\ <>[]degraded  => <>[](notice = "UNREAD")
    /\ <>[]~degraded => <>[](notice = "READ")
=============================================================================
