--------------------------- MODULE RemediationState ---------------------------
(***************************************************************************)
(* The state of TelemetryRemediation: what the files and the calls hold,   *)
(* and what operators may rely on when they read the history.              *)
(***************************************************************************)
EXTENDS Integers, Sequences

CONSTANTS
    Operators,      \* members of the operator organization
    Policy,         \* of scheduled runs; manual when nothing is scheduled
    Threshold,      \* automationTelemetryEscalationThreshold
    Workers,        \* calls that may be in flight together
    Scheduler,      \* the one of them the scheduler makes
    MaxActions,     \* bound on what operators ask for
    MaxTurns,       \* bound on changes of telemetry and on failures
    Nobody          \* no owner

ASSUME RemediationAssumption ==
    /\ Scheduler \in Workers /\ Nobody \notin Operators
    /\ Operators \cap Workers = {}
    /\ Policy \in {"monitor", "recover", "manual"}
    /\ Threshold \in Nat \ {0}
    /\ MaxActions \in Nat /\ MaxTurns \in Nat

VARIABLES
    degraded,       \* some telemetry ownership is not healthy
    history,        \* remediation actions, by their generatedAt
    reports,        \* outcomes of the newest Threshold runs, the newest first
    notice,         \* the observability-remediation notification
    tx,             \* what each call is doing
    actions,        \* how much of MaxActions is used
    turns           \* how much of MaxTurns is used

-----------------------------------------------------------------------------
(* An entry of the history.  Its age is in windows of follow-up time, up   *)
(* to Oldest, the age from which retention may delete it.  A call that has *)
(* taken its time but not yet written has a NOW there, which nobody reads. *)
(* quiet is history: no other call filed, before it and under an earlier   *)
(* time, what its check had not seen and would have minded.                *)
Handoffs   == {"ASSIGNED", "TRANSFERRED"}
Ownership  == Handoffs \cup {"ACKNOWLEDGED", "REACKNOWLEDGED"}
EntryKinds == Ownership \cup {"RESOLVED", "ESCALATED", "NOW"}
Outcomes   == {"ok", "breach", "failed"}
Oldest     == 3

Entry == [kind: EntryKinds, owner: Operators \cup Workers, age: 0..Oldest, quiet: BOOLEAN]

Record(kind, owner, quiet) == [kind |-> kind, owner |-> owner, age |-> 0, quiet |-> quiet]

(* A call: what it does and, of an action, the owner it is about; the      *)
(* outcome of a run, and how many runs that began after it have reported;  *)
(* and the notification it is about to write.                              *)
NoCall == [pc |-> "idle"]

Call(pc, kind, owner) ==
    [pc |-> pc, kind |-> kind, owner |-> owner,
     outcome |-> "ok", behind |-> 0, view |-> "READ", quiet |-> TRUE]

RunKinds == {"MONITOR", "RECOVER", "FAILURE"}
Busy == [pc: {"checked", "stamped", "written", "running", "worked", "retained", "filed", "due",
              "escalated", "notifying"},
         kind: RunKinds \cup Ownership \cup {"RESOLVED"}, owner: Operators \cup {Nobody},
         outcome: Outcomes, behind: 0..Threshold, view: {"UNREAD", "READ"}, quiet: BOOLEAN]

(* The histories, reports, notification and calls there can be.            *)
RemediationTypeOK ==
    /\ degraded \in BOOLEAN
    /\ history  \in Seq(Entry)
    /\ reports  \in Seq(Outcomes) /\ Len(reports) <= Threshold
    /\ notice   \in {"NONE", "UNREAD", "READ"}
    /\ \A w \in Workers : tx[w] = NoCall \/ tx[w] \in Busy
    /\ actions  \in 0..MaxActions
    /\ turns    \in 0..MaxTurns

(* The newest entry of some kinds, none is 0.                              *)
Latest(h, kinds) ==
    LET found == {i \in DOMAIN h : h[i].kind \in kinds} IN
    IF found = {} THEN 0 ELSE CHOOSE i \in found : \A j \in found : j <= i

-----------------------------------------------------------------------------
(* An escalation in the history was due: every handoff before it had been  *)
(* left for two windows, and none had been escalated already (the          *)
(* comparison with the latest escalation, by report times).  Of processes  *)
(* that read the same late handoff together, this is claimed of the one    *)
(* whose time is the earliest; the others file theirs all the same.        *)
EscalationsAreDue ==
    \A i \in DOMAIN history : history[i].kind = "ESCALATED" /\ history[i].quiet =>
        \A j \in 1..(i - 1) :
            /\ history[j].kind \in Ownership => history[j].age - history[i].age >= 2 \/ history[j].age = Oldest
            /\ history[j].kind = "ESCALATED" =>
                 \E l \in j..i : history[l].kind \in Ownership

(* Named-owner discipline.  An acknowledgement and an assignment fill a    *)
(* vacancy, who re-acknowledges or resolves is the owner of the handoff    *)
(* before, and a transfer names another one: of every action that no other *)
(* handoff slipped in front of between its check and its time.             *)
OwnershipIsAChain ==
    \A i \in DOMAIN history : history[i].quiet =>
        LET last == Latest(SubSeq(history, 1, i - 1), Ownership)
            same == last # 0 => history[i].owner = history[last].owner IN
        CASE history[i].kind \in {"ACKNOWLEDGED", "ASSIGNED"}   -> last = 0
          [] history[i].kind \in {"REACKNOWLEDGED", "RESOLVED"} -> same
          [] history[i].kind = "TRANSFERRED"                    -> last = 0 \/ ~same
          [] OTHER                                              -> TRUE
=============================================================================
