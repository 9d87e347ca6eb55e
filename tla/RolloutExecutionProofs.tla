------------------------ MODULE RolloutExecutionProofs ------------------------
(***************************************************************************)
(* Proofs about RolloutExecution, for any calls, targets, secrets, modes   *)
(* and bounds.                                                             *)
(*                                                                         *)
(* The invariant says what a call that came to a certain step may rely on, *)
(* whoever else ran meanwhile: nothing that the outside world, the disk,   *)
(* the proof store and the registry remember of a call is ever taken back, *)
(* so what the steps behind a call did is still there (Evidence).  Since   *)
(* the plans put the command before the report, the report and the store   *)
(* before the ledger and the verified target before its use, the promises  *)
(* of the ledger follow.                                                   *)
(***************************************************************************)
EXTENDS RolloutExecution, TLAPS

Made(c) == calls[c] # NotMade

(* What the steps behind a call left.                                      *)
Evidence(c) ==
    /\ Passed(c, "command") => Accepted(calls[c].kind, calls[c].exit)
    /\ calls[c].exit = "ZERO" => c \in ran
    /\ Passed(c, "file")    <=> <<c, "REPORT">> \in files
    /\ Passed(c, "store") /\ StoreProofs /\ ~calls[c].local => c \in objects
    /\ Passed(c, "resolve") => /\ calls[c].target \in Targets
                               /\ integrations[calls[c].target].vouched
    /\ Passed(c, "touch") => /\ calls[c].target \in Targets
                             /\ integrations[calls[c].target].lastUsed
    /\ c \in ledger => Passed(c, "record")

(* How far a call came: never past the end of its plan.                    *)
Progress(c) ==
    /\ Made(c) => calls[c].at \in 1..(Len(PlanOf(c)) + 1)
    /\ Made(c) /\ calls[c].live => calls[c].at \in 1..Len(PlanOf(c))

Untouched(c) == calls[c].exit = "NONE" /\ c \notin ran /\ <<c, "REPORT">> \notin files /\ c \notin ledger

(* What the last sync whose command answered zero left behind, unless it   *)
(* came while another had not written its row yet.                         *)
LastIsKnown ==
    \A c \in identity.last :
        /\ calls[c].kind = "UPSTREAM_IDENTITY"
        /\ calls[c].exit = "ZERO" =>
              /\ identity.account = mapUpstreamLifecycleStatus(calls[c].action)
              /\ Passed(c, "sync") /\ ~calls[c].raced
                    => identity.upstream = mapUpstreamLifecycleStatus(calls[c].action)
              /\ \A d \in Calls : AtStep(d, "sync") /\ d # c => calls[c].raced

(* A secret was rotated no earlier than the rotation that rotated it.      *)
RotationIsDated(c) ==
    calls[c].kind = "SECRET_ROTATION" /\ c \in ran
        => \A k \in calls[c].keys : rotated[k] <= calls[c].age

VerifiedIsVouched ==
    \A t \in Targets : integrations[t].verified => integrations[t].vouched

CallInv(c) == /\ Progress(c)
              /\ Made(c) => Evidence(c)
              /\ ~Made(c) => Untouched(c)
              /\ RotationIsDated(c)

RolloutInv ==
    /\ TypeOK
    /\ VerifiedIsVouched
    /\ UsedTargetsWereVerified
    /\ LastIsKnown
    /\ \A c \in Calls : CallInv(c)

-----------------------------------------------------------------------------
(* The plans.                                                              *)

(* There are eight of them.                                                *)
LEMMA PlanShape ==
    ASSUME NEW kind \in Kinds, NEW mode \in Modes, NEW local \in BOOLEAN
    PROVE  LET plan == Plan(kind, mode, local) IN
           /\ local /\ mode = "dry-run" => plan = <<"file", "record">>
           /\ local /\ mode # "dry-run" =>
                \/ plan = <<"command", "file", "record">>
                \/ /\ kind = "UPSTREAM_IDENTITY"
                   /\ plan = <<"command", "sync", "file", "record">>
           /\ ~local /\ mode = "dry-run" => plan = <<"file", "store", "record">>
           /\ ~local /\ mode # "dry-run" =>
                \/ mode = "psql" /\ plan = <<"command", "file", "store", "record">>
                \/ plan = <<"resolve", "command", "touch", "file", "store", "record">>
                \/ /\ kind = "UPSTREAM_IDENTITY"
                   /\ plan = <<"resolve", "command", "sync", "file", "store", "touch", "record">>
                \/ plan = <<"resolve", "command", "file", "store", "touch", "record">>
<1>1. CASE local
  <2>1. Plan(kind, mode, local) = LocalPlan(kind, mode)
    BY <1>1 DEF Plan
  <2>2. mode = "dry-run" => LocalPlan(kind, mode) = <<"file", "record">>
    BY DEF LocalPlan
  <2>3. mode # "dry-run" /\ kind = "UPSTREAM_IDENTITY"
            => LocalPlan(kind, mode) = <<"command", "sync", "file", "record">>
    BY DEF LocalPlan
  <2>4. mode # "dry-run" /\ kind # "UPSTREAM_IDENTITY"
            => LocalPlan(kind, mode) = <<"command", "file", "record">>
    BY DEF LocalPlan
  <2> QED
    BY <1>1, <2>1, <2>2, <2>3, <2>4, Zenon
<1>2. CASE ~local
  <2>1. CASE kind = "RESTORE_DRILL"
    BY <1>2, <2>1 DEF Plan, DrillPlan, Unexecuted, Modes
  <2>2. CASE kind = "UPSTREAM_IDENTITY"
    BY <1>2, <2>2 DEF Plan, UpstreamPlan, Unexecuted
  <2>3. CASE kind \in {"SECRET_ROTATION", "DEPLOYMENT_AUTOMATION"}
    BY <1>2, <2>3 DEF Plan, RotationPlan, PromotionPlan, Unexecuted, Commanded
  <2> QED
    BY <2>1, <2>2, <2>3 DEF Kinds
<1> QED
  BY <1>1, <1>2

(* What comes before what, in every plan.                                  *)
LEMMA PlanOrder ==
    ASSUME NEW kind \in Kinds, NEW mode \in Modes, NEW local \in BOOLEAN,
           NEW i \in 1..Len(Plan(kind, mode, local))
    PROVE  LET plan == Plan(kind, mode, local)
               Before(step) == \E j \in 1..(i - 1) : plan[j] = step IN
           /\ plan[i] = "resolve" => i = 1
           /\ plan[i] = "command" => ~Before("sync") /\ ~Before("command")
           /\ plan[i] = "sync" => kind = "UPSTREAM_IDENTITY"
           /\ plan[i] = "touch" => Before("resolve")
           /\ plan[i] = "file" /\ mode # "dry-run" => Before("command")
           /\ plan[i] = "record" => /\ mode # "dry-run" => Before("command")
                                    /\ Before("file")
<1> DEFINE plan == Plan(kind, mode, local)
           Before(step) == \E j \in 1..(i - 1) : plan[j] = step
<1>1. CASE mode = "dry-run"
  <2>1. CASE local
    <3>1. plan = <<"file", "record">>
      BY <1>1, <2>1, PlanShape
    <3>2. Len(plan) = 2 /\ plan[1] = "file" /\ plan[2] = "record"
      BY <3>1
    <3>3. i \in {1, 2}
      BY <3>2
    <3> QED
      BY <1>1, <3>2, <3>3
  <2>2. CASE ~local
    <3>1. plan = <<"file", "store", "record">>
      BY <1>1, <2>2, PlanShape
    <3>2. Len(plan) = 3 /\ plan[1] = "file" /\ plan[2] = "store" /\ plan[3] = "record"
      BY <3>1
    <3>3. i \in {1, 2, 3}
      BY <3>2
    <3> QED
      BY <1>1, <3>2, <3>3
  <2> QED
    BY <2>1, <2>2
<1>2. CASE mode # "dry-run" /\ local
  <2>0. mode # "dry-run"
    BY <1>2
  <2>1. CASE plan = <<"command", "file", "record">>
    <3>1. Len(plan) = 3 /\ plan[1] = "command" /\ plan[2] = "file" /\ plan[3] = "record"
      BY <2>1
    <3>2. i \in {1, 2, 3}
      BY <3>1
    <3> QED
      BY <2>0, <3>1, <3>2
  <2>2. CASE kind = "UPSTREAM_IDENTITY" /\ plan = <<"command", "sync", "file", "record">>
    <3>1. Len(plan) = 4 /\ plan[1] = "command" /\ plan[2] = "sync" /\ plan[3] = "file"
          /\ plan[4] = "record"
      BY <2>2
    <3>2. i \in {1, 2, 3, 4}
      BY <3>1
    <3> QED
      BY <2>0, <2>2, <3>1, <3>2
  <2> QED
    BY <1>2, <2>1, <2>2, PlanShape
<1>3. CASE mode # "dry-run" /\ ~local
  <2>1. CASE plan = <<"resolve", "command", "touch", "file", "store", "record">>
    <3>1. Len(plan) = 6 /\ plan[1] = "resolve" /\ plan[2] = "command" /\ plan[3] = "touch"
          /\ plan[4] = "file" /\ plan[5] = "store" /\ plan[6] = "record"
      BY <2>1
    <3>2. i \in {1, 2, 3, 4, 5, 6}
      BY <3>1
    <3> QED
      BY <1>3, <3>1, <3>2
  <2>2. CASE /\ kind = "UPSTREAM_IDENTITY"
             /\ plan = <<"resolve", "command", "sync", "file", "store", "touch", "record">>
    <3>1. Len(plan) = 7 /\ plan[1] = "resolve" /\ plan[2] = "command" /\ plan[3] = "sync"
          /\ plan[4] = "file" /\ plan[5] = "store" /\ plan[6] = "touch" /\ plan[7] = "record"
      BY <2>2
    <3>2. i \in {1, 2, 3, 4, 5, 6, 7}
      BY <3>1
    <3> QED
      BY <1>3, <2>2, <3>1, <3>2
  <2>3. CASE plan = <<"resolve", "command", "file", "store", "touch", "record">>
    <3>1. Len(plan) = 6 /\ plan[1] = "resolve" /\ plan[2] = "command" /\ plan[3] = "file"
          /\ plan[4] = "store" /\ plan[5] = "touch" /\ plan[6] = "record"
      BY <2>3
    <3>2. i \in {1, 2, 3, 4, 5, 6}
      BY <3>1
    <3> QED
      BY <1>3, <3>1, <3>2
  <2>4. CASE mode = "psql" /\ plan = <<"command", "file", "store", "record">>
    <3>1. Len(plan) = 4 /\ plan[1] = "command" /\ plan[2] = "file" /\ plan[3] = "store"
          /\ plan[4] = "record"
      BY <2>4
    <3>2. i \in {1, 2, 3, 4}
      BY <3>1
    <3> QED
      BY <1>3, <2>4, <3>1, <3>2
  <2> QED
    BY <1>3, <2>1, <2>2, <2>3, <2>4, PlanShape
<1> QED
  BY <1>1, <1>2, <1>3

(* The record of an execution that is not local is the last of its steps. *)
LEMMA PlanRecord ==
    ASSUME NEW kind \in Kinds, NEW mode \in Modes, NEW local \in BOOLEAN,
           NEW i \in 1..Len(Plan(kind, mode, local)), Plan(kind, mode, local)[i] = "record",
           ~local
    PROVE  LET Before(step) == \E j \in 1..(i - 1) : Plan(kind, mode, local)[j] = step IN
           Before("store") /\ (mode = "command" => Before("touch"))
<1> DEFINE plan == Plan(kind, mode, local)
           Before(step) == \E j \in 1..(i - 1) : plan[j] = step
<1>1. /\ mode = "dry-run" => plan = <<"file", "store", "record">>
      /\ mode # "dry-run" =>
            \/ mode = "psql" /\ plan = <<"command", "file", "store", "record">>
            \/ plan = <<"resolve", "command", "touch", "file", "store", "record">>
            \/ plan = <<"resolve", "command", "sync", "file", "store", "touch", "record">>
            \/ plan = <<"resolve", "command", "file", "store", "touch", "record">>
  BY PlanShape
<1>2. i \in 1..Len(plan) /\ plan[i] = "record"
  OBVIOUS
<1> HIDE DEF plan
<1>3. CASE plan = <<"file", "store", "record">> /\ mode = "dry-run"
  <2>1. Len(plan) = 3 /\ plan[1] = "file" /\ plan[2] = "store" /\ plan[3] = "record"
    BY <1>3
  <2>2. i \in {1, 2, 3}
    BY <1>2, <2>1
  <2> QED
    BY <1>2, <1>3, <2>1, <2>2 DEF plan
<1>4. CASE mode # "dry-run"
  <2>1. CASE plan = <<"resolve", "command", "touch", "file", "store", "record">>
    <3>1. Len(plan) = 6 /\ plan[1] = "resolve" /\ plan[2] = "command" /\ plan[3] = "touch"
          /\ plan[4] = "file" /\ plan[5] = "store" /\ plan[6] = "record"
      BY <2>1
    <3>2. i \in {1, 2, 3, 4, 5, 6}
      BY <1>2, <3>1
    <3> QED
      BY <1>2, <1>4, <3>1, <3>2 DEF plan
  <2>2. CASE plan = <<"resolve", "command", "sync", "file", "store", "touch", "record">>
    <3>1. Len(plan) = 7 /\ plan[1] = "resolve" /\ plan[2] = "command" /\ plan[3] = "sync"
          /\ plan[4] = "file" /\ plan[5] = "store" /\ plan[6] = "touch" /\ plan[7] = "record"
      BY <2>2
    <3>2. i \in {1, 2, 3, 4, 5, 6, 7}
      BY <1>2, <3>1
    <3> QED
      BY <1>2, <1>4, <3>1, <3>2 DEF plan
  <2>3. CASE plan = <<"resolve", "command", "file", "store", "touch", "record">>
    <3>1. Len(plan) = 6 /\ plan[1] = "resolve" /\ plan[2] = "command" /\ plan[3] = "file"
          /\ plan[4] = "store" /\ plan[5] = "touch" /\ plan[6] = "record"
      BY <2>3
    <3>2. i \in {1, 2, 3, 4, 5, 6}
      BY <1>2, <3>1
    <3> QED
      BY <1>2, <1>4, <3>1, <3>2 DEF plan
  <2>4. CASE mode = "psql" /\ plan = <<"command", "file", "store", "record">>
    <3>1. Len(plan) = 4 /\ plan[1] = "command" /\ plan[2] = "file" /\ plan[3] = "store"
          /\ plan[4] = "record"
      BY <2>4
    <3>2. i \in {1, 2, 3, 4}
      BY <1>2, <3>1
    <3> QED
      BY <1>2, <1>4, <2>4, <3>1, <3>2 DEF plan
  <2> QED
    BY <1>1, <1>4, <2>1, <2>2, <2>3, <2>4
<1> QED
  BY <1>1, <1>3, <1>4

(* A sync comes right after the command.                                   *)
LEMMA PlanSync ==
    ASSUME NEW kind \in Kinds, NEW mode \in Modes, NEW local \in BOOLEAN,
           NEW i \in 1..Len(Plan(kind, mode, local)), Plan(kind, mode, local)[i] = "sync"
    PROVE  i # 1 /\ Plan(kind, mode, local)[i - 1] = "command"
<1> DEFINE plan == Plan(kind, mode, local)
<1>1. CASE plan = <<"command", "sync", "file", "record">>
  <2>1. Len(plan) = 4 /\ plan[1] = "command" /\ plan[2] = "sync" /\ plan[3] = "file"
        /\ plan[4] = "record"
    BY <1>1
  <2>2. i = 2
    BY <2>1
  <2> QED
    BY <2>1, <2>2
<1>2. CASE plan = <<"resolve", "command", "sync", "file", "store", "touch", "record">>
  <2>1. Len(plan) = 7 /\ plan[1] = "resolve" /\ plan[2] = "command" /\ plan[3] = "sync"
        /\ plan[4] = "file" /\ plan[5] = "store" /\ plan[6] = "touch" /\ plan[7] = "record"
    BY <1>2
  <2>2. i = 3
    BY <2>1
  <2> QED
    BY <2>1, <2>2
<1>3. CASE /\ plan # <<"command", "sync", "file", "record">>
           /\ plan # <<"resolve", "command", "sync", "file", "store", "touch", "record">>
  BY <1>3, PlanShape
<1> QED
  BY <1>1, <1>2, <1>3

(* How long they are.                                                      *)
LEMMA PlanLength ==
    ASSUME NEW kind \in Kinds, NEW mode \in Modes, NEW local \in BOOLEAN
    PROVE  Len(Plan(kind, mode, local)) \in 2..7
BY PlanShape DEF Modes
-----------------------------------------------------------------------------
(* Calls.                                                                  *)

(* A call that was made is one that has a kind.                            *)
LEMMA MadeCall ==
    ASSUME TypeOK, NEW c \in Calls
    PROVE  /\ Made(c) <=> calls[c] \in Call
           /\ Made(c) <=> calls[c].kind \in Kinds
           /\ Made(c) => /\ calls[c].mode \in Modes /\ calls[c].local \in BOOLEAN
                       /\ calls[c].at \in 1..8 /\ calls[c].exit \in Exits
           /\ ~Made(c) => ~calls[c].live /\ calls[c].kind = "NONE"
BY DEF TypeOK, Made, Call, NotMade, Kinds

(* The same of the next state.                                            *)
LEMMA MadeCallNext ==
    ASSUME TypeOK', NEW c \in Calls
    PROVE  /\ Made(c)' <=> calls'[c] \in Call
           /\ Made(c)' <=> calls'[c].kind \in Kinds
           /\ Made(c)' => /\ calls'[c].mode \in Modes /\ calls'[c].local \in BOOLEAN
                       /\ calls'[c].at \in 1..8 /\ calls'[c].exit \in Exits
           /\ ~Made(c)' => ~calls'[c].live /\ calls'[c].kind = "NONE"
BY DEF TypeOK, Made, Call, NotMade, Kinds

(* What is remembered only grows.                                          *)
Grown ==
    /\ objects \subseteq objects'
    /\ \A t \in Targets : /\ integrations[t].vouched => integrations'[t].vouched
                          /\ integrations[t].lastUsed => integrations'[t].lastUsed

(* A step that is not of this call, or cuts it.                            *)
Unmoved(c) ==
    /\ calls'[c].kind = calls[c].kind /\ calls'[c].mode = calls[c].mode /\ calls'[c].local = calls[c].local
    /\ calls'[c].at = calls[c].at /\ calls'[c].target = calls[c].target
    /\ calls'[c].live => calls[c].live
    /\ \/ calls'[c].exit = calls[c].exit
       \/ Made(c) /\ calls'[c].exit # "ZERO" /\ ~Passed(c, "command")
    /\ c \in ran => c \in ran'
    /\ ~Made(c) => (c \in ran' <=> c \in ran)
    /\ <<c, "REPORT">> \in files' <=> <<c, "REPORT">> \in files
    /\ c \in ledger' <=> c \in ledger

(* A step of this call, with what it leaves.                               *)
Moved(c, step) ==
    /\ AtStep(c, step)
    /\ calls'[c].kind = calls[c].kind /\ calls'[c].mode = calls[c].mode /\ calls'[c].local = calls[c].local
    /\ calls'[c].at = calls[c].at + 1
    /\ calls'[c].live => calls[c].at < Len(PlanOf(c))
    /\ c \in ran => c \in ran'
    /\ step # "command" => calls'[c].exit = calls[c].exit
    /\ step = "command" => /\ Accepted(calls'[c].kind, calls'[c].exit)
                           /\ calls'[c].exit = "ZERO" => c \in ran'
    /\ <<c, "REPORT">> \in files' <=> (<<c, "REPORT">> \in files \/ step = "file")
    /\ step = "store" /\ StoreProofs /\ ~calls[c].local => c \in objects'
    /\ step # "resolve" => calls'[c].target = calls[c].target
    /\ step = "resolve" => /\ calls'[c].target \in Targets
                           /\ integrations'[calls'[c].target].vouched
    /\ step = "touch" => integrations'[calls[c].target].lastUsed
    /\ c \in ledger' => (c \in ledger \/ step = "record")

(* Progress and evidence of one call.                                      *)
Backed(c) == /\ Progress(c)
             /\ Made(c) => Evidence(c)
             /\ ~Made(c) => Untouched(c)

(* A call that does not move keeps its evidence.                           *)
LEMMA UnmovedKeeps ==
    ASSUME TypeOK, TypeOK', NEW c \in Calls, Backed(c), Unmoved(c), Grown
    PROVE  Backed(c)'
<1>1. Made(c)' <=> Made(c)
  BY MadeCall, MadeCallNext DEF Unmoved
<1>2. PlanOf(c)' = PlanOf(c)
  BY DEF PlanOf, Unmoved
<1>3. \A step : Passed(c, step)' <=> Passed(c, step)
  BY <1>2 DEF Passed, Unmoved
<1>4. Progress(c)'
  BY <1>1, <1>2 DEF Backed, Progress, Unmoved
<1>5. Made(c) => Evidence(c)'
  BY <1>3 DEF Backed, Evidence, Unmoved, Grown
<1>6. ~Made(c) => Untouched(c)'
  BY DEF Backed, Untouched, Unmoved
<1> QED
  BY <1>1, <1>4, <1>5, <1>6 DEF Backed

(* A step behind a call is the only one that is new.                       *)
LEMMA MovedPassed ==
    ASSUME TypeOK, NEW c \in Calls, Backed(c), NEW step, Moved(c, step)
    PROVE  /\ Made(c)
           /\ PlanOf(c)' = PlanOf(c)
           /\ calls[c].at \in 1..Len(PlanOf(c))
           /\ \A s : Passed(c, s)' <=> Passed(c, s) \/ s = step
<1>1. Made(c) /\ calls[c].live
  BY MadeCall DEF Moved, AtStep
<1>2. PlanOf(c)' = PlanOf(c)
  BY DEF PlanOf, Moved
<1>3. calls[c].at \in 1..Len(PlanOf(c)) /\ calls[c].at \in Nat
  BY <1>1, MadeCall DEF Backed, Progress
<1>4. PlanOf(c)[calls[c].at] = step /\ calls'[c].at = calls[c].at + 1
  BY DEF Moved, AtStep
<1>5. \A s : Passed(c, s)' <=> Passed(c, s) \/ s = step
  <2>1. \A i : i \in 1..(calls'[c].at - 1) <=> i \in 1..(calls[c].at - 1) \/ i = calls[c].at
    BY <1>3, <1>4
  <2> QED
    BY <1>2, <1>4, <2>1 DEF Passed
<1> QED
  BY <1>1, <1>2, <1>3, <1>5

(* It comes to a sync from its command only.                               *)
LEMMA MovedAt ==
    ASSUME TypeOK, NEW c \in Calls, Backed(c), NEW step, Moved(c, step), step # "command"
    PROVE  ~AtStep(c, "sync")'
<1>1. /\ Made(c) /\ PlanOf(c)' = PlanOf(c) /\ calls[c].at \in 1..Len(PlanOf(c))
      /\ calls'[c].at = calls[c].at + 1 /\ PlanOf(c)[calls[c].at] = step
  BY MovedPassed DEF Moved, AtStep
<1>2. calls[c].kind \in Kinds /\ calls[c].mode \in Modes /\ calls[c].local \in BOOLEAN
  BY <1>1, MadeCall
<1> DEFINE plan == PlanOf(c)
<1>3. ASSUME AtStep(c, "sync")' PROVE FALSE
  <2> DEFINE i == calls[c].at + 1
  <2>1. i \in 1..Len(plan) /\ plan[i] = "sync"
    BY <1>1, <1>3 DEF AtStep
  <2>2. plan[i - 1] = "command"
    BY <1>2, <2>1, PlanSync DEF PlanOf
  <2> QED
    BY <1>1, <2>2
<1> QED
  BY <1>3

(* A call that moves has the evidence of the step behind it.               *)
LEMMA MovedKeeps ==
    ASSUME TypeOK, TypeOK', NEW c \in Calls, Backed(c), Grown, NEW step, Moved(c, step)
    PROVE  Backed(c)'
<1>1. Made(c) /\ Made(c)'
  BY MovedPassed, MadeCall, MadeCallNext DEF Moved
<1>2. Progress(c)'
  <2>1. calls[c].at \in Nat /\ Len(PlanOf(c)) \in Nat
    BY <1>1, MadeCall, PlanLength DEF PlanOf
  <2> QED
    BY <1>1, <2>1, MovedPassed DEF Progress, Moved
<1>3. calls[c].kind \in Kinds /\ calls[c].mode \in Modes /\ calls[c].local \in BOOLEAN
  BY <1>1, MadeCall
<1>4. step = "touch" => Passed(c, "resolve")
  <2>1. calls[c].at \in 1..Len(PlanOf(c)) /\ PlanOf(c)[calls[c].at] = step
    BY MovedPassed DEF Moved, AtStep
  <2> QED
    BY <1>3, <2>1, PlanOrder DEF Passed, PlanOf
<1>5. Evidence(c)
  BY <1>1 DEF Backed
<1>6. step = "resolve" => ~Passed(c, "touch")
  BY <1>3, MovedPassed, PlanOrder DEF Passed, PlanOf, Moved, AtStep
<1>7. /\ Passed(c, "command")' => Accepted(calls'[c].kind, calls'[c].exit)
      /\ calls'[c].exit = "ZERO" => c \in ran'
      /\ Passed(c, "file")'    <=> <<c, "REPORT">> \in files'
      /\ Passed(c, "store")' /\ StoreProofs /\ ~calls'[c].local => c \in objects'
      /\ c \in ledger' => Passed(c, "record")'
  BY <1>5, MovedPassed DEF Evidence, Moved, Grown
<1>8. Passed(c, "resolve")' => /\ calls'[c].target \in Targets
                               /\ integrations'[calls'[c].target].vouched
  BY <1>5, MovedPassed DEF Evidence, Moved, Grown
<1>9. Passed(c, "touch")' => /\ calls'[c].target \in Targets
                             /\ integrations'[calls'[c].target].lastUsed
  BY <1>4, <1>5, <1>6, MovedPassed DEF Evidence, Moved, Grown
<1> QED
  BY <1>1, <1>2, <1>7, <1>8, <1>9 DEF Backed, Evidence
-----------------------------------------------------------------------------
(* Steps that change neither accounts nor secrets.                         *)

(* The parts of a call no step of another call changes.                    *)
Alike(d) ==
    /\ calls'[d].kind = calls[d].kind /\ calls'[d].keys = calls[d].keys
    /\ calls'[d].action = calls[d].action /\ calls'[d].raced = calls[d].raced /\ calls'[d].exit = calls[d].exit
    /\ calls'[d].age = calls[d].age
    /\ d \in ran' <=> d \in ran
    /\ Passed(d, "sync")' <=> Passed(d, "sync")
    /\ AtStep(d, "sync")' => AtStep(d, "sync")

(* Such a step has to keep rows and evidence only.                         *)
LEMMA QuietKeeps ==
    ASSUME RolloutInv, TypeOK', VerifiedIsVouched', UsedTargetsWereVerified',
           \A d \in Calls : Backed(d)' /\ Alike(d),
           UNCHANGED <<rotated, identity>>
    PROVE  RolloutInv'
<1>1. \A d \in Calls : RotationIsDated(d)'
  BY DEF RolloutInv, CallInv, RotationIsDated, Alike
<1>2. LastIsKnown'
  <2>1. identity.last \subseteq Calls
    BY DEF RolloutInv, TypeOK
  <2> QED
    BY <2>1 DEF RolloutInv, LastIsKnown, Alike
<1> QED
  BY <1>1, <1>2 DEF RolloutInv, CallInv, Backed

(* A call that does not move has passed what it had passed.                *)
LEMMA UnmovedPassed ==
    ASSUME NEW d \in Calls, Unmoved(d)
    PROVE  \A step : /\ Passed(d, step)' <=> Passed(d, step)
                     /\ AtStep(d, step)' => AtStep(d, step)
<1>1. PlanOf(d)' = PlanOf(d)
  BY DEF PlanOf, Unmoved
<1> QED
  BY <1>1 DEF Passed, AtStep, Unmoved

(* The call with a step behind it.                                         *)
LEMMA SteppedCall ==
    ASSUME RolloutInv, NEW c \in Calls, calls[c].live
    PROVE  /\ calls[c] \in Call /\ Stepped(c) \in Call
           /\ Stepped(c).kind = calls[c].kind /\ Stepped(c).mode = calls[c].mode /\ Stepped(c).local = calls[c].local
           /\ Stepped(c).keys = calls[c].keys /\ Stepped(c).action = calls[c].action
           /\ Stepped(c).target = calls[c].target /\ Stepped(c).age = calls[c].age
           /\ Stepped(c).raced = calls[c].raced /\ Stepped(c).exit = calls[c].exit
           /\ Stepped(c).at = calls[c].at + 1
           /\ Stepped(c).live => calls[c].at < Len(PlanOf(c))
<1>1. calls[c] \in Call /\ Made(c)
  BY MadeCall DEF RolloutInv
<1>2. calls[c].at \in 1..7 /\ Len(PlanOf(c)) \in Nat
  <2>1. Len(PlanOf(c)) \in 2..7
    BY <1>1, PlanLength, MadeCall DEF PlanOf, RolloutInv
  <2>2. calls[c].at \in 1..Len(PlanOf(c))
    BY <1>1 DEF RolloutInv, CallInv, Progress
  <2> DEFINE length == Len(PlanOf(c))
  <2>3. length \in 2..7 /\ calls[c].at \in 1..length
    BY <2>1, <2>2
  <2> HIDE DEF length
  <2>4. calls[c].at \in 1..7 /\ length \in Nat
    BY <2>3
  <2> QED
    BY <2>4 DEF length
<1>3. (calls[c].at < Len(PlanOf(c))) \in BOOLEAN
  OBVIOUS
<1> DEFINE more == calls[c].at < Len(PlanOf(c))
<1>4. Stepped(c) = [calls[c] EXCEPT !.at = @ + 1, !.live = more]
  BY DEF Stepped
<1> HIDE DEF more
<1>5. Stepped(c) = [kind |-> calls[c].kind, mode |-> calls[c].mode,
                    local |-> calls[c].local, exit |-> calls[c].exit, keys |-> calls[c].keys,
                    action |-> calls[c].action, at |-> calls[c].at + 1, live |-> more,
                    target |-> calls[c].target, age |-> calls[c].age, raced |-> calls[c].raced]
  BY <1>1, <1>4 DEF Call
<1>6. more \in BOOLEAN
  BY <1>3 DEF more
<1>7. Stepped(c).live = more
  BY <1>5
<1>8. Stepped(c).live => calls[c].at < Len(PlanOf(c))
  BY <1>7 DEF more
<1>9. calls[c].at + 1 \in 1..8
  BY <1>2
<1> QED
  BY <1>1, <1>5, <1>6, <1>8, <1>9 DEF Call

(* A call that resolved its target besides.                                *)
LEMMA SentCall ==
    ASSUME RolloutInv, NEW c \in Calls, calls[c].live, NEW t \in Targets
    PROVE  LET sent == [Stepped(c) EXCEPT !.target = t] IN
           /\ sent \in Call /\ sent.target = t
           /\ sent.kind = calls[c].kind /\ sent.mode = calls[c].mode /\ sent.local = calls[c].local
           /\ sent.keys = calls[c].keys /\ sent.action = calls[c].action
           /\ sent.age = calls[c].age /\ sent.raced = calls[c].raced /\ sent.exit = calls[c].exit
           /\ sent.at = calls[c].at + 1
           /\ sent.live => calls[c].at < Len(PlanOf(c))
BY SteppedCall DEF Call

(* Registry rows.                                                          *)
LEMMA RowShape ==
    ASSUME TypeOK, NEW t \in Targets
    PROVE  integrations[t] # NoRow => integrations[t] \in Row
BY DEF TypeOK, Row, NoRow

(* An eligible target may be used: it is verified, and so was vouched for. *)
LEMMA TouchedRows ==
    ASSUME RolloutInv, NEW t \in Targets, integrations[t] # NoRow, integrations[t].vouched,
           integrations' = Touched(t)
    PROVE  /\ integrations' \in [Targets -> Row \cup {NoRow}]
           /\ VerifiedIsVouched' /\ UsedTargetsWereVerified'
           /\ \A u \in Targets : /\ integrations'[u].vouched = integrations[u].vouched
                                 /\ integrations[u].lastUsed => integrations'[u].lastUsed
           /\ integrations'[t].lastUsed
<1>1. integrations[t] \in Row
  BY RowShape DEF RolloutInv
<1>2. /\ integrations'[t] \in Row /\ integrations'[t].lastUsed
      /\ integrations'[t].vouched = integrations[t].vouched
      /\ integrations'[t].verified = integrations[t].verified
  BY <1>1 DEF Touched, Row, RolloutInv, TypeOK
<1>3. \A u \in Targets : u # t => integrations'[u] = integrations[u]
  BY DEF Touched, RolloutInv, TypeOK
<1>4. integrations' \in [Targets -> Row \cup {NoRow}]
  BY <1>1, <1>2 DEF Touched, RolloutInv, TypeOK
<1>5. VerifiedIsVouched' /\ UsedTargetsWereVerified'
  BY <1>2, <1>3 DEF RolloutInv, VerifiedIsVouched, UsedTargetsWereVerified
<1> QED
  BY <1>2, <1>3, <1>4, <1>5

(* A step that is neither a command nor a sync, from a call to what it is  *)
(* after it.                                                               *)
Plain(c, step, call) ==
    /\ step \notin {"command", "sync"}
    /\ AtStep(c, step)
    /\ calls' = [calls EXCEPT ![c] = call]
    /\ call \in Call
    /\ call.kind = calls[c].kind /\ call.mode = calls[c].mode /\ call.local = calls[c].local
    /\ call.keys = calls[c].keys /\ call.action = calls[c].action
    /\ call.age = calls[c].age /\ call.raced = calls[c].raced /\ call.exit = calls[c].exit
    /\ call.at = calls[c].at + 1
    /\ call.live => calls[c].at < Len(PlanOf(c))
    /\ step # "resolve" => call.target = calls[c].target
    /\ step = "resolve" => call.target \in Targets /\ integrations'[call.target].vouched
    /\ UNCHANGED <<ran, rotated, identity>>
    /\ files'  = IF step = "file" THEN files \cup {<<c, "REPORT">>} ELSE files
    /\ ledger' = IF step = "record" THEN ledger \cup {c} ELSE ledger
    /\ objects' \subseteq Calls /\ Grown
    /\ step = "store" /\ StoreProofs /\ ~calls[c].local => c \in objects'
    /\ integrations' \in [Targets -> Row \cup {NoRow}]
    /\ VerifiedIsVouched' /\ UsedTargetsWereVerified'
    /\ step = "touch" => integrations'[calls[c].target].lastUsed

(* It keeps the invariant.                                                 *)
LEMMA PlainKeeps ==
    ASSUME RolloutInv, NEW c \in Calls, NEW step, NEW call, Plain(c, step, call)
    PROVE  RolloutInv'
<1>1. TypeOK'
  BY DEF RolloutInv, TypeOK, Plain
<1>2. calls'[c] = call /\ \A d \in Calls : d # c => calls'[d] = calls[d]
  BY DEF RolloutInv, TypeOK, Plain
<1>3. Moved(c, step)
  BY <1>2 DEF Moved, Plain
<1>4. \A d \in Calls : d # c => Unmoved(d)
  BY <1>2 DEF Unmoved, Plain
<1>5. \A d \in Calls : Backed(d)
  BY DEF RolloutInv, CallInv, Backed
<1>6. \A d \in Calls : Backed(d)'
  BY <1>1, <1>3, <1>4, <1>5, UnmovedKeeps, MovedKeeps DEF RolloutInv, Plain
<1>7. \A d \in Calls : Passed(d, "sync")' <=> Passed(d, "sync")
  <2>1. Passed(c, "sync")' <=> Passed(c, "sync")
    BY <1>3, <1>5, MovedPassed DEF RolloutInv, Plain
  <2> QED
    BY <1>4, <2>1, UnmovedPassed
<1>8. \A d \in Calls : AtStep(d, "sync")' => AtStep(d, "sync")
  BY <1>3, <1>4, <1>5, UnmovedPassed, MovedAt DEF RolloutInv, Plain
<1>9. \A d \in Calls : Alike(d)
  BY <1>2, <1>7, <1>8 DEF Alike, Plain
<1> QED
  BY <1>1, <1>6, <1>9, QuietKeeps DEF Plain

(* The rows of the registry are left alone by most steps.                  *)
LEMMA RowsKept ==
    ASSUME RolloutInv, UNCHANGED integrations
    PROVE  /\ integrations' \in [Targets -> Row \cup {NoRow}]
           /\ VerifiedIsVouched' /\ UsedTargetsWereVerified'
           /\ objects \subseteq objects' => Grown
BY DEF RolloutInv, TypeOK, VerifiedIsVouched, UsedTargetsWereVerified, Grown

(* An eligible target has a row that is vouched for.                       *)
LEMMA EligibleRow ==
    ASSUME RolloutInv, NEW kind, NEW t \in Eligible(kind)
    PROVE  t \in Targets /\ integrations[t] # NoRow /\ integrations[t].vouched
<1>1. t \in Targets /\ integrations[t].status = "ACTIVE" /\ integrations[t].verified
  BY DEF Eligible
<1> QED
  BY <1>1 DEF RolloutInv, VerifiedIsVouched, NoRow

(* A target that is resolved is vouched for.                               *)
LEMMA ResolveKeeps ==
    ASSUME RolloutInv, NEW c \in Calls, Resolve(c)
    PROVE  RolloutInv'
<1>1. PICK t \in Eligible(calls[c].kind) :
        calls' = [calls EXCEPT ![c] = [Stepped(c) EXCEPT !.target = t]]
  BY DEF Resolve
<1>2. t \in Targets /\ integrations[t].vouched
  BY EligibleRow
<1>3. calls[c].live
  BY DEF Resolve, AtStep
<1> DEFINE call == [Stepped(c) EXCEPT !.target = t]
<1>4. /\ call \in Call /\ call.target = t
      /\ call.kind = calls[c].kind /\ call.mode = calls[c].mode /\ call.local = calls[c].local
      /\ call.keys = calls[c].keys /\ call.action = calls[c].action
      /\ call.age = calls[c].age /\ call.raced = calls[c].raced /\ call.exit = calls[c].exit
      /\ call.at = calls[c].at + 1
      /\ call.live => calls[c].at < Len(PlanOf(c))
  BY <1>2, <1>3, SentCall
<1>5. calls' = [calls EXCEPT ![c] = call]
  BY <1>1
<1> HIDE DEF call
<1>6. UNCHANGED <<integrations, ran, rotated, identity, files, objects, ledger>>
  BY DEF Resolve, world, proof
<1>7. Plain(c, "resolve", call)
  BY <1>2, <1>4, <1>5, <1>6, RowsKept DEF Plain, Resolve, RolloutInv, TypeOK
<1> QED
  BY <1>7, PlainKeeps

(* A step that only advances.                                              *)
LEMMA AdvancedCall ==
    ASSUME RolloutInv, NEW c \in Calls, calls[c].live, Advance(c)
    PROVE  \E call \in Call :
             /\ calls' = [calls EXCEPT ![c] = call]
             /\ call.kind = calls[c].kind /\ call.mode = calls[c].mode /\ call.local = calls[c].local
             /\ call.keys = calls[c].keys /\ call.action = calls[c].action
             /\ call.age = calls[c].age /\ call.raced = calls[c].raced /\ call.exit = calls[c].exit
             /\ call.at = calls[c].at + 1 /\ call.target = calls[c].target
             /\ call.live => calls[c].at < Len(PlanOf(c))
<1>1. calls' = [calls EXCEPT ![c] = Stepped(c)]
  BY DEF Advance
<1> QED
  BY <1>1, SteppedCall

(* A report that is filed.                                                 *)
LEMMA FileReportKeeps ==
    ASSUME RolloutInv, NEW c \in Calls, FileReport(c)
    PROVE  RolloutInv'
<1>1. calls[c].live /\ Advance(c)
  BY DEF FileReport, AtStep
<1>2. PICK call \in Call :
        /\ calls' = [calls EXCEPT ![c] = call]
        /\ call.kind = calls[c].kind /\ call.mode = calls[c].mode /\ call.local = calls[c].local
        /\ call.keys = calls[c].keys /\ call.action = calls[c].action
        /\ call.age = calls[c].age /\ call.raced = calls[c].raced /\ call.exit = calls[c].exit
        /\ call.at = calls[c].at + 1 /\ call.target = calls[c].target
        /\ call.live => calls[c].at < Len(PlanOf(c))
  BY <1>1, AdvancedCall
<1>3. Plain(c, "file", call)
  BY <1>2, RowsKept DEF Plain, FileReport, RolloutInv, TypeOK, world
<1> QED
  BY <1>3, PlainKeeps

(* The proof store, where there is one, is reached through a target that   *)
(* is vouched for.                                                         *)
LEMMA StoredShape ==
    ASSUME RolloutInv, NEW c \in Calls, Stored(c)
    PROVE  /\ integrations' \in [Targets -> Row \cup {NoRow}]
           /\ VerifiedIsVouched' /\ UsedTargetsWereVerified'
           /\ objects' \subseteq Calls /\ Grown
           /\ StoreProofs /\ ~calls[c].local => c \in objects'
<1>1. CASE StoreProofs /\ ~calls[c].local
  <2>1. PICK t \in Eligible("PROOF_STORAGE") :
            integrations' = Touched(t) /\ objects' = objects \cup {c}
    BY <1>1 DEF Stored
  <2>2. t \in Targets /\ integrations[t] # NoRow /\ integrations[t].vouched
    BY EligibleRow
  <2>3. /\ integrations' \in [Targets -> Row \cup {NoRow}]
        /\ VerifiedIsVouched' /\ UsedTargetsWereVerified'
        /\ \A u \in Targets : /\ integrations'[u].vouched = integrations[u].vouched
                              /\ integrations[u].lastUsed => integrations'[u].lastUsed
    BY <2>1, <2>2, TouchedRows
  <2> QED
    BY <2>1, <2>3 DEF Grown, RolloutInv, TypeOK
<1>2. CASE ~(StoreProofs /\ ~calls[c].local)
  BY <1>2, RowsKept DEF Stored, RolloutInv, TypeOK
<1> QED
  BY <1>1, <1>2

(* A proof that is stored.                                                 *)
LEMMA StoreProofKeeps ==
    ASSUME RolloutInv, NEW c \in Calls, StoreProof(c)
    PROVE  RolloutInv'
<1>1. calls[c].live /\ Advance(c)
  BY DEF StoreProof, AtStep
<1>2. PICK call \in Call :
        /\ calls' = [calls EXCEPT ![c] = call]
        /\ call.kind = calls[c].kind /\ call.mode = calls[c].mode /\ call.local = calls[c].local
        /\ call.keys = calls[c].keys /\ call.action = calls[c].action
        /\ call.age = calls[c].age /\ call.raced = calls[c].raced /\ call.exit = calls[c].exit
        /\ call.at = calls[c].at + 1 /\ call.target = calls[c].target
        /\ call.live => calls[c].at < Len(PlanOf(c))
  BY <1>1, AdvancedCall
<1>3. Plain(c, "store", call)
  BY <1>2, StoredShape DEF Plain, StoreProof, world
<1> QED
  BY <1>3, PlainKeeps

(* An execution that is recorded.                                          *)
LEMMA RecordKeeps ==
    ASSUME RolloutInv, NEW c \in Calls, Record(c)
    PROVE  RolloutInv'
<1>1. calls[c].live /\ Advance(c)
  BY DEF Record, AtStep
<1>2. PICK call \in Call :
        /\ calls' = [calls EXCEPT ![c] = call]
        /\ call.kind = calls[c].kind /\ call.mode = calls[c].mode /\ call.local = calls[c].local
        /\ call.keys = calls[c].keys /\ call.action = calls[c].action
        /\ call.age = calls[c].age /\ call.raced = calls[c].raced /\ call.exit = calls[c].exit
        /\ call.at = calls[c].at + 1 /\ call.target = calls[c].target
        /\ call.live => calls[c].at < Len(PlanOf(c))
  BY <1>1, AdvancedCall
<1>3. Plain(c, "record", call)
  BY <1>2, StoredShape DEF Plain, Record, world
<1> QED
  BY <1>3, PlainKeeps

(* What a call at a step of its plan has behind it.                        *)
LEMMA EvidenceAt ==
    ASSUME RolloutInv, NEW c \in Calls, NEW step, AtStep(c, step)
    PROVE  /\ Made(c) /\ Evidence(c)
           /\ step = "touch" => Passed(c, "resolve")
           /\ step = "command" => ~Passed(c, "sync") /\ ~Passed(c, "command")
           /\ step = "sync" => calls[c].kind = "UPSTREAM_IDENTITY"
<1>1. Made(c) /\ calls[c].live
  BY MadeCall DEF AtStep, RolloutInv
<1>2. calls[c].at \in 1..Len(PlanOf(c)) /\ Evidence(c)
  BY <1>1 DEF RolloutInv, CallInv, Progress
<1>3. calls[c].kind \in Kinds /\ calls[c].mode \in Modes /\ calls[c].local \in BOOLEAN
  BY <1>1, MadeCall DEF RolloutInv
<1>4. step = "touch" => Passed(c, "resolve")
  BY <1>2, <1>3, PlanOrder DEF Passed, PlanOf, AtStep
<1>5. step = "command" => ~Passed(c, "sync") /\ ~Passed(c, "command")
  BY <1>2, <1>3, PlanOrder DEF Passed, PlanOf, AtStep
<1>6. step = "sync" => calls[c].kind = "UPSTREAM_IDENTITY"
  BY <1>2, <1>3, PlanOrder DEF PlanOf, AtStep
<1> QED
  BY <1>1, <1>2, <1>4, <1>5, <1>6

(* A target that is marked as used was resolved.                           *)
LEMMA TouchKeeps ==
    ASSUME RolloutInv, NEW c \in Calls, Touch(c)
    PROVE  RolloutInv'
<1>1. calls[c].live /\ Advance(c)
  BY DEF Touch, AtStep
<1>2. PICK call \in Call :
        /\ calls' = [calls EXCEPT ![c] = call]
        /\ call.kind = calls[c].kind /\ call.mode = calls[c].mode /\ call.local = calls[c].local
        /\ call.keys = calls[c].keys /\ call.action = calls[c].action
        /\ call.age = calls[c].age /\ call.raced = calls[c].raced /\ call.exit = calls[c].exit
        /\ call.at = calls[c].at + 1 /\ call.target = calls[c].target
        /\ call.live => calls[c].at < Len(PlanOf(c))
  BY <1>1, AdvancedCall
<1>3. calls[c].target \in Targets /\ integrations[calls[c].target].vouched
  BY EvidenceAt DEF Touch, Evidence
<1>4. integrations[calls[c].target] # NoRow
  BY <1>3 DEF NoRow
<1>5. /\ integrations' \in [Targets -> Row \cup {NoRow}]
      /\ VerifiedIsVouched' /\ UsedTargetsWereVerified'
      /\ \A u \in Targets : /\ integrations'[u].vouched = integrations[u].vouched
                            /\ integrations[u].lastUsed => integrations'[u].lastUsed
      /\ integrations'[calls[c].target].lastUsed
  BY <1>3, <1>4, TouchedRows DEF Touch
<1>6. Grown /\ objects' \subseteq Calls
  BY <1>5 DEF Grown, Touch, proof, RolloutInv, TypeOK
<1>7. Plain(c, "touch", call)
  BY <1>2, <1>5, <1>6 DEF Plain, Touch, world, proof
<1> QED
  BY <1>7, PlainKeeps

-----------------------------------------------------------------------------
(* Steps that are of no call.                                              *)

(* What no call notices.                                                   *)
LEMMA IdleKeeps ==
    ASSUME RolloutInv, TypeOK', VerifiedIsVouched', UsedTargetsWereVerified', Grown,
           UNCHANGED <<ran, rotated, identity, files, ledger>>,
           \A d \in Calls : /\ calls'[d].kind = calls[d].kind /\ calls'[d].mode = calls[d].mode /\ calls'[d].local = calls[d].local
                            /\ calls'[d].keys = calls[d].keys /\ calls'[d].action = calls[d].action
                            /\ calls'[d].age = calls[d].age /\ calls'[d].raced = calls[d].raced /\ calls'[d].exit = calls[d].exit
                            /\ calls'[d].at = calls[d].at /\ calls'[d].target = calls[d].target
                            /\ calls'[d].live => calls[d].live
    PROVE  RolloutInv'
<1>1. \A d \in Calls : Unmoved(d)
  BY DEF Unmoved
<1>2. \A d \in Calls : Backed(d)'
  BY <1>1, UnmovedKeeps DEF RolloutInv, CallInv, Backed
<1>3. \A d \in Calls : Alike(d)
  BY <1>1, UnmovedPassed DEF Alike
<1> QED
  BY <1>2, <1>3, QuietKeeps

(* A call that is cut leaves what it did.                                  *)
LEMMA CutKeeps ==
    ASSUME RolloutInv, NEW c \in Calls, Cut(c)
    PROVE  RolloutInv'
<1>1. calls[c] \in Call
  BY MadeCall DEF Cut, RolloutInv
<1>2. /\ calls'[c] = [calls[c] EXCEPT !.live = FALSE]
      /\ \A d \in Calls : d # c => calls'[d] = calls[d]
  BY DEF Cut, RolloutInv, TypeOK
<1>3. [calls[c] EXCEPT !.live = FALSE] \in Call
  BY <1>1 DEF Call
<1>4. TypeOK'
  BY <1>3 DEF Cut, RolloutInv, TypeOK, world, proof
<1>5. VerifiedIsVouched' /\ UsedTargetsWereVerified' /\ Grown
  BY RowsKept DEF Cut, proof
<1>6. \A d \in Calls :
        /\ calls'[d].kind = calls[d].kind /\ calls'[d].mode = calls[d].mode /\ calls'[d].local = calls[d].local
        /\ calls'[d].keys = calls[d].keys /\ calls'[d].action = calls[d].action
        /\ calls'[d].age = calls[d].age /\ calls'[d].raced = calls[d].raced /\ calls'[d].exit = calls[d].exit
        /\ calls'[d].at = calls[d].at /\ calls'[d].target = calls[d].target
        /\ calls'[d].live => calls[d].live
  BY <1>1, <1>2 DEF Call
<1> QED
  BY <1>4, <1>5, <1>6, IdleKeeps DEF Cut, world, proof

(* The registry changes no call, and never forgets who was vouched for.    *)
LEMMA GovernKeeps ==
    ASSUME RolloutInv, NEW t \in Targets, Govern(t)
    PROVE  RolloutInv'
<1>1. UNCHANGED <<calls, ran, rotated, identity, files, objects, ledger>>
  BY DEF Govern, Register, ChangeLifecycle, Verify, world, proof
<1> DEFINE Rewritten == \E row \in Row :
        /\ integrations' = [integrations EXCEPT ![t] = row]
        /\ row.verified => row.vouched
        /\ integrations[t].vouched => row.vouched
        /\ row.lastUsed = integrations[t].lastUsed
<1>2. Rewritten
  <2>1. CASE Register(t)
    <3> DEFINE row == [NoRow EXCEPT !.status = "ACTIVE"]
    <3>1. integrations' = [integrations EXCEPT ![t] = row] /\ integrations[t] = NoRow
      BY <2>1 DEF Register
    <3>2. /\ row \in Row /\ ~row.verified
          /\ ~NoRow.vouched /\ row.lastUsed = NoRow.lastUsed
      BY DEF NoRow, Row
    <3> HIDE DEF row
    <3> QED
      BY <3>1, <3>2
  <2>2. ASSUME NEW status \in {"ACTIVE", "SUSPENDED"}, ChangeLifecycle(t, status)
        PROVE  Rewritten
    <3>1. integrations[t] \in Row /\ integrations' = [integrations EXCEPT ![t].status = status]
      BY <2>2, RowShape DEF ChangeLifecycle, RolloutInv
    <3>2. integrations' = [integrations EXCEPT ![t] = [integrations[t] EXCEPT !.status = status]]
      BY <3>1
    <3>3. integrations[t].verified => integrations[t].vouched
      BY DEF RolloutInv, VerifiedIsVouched
    <3> DEFINE row == [integrations[t] EXCEPT !.status = status]
    <3>4. /\ row \in Row /\ row.verified = integrations[t].verified
          /\ row.vouched = integrations[t].vouched /\ row.lastUsed = integrations[t].lastUsed
      BY <2>2, <3>1 DEF Row
    <3> HIDE DEF row
    <3>5. integrations' = [integrations EXCEPT ![t] = row]
      BY <3>2 DEF row
    <3> QED
      BY <3>3, <3>4, <3>5
  <2>3. ASSUME NEW verified \in BOOLEAN, Verify(t, verified)
        PROVE  Rewritten
    <3> DEFINE row == [integrations[t] EXCEPT !.verified = verified, !.vouched = @ \/ verified]
    <3>1. integrations[t] \in Row /\ integrations' = [integrations EXCEPT ![t] = row]
      BY <2>3, RowShape DEF Verify, RolloutInv
    <3>2. /\ row \in Row /\ row.verified = verified
          /\ row.vouched = (integrations[t].vouched \/ verified)
          /\ row.lastUsed = integrations[t].lastUsed
      BY <3>1 DEF Row
    <3> HIDE DEF row
    <3> QED
      BY <3>1, <3>2
  <2> QED
    BY <2>1, <2>2, <2>3 DEF Govern
<1>3. PICK row \in Row :
        /\ integrations' = [integrations EXCEPT ![t] = row]
        /\ row.verified => row.vouched
        /\ integrations[t].vouched => row.vouched
        /\ row.lastUsed = integrations[t].lastUsed
  BY <1>2
<1>4. integrations'[t] = row /\ \A u \in Targets : u # t => integrations'[u] = integrations[u]
  BY <1>3 DEF RolloutInv, TypeOK
<1>5. TypeOK'
  BY <1>1, <1>3 DEF RolloutInv, TypeOK
<1>6. VerifiedIsVouched' /\ UsedTargetsWereVerified' /\ Grown
  BY <1>1, <1>3, <1>4 DEF RolloutInv, VerifiedIsVouched, UsedTargetsWereVerified, Grown
<1> QED
  BY <1>1, <1>5, <1>6, IdleKeeps
-----------------------------------------------------------------------------
(* Calls that are made.                                                    *)

(* A call that begins has nothing behind it, as it did nothing before.     *)
LEMMA BeginKeeps ==
    ASSUME RolloutInv, NEW c \in Calls, NEW call \in Call, Begin(c, call),
           call.at = 1, call.age = 0, ~call.raced, call.exit = "NONE",
           files' = files \/ files' = files \cup {<<c, "MANIFEST">>}
    PROVE  RolloutInv'
<1>1. /\ calls[c] = NotMade /\ calls' = [calls EXCEPT ![c] = call]
      /\ UNCHANGED <<integrations, ran, rotated, identity, objects, ledger>>
  BY DEF Begin, world
<1>2. calls'[c] = call /\ \A d \in Calls : d # c => calls'[d] = calls[d]
  BY <1>1 DEF RolloutInv, TypeOK
<1>3. TypeOK'
  BY <1>1 DEF RolloutInv, TypeOK
<1>4. VerifiedIsVouched' /\ UsedTargetsWereVerified' /\ Grown
  BY <1>1, RowsKept
<1>5. \A d \in Calls : <<d, "REPORT">> \in files' <=> <<d, "REPORT">> \in files
  OBVIOUS
<1>6. \A d \in Calls : d # c => Unmoved(d)
  BY <1>1, <1>2, <1>5 DEF Unmoved
<1>7. ~Made(c) /\ Untouched(c)
  BY <1>1 DEF Made, RolloutInv, CallInv
<1>8. \A step : ~Passed(c, step)'
  <2>1. calls'[c].at = 1
    BY <1>2
  <2> QED
    BY <2>1 DEF Passed
<1>9. Progress(c)'
  <2>1. /\ PlanOf(c)' = Plan(call.kind, call.mode, call.local)
        /\ call.kind \in Kinds /\ call.mode \in Modes /\ call.local \in BOOLEAN
    BY <1>2 DEF PlanOf, Call
  <2> DEFINE length == Len(PlanOf(c)')
  <2>2. length \in 2..7
    BY <2>1, PlanLength
  <2> HIDE DEF length
  <2>3. 1 \in 1..length /\ 1 \in 1..(length + 1)
    BY <2>2
  <2> QED
    BY <1>2, <2>3 DEF Progress, length
<1>10. \A d \in Calls : Backed(d)'
  <2>1. Made(c)'
    BY <1>2, <1>3, MadeCallNext
  <2>2. Evidence(c)'
    BY <1>1, <1>2, <1>5, <1>7, <1>8 DEF Evidence, Untouched
  <2>3. Backed(c)'
    BY <1>9, <2>1, <2>2 DEF Backed
  <2> QED
    BY <1>3, <1>4, <1>6, <2>3, UnmovedKeeps DEF RolloutInv, CallInv, Backed
<1>11. \A d \in Calls : d # c => Alike(d)
  BY <1>1, <1>2, <1>6, UnmovedPassed DEF Alike
<1>12. c \notin ran' /\ c \notin identity.last
  <2>1. c \notin ran /\ calls[c].kind # "UPSTREAM_IDENTITY"
    BY <1>1, <1>7 DEF Untouched, NotMade
  <2> QED
    BY <1>1, <2>1 DEF RolloutInv, LastIsKnown
<1>13. \A d \in Calls : RotationIsDated(d)'
  BY <1>1, <1>11, <1>12 DEF RolloutInv, CallInv, RotationIsDated, Alike
<1>14. LastIsKnown'
  <2>1. ~AtStep(c, "sync")'
    <3>1. PlanOf(c)' = Plan(call.kind, call.mode, call.local) /\ calls'[c].at = 1
      BY <1>2 DEF PlanOf
    <3>2. call.kind \in Kinds /\ call.mode \in Modes /\ call.local \in BOOLEAN
      BY DEF Call
    <3>3. PlanOf(c)'[1] # "sync"
      BY <3>1, <3>2, PlanShape DEF Modes
    <3> QED
      BY <3>1, <3>3 DEF AtStep
  <2>2. identity' = identity /\ identity.last \subseteq Calls
    BY <1>1 DEF RolloutInv, TypeOK
  <2> QED
    BY <1>11, <1>12, <2>1, <2>2 DEF RolloutInv, LastIsKnown, Alike
<1> QED
  BY <1>3, <1>4, <1>10, <1>13, <1>14 DEF RolloutInv, CallInv, Backed

(* Each of the four executions begins so.                                  *)
LEMMA AskKeeps ==
    ASSUME RolloutInv, NEW c \in Calls, Ask(c)
    PROVE  RolloutInv'
<1>1. 0 \in Ages /\ \A kind \in Kinds : ModesOf[kind] \subseteq Modes /\ LocalOf[kind] \subseteq BOOLEAN
  BY RolloutAssumption DEF Ages
<1>2. ASSUME NEW mode \in ModesOf["RESTORE_DRILL"], NEW local \in LocalOf["RESTORE_DRILL"],
             RestoreDrill(c, mode, local)
      PROVE  RolloutInv'
  <2> DEFINE call == NewCall("RESTORE_DRILL", mode, local, {}, "NONE")
  <2>1. Begin(c, call)
    BY <1>2 DEF RestoreDrill
  <2>2. call \in Call /\ call.at = 1 /\ call.age = 0 /\ ~call.raced /\ call.exit = "NONE"
    BY <1>1 DEF NewCall, Call, Kinds, Exits
  <2> HIDE DEF call
  <2> QED
    BY <1>2, <2>1, <2>2, BeginKeeps DEF RestoreDrill
<1>3. ASSUME NEW mode \in ModesOf["SECRET_ROTATION"], NEW keys \in (SUBSET Keys) \ {{}},
             RotateSecrets(c, mode, keys)
      PROVE  RolloutInv'
  <2> DEFINE call == NewCall("SECRET_ROTATION", mode, FALSE, keys, "NONE")
  <2>1. Begin(c, call)
    BY <1>3 DEF RotateSecrets
  <2>2. call \in Call /\ call.at = 1 /\ call.age = 0 /\ ~call.raced /\ call.exit = "NONE"
    BY <1>1 DEF NewCall, Call, Kinds, Exits
  <2> HIDE DEF call
  <2> QED
    BY <1>3, <2>1, <2>2, BeginKeeps DEF RotateSecrets
<1>4. ASSUME NEW mode \in ModesOf["DEPLOYMENT_AUTOMATION"], NEW drill \in Calls,
             NEW rotation \in Calls, NEW file, Promote(c, mode, drill, rotation, file)
      PROVE  RolloutInv'
  <2> DEFINE call == NewCall("DEPLOYMENT_AUTOMATION", mode, FALSE, {}, "NONE")
  <2>1. Begin(c, call)
    BY <1>4 DEF Promote
  <2>2. call \in Call /\ call.at = 1 /\ call.age = 0 /\ ~call.raced /\ call.exit = "NONE"
    BY <1>1 DEF NewCall, Call, Kinds, Exits
  <2> HIDE DEF call
  <2> QED
    BY <1>4, <2>1, <2>2, BeginKeeps DEF Promote
<1>5. ASSUME NEW mode \in ModesOf["UPSTREAM_IDENTITY"], NEW action \in Asked,
             NEW local \in LocalOf["UPSTREAM_IDENTITY"], SyncUpstream(c, mode, local, action)
      PROVE  RolloutInv'
  <2> DEFINE call == NewCall("UPSTREAM_IDENTITY", mode, local, {}, action)
  <2>1. Begin(c, call)
    BY <1>5 DEF SyncUpstream
  <2>2. call \in Call /\ call.at = 1 /\ call.age = 0 /\ ~call.raced /\ call.exit = "NONE"
    BY <1>1, RolloutAssumption DEF NewCall, Call, Kinds, Exits
  <2> HIDE DEF call
  <2> QED
    BY <1>5, <2>1, <2>2, BeginKeeps DEF SyncUpstream
<1> QED
  BY <1>2, <1>3, <1>4, <1>5 DEF Ask
-----------------------------------------------------------------------------
(* Commands, syncs and time.                                               *)

(* A sync leads to a status an account may have.                           *)
LEMMA StatusIsAccount ==
    ASSUME NEW action PROVE mapUpstreamLifecycleStatus(action) \in Accounts
BY DEF mapUpstreamLifecycleStatus, Accounts

(* What a command does to its call: it comes a step further, if its exit   *)
(* code passes for success, or ends.                                       *)
LEMMA AnsweredCall ==
    ASSUME RolloutInv, NEW c \in Calls, AtStep(c, "command"), NEW exit \in Exits
    PROVE  LET call == Answered(c, exit) IN
           /\ call \in Call
           /\ call.kind = calls[c].kind /\ call.mode = calls[c].mode
           /\ call.local = calls[c].local /\ call.keys = calls[c].keys
           /\ call.action = calls[c].action /\ call.age = calls[c].age
           /\ call.target = calls[c].target /\ call.exit = exit
           /\ Accepted(calls[c].kind, exit) =>
                /\ call.at = calls[c].at + 1
                /\ call.raced = (\E d \in Calls : AtStep(d, "sync"))
                /\ call.live => calls[c].at < Len(PlanOf(c))
           /\ ~Accepted(calls[c].kind, exit) => call.at = calls[c].at /\ ~call.live
<1> DEFINE others == \E d \in Calls : AtStep(d, "sync")
<1>1. calls[c].live /\ others \in BOOLEAN
  BY DEF AtStep
<1>2. Accepted(calls[c].kind, exit) =>
        Answered(c, exit) = [Stepped(c) EXCEPT !.exit = exit, !.raced = others]
  BY DEF Answered
<1>3. ~Accepted(calls[c].kind, exit) =>
        Answered(c, exit) = [calls[c] EXCEPT !.exit = exit, !.live = FALSE]
  BY DEF Answered
<1>4. /\ calls[c] \in Call /\ Stepped(c) \in Call
      /\ Stepped(c).kind = calls[c].kind /\ Stepped(c).mode = calls[c].mode
      /\ Stepped(c).local = calls[c].local
      /\ Stepped(c).keys = calls[c].keys /\ Stepped(c).action = calls[c].action
      /\ Stepped(c).target = calls[c].target /\ Stepped(c).age = calls[c].age
      /\ Stepped(c).at = calls[c].at + 1
      /\ Stepped(c).live => calls[c].at < Len(PlanOf(c))
  BY <1>1, SteppedCall
<1> HIDE DEF others
<1>5. CASE Accepted(calls[c].kind, exit)
  <2>1. Answered(c, exit) \in Call /\ Answered(c, exit).raced = others
    BY <1>1, <1>2, <1>4, <1>5 DEF Call
  <2>2. /\ Answered(c, exit).kind = Stepped(c).kind /\ Answered(c, exit).mode = Stepped(c).mode
        /\ Answered(c, exit).local = Stepped(c).local /\ Answered(c, exit).keys = Stepped(c).keys
        /\ Answered(c, exit).action = Stepped(c).action /\ Answered(c, exit).age = Stepped(c).age
        /\ Answered(c, exit).target = Stepped(c).target /\ Answered(c, exit).exit = exit
        /\ Answered(c, exit).at = Stepped(c).at /\ Answered(c, exit).live = Stepped(c).live
    BY <1>2, <1>4, <1>5 DEF Call
  <2> QED
    BY <1>4, <1>5, <2>1, <2>2 DEF others
<1>6. CASE ~Accepted(calls[c].kind, exit)
  BY <1>3, <1>4, <1>6 DEF Call
<1> QED
  BY <1>5, <1>6

(* An age is a number, and the older of two stays the older.               *)
LEMMA OlderAges ==
    /\ \A age \in Ages : Older(age) \in Ages
    /\ \A a, b \in Ages : a <= b => Older(a) <= Older(b)
BY RolloutAssumption DEF Ages, Older

(* A command.                                                              *)
LEMMA CommandKeeps ==
    ASSUME RolloutInv, NEW c \in Calls, Command(c)
    PROVE  RolloutInv'
<1>1. AtStep(c, "command") /\ UNCHANGED <<integrations, files, objects, ledger>>
  BY DEF Command, proof
<1>2. PICK exit \in Exits, worked \in BOOLEAN :
        /\ exit = "ZERO" => worked
        /\ calls' = [calls EXCEPT ![c] = Answered(c, exit)]
        /\ ran' = IF worked THEN ran \cup {c} ELSE ran
        /\ rotated' = [k \in Keys |-> IF worked /\ k \in calls[c].keys THEN 0 ELSE rotated[k]]
        /\ identity' = IF calls[c].kind # "UPSTREAM_IDENTITY" THEN identity
                       ELSE [identity EXCEPT !.last = {c}, !.account =
                               IF worked THEN mapUpstreamLifecycleStatus(calls[c].action) ELSE @]
  BY DEF Command
<1> DEFINE call == Answered(c, exit)
<1>3. /\ call \in Call
      /\ call.kind = calls[c].kind /\ call.mode = calls[c].mode
      /\ call.local = calls[c].local /\ call.keys = calls[c].keys
      /\ call.action = calls[c].action /\ call.age = calls[c].age
      /\ call.target = calls[c].target /\ call.exit = exit
      /\ Accepted(calls[c].kind, exit) =>
            /\ call.at = calls[c].at + 1
            /\ call.raced = (\E d \in Calls : AtStep(d, "sync"))
            /\ call.live => calls[c].at < Len(PlanOf(c))
      /\ ~Accepted(calls[c].kind, exit) => call.at = calls[c].at /\ ~call.live
  BY <1>1, AnsweredCall
<1>4. calls' = [calls EXCEPT ![c] = call]
  BY <1>2
<1> HIDE DEF call
<1>5. calls'[c] = call /\ \A d \in Calls : d # c => calls'[d] = calls[d]
  BY <1>4 DEF RolloutInv, TypeOK
<1>6. /\ identity' \in [upstream: Accounts \cup {"NONE"}, account: Accounts \cup {"NONE"},
                        last: SUBSET Calls]
      /\ calls[c].kind = "UPSTREAM_IDENTITY" =>
            /\ identity'.last = {c}
            /\ worked => identity'.account = mapUpstreamLifecycleStatus(calls[c].action)
      /\ calls[c].kind # "UPSTREAM_IDENTITY" => identity' = identity
  BY <1>2, StatusIsAccount DEF RolloutInv, TypeOK
<1>7. TypeOK'
  <2>1. rotated' \in [Keys -> Ages]
    BY <1>2, RolloutAssumption DEF RolloutInv, TypeOK, Ages
  <2>2. UNCHANGED <<integrations, files, objects, ledger>> /\ ran' \subseteq Calls
    BY <1>1, <1>2 DEF RolloutInv, TypeOK
  <2>3. calls' \in [Calls -> Call \cup {NotMade}]
    BY <1>3, <1>4 DEF RolloutInv, TypeOK
  <2> QED
    BY <1>6, <2>1, <2>2, <2>3 DEF RolloutInv, TypeOK
<1>8. VerifiedIsVouched' /\ UsedTargetsWereVerified' /\ Grown
  BY <1>1, RowsKept
<1>9. Made(c) /\ ~Passed(c, "sync") /\ ~Passed(c, "command")
  BY <1>1, EvidenceAt
<1>10. \A d \in Calls : d # c => Unmoved(d)
  BY <1>1, <1>2, <1>5 DEF Unmoved
<1>11. Accepted(calls[c].kind, exit) => Moved(c, "command")
  BY <1>1, <1>2, <1>3, <1>5 DEF Moved
<1>12. ~Accepted(calls[c].kind, exit) => Unmoved(c)
  BY <1>1, <1>2, <1>3, <1>5, <1>9 DEF Unmoved, Accepted
<1>13. \A d \in Calls : Backed(d)
  BY DEF RolloutInv, CallInv, Backed
<1>14. \A d \in Calls : Backed(d)'
  BY <1>7, <1>8, <1>10, <1>11, <1>12, <1>13, UnmovedKeeps, MovedKeeps DEF RolloutInv
<1>15. ~Passed(c, "sync")'
  BY <1>9, <1>11, <1>12, <1>13, UnmovedPassed, MovedPassed DEF RolloutInv
<1>16. \A d \in Calls : d # c => /\ Passed(d, "sync")' <=> Passed(d, "sync")
                                 /\ AtStep(d, "sync")' => AtStep(d, "sync")
  BY <1>10, UnmovedPassed
<1>17. ASSUME NEW d \in Calls PROVE RotationIsDated(d)'
  <2>1. \A k \in Keys : rotated'[k] = (IF worked /\ k \in calls[c].keys THEN 0 ELSE rotated[k])
    BY <1>2
  <2>2. ASSUME calls'[d].kind = "SECRET_ROTATION" PROVE calls[d] \in Call
    BY <1>3, <1>5, <2>2, MadeCall DEF RolloutInv, Kinds
  <2>3. ASSUME calls'[d].kind = "SECRET_ROTATION", d \in ran', NEW k \in calls'[d].keys
        PROVE  rotated'[k] <= calls'[d].age
    <3>1. /\ k \in Keys /\ k \in calls[d].keys
          /\ calls'[d].age = calls[d].age /\ calls[d].age \in Nat
      BY <1>3, <1>5, <2>2, <2>3, RolloutAssumption DEF Call, Ages
    <3>2. CASE worked /\ k \in calls[c].keys
      BY <2>1, <3>1, <3>2
    <3>3. CASE ~(worked /\ k \in calls[c].keys)
      <4>1. d \in ran /\ calls[d].kind = "SECRET_ROTATION"
        BY <1>2, <1>3, <1>5, <2>3, <3>1, <3>3
      <4>2. rotated[k] <= calls[d].age
        BY <3>1, <4>1 DEF RolloutInv, CallInv, RotationIsDated
      <4> QED
        BY <2>1, <3>1, <3>3, <4>2
    <3> QED
      BY <3>2, <3>3
  <2> QED
    BY <2>3 DEF RotationIsDated
<1>18. LastIsKnown'
  <2>1. CASE calls[c].kind = "UPSTREAM_IDENTITY"
    <3>1. ASSUME exit = "ZERO", NEW d \in Calls, AtStep(d, "sync")', d # c
          PROVE  calls'[c].raced
      BY <1>3, <1>5, <1>16, <3>1 DEF Accepted
    <3> QED
      BY <1>2, <1>3, <1>5, <1>6, <1>15, <2>1, <3>1 DEF LastIsKnown
  <2>2. CASE calls[c].kind # "UPSTREAM_IDENTITY"
    <3>1. identity' = identity /\ identity.last \subseteq Calls /\ c \notin identity.last
      BY <1>6, <2>2 DEF RolloutInv, TypeOK, LastIsKnown
    <3>2. ~AtStep(c, "sync")'
      <4>1. ASSUME AtStep(c, "sync")' PROVE FALSE
        <5>1. calls'[c].kind \in Kinds /\ calls'[c].mode \in Modes /\ calls'[c].local \in BOOLEAN
          BY <1>3, <1>5 DEF Call
        <5>2. calls'[c].at \in 1..Len(PlanOf(c)')
          BY <1>14, <4>1, <1>3, <1>5, <1>7, MadeCallNext DEF AtStep, Backed, Progress
        <5>3. calls'[c].kind = "UPSTREAM_IDENTITY"
          BY <4>1, <5>1, <5>2, PlanOrder DEF AtStep, PlanOf
        <5> QED
          BY <1>3, <1>5, <2>2, <5>3
      <4> QED
        BY <4>1
    <3> QED
      BY <1>5, <1>16, <3>1, <3>2 DEF RolloutInv, LastIsKnown
  <2> QED
    BY <2>1, <2>2
<1> QED
  BY <1>7, <1>8, <1>14, <1>17, <1>18 DEF RolloutInv, CallInv, Backed

(* A sync brings the row to what the account of a call that raced no other *)
(* is known to be.                                                         *)
LEMMA SyncAssignmentKeeps ==
    ASSUME RolloutInv, NEW c \in Calls, SyncAssignment(c)
    PROVE  RolloutInv'
<1>1. calls[c].live /\ Advance(c) /\ AtStep(c, "sync")
  BY DEF SyncAssignment, AtStep
<1>2. PICK call \in Call :
        /\ calls' = [calls EXCEPT ![c] = call]
        /\ call.kind = calls[c].kind /\ call.mode = calls[c].mode /\ call.local = calls[c].local
        /\ call.keys = calls[c].keys /\ call.action = calls[c].action
        /\ call.age = calls[c].age /\ call.raced = calls[c].raced /\ call.exit = calls[c].exit
        /\ call.at = calls[c].at + 1 /\ call.target = calls[c].target
        /\ call.live => calls[c].at < Len(PlanOf(c))
  BY <1>1, AdvancedCall
<1>3. UNCHANGED <<integrations, ran, rotated, files, objects, ledger>>
  BY DEF SyncAssignment, world, proof
<1>4. /\ identity' \in [upstream: Accounts \cup {"NONE"}, account: Accounts \cup {"NONE"},
                        last: SUBSET Calls]
      /\ identity'.account = identity.account /\ identity'.last = identity.last
      /\ identity'.upstream = mapUpstreamLifecycleStatus(calls[c].action)
  BY StatusIsAccount DEF SyncAssignment, RolloutInv, TypeOK
<1>5. calls'[c] = call /\ \A d \in Calls : d # c => calls'[d] = calls[d]
  BY <1>2 DEF RolloutInv, TypeOK
<1>6. TypeOK'
  BY <1>2, <1>3, <1>4 DEF RolloutInv, TypeOK
<1>7. VerifiedIsVouched' /\ UsedTargetsWereVerified' /\ Grown
  BY <1>3, RowsKept
<1>8. Moved(c, "sync")
  BY <1>1, <1>2, <1>3, <1>5 DEF Moved
<1>9. \A d \in Calls : d # c => Unmoved(d)
  BY <1>3, <1>5 DEF Unmoved
<1>10. \A d \in Calls : Backed(d)
  BY DEF RolloutInv, CallInv, Backed
<1>11. \A d \in Calls : Backed(d)'
  BY <1>6, <1>7, <1>8, <1>9, <1>10, UnmovedKeeps, MovedKeeps DEF RolloutInv
<1>12. \A d \in Calls : RotationIsDated(d)'
  BY <1>2, <1>3, <1>5 DEF RolloutInv, CallInv, RotationIsDated
<1>13. LastIsKnown'
  <2>1. ASSUME NEW e \in identity.last, calls'[e].exit = "ZERO"
        PROVE  /\ e \in Calls /\ calls[e].exit = "ZERO" /\ calls'[e].raced = calls[e].raced
               /\ calls'[e].action = calls[e].action
    BY <1>2, <1>5, <2>1 DEF RolloutInv, TypeOK
  <2>2. ASSUME NEW e \in identity.last, calls'[e].exit = "ZERO", ~calls'[e].raced
        PROVE  e = c
    BY <1>1, <2>1, <2>2 DEF RolloutInv, LastIsKnown
  <2>3. ~AtStep(c, "sync")'
    BY <1>1, <1>8, <1>10, MovedAt DEF RolloutInv
  <2>4. \A d \in Calls : AtStep(d, "sync")' => AtStep(d, "sync")
    BY <1>9, <2>3, UnmovedPassed
  <2>5. \A e \in identity.last : calls'[e].kind = "UPSTREAM_IDENTITY"
    BY <1>2, <1>5 DEF RolloutInv, TypeOK, LastIsKnown
  <2> QED
    BY <1>4, <2>1, <2>2, <2>4, <2>5 DEF RolloutInv, LastIsKnown
<1> QED
  BY <1>6, <1>7, <1>11, <1>12, <1>13 DEF RolloutInv, CallInv, Backed

(* Secrets and the rotations that are dated grow old together.             *)
LEMMA PassKeeps ==
    ASSUME RolloutInv, Pass
    PROVE  RolloutInv'
<1>1. /\ rotated' = [k \in Keys |-> Older(rotated[k])]
      /\ UNCHANGED <<integrations, ran, identity, files, objects, ledger>>
  BY DEF Pass, proof
<1>2. ASSUME NEW d \in Calls
      PROVE  /\ calls'[d] \in Call \cup {NotMade}
             /\ calls'[d].kind = calls[d].kind /\ calls'[d].mode = calls[d].mode /\ calls'[d].local = calls[d].local
             /\ calls'[d].keys = calls[d].keys /\ calls'[d].action = calls[d].action
             /\ calls'[d].raced = calls[d].raced /\ calls'[d].exit = calls[d].exit /\ calls'[d].at = calls[d].at
             /\ calls'[d].target = calls[d].target /\ calls'[d].live = calls[d].live
             /\ calls[d].kind = "SECRET_ROTATION" => calls'[d].age = Older(calls[d].age)
  <2>1. CASE Dated(d)
    <3>1. calls[d] \in Call /\ calls'[d] = [calls[d] EXCEPT !.age = Older(@)]
      BY <2>1, MadeCall DEF Dated, Kinds, RolloutInv, Pass
    <3>2. Older(calls[d].age) \in Ages
      BY <3>1, OlderAges DEF Call
    <3> QED
      BY <3>1, <3>2 DEF Call
  <2>2. CASE ~Dated(d)
    <3>1. calls'[d] = calls[d] /\ calls[d].kind # "SECRET_ROTATION"
      BY <2>2 DEF Dated, Pass
    <3> QED
      BY <3>1 DEF RolloutInv, TypeOK
  <2> QED
    BY <2>1, <2>2
<1>3. TypeOK'
  <2>1. calls' \in [Calls -> Call \cup {NotMade}]
    <3>1. DOMAIN calls' = Calls /\ calls' = [d \in Calls |-> calls'[d]]
      BY DEF Pass
    <3> QED
      BY <1>2, <3>1
  <2>2. rotated' \in [Keys -> Ages]
    BY <1>1, OlderAges DEF RolloutInv, TypeOK
  <2> QED
    BY <1>1, <2>1, <2>2 DEF RolloutInv, TypeOK
<1>4. VerifiedIsVouched' /\ UsedTargetsWereVerified' /\ Grown
  BY <1>1, RowsKept
<1>5. \A d \in Calls : Unmoved(d)
  BY <1>1, <1>2 DEF Unmoved
<1>6. \A d \in Calls : Backed(d)'
  BY <1>3, <1>4, <1>5, UnmovedKeeps DEF RolloutInv, CallInv, Backed
<1>9. ASSUME NEW d \in Calls PROVE RotationIsDated(d)'
  <2>1. ASSUME calls'[d].kind = "SECRET_ROTATION", d \in ran', NEW k \in calls'[d].keys
        PROVE  rotated'[k] <= calls'[d].age
    <3>1. calls[d] \in Call /\ k \in calls[d].keys
      BY <1>2, <2>1, MadeCall DEF RolloutInv, Kinds
    <3>2. k \in Keys /\ rotated[k] \in Ages /\ calls[d].age \in Ages
      BY <3>1 DEF Call, RolloutInv, TypeOK
    <3>3. rotated[k] <= calls[d].age
      BY <1>1, <1>2, <2>1, <3>1 DEF RolloutInv, CallInv, RotationIsDated
    <3>4. rotated'[k] = Older(rotated[k]) /\ calls'[d].age = Older(calls[d].age)
      BY <1>1, <1>2, <2>1, <3>2
    <3> QED
      BY <3>2, <3>3, <3>4, OlderAges
  <2> QED
    BY <2>1 DEF RotationIsDated
<1>10. LastIsKnown'
  <2>1. \A d \in Calls : /\ Passed(d, "sync")' <=> Passed(d, "sync")
                         /\ AtStep(d, "sync")' => AtStep(d, "sync")
    BY <1>5, UnmovedPassed
  <2>2. identity' = identity /\ identity.last \subseteq Calls
    BY <1>1 DEF RolloutInv, TypeOK
  <2> QED
    BY <1>2, <2>1, <2>2 DEF RolloutInv, LastIsKnown
<1> QED
  BY <1>3, <1>4, <1>6, <1>9, <1>10 DEF RolloutInv, CallInv, Backed

-----------------------------------------------------------------------------
(* The theorems.                                                           *)

(* No call was made yet, and a target that was set up is vouched for.      *)
LEMMA InitRolloutInv == Init => RolloutInv
<1> SUFFICES ASSUME Init PROVE RolloutInv
  OBVIOUS
<1>1. TypeOK
  <2>1. GoodRow \in Row /\ Window + 1 \in Ages
    BY RolloutAssumption DEF GoodRow, Row, Ages
  <2> QED
    BY <2>1 DEF Init, TypeOK
<1>2. \A c \in Calls : ~Made(c) /\ Untouched(c) /\ ~calls[c].live
  BY DEF Init, Made, Untouched, NotMade
<1>3. \A c \in Calls : c \notin ran
  BY DEF Init
<1>4. VerifiedIsVouched /\ UsedTargetsWereVerified
  BY DEF Init, VerifiedIsVouched, UsedTargetsWereVerified, GoodRow, NoRow
<1>5. LastIsKnown
  BY DEF Init, LastIsKnown
<1> QED
  BY <1>1, <1>2, <1>3, <1>4, <1>5 DEF RolloutInv, CallInv, Progress, RotationIsDated

(* Every step keeps the invariant.                                         *)
LEMMA StepKeeps == RolloutInv /\ [Next]_vars => RolloutInv'
<1> SUFFICES ASSUME RolloutInv, [Next]_vars PROVE RolloutInv'
  OBVIOUS
<1>1. CASE UNCHANGED vars
  <2>1. UNCHANGED <<integrations, calls, ran, rotated, identity, files, objects, ledger>>
    BY <1>1 DEF vars, world, proof
  <2>2. TypeOK'
    BY <2>1 DEF RolloutInv, TypeOK
  <2> QED
    BY <2>1, <2>2, IdleKeeps, RowsKept
<1>2. ASSUME NEW c \in Calls, Ask(c) \/ Step(c) PROVE RolloutInv'
  BY <1>2, AskKeeps, ResolveKeeps, CommandKeeps, SyncAssignmentKeeps, FileReportKeeps,
     StoreProofKeeps, TouchKeeps, RecordKeeps, CutKeeps DEF Step
<1>3. ASSUME NEW t \in Targets, Govern(t) PROVE RolloutInv'
  BY <1>3, GovernKeeps
<1>4. CASE Pass
  BY <1>4, PassKeeps
<1> QED
  BY <1>1, <1>2, <1>3, <1>4 DEF Next

(* The invariant is one of the specification.                              *)
THEOREM Invariance == Spec => []RolloutInv
<1> QED
  BY InitRolloutInv, StepKeeps, PTL DEF Spec

(* Rows, calls and proofs stay within their types.                         *)
THEOREM TypeCorrect == Spec => []TypeOK
<1>1. RolloutInv => TypeOK
  BY DEF RolloutInv
<1> QED
  BY <1>1, Invariance, PTL

(* Nothing is sent through a target that no operator ever verified.        *)
THEOREM TargetSafety == Spec => []UsedTargetsWereVerified
<1>1. RolloutInv => UsedTargetsWereVerified
  BY DEF RolloutInv
<1> QED
  BY <1>1, Invariance, PTL

(* The upstream status kept with an assignment is that of its account once *)
(* the last sync, answered zero and raced by no other, has written its row.*)
THEOREM AccountSafety == Spec => []RowTellsAccount
<1>1. RolloutInv => RowTellsAccount
  BY DEF RolloutInv, LastIsKnown, RowTellsAccount
<1> QED
  BY <1>1, Invariance, PTL

(* What a report or a ledger row says of the steps before it.              *)
LEMMA ReportEvidence ==
    ASSUME RolloutInv, NEW c \in Calls, <<c, "REPORT">> \in files, calls[c].mode # "dry-run"
    PROVE  /\ calls[c].exit = "ZERO" => c \in ran
           /\ calls[c].kind = "RESTORE_DRILL" => c \in ran
<1>1. Made(c) /\ Evidence(c) /\ Passed(c, "file")
  BY DEF RolloutInv, CallInv, Untouched, Evidence
<1>2. calls[c].kind \in Kinds /\ calls[c].mode \in Modes /\ calls[c].local \in BOOLEAN
  BY <1>1, MadeCall DEF RolloutInv
<1>3. calls[c].at \in 1..(Len(PlanOf(c)) + 1) /\ Len(PlanOf(c)) \in 2..7
  BY <1>1, <1>2, PlanLength DEF RolloutInv, CallInv, Progress, PlanOf
<1>4. PICK i \in 1..(calls[c].at - 1) : PlanOf(c)[i] = "file"
  BY <1>1 DEF Passed
<1> DEFINE length == Len(PlanOf(c))
<1>5. length \in 2..7 /\ calls[c].at \in 1..(length + 1)
  BY <1>3
<1> HIDE DEF length
<1>6. i \in 1..length /\ \A j \in 1..(i - 1) : j \in 1..(calls[c].at - 1)
  BY <1>4, <1>5
<1>7. \E j \in 1..(i - 1) : PlanOf(c)[j] = "command"
  BY <1>2, <1>4, <1>6, PlanOrder DEF PlanOf, length
<1>8. Passed(c, "command")
  BY <1>6, <1>7 DEF Passed
<1> QED
  BY <1>1, <1>8 DEF Evidence, Accepted

(* The same of a row of the ledger, with every step that comes before it.  *)
LEMMA LedgerEvidence ==
    ASSUME RolloutInv, NEW c \in ledger
    PROVE  /\ c \in Calls /\ Evidence(c)
           /\ calls[c].mode # "dry-run" => Passed(c, "command")
           /\ Passed(c, "file")
           /\ ~calls[c].local => Passed(c, "store")
           /\ calls[c].mode = "command" /\ ~calls[c].local => Passed(c, "touch")
<1>1. c \in Calls /\ Made(c) /\ Evidence(c) /\ Passed(c, "record")
  BY DEF RolloutInv, TypeOK, CallInv, Untouched, Evidence
<1>2. calls[c].kind \in Kinds /\ calls[c].mode \in Modes /\ calls[c].local \in BOOLEAN
  BY <1>1, MadeCall DEF RolloutInv
<1>3. calls[c].at \in 1..(Len(PlanOf(c)) + 1) /\ Len(PlanOf(c)) \in 2..7
  BY <1>1, <1>2, PlanLength DEF RolloutInv, CallInv, Progress, PlanOf
<1>4. PICK i \in 1..(calls[c].at - 1) : PlanOf(c)[i] = "record"
  BY <1>1 DEF Passed
<1> DEFINE length == Len(PlanOf(c))
           Before(step) == \E j \in 1..(i - 1) : PlanOf(c)[j] = step
<1>5. length \in 2..7 /\ calls[c].at \in 1..(length + 1)
  BY <1>3
<1> HIDE DEF length
<1>6. i \in 1..length /\ \A j \in 1..(i - 1) : j \in 1..(calls[c].at - 1)
  BY <1>4, <1>5
<1>7. /\ calls[c].mode # "dry-run" => Before("command")
      /\ Before("file") /\ (~calls[c].local => Before("store"))
      /\ calls[c].mode = "command" /\ ~calls[c].local => Before("touch")
  <2>1. /\ calls[c].mode # "dry-run" => Before("command")
        /\ Before("file")
    BY <1>2, <1>4, <1>6, PlanOrder DEF PlanOf, length
  <2>2. ASSUME ~calls[c].local
        PROVE  Before("store") /\ (calls[c].mode = "command" => Before("touch"))
    BY <1>2, <1>4, <1>6, <2>2, PlanRecord DEF PlanOf, length
  <2> QED
    BY <2>1, <2>2
<1> QED
  BY <1>1, <1>6, <1>7 DEF Passed

(* What the ledger records took place, and its proof is kept.              *)
THEOREM LedgerSafety == Spec => []LedgerRecordsWhatRan
<1>1. RolloutInv => LedgerRecordsWhatRan
  BY LedgerEvidence DEF LedgerRecordsWhatRan, Evidence, Accepted
<1> QED
  BY <1>1, Invariance, PTL

(* A promotion that names the report of a rotation that answered zero      *)
(* follows a drill that did restore and a rotation of every secret it      *)
(* wants rotated.                                                          *)
THEOREM PromotionSafety == Spec => PromotionsAreProven
<1>1. ASSUME RolloutInv, NEW c \in Calls, NEW drill \in Calls, NEW rotation \in Calls,
             NEW mode \in Modes, calls[rotation].exit = "ZERO",
             Promote(c, mode, drill, rotation, "REPORT")
      PROVE  drill \in ran /\ \A k \in Required : rotated[k] <= Window
  <2>1. DrillProof(drill) /\ RotationProof(rotation, "REPORT")
    BY <1>1 DEF Promote
  <2>2. drill \in ran /\ rotation \in ran
    <3>1. drill \in ran
      BY <1>1, <2>1, ReportEvidence DEF DrillProof
    <3>2. rotation \in ran
      BY <1>1, <2>1, MadeCall DEF RotationProof, RolloutInv, CallInv, Evidence, Kinds
    <3> QED
      BY <3>1, <3>2
  <2>3. calls[rotation] \in Call
    BY <1>1, <2>1, MadeCall DEF RotationProof, Kinds, RolloutInv
  <2>4. calls[rotation].age <= Window /\ Required \subseteq calls[rotation].keys
    BY <2>1 DEF RotationProof, Fresh
  <2>5. ASSUME NEW k \in Required PROVE rotated[k] <= Window
    <3>1. rotated[k] <= calls[rotation].age
      BY <1>1, <2>1, <2>2, <2>4 DEF RolloutInv, CallInv, RotationIsDated, RotationProof
    <3>2. rotated[k] \in Nat /\ calls[rotation].age \in Nat /\ Window \in Nat
      BY <1>1, <2>3, RolloutAssumption DEF RolloutInv, TypeOK, Call, Ages
    <3> QED
      BY <2>4, <3>1, <3>2
  <2> QED
    BY <2>2, <2>5
<1>2. RolloutInv /\ [Next]_vars =>
        [\A c \in Calls : calls[c] = NotMade /\ calls'[c] # NotMade =>
            \A drill, rotation \in Calls, mode \in Modes :
                /\ calls[rotation].exit = "ZERO"
                /\ Promote(c, mode, drill, rotation, "REPORT")
                => drill \in ran /\ \A k \in Required : rotated[k] <= Window]_vars
  BY <1>1
<1> QED
  BY <1>2, Invariance, PTL DEF Spec, PromotionsAreProven
=============================================================================
