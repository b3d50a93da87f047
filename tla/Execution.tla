------------------------------ MODULE Execution ------------------------------
(***************************************************************************)
(* How an accepted Task is performed (aksond): a confined worker (`task    *)
(* run`) or the operator (`task fulfill`, the worker socket) produces      *)
(* outputs, and `submit_result` stages their bytes and completes the       *)
(* attempt.                                                                *)
(*                                                                         *)
(* The sockets serve connections concurrently and share one store lock.    *)
(* Each commit of a handler in the lock is a step (a crash or a failing    *)
(* store call may fall between two), and `lock` holds what it has left to  *)
(* do.  What `run_worker` does without the lock is a step of its own.      *)
(* Approval models how the attempt and its order come to be; its head is   *)
(* locked before the attempt exists and stays so.                          *)
(***************************************************************************)
EXTENDS Attempts, Integers

CONSTANTS
    Runs,       \* `task run` calls that may be under way at once
    Artifacts,  \* output ids: the response and the declared artifacts
    Contents,   \* output bytes
    NoContent,  \* no staged bytes under an output id
    NoResult,   \* no results row
    NoDir,      \* no run directory
    NoRun       \* a run slot with no call in it

(* The outputs of one submission: ids with their bytes, at least one. *)
Submission == UNION {[S -> Contents] : S \in (SUBSET Artifacts) \ {{}}}
Nothing == [a \in {} |-> NoContent]
Files == Submission \cup {Nothing}

Run == [pc : {"gathered", "prepared", "scoped", "running", "exited", "submitting", "failing"},
        task : Tasks, bound : BOOLEAN, left : SUBSET Artifacts, got : Files]
Operator == "operator"
Free == [op |-> "free"]
Issue == [op : {"put_order"}, task : Tasks]
Submit == [op : {"submit"}, task : Tasks, by : Runs \cup {Operator},
           outputs : Submission, left : SUBSET Artifacts]

ASSUME ExecutionAssumption ==
    /\ NoContent \notin Contents
    /\ NoResult \notin Submission
    /\ NoDir \notin Files
    /\ NoRun \notin Run
    /\ Operator \notin Runs

VARIABLES
    outputs,    \* task_outputs, insert-once per output id
    results,    \* the results row: what its manifest covers
    lock,       \* what the handler holding the store lock has left to do
    runs,       \* the `task run` calls
    dirs,       \* the output files in the run directory of each task
    cgroups,    \* the tasks whose worker cgroup exists
    launches,   \* history: how often a worker was launched, 2 for "again"
    interrupted \* history: tasks a store call failed for between two commits

outputVars == <<outputs, results>>
runVars == <<runs, dirs, cgroups, launches>>
vars == <<attemptVars, outputVars, lock, runVars, interrupted>>

TypeOK ==
    /\ AttemptsTypeOK
    /\ outputs \in [Tasks -> [Artifacts -> Contents \cup {NoContent}]]
    /\ results \in [Tasks -> Submission \cup {NoResult}]
    /\ lock \in {Free} \cup Issue \cup Submit
    /\ runs \in [Runs -> Run \cup {NoRun}]
    /\ dirs \in [Tasks -> Files \cup {NoDir}]
    /\ cgroups \subseteq Tasks
    /\ launches \in [Tasks -> 0..2]
    /\ interrupted \subseteq Tasks

Init ==
    /\ AttemptsInit
    /\ outputs = [t \in Tasks |-> [a \in Artifacts |-> NoContent]]
    /\ results = [t \in Tasks |-> NoResult]
    /\ lock = Free
    /\ runs = [c \in Runs |-> NoRun]
    /\ dirs = [t \in Tasks |-> NoDir]
    /\ cgroups = {}
    /\ launches = [t \in Tasks |-> 0]
    /\ interrupted = {}

-----------------------------------------------------------------------------
Again(n) == IF n = 2 THEN 2 ELSE n + 1

(* The two commits that issue a work order for an accepted task.  An       *)
(* approval locks its head once, so a task is issued at most once.         *)

IssueClaims(t) ==
    /\ lock = Free
    /\ attempts[t] = "none"
    /\ claim_attempt(t)
    /\ lock' = [op |-> "put_order", task |-> t]
    /\ UNCHANGED <<outputVars, runVars, interrupted>>

IssuePutsOrder ==
    /\ lock.op = "put_order"
    /\ put_work_order(lock.task)
    /\ lock' = Free
    /\ UNCHANGED <<outputVars, runVars, interrupted>>

-----------------------------------------------------------------------------
(* Results: `submit_result` stages the bytes, one commit per output, then  *)
(* completes the attempt and records the manifest in one transaction.      *)

Submittable(t) ==
    /\ lock = Free
    /\ attempts[t] # "none"
    /\ t \in orders

submit_result(t, sub, by) ==
    /\ Submittable(t)
    /\ attempts[t] # "succeeded"
    /\ lock' = [op |-> "submit", task |-> t, by |-> by, outputs |-> sub, left |-> DOMAIN sub]

(* `task fulfill`, and a submission on the worker socket.  A repeat for a   *)
(* completed attempt changes nothing.                                      *)
Fulfill(t, sub) ==
    /\ submit_result(t, sub, Operator)
    /\ UNCHANGED <<attemptVars, outputVars, runVars, interrupted>>

(* ON CONFLICT DO NOTHING: bytes already staged under the id stay. *)
put_task_output(a) ==
    /\ lock.op = "submit"
    /\ a \in lock.left
    /\ outputs' = [outputs EXCEPT ![lock.task][a] =
                     IF @ = NoContent THEN lock.outputs[a] ELSE @]
    /\ lock' = [lock EXCEPT !.left = @ \ {a}]
    /\ UNCHANGED <<attemptVars, results, runVars, interrupted>>

(* A worker writes to the directory it was bound to; removing the run      *)
(* directory of a task cuts every run of it from its path.                 *)
Unbound(rs, t) ==
    [c \in Runs |-> IF rs[c] # NoRun /\ rs[c].task = t
                    THEN [rs[c] EXCEPT !.bound = FALSE] ELSE rs[c]]

(* A recorded run clears its scratch directory; every return that made the *)
(* cgroup drops it.                                                        *)
RunRecorded(c, t) ==
    /\ dirs' = [dirs EXCEPT ![t] = NoDir]
    /\ runs' = [Unbound(runs, t) EXCEPT ![c] = NoRun]
    /\ cgroups' = cgroups \ {t}

(* Mutant: the attempt completes before its bytes are staged. *)
complete_attempt_with_result_Early ==
    /\ lock.op = "submit"
    /\ attempts[lock.task] \in {"claimed", "running"}
    /\ attempts' = [attempts EXCEPT ![lock.task] = "succeeded"]
    /\ results' = [results EXCEPT ![lock.task] = lock.outputs]
    /\ lock' = Free
    /\ IF lock.by \in Runs THEN RunRecorded(lock.by, lock.task) ELSE UNCHANGED <<dirs, runs, cgroups>>
    /\ UNCHANGED <<orders, outputs, launches, interrupted>>

complete_attempt_with_result ==
    /\ lock.op = "submit"
    /\ lock.left = {}
    /\ lock' = Free
    /\ LET t == lock.task IN
       \/ /\ attempts[t] \in {"claimed", "running"}
          /\ attempts' = [attempts EXCEPT ![t] = "succeeded"]
          /\ results' = [results EXCEPT ![t] = lock.outputs]
          /\ IF lock.by \in Runs THEN RunRecorded(lock.by, t) ELSE UNCHANGED <<dirs, runs, cgroups>>
       \/ /\ attempts[t] \notin {"claimed", "running"}
          /\ runs' = IF lock.by \in Runs THEN [runs EXCEPT ![lock.by].pc = "failing"] ELSE runs
          /\ UNCHANGED <<attempts, results, dirs, cgroups>>
    /\ UNCHANGED <<orders, outputs, launches, interrupted>>

-----------------------------------------------------------------------------
(* `run_worker`. *)

RunGather(c, t) ==
    /\ lock = Free
    /\ runs[c] = NoRun
    /\ attempts[t] # "none" /\ t \in orders
    /\ runs' = [runs EXCEPT ![c] = [pc |-> "gathered", task |-> t, bound |-> FALSE,
                                    left |-> {}, got |-> Nothing]]
    /\ UNCHANGED <<attemptVars, outputVars, lock, dirs, cgroups, launches, interrupted>>

(* The run directory is wiped and made anew, whoever uses it. *)
RunPrepare(c) ==
    /\ runs[c] # NoRun /\ runs[c].pc = "gathered"
    /\ LET t == runs[c].task IN
         /\ dirs' = [dirs EXCEPT ![t] = Nothing]
         /\ runs' = [Unbound(runs, t) EXCEPT ![c].pc = "prepared"]
    /\ UNCHANGED <<attemptVars, outputVars, lock, cgroups, launches, interrupted>>

(* Mutant: a leaf that exists already is used. *)
CgroupCreate_Reuse(c) ==
    /\ runs[c] # NoRun /\ runs[c].pc = "prepared"
    /\ cgroups' = cgroups \cup {runs[c].task}
    /\ runs' = [runs EXCEPT ![c].pc = "scoped"]
    /\ UNCHANGED <<attemptVars, outputVars, lock, dirs, launches, interrupted>>

(* A leaf that exists already is an error: 503. *)
CgroupCreate(c) ==
    /\ runs[c] # NoRun /\ runs[c].pc = "prepared"
    /\ LET t == runs[c].task IN
         IF t \notin cgroups
         THEN /\ cgroups' = cgroups \cup {t}
              /\ runs' = [runs EXCEPT ![c].pc = "scoped"]
         ELSE /\ runs' = [runs EXCEPT ![c] = NoRun]
              /\ UNCHANGED cgroups
    /\ UNCHANGED <<attemptVars, outputVars, lock, dirs, launches, interrupted>>

(* Mutant: the outcome of the compare-and-swap is not looked at. *)
RunStart_NoCas(c) ==
    /\ lock = Free
    /\ runs[c] # NoRun /\ runs[c].pc = "scoped"
    /\ LET t == runs[c].task IN
         /\ advance_attempt(t, "Start")
         /\ launches' = [launches EXCEPT ![t] = Again(@)]
         /\ runs' = [runs EXCEPT ![c].pc = "running", ![c].bound = dirs[t] # NoDir]
    /\ UNCHANGED <<outputVars, lock, dirs, cgroups, interrupted>>

(* Mutant: the worker is launched with the attempt still Claimed. *)
RunStart_Unmarked(c) ==
    /\ lock = Free
    /\ runs[c] # NoRun /\ runs[c].pc = "scoped"
    /\ next(attempts[runs[c].task], "Start") # {}
    /\ launches' = [launches EXCEPT ![runs[c].task] = Again(@)]
    /\ runs' = [runs EXCEPT ![c].pc = "running", ![c].bound = dirs[runs[c].task] # NoDir]
    /\ UNCHANGED <<attemptVars, outputVars, lock, dirs, cgroups, interrupted>>

(* The attempt is marked Running before the launch; a second run is        *)
(* refused here (409) and drops its cgroup.                                *)
RunStart(c) ==
    /\ lock = Free
    /\ runs[c] # NoRun /\ runs[c].pc = "scoped"
    /\ LET t == runs[c].task IN
         /\ advance_attempt(t, "Start")
         /\ IF next(attempts[t], "Start") # {}
            THEN /\ launches' = [launches EXCEPT ![t] = Again(@)]
                 /\ runs' = [runs EXCEPT ![c].pc = "running", ![c].bound = dirs[t] # NoDir]
                 /\ UNCHANGED cgroups
            ELSE /\ runs' = [runs EXCEPT ![c] = NoRun]
                 /\ cgroups' = cgroups \ {t}
                 /\ UNCHANGED launches
    /\ UNCHANGED <<outputVars, lock, dirs, interrupted>>

WorkerExits(c, files) ==
    /\ runs[c] # NoRun /\ runs[c].pc = "running"
    /\ dirs' = IF runs[c].bound THEN [dirs EXCEPT ![runs[c].task] = files] ELSE dirs
    /\ runs' = [runs EXCEPT ![c].pc = "exited", ![c].left = Artifacts]
    /\ UNCHANGED <<attemptVars, outputVars, lock, cgroups, launches, interrupted>>

(* One file of the output directory is read, by path. *)
Collect(c, a) ==
    /\ runs[c] # NoRun /\ runs[c].pc = "exited"
    /\ a \in runs[c].left
    /\ LET d == dirs[runs[c].task]
           g == runs[c].got
       IN runs' = [runs EXCEPT ![c].left = @ \ {a},
                               ![c].got = IF d # NoDir /\ a \in DOMAIN d
                                          THEN [b \in DOMAIN g \cup {a} |->
                                                  IF b = a THEN d[a] ELSE g[b]]
                                          ELSE g]
    /\ UNCHANGED <<attemptVars, outputVars, lock, dirs, cgroups, launches, interrupted>>

(* A result recorded by someone else meanwhile is answered as completed. *)
RunSubmit(c) ==
    /\ runs[c] # NoRun /\ runs[c].pc = "exited" /\ runs[c].left = {}
    /\ runs[c].got # Nothing
    /\ LET t == runs[c].task IN
       \/ /\ submit_result(t, runs[c].got, c)
          /\ runs' = [runs EXCEPT ![c].pc = "submitting"]
          /\ UNCHANGED <<dirs, cgroups>>
       \/ /\ Submittable(t) /\ attempts[t] = "succeeded"
          /\ RunRecorded(c, t)
          /\ UNCHANGED lock
    /\ UNCHANGED <<attemptVars, outputVars, launches, interrupted>>

(* Mutant: no wall clock on the worker. *)
RunErr_NoWallClock(c) ==
    /\ runs[c] # NoRun /\ runs[c].pc = "exited"
    /\ runs' = [runs EXCEPT ![c].pc = "failing"]
    /\ UNCHANGED <<attemptVars, outputVars, lock, dirs, cgroups, launches, interrupted>>

(* The launch fails, the wall clock kills the worker, an output is         *)
(* malformed or outside the grant, or there is none.                       *)
RunErr(c) ==
    /\ runs[c] # NoRun /\ runs[c].pc \in {"running", "exited"}
    /\ runs' = [runs EXCEPT ![c].pc = "failing"]
    /\ UNCHANGED <<attemptVars, outputVars, lock, dirs, cgroups, launches, interrupted>>

(* Mutant: a failed run leaves its attempt as it is. *)
MarkFailed_Lingers(c, committed) ==
    /\ lock = Free
    /\ runs[c] # NoRun /\ runs[c].pc = "failing"
    /\ runs' = [runs EXCEPT ![c] = NoRun]
    /\ cgroups' = cgroups \ {runs[c].task}
    /\ UNCHANGED <<attemptVars, outputVars, lock, dirs, launches, interrupted>>

(* Best effort: the error of a failing store call is dropped. *)
MarkFailed(c, committed) ==
    /\ lock = Free
    /\ runs[c] # NoRun /\ runs[c].pc = "failing"
    /\ LET t == runs[c].task IN
         /\ IF committed
            THEN advance_attempt(t, "Fail") /\ UNCHANGED interrupted
            ELSE interrupted' = interrupted \cup {t} /\ UNCHANGED attemptVars
         /\ cgroups' = cgroups \ {t}
    /\ runs' = [runs EXCEPT ![c] = NoRun]
    /\ UNCHANGED <<outputVars, lock, dirs, launches>>

-----------------------------------------------------------------------------
(* Faults.  A failing store call ends the handler in the lock; a crash     *)
(* ends every call, and the restart resolves the attempts in flight.       *)

StoreFails ==
    /\ lock # Free
    /\ interrupted' = interrupted \cup {lock.task}
    /\ lock' = Free
    /\ runs' = IF lock.op = "submit" /\ lock.by \in Runs
               THEN [runs EXCEPT ![lock.by].pc = "failing"] ELSE runs
    /\ UNCHANGED <<attemptVars, outputVars, dirs, cgroups, launches>>

(* The directory or the inputs cannot be written, the cgroup not be made    *)
(* or limited, the Start not be stored: the call ends before the launch,    *)
(* and the attempt stays as it was.                                        *)
RunAborts(c) ==
    /\ runs[c] # NoRun /\ runs[c].pc \in {"gathered", "prepared", "scoped"}
    /\ runs' = [runs EXCEPT ![c] = NoRun]
    /\ cgroups' = IF runs[c].pc = "scoped" THEN cgroups \ {runs[c].task} ELSE cgroups
    /\ UNCHANGED <<attemptVars, outputVars, lock, dirs, launches, interrupted>>

Crash ==
    /\ resolve_crashed_attempts
    /\ lock' = Free
    /\ runs' = [c \in Runs |-> NoRun]
    /\ UNCHANGED <<outputVars, dirs, cgroups, launches, interrupted>>

-----------------------------------------------------------------------------
LockStep ==
    \/ IssuePutsOrder
    \/ \E a \in Artifacts : put_task_output(a)
    \/ complete_attempt_with_result

RunStep(c) ==
    \/ RunPrepare(c)
    \/ CgroupCreate(c)
    \/ RunStart(c)
    \/ \E a \in Artifacts : Collect(c, a)
    \/ RunSubmit(c)
    \/ RunErr(c)
    \/ \E committed \in BOOLEAN : MarkFailed(c, committed)

Next ==
    \/ \E t \in Tasks : IssueClaims(t)
    \/ LockStep
    \/ \E t \in Tasks, sub \in Submission : Fulfill(t, sub)
    \/ \E c \in Runs, t \in Tasks : RunGather(c, t)
    \/ \E c \in Runs, files \in Files : WorkerExits(c, files)
    \/ \E c \in Runs : RunStep(c)
    \/ \E c \in Runs : RunAborts(c)
    \/ StoreFails
    \/ Crash

Spec == Init /\ [][Next]_vars

(* A handler in the lock goes on, and the thread of a run does too and     *)
(* gets the lock in the end however often others take it.  Nothing makes a *)
(* worker exit: only the wall clock ends it.                               *)
Fairness ==
    /\ WF_vars(LockStep)
    /\ \A c \in Runs : SF_vars(RunStep(c))

FairSpec == Spec /\ Fairness

-----------------------------------------------------------------------------
(* A worker is launched at most once for a task, however `task run` calls, *)
(* crashes and restarts interleave: the Start compare-and-swap is taken    *)
(* before the sandbox (run_worker, "Durable-before-effect").               *)
LaunchedOnce == \A t \in Tasks : launches[t] <= 1

(* While a run has a worker or its outputs in hand, the attempt is Running *)
(* or was completed by another submission; never claimable again, failed   *)
(* or ambiguous behind its back.                                           *)
RunHasAuthority ==
    \A c \in Runs :
        runs[c] # NoRun /\ runs[c].pc \in {"running", "exited", "submitting"}
          => /\ attempts[runs[c].task] \in {"running", "succeeded"}
             /\ runs[c].task \in orders

(* Two calls never hold the confinement of one task at once: the cgroup    *)
(* leaf is made exclusively and dropped on every return.                   *)
OneConfinedRun ==
    \A c, d \in Runs :
        (runs[c] # NoRun /\ runs[d] # NoRun /\ c # d /\ runs[c].task = runs[d].task)
          => \E e \in {c, d} : runs[e].pc \in {"gathered", "prepared"}

(* The bytes task_outputs holds for t, by id. *)
StagedOutputs(t) == [a \in {b \in Artifacts : outputs[t][b] # NoContent} |-> outputs[t][a]]

(* A completed task holds a result, and the bytes it has staged are        *)
(* exactly the ones its manifest covers (submit_result,                    *)
(* "staged-then-atomic"), for any race of `task run`, `task fulfill` and   *)
(* the worker socket, and any crash.  A task one of whose handlers met a   *)
(* failing store call is left out: see SucceededHoldsItsBytes.             *)
ManifestCoversOutputs ==
    \A t \in Tasks :
        /\ attempts[t] = "succeeded" <=> results[t] # NoResult
        /\ attempts[t] = "succeeded" /\ t \notin interrupted
             => StagedOutputs(t) = results[t]

(* What an attempt came to is final: no retry, late worker, failing run or *)
(* restart moves a terminal attempt, replaces a recorded result or changes *)
(* the bytes of a completed task.                                          *)
OutcomeIsFinal ==
    [][\A t \in Tasks :
         attempts[t] \in Terminal =>
           /\ attempts'[t] = attempts[t]
           /\ results'[t] = results[t]
           /\ attempts[t] = "succeeded" => outputs'[t] = outputs[t]]_vars

(* Every step of the handlers, the runs, the workers and the restart is a  *)
(* step in the life of a task, seen from its acceptance on: however they   *)
(* interleave, a worker starts under an order and once, and the result is  *)
(* the manifest together with the bytes that are staged when it commits.   *)
lifeOf(t) == IF attempts[t] = "none" THEN "accepted" ELSE attempts[t]
deliveredOf(t) == IF attempts[t] = "succeeded" THEN {[manifest |-> results[t], bytes |-> outputs[t]]}
                  ELSE {}

Life == INSTANCE TaskLife WITH
    First <- "accepted",
    Undelivered <- {},
    life <- [t \in Tasks |-> lifeOf(t)],
    ordered <- orders,
    started <- launches,
    delivered <- [t \in Tasks |-> deliveredOf(t)]

ImplementsTaskLife == Life!Spec

(* Every `task run` call ends, also when its worker never exits. *)
RunsEnd == \A c \in Runs : runs[c] # NoRun ~> runs[c] = NoRun

(* A Running attempt comes to an outcome, unless the one store call that   *)
(* would have recorded it failed.                                          *)
RunningResolves ==
    \A t \in Tasks : attempts[t] = "running" ~> attempts[t] \in Terminal \/ t \in interrupted

(* A completed task holds the bytes its manifest refers to: "the Task      *)
(* moves to COMPLETED only when all referenced bytes and the manifest      *)
(* commit durably" (submit_result).                                        *)
SucceededHoldsItsBytes ==
    \A t \in Tasks :
        attempts[t] = "succeeded"
          => \A a \in DOMAIN results[t] : outputs[t][a] = results[t][a]

(* A run's worker and its collected outputs use the directory its call     *)
(* found prepared, until the call ends: "two `task run` calls for one task *)
(* cannot interleave and race on the shared run directory" (run_worker).   *)
RunDirIsPrivate ==
    \A c \in Runs : runs[c] # NoRun /\ runs[c].pc \in {"running", "exited"} => runs[c].bound

=============================================================================
