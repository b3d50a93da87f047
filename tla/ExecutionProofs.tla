---------------------------- MODULE ExecutionProofs ----------------------------
(***************************************************************************)
(* Proofs about Execution, for every choice of its constants.              *)
(***************************************************************************)
EXTENDS Execution, TLAPS

(* What the store lock may hold, and when a submission holds it. *)
Locks == {Free} \cup Issue \cup Submit
Submitting == lock.op = "submit"

(* The lock is free, or held by an issue, or by a submission. *)
LEMMA LockCases ==
    ASSUME TypeOK
    PROVE  /\ \/ lock = Free /\ lock.op = "free"
              \/ lock \in Issue /\ lock.op = "put_order"
              \/ lock \in Submit /\ Submitting
           /\ lock.op = "put_order" => lock \in Issue /\ lock.task \in Tasks
           /\ Submitting => /\ lock \in Submit
                            /\ lock.task \in Tasks
                            /\ lock.by \in Runs \cup {Operator}
                            /\ lock.outputs \in Submission
                            /\ lock.left \subseteq Artifacts
  BY DEF TypeOK, Free, Issue, Submit, Submitting

(* The outputs of a submission are a non-empty set of ids, each with bytes. *)
LEMMA SubmissionFacts ==
    ASSUME NEW f \in Submission
    PROVE  /\ DOMAIN f \in SUBSET Artifacts
           /\ f = [a \in DOMAIN f |-> f[a]]
           /\ \A a \in DOMAIN f : f[a] \in Contents /\ f[a] # NoContent
  BY ExecutionAssumption DEF Submission

(* The steps of Next. *)
LEMMA StepCases ==
    ASSUME [Next]_vars
    PROVE  \/ UNCHANGED vars
           \/ \E t \in Tasks : IssueClaims(t)
           \/ IssuePutsOrder
           \/ \E a \in Artifacts : put_task_output(a)
           \/ complete_attempt_with_result
           \/ \E t \in Tasks, sub \in Submission : Fulfill(t, sub)
           \/ \E c \in Runs, t \in Tasks : RunGather(c, t)
           \/ \E c \in Runs, files \in Files : WorkerExits(c, files)
           \/ \E c \in Runs : RunPrepare(c)
           \/ \E c \in Runs : CgroupCreate(c)
           \/ \E c \in Runs : RunStart(c)
           \/ \E c \in Runs, a \in Artifacts : Collect(c, a)
           \/ \E c \in Runs : RunSubmit(c)
           \/ \E c \in Runs : RunErr(c)
           \/ \E c \in Runs, committed \in BOOLEAN : MarkFailed(c, committed)
           \/ \E c \in Runs : RunAborts(c)
           \/ StoreFails
           \/ Crash
  BY SMTT(30) DEF Next, LockStep, RunStep

(* A call's record with one part replaced is a call's record. *)
LEMMA RunParts ==
    ASSUME NEW run \in Run
    PROVE  /\ run.task \in Tasks /\ run.left \subseteq Artifacts /\ run.got \in Files
           /\ \A p \in {"prepared", "scoped", "submitting", "failing"} : [run EXCEPT !.pc = p] \in Run
           /\ \A b \in BOOLEAN : [run EXCEPT !.bound = b] \in Run
           /\ \A b \in BOOLEAN : [run EXCEPT !.pc = "running", !.bound = b] \in Run
           /\ [run EXCEPT !.pc = "exited", !.left = Artifacts] \in Run
           /\ \A S \in SUBSET Artifacts, g \in Files : [run EXCEPT !.left = S, !.got = g] \in Run
  BY Zenon DEF Run

(* Replacing a part of a call's record keeps its task. *)
LEMMA RunPhases ==
    ASSUME NEW run \in Run
    PROVE  /\ \A p \in {"prepared", "scoped", "submitting", "failing"} :
                 [run EXCEPT !.pc = p].pc = p /\ [run EXCEPT !.pc = p].task = run.task
           /\ \A b : /\ [run EXCEPT !.pc = "running", !.bound = b].pc = "running"
                     /\ [run EXCEPT !.pc = "running", !.bound = b].task = run.task
           /\ [run EXCEPT !.pc = "exited", !.left = Artifacts].pc = "exited"
           /\ [run EXCEPT !.pc = "exited", !.left = Artifacts].task = run.task
           /\ \A S, g : /\ [run EXCEPT !.left = S, !.got = g].pc = run.pc
                        /\ [run EXCEPT !.left = S, !.got = g].task = run.task
  BY DEF Run

(* A wiped directory cuts calls from it and changes nothing else of them. *)
LEMMA UnboundKeeps ==
    ASSUME TypeOK, NEW t \in Tasks
    PROVE  /\ Unbound(runs, t) \in [Runs -> Run \cup {NoRun}]
           /\ \A c \in Runs :
                 /\ Unbound(runs, t)[c] = NoRun <=> runs[c] = NoRun
                 /\ runs[c] # NoRun => /\ Unbound(runs, t)[c].pc = runs[c].pc
                                       /\ Unbound(runs, t)[c].task = runs[c].task
<1> SUFFICES ASSUME NEW c \in Runs
             PROVE  /\ Unbound(runs, t)[c] \in Run \cup {NoRun}
                    /\ Unbound(runs, t)[c] = NoRun <=> runs[c] = NoRun
                    /\ runs[c] # NoRun => /\ Unbound(runs, t)[c].pc = runs[c].pc
                                          /\ Unbound(runs, t)[c].task = runs[c].task
  BY DEF Unbound
<1>1. CASE runs[c] = NoRun
  BY <1>1 DEF Unbound
<1>2. CASE runs[c] # NoRun
  <2>1. runs[c] \in Run
    BY <1>2 DEF TypeOK
  <2>2. [runs[c] EXCEPT !.bound = FALSE] \in Run
    BY <2>1, RunParts, Zenon
  <2>3. /\ [runs[c] EXCEPT !.bound = FALSE].pc = runs[c].pc
        /\ [runs[c] EXCEPT !.bound = FALSE].task = runs[c].task
    BY <2>1 DEF Run
  <2>4. Unbound(runs, t)[c] \in {runs[c], [runs[c] EXCEPT !.bound = FALSE]}
    BY DEF Unbound
  <2>5. QED
    BY <1>2, <2>1, <2>2, <2>3, <2>4, ExecutionAssumption, Zenon
<1>3. QED
  BY <1>1, <1>2

(* Reading one more file keeps what was collected a set of outputs. *)
LEMMA Collected ==
    ASSUME NEW g \in Files, NEW d \in Files, NEW a \in DOMAIN d
    PROVE  [b \in DOMAIN g \cup {a} |-> IF b = a THEN d[a] ELSE g[b]] \in Files
<1> DEFINE h == [b \in DOMAIN g \cup {a} |-> IF b = a THEN d[a] ELSE g[b]]
<1>1. d \in Submission
  BY DEF Files, Nothing
<1>2. a \in Artifacts /\ d[a] \in Contents
  BY <1>1, SubmissionFacts
<1>3. DOMAIN g \subseteq Artifacts /\ \A b \in DOMAIN g : g[b] \in Contents
  <2>1. CASE g \in Submission
    BY <2>1, SubmissionFacts
  <2>2. CASE g = Nothing
    BY <2>2 DEF Nothing
  <2>3. QED
    BY <2>1, <2>2 DEF Files
<1>4. h \in [DOMAIN g \cup {a} -> Contents]
  BY <1>2, <1>3
<1>5. DOMAIN g \cup {a} \in (SUBSET Artifacts) \ {{}}
  BY <1>2, <1>3
<1>6. h \in Submission
  BY <1>4, <1>5, Zenon DEF Submission
<1>7. QED
  BY <1>6 DEF Files

-----------------------------------------------------------------------------
(* The initial state has the declared types. *)
LEMMA TypeInit == Init => TypeOK
  BY DEF Init, TypeOK, AttemptsInit, AttemptsTypeOK, AttemptState

(* next: an attempt starts from Claimed and fails from Running. *)
LEMMA NextState ==
    \A s \in AttemptState :
        /\ next(s, "Start") = IF s = "claimed" THEN {"running"} ELSE {}
        /\ next(s, "Fail") = IF s = "running" THEN {"failed"} ELSE {}
  BY DEF next, Transition, AttemptState

(* What the two compare-and-swaps of a run do to the attempt. *)
LEMMA Advanced ==
    ASSUME TypeOK, NEW t \in Tasks
    PROVE  /\ advance_attempt(t, "Start") =>
                 /\ attempts' = [attempts EXCEPT ![t] = IF @ = "claimed" THEN "running" ELSE @]
                 /\ UNCHANGED orders
           /\ advance_attempt(t, "Fail") =>
                 /\ attempts' = [attempts EXCEPT ![t] = IF @ = "running" THEN "failed" ELSE @]
                 /\ UNCHANGED orders
<1>1. attempts[t] \in AttemptState
  BY DEF TypeOK, AttemptsTypeOK
<1>2. \A x : (CHOOSE n \in {x} : TRUE) = x
  OBVIOUS
<1>3. (IF next(attempts[t], "Start") # {} THEN CHOOSE n \in next(attempts[t], "Start") : TRUE
       ELSE attempts[t]) = IF attempts[t] = "claimed" THEN "running" ELSE attempts[t]
  BY <1>1, <1>2, NextState
<1>4. (IF next(attempts[t], "Fail") # {} THEN CHOOSE n \in next(attempts[t], "Fail") : TRUE
       ELSE attempts[t]) = IF attempts[t] = "running" THEN "failed" ELSE attempts[t]
  BY <1>1, <1>2, NextState
<1>5. QED
  BY <1>3, <1>4, Zenon DEF advance_attempt, TypeOK, AttemptsTypeOK

(* Attempts keep their types and move only along their states; orders stay.   *)
AttemptMoves ==
    /\ AttemptsTypeOK'
    /\ orders \subseteq orders'
    /\ \A t \in Tasks :
          /\ attempts[t] \in Terminal => attempts'[t] = attempts[t]
          /\ attempts[t] # "none" => attempts'[t] # "none"
          /\ attempts'[t] \in {"none", "claimed"} => attempts[t] \in {"none", "claimed"}

(* No handler, run or restart moves an attempt that came to an end, or moves  *)
(* one back.                                                                  *)
LEMMA AttemptsMove ==
    ASSUME TypeOK, [Next]_vars
    PROVE  AttemptMoves
<1> USE DEF AttemptMoves, AttemptsTypeOK, AttemptState, Terminal
<1>0. AttemptsTypeOK
  BY DEF TypeOK
<1>1. ASSUME NEW t \in Tasks, IssueClaims(t) PROVE AttemptMoves
  BY <1>0, <1>1 DEF IssueClaims, claim_attempt
<1>2. CASE IssuePutsOrder
  BY <1>0, <1>2, LockCases DEF IssuePutsOrder, put_work_order
<1>3. CASE complete_attempt_with_result
  <2>1. lock.task \in Tasks
    BY <1>3, LockCases DEF complete_attempt_with_result, Submitting
  <2>2. /\ orders' = orders
        /\ \/ UNCHANGED attempts
           \/ /\ attempts[lock.task] \in {"claimed", "running"}
              /\ attempts' = [attempts EXCEPT ![lock.task] = "succeeded"]
    BY <1>3 DEF complete_attempt_with_result
  <2>3. QED
    BY <1>0, <2>1, <2>2
<1>4. ASSUME NEW c \in Runs, RunStart(c) PROVE AttemptMoves
  <2>1. runs[c].task \in Tasks /\ advance_attempt(runs[c].task, "Start")
    BY <1>4, RunParts, Zenon DEF RunStart, TypeOK
  <2>2. QED
    BY <1>0, <2>1, Advanced
<1>5. ASSUME NEW c \in Runs, NEW committed \in BOOLEAN, MarkFailed(c, committed) PROVE AttemptMoves
  <2>1. /\ runs[c].task \in Tasks
        /\ advance_attempt(runs[c].task, "Fail") \/ UNCHANGED attemptVars
    BY <1>5, RunParts, Zenon DEF MarkFailed, TypeOK
  <2>2. CASE advance_attempt(runs[c].task, "Fail")
    BY <1>0, <2>1, <2>2, Advanced
  <2>3. CASE UNCHANGED attemptVars
    BY <1>0, <2>3 DEF attemptVars
  <2>4. QED
    BY <2>1, <2>2, <2>3, SMTT(30)
<1>6. CASE Crash
  BY <1>0, <1>6 DEF Crash, resolve_crashed_attempts
<1>7. CASE UNCHANGED attemptVars
  BY <1>0, <1>7 DEF attemptVars
<1>8. QED
  BY <1>1, <1>2, <1>3, <1>4, <1>5, <1>6, <1>7, StepCases, Zenon DEF vars, put_task_output, Fulfill,
     RunGather, WorkerExits, RunPrepare, CgroupCreate, Collect, RunSubmit, RunErr, RunAborts,
     StoreFails

-----------------------------------------------------------------------------
(* How the calls move.  A call keeps its phase and task, ends, or goes on to  *)
(* another phase.                                                             *)
Same(c) ==
    /\ runs'[c] = NoRun <=> runs[c] = NoRun
    /\ runs[c] # NoRun => runs'[c].pc = runs[c].pc /\ runs'[c].task = runs[c].task
GoesOn(c, p) ==
    /\ runs[c] # NoRun /\ runs'[c] # NoRun
    /\ runs'[c].pc = p /\ runs'[c].task = runs[c].task
RunsType == runs \in [Runs -> Run \cup {NoRun}]
Others(c) == RunsType' /\ \A d \in Runs : d # c => Same(d)

(* A call that is replaced by one with another phase goes on to that phase. *)
LEMMA Replaced ==
    ASSUME TypeOK, NEW c \in Runs, runs[c] # NoRun, NEW run \in Run, run.task = runs[c].task,
           runs' = [runs EXCEPT ![c] = run]
    PROVE  Others(c) /\ GoesOn(c, run.pc)
  BY ExecutionAssumption DEF Others, GoesOn, Same, RunsType, TypeOK

(* A call that returns leaves the other calls as they are. *)
LEMMA Ended ==
    ASSUME TypeOK, NEW c \in Runs, runs' = [runs EXCEPT ![c] = NoRun]
    PROVE  Others(c) /\ runs'[c] = NoRun
  BY ExecutionAssumption DEF Others, Same, RunsType, TypeOK

(* A call that recorded its result ends and wipes its directory. *)
LEMMA Recorded ==
    ASSUME TypeOK, NEW c \in Runs, NEW t \in Tasks, RunRecorded(c, t)
    PROVE  Others(c) /\ runs'[c] = NoRun /\ cgroups' = cgroups \ {t}
  BY UnboundKeeps DEF RunRecorded, Others, Same, RunsType

(* A submission in the lock stages outputs it has, of an attempt that is not  *)
(* completed; one of a `task run` call belongs to that call, which waits for  *)
(* it, and a call that waits is the one in the lock.                          *)
SubmitInv ==
    /\ Submitting =>
          /\ lock.left \subseteq DOMAIN lock.outputs
          /\ attempts[lock.task] \notin {"none", "succeeded"}
          /\ lock.by \in Runs => /\ runs[lock.by] # NoRun
                                 /\ runs[lock.by].pc = "submitting"
                                 /\ runs[lock.by].task = lock.task
    /\ \A c \in Runs : runs[c] # NoRun /\ runs[c].pc = "submitting" => Submitting /\ lock.by = c

(* `task run` gathers its inputs. *)
LEMMA GatherMoves ==
    ASSUME TypeOK, NEW c \in Runs, NEW t \in Tasks, RunGather(c, t)
    PROVE  /\ Others(c) /\ runs[c] = NoRun /\ runs'[c] # NoRun
           /\ runs'[c].pc = "gathered" /\ runs'[c].task = t
<1> DEFINE run == [pc |-> "gathered", task |-> t, bound |-> FALSE, left |-> {}, got |-> Nothing]
<1>1. run \in Run
  BY DEF Run, Files
<1>2. runs' = [runs EXCEPT ![c] = run] /\ runs[c] = NoRun
  BY DEF RunGather
<1>3. QED
  BY <1>1, <1>2, ExecutionAssumption, Zenon DEF Others, Same, RunsType, TypeOK

(* It prepares its directory, cutting the other calls of the task from it. *)
LEMMA PrepareMoves ==
    ASSUME TypeOK, NEW c \in Runs, RunPrepare(c)
    PROVE  Others(c) /\ runs[c].pc = "gathered" /\ GoesOn(c, "prepared")
<1>1. runs[c] \in Run /\ runs[c] # NoRun /\ runs[c].pc = "gathered" /\ runs[c].task \in Tasks
  BY RunParts, Zenon DEF RunPrepare, TypeOK
<1> DEFINE U == Unbound(runs, runs[c].task)
<1>2. runs' = [U EXCEPT ![c].pc = "prepared"]
  BY DEF RunPrepare
<1>3. /\ U \in [Runs -> Run \cup {NoRun}]
      /\ \A d \in Runs : /\ U[d] = NoRun <=> runs[d] = NoRun
                         /\ runs[d] # NoRun => U[d].pc = runs[d].pc /\ U[d].task = runs[d].task
  BY <1>1, UnboundKeeps
<1> HIDE DEF U
<1>4. U[c] \in Run
  BY <1>1, <1>3, SMTT(30)
<1>5. [U[c] EXCEPT !.pc = "prepared"] \in Run
  BY <1>4, RunParts, Zenon
<1>6. /\ [U[c] EXCEPT !.pc = "prepared"].pc = "prepared"
      /\ [U[c] EXCEPT !.pc = "prepared"].task = runs[c].task
  BY <1>1, <1>3, <1>4, RunPhases
<1>7. runs'[c] = [U[c] EXCEPT !.pc = "prepared"] /\ \A d \in Runs : d # c => runs'[d] = U[d]
  BY <1>2, <1>3
<1>8. RunsType'
  BY <1>2, <1>3, <1>5 DEF RunsType
<1>9. QED
  BY <1>1, <1>3, <1>5, <1>6, <1>7, <1>8, ExecutionAssumption DEF Others, Same, GoesOn

(* It makes its cgroup leaf, or returns because the leaf is there already. *)
LEMMA CgroupMoves ==
    ASSUME TypeOK, NEW c \in Runs, CgroupCreate(c)
    PROVE  /\ Others(c) /\ runs[c] # NoRun /\ runs[c].pc = "prepared"
           /\ \/ /\ runs[c].task \notin cgroups /\ cgroups' = cgroups \cup {runs[c].task}
                 /\ GoesOn(c, "scoped")
              \/ runs'[c] = NoRun /\ cgroups' = cgroups
<1>1. runs[c] \in Run /\ runs[c] # NoRun /\ runs[c].pc = "prepared"
  BY SMTT(30) DEF CgroupCreate, TypeOK
<1>2. /\ [runs[c] EXCEPT !.pc = "scoped"] \in Run
      /\ [runs[c] EXCEPT !.pc = "scoped"].task = runs[c].task
      /\ [runs[c] EXCEPT !.pc = "scoped"].pc = "scoped"
  BY <1>1, RunParts, RunPhases, Zenon
<1>3. CASE /\ runs[c].task \notin cgroups /\ cgroups' = cgroups \cup {runs[c].task}
           /\ runs' = [runs EXCEPT ![c].pc = "scoped"]
  <2>1. runs' = [runs EXCEPT ![c] = [runs[c] EXCEPT !.pc = "scoped"]]
    BY <1>3 DEF TypeOK
  <2>2. QED
    BY <1>1, <1>2, <1>3, <2>1, Replaced, Zenon
<1>4. CASE runs' = [runs EXCEPT ![c] = NoRun] /\ cgroups' = cgroups
  BY <1>1, <1>4, Ended, Zenon
<1>5. QED
  BY <1>3, <1>4 DEF CgroupCreate

(* It starts the attempt and launches, or is refused and drops its leaf. *)
LEMMA StartMoves ==
    ASSUME TypeOK, NEW c \in Runs, RunStart(c)
    PROVE  /\ Others(c) /\ runs[c] # NoRun /\ runs[c].pc = "scoped" /\ lock = Free
           /\ runs[c].task \in Tasks
           /\ attempts' = [attempts EXCEPT ![runs[c].task] =
                             IF @ = "claimed" THEN "running" ELSE @]
           /\ \/ /\ attempts[runs[c].task] = "claimed"
                 /\ GoesOn(c, "running") /\ cgroups' = cgroups
                 /\ launches' = [launches EXCEPT ![runs[c].task] = Again(@)]
              \/ /\ runs'[c] = NoRun /\ cgroups' = cgroups \ {runs[c].task}
                 /\ launches' = launches
<1>1. runs[c] \in Run /\ runs[c] # NoRun /\ runs[c].pc = "scoped" /\ lock = Free
      /\ runs[c].task \in Tasks
  BY RunParts, Zenon DEF RunStart, TypeOK
<1>2. attempts' = [attempts EXCEPT ![runs[c].task] = IF @ = "claimed" THEN "running" ELSE @]
  BY <1>1, Advanced DEF RunStart
<1>3. CASE /\ next(attempts[runs[c].task], "Start") # {}
           /\ launches' = [launches EXCEPT ![runs[c].task] = Again(@)]
           /\ runs' = [runs EXCEPT ![c].pc = "running", ![c].bound = dirs[runs[c].task] # NoDir]
           /\ UNCHANGED cgroups
  <2> DEFINE b == dirs[runs[c].task] # NoDir
             run == [runs[c] EXCEPT !.pc = "running", !.bound = b]
  <2>1. runs' = [runs EXCEPT ![c] = run]
    BY <1>1, <1>3, Zenon DEF TypeOK
  <2>2. b \in BOOLEAN
    OBVIOUS
  <2> HIDE DEF b
  <2>3. run \in Run /\ run.task = runs[c].task /\ run.pc = "running"
    <3>1. run \in Run
      BY <1>1, <2>2, RunParts, Zenon
    <3>2. run.task = runs[c].task /\ run.pc = "running"
      BY <1>1 DEF Run
    <3>3. QED
      BY <3>1, <3>2
  <2>4. Others(c) /\ GoesOn(c, "running")
    <3> HIDE DEF run
    <3> QED
      BY <1>1, <2>1, <2>3, Replaced, Zenon
  <2>5. attempts[runs[c].task] = "claimed"
    BY <1>1, <1>3, NextState DEF TypeOK, AttemptsTypeOK
  <2>6. QED
    BY <1>1, <1>2, <1>3, <2>4, <2>5
<1>4. CASE /\ runs' = [runs EXCEPT ![c] = NoRun]
           /\ cgroups' = cgroups \ {runs[c].task}
           /\ UNCHANGED launches
  BY <1>1, <1>2, <1>4, Ended, Zenon
<1>5. QED
  BY <1>3, <1>4, SMTT(30) DEF RunStart

(* The worker exits, one file is collected, or the run fails: the call goes   *)
(* on, in the same or in the next phase.                                      *)
LEMMA WorkMoves ==
    ASSUME TypeOK, NEW c \in Runs
    PROVE  /\ \A files \in Files : WorkerExits(c, files) =>
                 Others(c) /\ runs[c].pc = "running" /\ GoesOn(c, "exited")
           /\ \A a \in Artifacts : Collect(c, a) =>
                 Others(c) /\ runs[c].pc = "exited" /\ GoesOn(c, "exited")
           /\ RunErr(c) =>
                 Others(c) /\ runs[c].pc \in {"running", "exited"} /\ GoesOn(c, "failing")
<1>0. runs \in [Runs -> Run \cup {NoRun}]
  BY DEF TypeOK
<1>1. ASSUME NEW files \in Files, WorkerExits(c, files)
      PROVE  Others(c) /\ runs[c].pc = "running" /\ GoesOn(c, "exited")
  <2>1. runs[c] \in Run /\ runs[c] # NoRun /\ runs[c].pc = "running"
    BY <1>0, <1>1 DEF WorkerExits
  <2> DEFINE run == [runs[c] EXCEPT !.pc = "exited", !.left = Artifacts]
  <2>2. run \in Run /\ run.task = runs[c].task /\ run.pc = "exited"
    BY <2>1, RunParts, RunPhases, Zenon
  <2>3. runs' = [runs EXCEPT ![c] = run]
    BY <1>0, <1>1, Zenon DEF WorkerExits
  <2> HIDE DEF run
  <2>4. QED
    BY <2>1, <2>2, <2>3, Replaced, Zenon
<1>2. ASSUME NEW a \in Artifacts, Collect(c, a)
      PROVE  Others(c) /\ runs[c].pc = "exited" /\ GoesOn(c, "exited")
  <2>1. /\ runs[c] \in Run /\ runs[c] # NoRun /\ runs[c].pc = "exited"
        /\ runs[c].task \in Tasks /\ runs[c].left \subseteq Artifacts /\ runs[c].got \in Files
    BY <1>0, <1>2, RunParts, Zenon DEF Collect
  <2> DEFINE d == dirs[runs[c].task]
             g == runs[c].got
             h == IF d # NoDir /\ a \in DOMAIN d
                  THEN [b \in DOMAIN g \cup {a} |-> IF b = a THEN d[a] ELSE g[b]] ELSE g
             S == runs[c].left \ {a}
             run == [runs[c] EXCEPT !.left = S, !.got = h]
  <2>2. h \in Files
    <3>1. d \in Files \cup {NoDir}
      BY <2>1 DEF TypeOK
    <3>2. g \in Files
      BY <2>1
    <3>3. CASE d # NoDir /\ a \in DOMAIN d
      <4>1. [b \in DOMAIN g \cup {a} |-> IF b = a THEN d[a] ELSE g[b]] \in Files
        BY <3>1, <3>2, <3>3, Collected, Zenon
      <4>2. QED
        BY <3>3, <4>1
    <3>4. CASE ~(d # NoDir /\ a \in DOMAIN d)
      BY <3>2, <3>4
    <3>5. QED
      BY <3>3, <3>4
  <2>3. runs' = [runs EXCEPT ![c] = run]
    BY <1>0, <1>2, Zenon DEF Collect
  <2>4. S \in SUBSET Artifacts
    BY <2>1
  <2> HIDE DEF h, S
  <2>5. run \in Run /\ run.task = runs[c].task /\ run.pc = "exited"
    <3>1. run \in Run
      BY <2>1, <2>2, <2>4, RunParts, Zenon
    <3>2. run.task = runs[c].task /\ run.pc = "exited"
      BY <2>1 DEF Run
    <3>3. QED
      BY <3>1, <3>2
  <2> HIDE DEF run
  <2>6. QED
    BY <2>1, <2>3, <2>5, Replaced, Zenon
<1>3. ASSUME RunErr(c)
      PROVE  Others(c) /\ runs[c].pc \in {"running", "exited"} /\ GoesOn(c, "failing")
  <2>1. runs[c] \in Run /\ runs[c] # NoRun /\ runs[c].pc \in {"running", "exited"}
    BY <1>0, <1>3 DEF RunErr
  <2> DEFINE run == [runs[c] EXCEPT !.pc = "failing"]
  <2>2. run \in Run /\ run.task = runs[c].task /\ run.pc = "failing"
    BY <2>1, RunParts, RunPhases, Zenon
  <2>3. runs' = [runs EXCEPT ![c] = run]
    BY <1>0, <1>3 DEF RunErr
  <2> HIDE DEF run
  <2>4. QED
    BY <2>1, <2>2, <2>3, Replaced, Zenon
<1>4. QED
  BY <1>1, <1>2, <1>3

(* A call that is made to submit or to fail goes on to that phase. *)
LEMMA FailMoves ==
    ASSUME TypeOK, NEW c \in Runs, runs[c] # NoRun, NEW p \in {"submitting", "failing"},
           runs' = [runs EXCEPT ![c].pc = p]
    PROVE  Others(c) /\ GoesOn(c, p)
<1>1. runs[c] \in Run
  BY DEF TypeOK
<1> DEFINE run == [runs[c] EXCEPT !.pc = p]
<1>2. run \in Run /\ run.task = runs[c].task /\ run.pc = p
  <2>1. run \in Run
    BY <1>1, RunParts, Zenon
  <2>2. run.task = runs[c].task /\ run.pc = p
    BY <1>1 DEF Run
  <2>3. QED
    BY <2>1, <2>2
<1>3. runs' = [runs EXCEPT ![c] = run]
  BY DEF TypeOK
<1> HIDE DEF run
<1>4. QED
  BY <1>2, <1>3, Replaced, Zenon

(* The completing transaction ends the call it belongs to, or makes it fail. *)
LEMMA CompleteMoves ==
    ASSUME TypeOK, SubmitInv, complete_attempt_with_result
    PROVE  \/ RunsType' /\ (\A c \in Runs : Same(c)) /\ cgroups' = cgroups /\ lock.by \notin Runs
           \/ /\ lock.by \in Runs /\ Others(lock.by) /\ runs[lock.by] # NoRun
              /\ runs[lock.by].pc = "submitting"
              /\ \/ GoesOn(lock.by, "failing") /\ cgroups' = cgroups
                 \/ runs'[lock.by] = NoRun /\ cgroups' = cgroups \ {runs[lock.by].task}
<1>1. Submitting /\ lock.task \in Tasks
  BY LockCases DEF complete_attempt_with_result, Submitting
<1>2. CASE lock.by \notin Runs
  <2>1. runs' = runs /\ cgroups' = cgroups
    BY <1>2 DEF complete_attempt_with_result
  <2>2. QED
    BY <1>2, <2>1 DEF Same, RunsType, TypeOK
<1>3. CASE lock.by \in Runs
  <2>0. PICK c \in Runs : c = lock.by
    BY <1>3
  <2>1. runs[c] # NoRun /\ runs[c].pc = "submitting" /\ runs[c].task = lock.task
    BY <1>1, <2>0 DEF SubmitInv
  <2>2. CASE RunRecorded(c, lock.task)
    BY <1>1, <2>0, <2>1, <2>2, Recorded
  <2>3. CASE runs' = [runs EXCEPT ![c].pc = "failing"] /\ UNCHANGED cgroups
    <3>1. Others(c) /\ GoesOn(c, "failing")
      BY <2>1, <2>3, FailMoves, Zenon
    <3>2. QED
      BY <2>0, <2>1, <2>3, <3>1
  <2>4. QED
    BY <2>0, <2>2, <2>3 DEF complete_attempt_with_result
<1>4. QED
  BY <1>2, <1>3

(* A failing store call makes the `task run` call it belongs to fail. *)
LEMMA StoreFailsMoves ==
    ASSUME TypeOK, SubmitInv, StoreFails
    PROVE  /\ cgroups' = cgroups
           /\ \/ RunsType' /\ (\A c \in Runs : Same(c)) /\ ~(Submitting /\ lock.by \in Runs)
              \/ /\ Submitting /\ lock.by \in Runs /\ Others(lock.by) /\ runs[lock.by] # NoRun
                 /\ runs[lock.by].pc = "submitting"
                 /\ GoesOn(lock.by, "failing")
<1>0. cgroups' = cgroups
  BY DEF StoreFails
<1>1. CASE ~(Submitting /\ lock.by \in Runs)
  <2>1. runs' = runs
    BY <1>1 DEF StoreFails, Submitting
  <2>2. QED
    BY <1>0, <1>1, <2>1 DEF Same, RunsType, TypeOK
<1>2. CASE Submitting /\ lock.by \in Runs
  <2>0. PICK c \in Runs : c = lock.by
    BY <1>2
  <2>1. runs[c] # NoRun /\ runs[c].pc = "submitting"
    BY <1>2, <2>0 DEF SubmitInv
  <2>2. runs' = [runs EXCEPT ![c].pc = "failing"]
    BY <1>2, <2>0 DEF StoreFails, Submitting
  <2>3. Others(c) /\ GoesOn(c, "failing")
    BY <2>1, <2>2, FailMoves, Zenon
  <2>4. QED
    BY <1>0, <1>2, <2>0, <2>1, <2>3
<1>3. QED
  BY <1>1, <1>2

(* A call submits what it collected, or finds the attempt completed and ends. *)
LEMMA SubmitMoves ==
    ASSUME TypeOK, NEW c \in Runs, RunSubmit(c)
    PROVE  /\ Others(c) /\ runs[c] # NoRun /\ runs[c].pc = "exited" /\ lock = Free
           /\ runs[c].task \in Tasks /\ attemptVars' = attemptVars
           /\ \/ /\ GoesOn(c, "submitting") /\ cgroups' = cgroups
                 /\ runs[c].got \in Submission
                 /\ attempts[runs[c].task] \notin {"none", "succeeded"}
                 /\ lock' = [op |-> "submit", task |-> runs[c].task, by |-> c,
                             outputs |-> runs[c].got, left |-> DOMAIN runs[c].got]
                 /\ UNCHANGED dirs
              \/ /\ runs'[c] = NoRun /\ cgroups' = cgroups \ {runs[c].task} /\ lock' = lock
                 /\ dirs' = [dirs EXCEPT ![runs[c].task] = NoDir]
<1>1. /\ runs[c] \in Run /\ runs[c] # NoRun /\ runs[c].pc = "exited" /\ lock = Free
      /\ runs[c].task \in Tasks /\ attemptVars' = attemptVars
  BY RunParts, Zenon DEF RunSubmit, TypeOK, submit_result, Submittable
<1>2. CASE submit_result(runs[c].task, runs[c].got, c) /\ UNCHANGED <<dirs, cgroups>>
           /\ runs' = [runs EXCEPT ![c].pc = "submitting"]
  <2>1. Others(c) /\ GoesOn(c, "submitting")
    BY <1>1, <1>2, FailMoves, Zenon
  <2>2. runs[c].got \in Submission
    BY <1>1, RunParts, Zenon DEF RunSubmit, Files
  <2>3. QED
    BY <1>1, <1>2, <2>1, <2>2 DEF submit_result, Submittable
<1>3. CASE RunRecorded(c, runs[c].task) /\ UNCHANGED lock
  <2>1. Others(c) /\ runs'[c] = NoRun /\ cgroups' = cgroups \ {runs[c].task}
    BY <1>1, <1>3, Recorded
  <2>2. QED
    BY <1>1, <1>3, <2>1 DEF RunRecorded
<1>4. QED
  BY <1>2, <1>3 DEF RunSubmit

(* How one call moves in a step. *)
CallMoves(c) ==
    /\ Others(c)
    /\ \/ /\ runs[c] = NoRun /\ runs'[c] # NoRun /\ runs'[c].pc = "gathered"
          /\ runs'[c].task \in orders /\ attempts[runs'[c].task] # "none"
          /\ cgroups' = cgroups
       \/ runs[c].pc = "gathered" /\ GoesOn(c, "prepared") /\ cgroups' = cgroups
       \/ /\ runs[c].pc = "prepared" /\ GoesOn(c, "scoped")
          /\ runs[c].task \notin cgroups /\ cgroups' = cgroups \cup {runs[c].task}
       \/ /\ runs[c] # NoRun /\ runs[c].pc \in {"gathered", "prepared"} /\ runs'[c] = NoRun
          /\ cgroups' = cgroups
       \/ /\ runs[c].pc = "scoped" /\ GoesOn(c, "running") /\ cgroups' = cgroups
          /\ attempts'[runs[c].task] = "running"
       \/ /\ runs[c].pc \in {"running", "exited", "submitting"} /\ cgroups' = cgroups
          /\ \E p \in {"exited", "submitting", "failing"} : GoesOn(c, p)
       \/ /\ runs[c] # NoRun /\ runs[c].pc \notin {"gathered", "prepared"}
          /\ runs'[c] = NoRun /\ cgroups' = cgroups \ {runs[c].task}
NoMove == RunsType' /\ (\A c \in Runs : Same(c)) /\ cgroups' = cgroups
AllEnd == RunsType' /\ (\A c \in Runs : runs'[c] = NoRun) /\ cgroups' = cgroups

(* In a step one call moves, or none, or all end. *)
LEMMA CallsMove ==
    ASSUME TypeOK, SubmitInv, [Next]_vars
    PROVE  NoMove \/ AllEnd \/ \E c \in Runs : CallMoves(c)
<1>1. CASE UNCHANGED <<runs, cgroups>>
  BY <1>1 DEF NoMove, Same, RunsType, TypeOK
<1>2. CASE complete_attempt_with_result
  <2>1. CASE RunsType' /\ (\A c \in Runs : Same(c)) /\ cgroups' = cgroups
    BY <2>1 DEF NoMove
  <2>2. CASE lock.by \in Runs /\ Others(lock.by) /\ runs[lock.by] # NoRun
             /\ runs[lock.by].pc = "submitting"
             /\ \/ GoesOn(lock.by, "failing") /\ cgroups' = cgroups
                \/ runs'[lock.by] = NoRun /\ cgroups' = cgroups \ {runs[lock.by].task}
    BY <2>2 DEF CallMoves
  <2>3. QED
    BY <1>2, <2>1, <2>2, CompleteMoves
<1>3. ASSUME NEW c \in Runs, NEW t \in Tasks, RunGather(c, t) PROVE CallMoves(c)
  BY <1>3, GatherMoves, ZenonT(30) DEF CallMoves, RunGather
<1>4. ASSUME NEW c \in Runs, RunPrepare(c) PROVE CallMoves(c)
  BY <1>4, PrepareMoves, Zenon DEF CallMoves, RunPrepare
<1>5. ASSUME NEW c \in Runs, CgroupCreate(c) PROVE CallMoves(c)
  BY <1>5, CgroupMoves DEF CallMoves
<1>6. ASSUME NEW c \in Runs, RunStart(c) PROVE CallMoves(c)
  <2>1. attempts \in [Tasks -> AttemptState]
    BY DEF TypeOK, AttemptsTypeOK
  <2>2. QED
    BY <1>6, <2>1, StartMoves DEF CallMoves
<1>7. ASSUME NEW c \in Runs, NEW files \in Files, WorkerExits(c, files) PROVE CallMoves(c)
  BY <1>7, WorkMoves, Zenon DEF CallMoves, WorkerExits
<1>8. ASSUME NEW c \in Runs, NEW a \in Artifacts, Collect(c, a) PROVE CallMoves(c)
  BY <1>8, WorkMoves, Zenon DEF CallMoves, Collect
<1>9. ASSUME NEW c \in Runs, RunSubmit(c) PROVE CallMoves(c)
  BY <1>9, SubmitMoves DEF CallMoves
<1>10. ASSUME NEW c \in Runs, RunErr(c) PROVE CallMoves(c)
  BY <1>10, WorkMoves, Zenon DEF CallMoves, RunErr
<1>11. ASSUME NEW c \in Runs, NEW committed \in BOOLEAN, MarkFailed(c, committed)
       PROVE  CallMoves(c)
  BY <1>11, Ended, Zenon DEF CallMoves, MarkFailed
<1>12. CASE StoreFails
  BY <1>12, StoreFailsMoves DEF NoMove, CallMoves
<1>13. CASE Crash
  BY <1>13 DEF Crash, AllEnd, RunsType
<1>14. ASSUME NEW c \in Runs, RunAborts(c) PROVE CallMoves(c)
  BY <1>14, Ended, Zenon DEF CallMoves, RunAborts
<1>15. QED
  BY <1>1, <1>2, <1>3, <1>4, <1>5, <1>6, <1>7, <1>8, <1>9, <1>10, <1>11, <1>12, <1>13, <1>14,
     StepCases, Zenon DEF vars, runVars, IssueClaims, IssuePutsOrder, put_task_output, Fulfill

(* Every step keeps the types. *)
LEMMA TypeStep ==
    ASSUME TypeOK, SubmitInv, [Next]_vars
    PROVE  TypeOK'
<1>1. AttemptsTypeOK'
  BY AttemptsMove DEF AttemptMoves
<1>2. RunsType'
  BY CallsMove DEF NoMove, AllEnd, CallMoves, Others
<1>3. cgroups' \subseteq Tasks
  <2>1. \A c \in Runs : runs[c] # NoRun => runs[c].task \in Tasks
    BY RunParts, Zenon DEF TypeOK
  <2>2. cgroups \subseteq Tasks
    BY DEF TypeOK
  <2>3. QED
    BY <2>1, <2>2, CallsMove DEF NoMove, AllEnd, CallMoves, GoesOn
<1> DEFINE Rest == /\ outputs \in [Tasks -> [Artifacts -> Contents \cup {NoContent}]]
                   /\ results \in [Tasks -> Submission \cup {NoResult}]
                   /\ lock \in Locks
                   /\ dirs \in [Tasks -> Files \cup {NoDir}]
                   /\ launches \in [Tasks -> 0..2]
                   /\ interrupted \subseteq Tasks
<1>4. Rest
  BY Zenon DEF TypeOK, Locks
<1>5. Rest'
  <2>1. ASSUME NEW t \in Tasks, IssueClaims(t) PROVE Rest'
    BY <1>4, <2>1 DEF IssueClaims, outputVars, runVars, Locks, Issue
  <2>2. CASE IssuePutsOrder
    BY <1>4, <2>2 DEF IssuePutsOrder, outputVars, runVars, Locks
  <2>3. ASSUME NEW a \in Artifacts, put_task_output(a) PROVE Rest'
    <3>1. Submitting /\ lock \in Submit /\ lock.task \in Tasks /\ lock.outputs \in Submission
      BY <2>3, LockCases DEF put_task_output, Submitting
    <3>2. a \in DOMAIN lock.outputs
      BY <2>3, <3>1 DEF put_task_output, SubmitInv
    <3>3. lock.outputs[a] \in Contents
      BY <3>1, <3>2, SubmissionFacts
    <3>4. outputs' \in [Tasks -> [Artifacts -> Contents \cup {NoContent}]]
      <4>0. PICK v \in Contents : v = lock.outputs[a]
        BY <3>3
      <4>1. outputs' = [outputs EXCEPT ![lock.task][a] = IF @ = NoContent THEN v ELSE @]
        BY <2>3, <4>0 DEF put_task_output
      <4>2. QED
        BY <1>4, <3>1, <4>1
    <3>5. lock' \in Submit
      <4>1. lock' = [lock EXCEPT !.left = @ \ {a}]
        BY <2>3 DEF put_task_output
      <4>2. QED
        BY <3>1, <4>1 DEF Submit
    <3>6. QED
      BY <1>4, <2>3, <3>4, <3>5 DEF put_task_output, runVars, Locks
  <2>4. CASE complete_attempt_with_result
    <3>1. lock.task \in Tasks /\ lock.outputs \in Submission
      BY <2>4, LockCases DEF complete_attempt_with_result, Submitting
    <3>2. /\ results' \in {results, [results EXCEPT ![lock.task] = lock.outputs]}
          /\ dirs' \in {dirs, [dirs EXCEPT ![lock.task] = NoDir]}
          /\ UNCHANGED <<outputs, launches, interrupted>> /\ lock' = Free
      BY <2>4 DEF complete_attempt_with_result, RunRecorded
    <3>3. results' \in [Tasks -> Submission \cup {NoResult}]
      BY <1>4, <3>1, <3>2
    <3>4. dirs' \in [Tasks -> Files \cup {NoDir}]
      BY <1>4, <3>1, <3>2
    <3>5. QED
      BY <1>4, <3>2, <3>3, <3>4 DEF Locks
  <2>5. ASSUME NEW t \in Tasks, NEW sub \in Submission, Fulfill(t, sub) PROVE Rest'
    <3>1. lock' \in Submit
      BY <2>5, SubmissionFacts DEF Fulfill, submit_result, Submit
    <3>2. QED
      BY <1>4, <2>5, <3>1 DEF Fulfill, outputVars, runVars, Locks
  <2>6. ASSUME NEW c \in Runs, NEW t \in Tasks, RunGather(c, t) PROVE Rest'
    BY <1>4, <2>6 DEF RunGather, outputVars
  <2>7. ASSUME NEW c \in Runs, NEW files \in Files, WorkerExits(c, files) PROVE Rest'
    <3>1. runs[c].task \in Tasks
      BY <2>7, RunParts, Zenon DEF WorkerExits, TypeOK
    <3>2. dirs' \in [Tasks -> Files \cup {NoDir}]
      BY <1>4, <2>7, <3>1 DEF WorkerExits
    <3>3. QED
      BY <1>4, <2>7, <3>2, SMTT(30) DEF WorkerExits, outputVars
  <2>8. ASSUME NEW c \in Runs, RunPrepare(c) PROVE Rest'
    <3>1. dirs' = [dirs EXCEPT ![runs[c].task] = Nothing] /\ Nothing \in Files
      BY <2>8 DEF RunPrepare, Files
    <3>2. dirs' \in [Tasks -> Files \cup {NoDir}]
      BY <1>4, <3>1, Zenon
    <3>3. QED
      BY <1>4, <2>8, <3>2 DEF RunPrepare, outputVars
  <2>9. ASSUME NEW c \in Runs, CgroupCreate(c) PROVE Rest'
    BY <1>4, <2>9 DEF CgroupCreate, outputVars
  <2>10. ASSUME NEW c \in Runs, RunStart(c) PROVE Rest'
    <3>1. launches' = launches \/ launches' = [launches EXCEPT ![runs[c].task] = Again(@)]
      BY <2>10, StartMoves
    <3>2. launches' \in [Tasks -> 0..2]
      BY <1>4, <3>1 DEF Again
    <3>3. QED
      BY <1>4, <2>10, <3>2 DEF RunStart, outputVars
  <2>11. ASSUME NEW c \in Runs, NEW a \in Artifacts, Collect(c, a) PROVE Rest'
    BY <1>4, <2>11 DEF Collect, outputVars
  <2>12. ASSUME NEW c \in Runs, RunSubmit(c) PROVE Rest'
    <3>1. lock' \in Locks
      <4>1. PICK g : g = runs[c].got
        OBVIOUS
      <4>2. PICK t : t = runs[c].task
        OBVIOUS
      <4>3. CASE lock' = [op |-> "submit", task |-> t, by |-> c, outputs |-> g, left |-> DOMAIN g]
                 /\ g \in Submission /\ t \in Tasks
        BY <4>3, SubmissionFacts DEF Locks, Submit
      <4>4. CASE lock' = lock
        BY <1>4, <4>4
      <4>5. QED
        BY <2>12, <4>1, <4>2, <4>3, <4>4, SubmitMoves
    <3>2. dirs' \in [Tasks -> Files \cup {NoDir}]
      BY <1>4, <2>12, SubmitMoves
    <3>3. QED
      BY <1>4, <2>12, <3>1, <3>2 DEF RunSubmit, outputVars
  <2>13. ASSUME NEW c \in Runs, RunErr(c) PROVE Rest'
    BY <1>4, <2>13 DEF RunErr, outputVars
  <2>14. ASSUME NEW c \in Runs, NEW committed \in BOOLEAN, MarkFailed(c, committed) PROVE Rest'
    <3>1. runs[c].task \in Tasks
      BY <2>14, RunParts, Zenon DEF MarkFailed, TypeOK
    <3>2. QED
      BY <1>4, <2>14, <3>1, SMTT(30) DEF MarkFailed, outputVars
  <2>15. CASE StoreFails
    <3>1. lock.task \in Tasks
      BY <2>15, LockCases DEF StoreFails
    <3>2. QED
      BY <1>4, <2>15, <3>1 DEF StoreFails, outputVars, Locks
  <2>16. CASE Crash
    BY <1>4, <2>16 DEF Crash, outputVars, Locks
  <2>17. CASE UNCHANGED vars
    BY <1>4, <2>17 DEF vars, outputVars, runVars
  <2>18. ASSUME NEW c \in Runs, RunAborts(c) PROVE Rest'
    <3>1. runs[c].task \in Tasks
      BY <2>18, RunParts, Zenon DEF RunAborts, TypeOK
    <3>2. QED
      BY <1>4, <2>18, <3>1, SMTT(30) DEF RunAborts, outputVars
  <2>19. QED
    BY <2>1, <2>2, <2>3, <2>4, <2>5, <2>6, <2>7, <2>8, <2>9, <2>10, <2>11, <2>12, <2>13, <2>14,
       <2>15, <2>16, <2>17, <2>18, StepCases
<1>6. QED
  BY <1>1, <1>2, <1>3, <1>5 DEF TypeOK, RunsType, Locks

(* A step that leaves the lock free, or held by an issue, leaves no call      *)
(* waiting for its submission.                                                *)
LEMMA SubmitStep ==
    ASSUME TypeOK, SubmitInv, [Next]_vars
    PROVE  SubmitInv'
<1> DEFINE Waits(c) == runs[c] # NoRun /\ runs[c].pc = "submitting"
<1>1. ASSUME ~Submitting', \A c \in Runs : ~Waits(c)' PROVE SubmitInv'
  BY <1>1 DEF SubmitInv
<1>2. lock = Free => ~Submitting /\ \A c \in Runs : ~Waits(c)
  BY DEF SubmitInv, Submitting, Free
<1>3. lock.op = "put_order" => ~Submitting /\ \A c \in Runs : ~Waits(c)
  BY DEF SubmitInv, Submitting
<1>4. ASSUME lock' = lock, attempts' = attempts, NEW c \in Runs, Others(c), ~Waits(c), ~Waits(c)'
      PROVE  SubmitInv'
  BY <1>4 DEF SubmitInv, Others, Same, Submitting
<1>5. ASSUME lock' = lock, attempts' = attempts, runs' = runs PROVE SubmitInv'
  BY <1>5 DEF SubmitInv, Submitting
<1>6. ASSUME NEW t \in Tasks, IssueClaims(t) PROVE SubmitInv'
  BY <1>1, <1>2, <1>6 DEF IssueClaims, runVars, Submitting
<1>7. CASE IssuePutsOrder
  BY <1>1, <1>3, <1>7 DEF IssuePutsOrder, runVars, Submitting, Free
<1>8. ASSUME NEW a \in Artifacts, put_task_output(a) PROVE SubmitInv'
  <2>1. Submitting /\ lock \in Submit
    BY <1>8, LockCases DEF put_task_output, Submitting
  <2>2. lock' = [lock EXCEPT !.left = @ \ {a}]
    BY <1>8 DEF put_task_output
  <2>3. /\ lock'.op = "submit" /\ lock'.task = lock.task /\ lock'.by = lock.by
        /\ lock'.outputs = lock.outputs /\ lock'.left \subseteq lock.left
    BY <2>1, <2>2 DEF Submit
  <2>4. QED
    BY <1>8, <2>1, <2>3 DEF put_task_output, attemptVars, runVars, SubmitInv, Submitting
<1>9. CASE complete_attempt_with_result
  <2>1. Submitting /\ lock' = Free
    BY <1>9 DEF complete_attempt_with_result, Submitting
  <2>2. \A c \in Runs : ~Waits(c)'
    BY <1>9, <2>1, CompleteMoves, Zenon DEF SubmitInv, Others, Same, GoesOn
  <2>3. QED
    BY <1>1, <2>1, <2>2 DEF Submitting, Free
<1>10. ASSUME NEW t \in Tasks, NEW sub \in Submission, Fulfill(t, sub) PROVE SubmitInv'
  <2>1. /\ lock'.op = "submit" /\ lock'.task = t /\ lock'.by = Operator
        /\ lock'.outputs = sub /\ lock'.left = DOMAIN sub
    BY <1>10 DEF Fulfill, submit_result
  <2>2. attempts'[t] \notin {"none", "succeeded"} /\ runs' = runs /\ lock = Free
    BY <1>10 DEF Fulfill, submit_result, Submittable, attemptVars, runVars
  <2>3. QED
    BY <1>2, <2>1, <2>2, ExecutionAssumption DEF SubmitInv, Submitting
<1>11. ASSUME NEW c \in Runs, NEW t \in Tasks, RunGather(c, t) PROVE SubmitInv'
  BY <1>4, <1>11, GatherMoves, Zenon DEF RunGather, attemptVars
<1>12. ASSUME NEW c \in Runs, RunPrepare(c) PROVE SubmitInv'
  BY <1>4, <1>12, PrepareMoves, Zenon DEF RunPrepare, attemptVars, GoesOn
<1>13. ASSUME NEW c \in Runs, CgroupCreate(c) PROVE SubmitInv'
  BY <1>4, <1>13, CgroupMoves DEF CgroupCreate, attemptVars, GoesOn
<1>14. ASSUME NEW c \in Runs, NEW files \in Files, WorkerExits(c, files) PROVE SubmitInv'
  BY <1>4, <1>14, WorkMoves, Zenon DEF WorkerExits, attemptVars, GoesOn
<1>15. ASSUME NEW c \in Runs, NEW a \in Artifacts, Collect(c, a) PROVE SubmitInv'
  BY <1>4, <1>15, WorkMoves, Zenon DEF Collect, attemptVars, GoesOn
<1>16. ASSUME NEW c \in Runs, RunErr(c) PROVE SubmitInv'
  BY <1>4, <1>16, WorkMoves, Zenon DEF RunErr, attemptVars, GoesOn
<1>17. ASSUME NEW c \in Runs, RunStart(c) PROVE SubmitInv'
  <2>1. \A d \in Runs : ~Waits(d)'
    BY <1>2, <1>17, StartMoves DEF Others, Same, GoesOn
  <2>2. lock' = Free
    BY <1>17 DEF RunStart
  <2>3. QED
    BY <1>1, <2>1, <2>2 DEF Submitting, Free
<1>18. ASSUME NEW c \in Runs, RunSubmit(c) PROVE SubmitInv'
  <2>1. lock = Free /\ Others(c) /\ runs[c] # NoRun /\ attempts' = attempts
    BY <1>18, SubmitMoves DEF attemptVars
  <2>2. CASE lock' = lock /\ runs'[c] = NoRun
    BY <1>1, <1>2, <2>1, <2>2 DEF Others, Same, Submitting, Free
  <2>3. CASE /\ GoesOn(c, "submitting") /\ attempts[runs[c].task] \notin {"none", "succeeded"}
             /\ lock' = [op |-> "submit", task |-> runs[c].task, by |-> c,
                         outputs |-> runs[c].got, left |-> DOMAIN runs[c].got]
    <3>1. /\ lock'.op = "submit" /\ lock'.task = runs[c].task /\ lock'.by = c
          /\ lock'.left \subseteq DOMAIN lock'.outputs
      BY <2>3
    <3>2. QED
      BY <1>2, <2>1, <2>3, <3>1 DEF SubmitInv, Submitting, Others, Same, GoesOn
  <2>4. QED
    BY <1>18, <2>2, <2>3, SubmitMoves
<1>19. ASSUME NEW c \in Runs, NEW committed \in BOOLEAN, MarkFailed(c, committed) PROVE SubmitInv'
  <2>1. lock = Free /\ lock' = Free /\ Others(c) /\ runs'[c] = NoRun
    BY <1>19, Ended, Zenon DEF MarkFailed
  <2>2. QED
    BY <1>1, <1>2, <2>1 DEF Others, Same, Submitting, Free
<1>20. CASE StoreFails
  <2>1. lock' = Free
    BY <1>20 DEF StoreFails
  <2>2. \A c \in Runs : ~Waits(c)'
    BY <1>20, StoreFailsMoves DEF SubmitInv, Others, Same, GoesOn
  <2>3. QED
    BY <1>1, <2>1, <2>2 DEF Submitting, Free
<1>21. CASE Crash
  BY <1>1, <1>21 DEF Crash, Submitting, Free
<1>22. CASE UNCHANGED vars
  BY <1>5, <1>22 DEF vars, attemptVars, runVars
<1>23. ASSUME NEW c \in Runs, RunAborts(c) PROVE SubmitInv'
  BY <1>4, <1>23, Ended, Zenon DEF RunAborts, attemptVars
<1>24. QED
  BY <1>6, <1>7, <1>8, <1>9, <1>10, <1>11, <1>12, <1>13, <1>14, <1>15, <1>16, <1>17, <1>18, <1>19,
     <1>20, <1>21, <1>22, <1>23, StepCases

-----------------------------------------------------------------------------
(* A call runs an issued task, and one that is past its cgroup holds the      *)
(* leaf.  A crash leaves leaves behind, so the converse does not hold.        *)
CallInv ==
    \A c \in Runs :
        runs[c] # NoRun =>
          /\ runs[c].task \in orders /\ attempts[runs[c].task] # "none"
          /\ runs[c].pc \notin {"gathered", "prepared"} => runs[c].task \in cgroups

(* Every step keeps the leaf with its one call. *)
LEMMA ConfinedStep ==
    ASSUME TypeOK, SubmitInv, CallInv, OneConfinedRun, [Next]_vars
    PROVE  CallInv' /\ OneConfinedRun'
<1>1. /\ orders \subseteq orders'
      /\ \A t \in Tasks : attempts[t] # "none" => attempts'[t] # "none"
  BY AttemptsMove DEF AttemptMoves
<1>2. \A c \in Runs : runs[c] # NoRun => runs[c].task \in Tasks
  BY RunParts, Zenon DEF TypeOK
<1>3. CASE NoMove
  <2>1. CallInv'
    BY <1>1, <1>2, <1>3 DEF CallInv, NoMove, Same
  <2>2. OneConfinedRun'
    BY <1>3 DEF OneConfinedRun, NoMove, Same
  <2>3. QED
    BY <2>1, <2>2
<1>4. CASE AllEnd
  BY <1>4 DEF AllEnd, CallInv, OneConfinedRun
<1>5. ASSUME NEW c \in Runs, CallMoves(c) PROVE CallInv' /\ OneConfinedRun'
  <2> USE DEF CallMoves, Others, Same, GoesOn
  <2>0. runs'[c] # NoRun => /\ runs'[c].task \in orders /\ attempts[runs'[c].task] # "none"
                            /\ runs'[c].task \in Tasks
    BY <1>2, <1>5 DEF CallInv, TypeOK, AttemptsTypeOK
  <2>1. \A d \in Runs : runs'[d] # NoRun =>
           runs'[d].task \in orders' /\ attempts'[runs'[d].task] # "none"
    BY <1>1, <1>2, <1>5, <2>0 DEF CallInv
  <2>2. \A d \in Runs : runs'[d] # NoRun /\ runs'[d].pc \notin {"gathered", "prepared"} =>
           runs'[d].task \in cgroups'
    <3>1. ASSUME NEW d \in Runs, d # c, runs'[d] # NoRun, runs'[d].pc \notin {"gathered", "prepared"}
          PROVE  runs'[d].task \in cgroups'
      <4>1. runs[d] # NoRun /\ runs[d].task = runs'[d].task /\ runs[d].pc = runs'[d].pc
        BY <1>5, <3>1
      <4>2. runs[d].task \in cgroups
        BY <3>1, <4>1 DEF CallInv
      <4>3. CASE cgroups \subseteq cgroups'
        BY <4>1, <4>2, <4>3
      <4>4. CASE /\ runs[c] # NoRun /\ runs[c].pc \notin {"gathered", "prepared"}
                 /\ cgroups' = cgroups \ {runs[c].task}
        BY <3>1, <4>1, <4>2, <4>4 DEF OneConfinedRun
      <4>5. QED
        BY <1>5, <4>3, <4>4
    <3>2. ASSUME runs'[c] # NoRun, runs'[c].pc \notin {"gathered", "prepared"}
          PROVE  runs'[c].task \in cgroups'
      BY <1>5, <3>2, Zenon DEF CallInv
    <3>3. QED
      BY <3>1, <3>2
  <2>3. \A d \in Runs : d # c /\ runs'[c] # NoRun /\ runs'[d] # NoRun
                        /\ runs'[c].task = runs'[d].task =>
           runs'[c].pc \in {"gathered", "prepared"} \/ runs'[d].pc \in {"gathered", "prepared"}
    BY <1>5, SMTT(30) DEF OneConfinedRun, CallInv
  <2>4. \A d, e \in Runs : d # c /\ e # c /\ d # e /\ runs'[e] # NoRun /\ runs'[d] # NoRun
                        /\ runs'[e].task = runs'[d].task =>
           runs'[e].pc \in {"gathered", "prepared"} \/ runs'[d].pc \in {"gathered", "prepared"}
    BY <1>5 DEF OneConfinedRun
  <2>5. CallInv'
    BY <2>1, <2>2 DEF CallInv
  <2>6. OneConfinedRun'
    BY <2>3, <2>4 DEF OneConfinedRun
  <2>7. QED
    BY <2>5, <2>6, Zenon
<1>6. QED
  BY <1>3, <1>4, <1>5, CallsMove

(* Only the failing call of a task, or a crash that ends every call, takes    *)
(* the authority of the task away.                                            *)
LEMMA AuthorityKept ==
    ASSUME TypeOK, [Next]_vars, NEW t \in Tasks, attempts[t] \in {"running", "succeeded"}
    PROVE  \/ attempts'[t] \in {"running", "succeeded"}
           \/ \A c \in Runs : runs'[c] = NoRun
           \/ \E c \in Runs : /\ runs[c] # NoRun /\ runs[c].pc = "failing" /\ runs[c].task = t
                              /\ Others(c) /\ runs'[c] = NoRun
<1>0. attempts \in [Tasks -> AttemptState]
  BY DEF TypeOK, AttemptsTypeOK
<1>1. ASSUME NEW u \in Tasks, IssueClaims(u) PROVE attempts'[t] = attempts[t]
  BY <1>0, <1>1 DEF IssueClaims, claim_attempt
<1>2. CASE IssuePutsOrder
  BY <1>2 DEF IssuePutsOrder, put_work_order
<1>3. CASE complete_attempt_with_result
  BY <1>0, <1>3 DEF complete_attempt_with_result
<1>4. ASSUME NEW c \in Runs, RunStart(c) PROVE attempts'[t] = attempts[t]
  BY <1>0, <1>4, StartMoves, Zenon
<1>5. ASSUME NEW c \in Runs, NEW committed \in BOOLEAN, MarkFailed(c, committed)
      PROVE  \/ attempts'[t] = attempts[t]
             \/ /\ runs[c] # NoRun /\ runs[c].pc = "failing" /\ runs[c].task = t
                /\ Others(c) /\ runs'[c] = NoRun
  <2>1. /\ runs[c] # NoRun /\ runs[c].pc = "failing"
        /\ Others(c) /\ runs'[c] = NoRun
    BY <1>5, Ended, Zenon DEF MarkFailed
  <2>2. runs[c].task \in Tasks
    BY <2>1, RunParts, Zenon DEF TypeOK
  <2>3. CASE UNCHANGED attempts
    BY <2>3
  <2>4. CASE advance_attempt(runs[c].task, "Fail")
    BY <1>0, <2>1, <2>2, <2>4, Advanced
  <2>5. QED
    BY <1>5, <2>3, <2>4 DEF MarkFailed, attemptVars
<1>6. CASE Crash
  BY <1>6 DEF Crash
<1>7. CASE UNCHANGED attempts
  BY <1>7
<1>8. QED
  BY <1>1, <1>2, <1>3, <1>4, <1>5, <1>6, <1>7, StepCases, Zenon DEF vars, attemptVars, put_task_output,
     Fulfill, RunGather, WorkerExits, RunPrepare, CgroupCreate, Collect, RunSubmit, RunErr, RunAborts,
     StoreFails

(* Every step keeps the authority of the calls that have a worker. *)
LEMMA AuthorityStep ==
    ASSUME TypeOK, SubmitInv, CallInv, CallInv', OneConfinedRun, RunHasAuthority, [Next]_vars
    PROVE  RunHasAuthority'
<1> DEFINE Works == {"running", "exited", "submitting"}
<1> SUFFICES ASSUME NEW d \in Runs, runs'[d] # NoRun, runs'[d].pc \in Works
             PROVE  attempts'[runs'[d].task] \in {"running", "succeeded"} /\ runs'[d].task \in orders'
  BY DEF RunHasAuthority
<1>1. runs'[d].task \in orders'
  BY Zenon DEF CallInv
<1>2. \/ runs[d] # NoRun /\ runs[d].pc \in Works /\ runs'[d].task = runs[d].task
      \/ attempts'[runs'[d].task] = "running"
  BY CallsMove, Zenon DEF NoMove, AllEnd, CallMoves, Others, Same, GoesOn
<1>3. CASE runs[d] # NoRun /\ runs[d].pc \in Works /\ runs'[d].task = runs[d].task
  <2>1. PICK t \in Tasks : t = runs[d].task
    BY <1>3, RunParts, ZenonT(30) DEF TypeOK
  <2>2. attempts[t] \in {"running", "succeeded"}
    BY <1>3, <2>1 DEF RunHasAuthority
  <2>3. ASSUME NEW c \in Runs, runs[c] # NoRun, runs[c].pc = "failing", runs[c].task = t,
               Others(c), runs'[c] = NoRun
        PROVE  FALSE
    BY <1>3, <2>1, <2>3 DEF OneConfinedRun
  <2>4. attempts'[t] \in {"running", "succeeded"}
    BY <2>2, <2>3, AuthorityKept
  <2>5. QED
    BY <1>1, <1>3, <2>1, <2>4, SMTT(30)
<1>4. QED
  BY <1>1, <1>2, <1>3

-----------------------------------------------------------------------------
(* A worker was launched only for an attempt that started, and once. *)
LaunchInv ==
    \A t \in Tasks : /\ launches[t] <= 1
                     /\ attempts[t] \in {"none", "claimed"} => launches[t] = 0

(* Every step keeps it: only the Start of a claimed attempt launches. *)
LEMMA LaunchStep ==
    ASSUME TypeOK, LaunchInv, [Next]_vars
    PROVE  LaunchInv'
<1>0. launches \in [Tasks -> 0..2] /\ attempts \in [Tasks -> AttemptState]
  BY DEF TypeOK, AttemptsTypeOK
<1>1. \A t \in Tasks : attempts'[t] \in {"none", "claimed"} => attempts[t] \in {"none", "claimed"}
  BY AttemptsMove DEF AttemptMoves
<1>2. CASE launches' = launches
  BY <1>1, <1>2, Zenon DEF LaunchInv
<1>3. ASSUME NEW c \in Runs, RunStart(c) PROVE LaunchInv'
  <2>1. CASE launches' = launches
    BY <1>1, <2>1 DEF LaunchInv
  <2>2. CASE /\ runs[c].task \in Tasks /\ attempts[runs[c].task] = "claimed"
             /\ attempts' = [attempts EXCEPT ![runs[c].task] = IF @ = "claimed" THEN "running" ELSE @]
             /\ launches' = [launches EXCEPT ![runs[c].task] = Again(@)]
    <3>1. PICK t \in Tasks : t = runs[c].task
      BY <2>2
    <3>2. launches[t] = 0
      BY <2>2, <3>1 DEF LaunchInv
    <3>3. launches'[t] = 1 /\ attempts'[t] = "running"
      BY <1>0, <2>2, <3>1, <3>2 DEF Again
    <3>4. \A u \in Tasks : u # t => launches'[u] = launches[u]
      BY <1>0, <2>2, <3>1
    <3>5. QED
      BY <1>1, <3>3, <3>4 DEF LaunchInv
  <2>3. QED
    BY <1>3, <2>1, <2>2, StartMoves
<1>4. QED
  BY <1>2, <1>3, StepCases, Zenon DEF vars, runVars, IssueClaims, IssuePutsOrder, put_task_output,
     complete_attempt_with_result, Fulfill, RunGather, WorkerExits, RunPrepare, CgroupCreate, Collect,
     RunSubmit, RunErr, MarkFailed, RunAborts, StoreFails, Crash

-----------------------------------------------------------------------------
(* What a step does to the lock, seen from the submissions: nothing, or one   *)
(* begins, or one ends that was cut or whose attempt is over.                 *)
LockMoves ==
    \/ lock' = lock
    \/ ~Submitting /\ ~Submitting'
    \/ /\ ~Submitting /\ Submitting'
       /\ lock'.left = DOMAIN lock'.outputs
    \/ /\ Submitting /\ ~Submitting'
       /\ lock.task \in interrupted' \/ attempts'[lock.task] \in Terminal

(* What a step does to the results: one is recorded, an output is staged, or  *)
(* neither.                                                                   *)
Records ==
    /\ Submitting /\ lock.left = {} /\ lock' = Free
    /\ attempts[lock.task] \in {"claimed", "running"}
    /\ attempts' = [attempts EXCEPT ![lock.task] = "succeeded"]
    /\ results' = [results EXCEPT ![lock.task] = lock.outputs]
    /\ UNCHANGED <<outputs, interrupted>>
Stages(a) ==
    /\ put_task_output(a)
    /\ UNCHANGED <<attempts, results, interrupted>>
Neither ==
    /\ UNCHANGED <<outputs, results>>
    /\ interrupted \subseteq interrupted'
    /\ \A t \in Tasks : attempts'[t] = "succeeded" => attempts[t] = "succeeded"
    /\ LockMoves

(* Every step is one of the three. *)
LEMMA ResultsMove ==
    ASSUME TypeOK, SubmitInv, [Next]_vars
    PROVE  Records \/ Neither \/ \E a \in Artifacts : Stages(a)
<1>0. attempts \in [Tasks -> AttemptState]
  BY DEF TypeOK, AttemptsTypeOK
<1>1. ASSUME lock' = lock, attempts' = attempts, outputs' = outputs, results' = results,
             interrupted' = interrupted
      PROVE  Neither
  BY <1>1, Zenon DEF Neither, LockMoves
<1>2. ASSUME NEW t \in Tasks, IssueClaims(t) PROVE Neither
  <2>1. \A u \in Tasks : attempts'[u] = "succeeded" => attempts[u] = "succeeded"
    BY <1>0, <1>2 DEF IssueClaims, claim_attempt
  <2>2. ~Submitting /\ ~Submitting'
    BY <1>2 DEF IssueClaims, Submitting, Free
  <2>3. QED
    BY <1>2, <2>1, <2>2 DEF IssueClaims, outputVars, Neither, LockMoves
<1>3. CASE IssuePutsOrder
  BY <1>3 DEF IssuePutsOrder, put_work_order, outputVars, Neither, LockMoves, Submitting, Free
<1>4. ASSUME NEW a \in Artifacts, put_task_output(a) PROVE Stages(a)
  BY <1>4 DEF put_task_output, attemptVars, Stages
<1>5. CASE complete_attempt_with_result
  <2>1. Submitting /\ lock.left = {} /\ lock' = Free /\ UNCHANGED <<outputs, interrupted>>
        /\ lock.task \in Tasks
    BY <1>5, LockCases DEF complete_attempt_with_result, Submitting
  <2>2. CASE /\ attempts[lock.task] \in {"claimed", "running"}
             /\ attempts' = [attempts EXCEPT ![lock.task] = "succeeded"]
             /\ results' = [results EXCEPT ![lock.task] = lock.outputs]
    BY <2>1, <2>2 DEF Records
  <2>3. CASE attempts[lock.task] \notin {"claimed", "running"} /\ UNCHANGED <<attempts, results>>
    <3>1. attempts[lock.task] \in Terminal
      BY <1>0, <2>1, <2>3 DEF SubmitInv, AttemptState, Terminal
    <3>2. QED
      BY <2>1, <2>3, <3>1 DEF Neither, LockMoves, Submitting, Free
  <2>4. QED
    BY <1>5, <2>2, <2>3 DEF complete_attempt_with_result
<1>6. ASSUME NEW t \in Tasks, NEW sub \in Submission, Fulfill(t, sub) PROVE Neither
  BY <1>6 DEF Fulfill, submit_result, Submittable, attemptVars, outputVars, Neither, LockMoves,
     Submitting, Free
<1>7. ASSUME NEW c \in Runs, RunStart(c) PROVE Neither
  BY <1>0, <1>7, StartMoves DEF RunStart, outputVars, Neither, LockMoves
<1>8. ASSUME NEW c \in Runs, RunSubmit(c) PROVE Neither
  <2>1. lock' = lock \/ (lock'.op = "submit" /\ lock'.left = DOMAIN lock'.outputs)
    <3>1. PICK l : l = [op |-> "submit", task |-> runs[c].task, by |-> c,
                        outputs |-> runs[c].got, left |-> DOMAIN runs[c].got]
      BY Zenon
    <3>2. l.op = "submit" /\ l.left = DOMAIN l.outputs
      BY <3>1, Zenon
    <3>3. lock' = l \/ lock' = lock
      BY <1>8, <3>1, SubmitMoves, Zenon
    <3>4. QED
      BY <3>2, <3>3, Zenon
  <2>2. ~Submitting
    BY <1>8, SubmitMoves DEF Submitting, Free
  <2>3. QED
    BY <1>8, <2>1, <2>2 DEF RunSubmit, attemptVars, outputVars, Neither, LockMoves, Submitting
<1>9. ASSUME NEW c \in Runs, NEW committed \in BOOLEAN, MarkFailed(c, committed) PROVE Neither
  <2>1. runs[c].task \in Tasks
    BY <1>9, RunParts DEF MarkFailed, TypeOK
  <2>2. \A u \in Tasks : attempts'[u] = "succeeded" => attempts[u] = "succeeded"
    <3>1. CASE UNCHANGED attempts
      BY <3>1
    <3>2. CASE advance_attempt(runs[c].task, "Fail")
      BY <1>0, <2>1, <3>2, Advanced
    <3>3. QED
      BY <1>9, <3>1, <3>2 DEF MarkFailed, attemptVars
  <2>3. QED
    BY <1>9, <2>2, Zenon DEF MarkFailed, outputVars, Neither, LockMoves
<1>10. CASE StoreFails
  <2>1. ~Submitting' /\ lock.task \in interrupted'
    BY <1>10, Zenon DEF StoreFails, Submitting, Free
  <2>2. QED
    BY <1>10, <2>1 DEF StoreFails, attemptVars, outputVars, Neither, LockMoves
<1>11. CASE Crash
  <2>1. ~Submitting'
    BY <1>11 DEF Crash, Submitting, Free
  <2>2. Submitting => attempts'[lock.task] \in Terminal
    <3>1. \A u \in Tasks : attempts[u] # "none" => attempts'[u] \in Terminal
      BY <1>0, <1>11 DEF Crash, resolve_crashed_attempts, AttemptState, Terminal
    <3>2. QED
      BY <3>1, LockCases DEF SubmitInv
  <2>3. \A u \in Tasks : attempts'[u] = "succeeded" => attempts[u] = "succeeded"
    BY <1>11 DEF Crash, resolve_crashed_attempts
  <2>4. QED
    BY <1>11, <2>1, <2>2, <2>3 DEF Crash, outputVars, Neither, LockMoves
<1>12. CASE UNCHANGED <<lock, attempts, outputs, results, interrupted>>
  BY <1>1, <1>12
<1>13. QED
  BY <1>2, <1>3, <1>4, <1>5, <1>6, <1>7, <1>8, <1>9, <1>10, <1>11, <1>12, StepCases, Zenon
     DEF vars, attemptVars, outputVars, RunGather, WorkerExits, RunPrepare, CgroupCreate, Collect,
     RunErr, RunAborts

-----------------------------------------------------------------------------
(* The bytes a submission in the lock has staged under an id so far. *)
Staged(t, a) ==
    IF Submitting /\ lock.task = t /\ a \in DOMAIN lock.outputs /\ a \notin lock.left
    THEN lock.outputs[a] ELSE NoContent

(* A task that is not over, and met no failing store call, holds what the     *)
(* submission in the lock staged and nothing else.                            *)
OutputsInv ==
    \A t \in Tasks :
        attempts[t] \notin Terminal /\ t \notin interrupted =>
          \A a \in Artifacts : outputs[t][a] = Staged(t, a)

(* Every step keeps it. *)
LEMMA OutputsStep ==
    ASSUME TypeOK, SubmitInv, OutputsInv, [Next]_vars
    PROVE  OutputsInv'
<1>0. attempts \in [Tasks -> AttemptState]
      /\ outputs \in [Tasks -> [Artifacts -> Contents \cup {NoContent}]]
  BY DEF TypeOK, AttemptsTypeOK
<1> SUFFICES ASSUME NEW t \in Tasks, attempts'[t] \notin Terminal, t \notin interrupted',
                    NEW a \in Artifacts
             PROVE  outputs'[t][a] = Staged(t, a)'
  BY DEF OutputsInv
<1>1. attempts[t] \notin Terminal
  BY AttemptsMove DEF AttemptMoves
<1>2. CASE Records
  <2>1. lock.task # t /\ t \notin interrupted /\ outputs' = outputs
    BY <1>0, <1>2 DEF Records, Terminal
  <2>2. outputs[t][a] = NoContent
    BY <1>1, <2>1 DEF OutputsInv, Staged
  <2>3. ~Submitting'
    BY <1>2 DEF Records, Submitting, Free
  <2>4. QED
    BY <2>1, <2>2, <2>3 DEF Staged
<1>3. CASE Neither
  <2>1. outputs' = outputs /\ t \notin interrupted
    BY <1>3 DEF Neither
  <2>2. outputs[t][a] = Staged(t, a)
    BY <1>1, <2>1 DEF OutputsInv
  <2>3. CASE lock' = lock
    BY <2>1, <2>2, <2>3, Zenon DEF Staged, Submitting
  <2>4. CASE ~Submitting /\ ~Submitting'
    BY <2>1, <2>2, <2>4 DEF Staged
  <2>5. CASE ~Submitting /\ Submitting' /\ lock'.left = DOMAIN lock'.outputs
    BY <2>1, <2>2, <2>5 DEF Staged
  <2>6. CASE Submitting /\ ~Submitting' /\ (lock.task \in interrupted' \/ attempts'[lock.task] \in Terminal)
    BY <2>1, <2>2, <2>6 DEF Staged
  <2>7. QED
    BY <1>3, <2>3, <2>4, <2>5, <2>6 DEF Neither, LockMoves
<1>4. ASSUME NEW b \in Artifacts, Stages(b) PROVE outputs'[t][a] = Staged(t, a)'
  <2>1. Submitting /\ lock \in Submit /\ lock.task \in Tasks /\ b \in lock.left /\ t \notin interrupted
    BY <1>4, LockCases DEF Stages, put_task_output, Submitting
  <2>2. b \in DOMAIN lock.outputs
    BY <2>1 DEF SubmitInv
  <2>3. lock' = [lock EXCEPT !.left = @ \ {b}]
    BY <1>4 DEF Stages, put_task_output
  <2>4. /\ Submitting' /\ lock'.task = lock.task /\ lock'.outputs = lock.outputs
        /\ lock'.left = lock.left \ {b}
    BY <2>1, <2>3 DEF Submit, Submitting
  <2>5. outputs[t][a] = Staged(t, a)
    BY <1>1, <2>1 DEF OutputsInv
  <2>6. CASE t = lock.task /\ a = b
    <3>1. outputs[t][a] = NoContent
      BY <2>1, <2>5, <2>6 DEF Staged
    <3>2. outputs'[t][a] = lock.outputs[a]
      <4>1. PICK v : v = lock.outputs[a]
        OBVIOUS
      <4>2. outputs' = [outputs EXCEPT ![t][a] = IF @ = NoContent THEN v ELSE @]
        BY <1>4, <2>6, <4>1 DEF Stages, put_task_output
      <4>3. QED
        BY <1>0, <3>1, <4>1, <4>2
    <3>3. Staged(t, a)' = lock.outputs[a]
      BY <2>2, <2>4, <2>6 DEF Staged
    <3>4. QED
      BY <3>2, <3>3
  <2>7. CASE ~(t = lock.task /\ a = b)
    <3>1. outputs'[t][a] = outputs[t][a]
      BY <1>0, <1>4, <2>1, <2>7 DEF Stages, put_task_output
    <3>2. Staged(t, a)' = Staged(t, a)
      BY <2>1, <2>4, <2>7 DEF Staged
    <3>3. QED
      BY <2>5, <3>1, <3>2
  <2>8. QED
    BY <2>6, <2>7
<1>5. QED
  BY <1>2, <1>3, <1>4, ResultsMove

(* Every step keeps the results with their bytes. *)
LEMMA ManifestStep ==
    ASSUME TypeOK, SubmitInv, OutputsInv, ManifestCoversOutputs, [Next]_vars
    PROVE  ManifestCoversOutputs'
<1>0. /\ attempts \in [Tasks -> AttemptState] /\ results \in [Tasks -> Submission \cup {NoResult}]
      /\ outputs \in [Tasks -> [Artifacts -> Contents \cup {NoContent}]]
  BY Zenon DEF TypeOK, AttemptsTypeOK
<1>1. ASSUME NEW t \in Tasks, attempts'[t] = "succeeded" <=> attempts[t] = "succeeded",
             attempts[t] = "succeeded" => outputs'[t] = outputs[t],
             results'[t] = results[t], interrupted \subseteq interrupted'
      PROVE  /\ attempts'[t] = "succeeded" <=> results'[t] # NoResult
             /\ attempts'[t] = "succeeded" /\ t \notin interrupted' => StagedOutputs(t)' = results'[t]
  <2>1. attempts[t] = "succeeded" => StagedOutputs(t)' = StagedOutputs(t)
    BY <1>1 DEF StagedOutputs
  <2>2. QED
    BY <1>1, <2>1 DEF ManifestCoversOutputs
<1>2. CASE Records
  <2>1. PICK t \in Tasks : t = lock.task
    BY <1>2, LockCases DEF Records
  <2>2. PICK sub \in Submission : sub = lock.outputs
    BY <1>2, LockCases DEF Records
  <2>3. /\ attempts[t] \in {"claimed", "running"} /\ attempts'[t] = "succeeded"
        /\ results'[t] = sub /\ outputs' = outputs /\ interrupted' = interrupted
        /\ \A u \in Tasks : u # t => attempts'[u] = attempts[u] /\ results'[u] = results[u]
    BY <1>0, <1>2, <2>1, <2>2 DEF Records
  <2>4. ASSUME t \notin interrupted PROVE StagedOutputs(t)' = sub
    <3>1. \A a \in Artifacts : outputs[t][a] = IF a \in DOMAIN sub THEN sub[a] ELSE NoContent
      <4>1. Submitting /\ lock.task = t /\ lock.outputs = sub /\ lock.left = {}
        BY <1>2, <2>1, <2>2 DEF Records
      <4>2. \A a \in Artifacts : outputs[t][a] = Staged(t, a)
        BY <2>3, <2>4 DEF OutputsInv, Terminal
      <4>3. QED
        BY <4>1, <4>2 DEF Staged
    <3>2. {b \in Artifacts : outputs[t][b] # NoContent} = DOMAIN sub
      <4>1. /\ \A a \in DOMAIN sub : a \in Artifacts /\ outputs[t][a] # NoContent
            /\ \A a \in Artifacts : outputs[t][a] # NoContent => a \in DOMAIN sub
        BY <3>1, SubmissionFacts
      <4>2. QED
        BY <4>1
    <3>3. \A a \in DOMAIN sub : outputs[t][a] = sub[a]
      BY <3>1, SubmissionFacts
    <3>4. [a \in DOMAIN sub |-> outputs[t][a]] = [a \in DOMAIN sub |-> sub[a]]
      BY <3>3
    <3>5. StagedOutputs(t) = sub
      BY <3>2, <3>4, SubmissionFacts DEF StagedOutputs
    <3>6. StagedOutputs(t)' = StagedOutputs(t)
      BY <2>3 DEF StagedOutputs
    <3>7. QED
      BY <3>5, <3>6
  <2>5. sub # NoResult
    BY ExecutionAssumption
  <2>6. ASSUME NEW u \in Tasks
        PROVE  /\ attempts'[u] = "succeeded" <=> results'[u] # NoResult
               /\ attempts'[u] = "succeeded" /\ u \notin interrupted' => StagedOutputs(u)' = results'[u]
    <3>1. CASE u = t
      BY <2>3, <2>4, <2>5, <3>1
    <3>2. CASE u # t
      BY <1>1, <2>3, <3>2
    <3>3. QED
      BY <3>1, <3>2
  <2>7. QED
    BY <2>6 DEF ManifestCoversOutputs
<1>3. CASE Neither
  <2>1. ASSUME NEW t \in Tasks
        PROVE  /\ attempts'[t] = "succeeded" <=> results'[t] # NoResult
               /\ attempts'[t] = "succeeded" /\ t \notin interrupted' => StagedOutputs(t)' = results'[t]
    <3>1. attempts'[t] = "succeeded" <=> attempts[t] = "succeeded"
      BY <1>3, AttemptsMove DEF Neither, AttemptMoves, Terminal
    <3>2. QED
      BY <1>1, <1>3, <3>1 DEF Neither
  <2>2. QED
    BY <2>1 DEF ManifestCoversOutputs
<1>4. ASSUME NEW a \in Artifacts, Stages(a) PROVE ManifestCoversOutputs'
  <2>1. lock.task \in Tasks /\ attempts[lock.task] # "succeeded"
    BY <1>4, LockCases DEF Stages, put_task_output, Submitting, SubmitInv
  <2>2. \A t \in Tasks : t # lock.task => outputs'[t] = outputs[t]
    BY <1>0, <1>4 DEF Stages, put_task_output
  <2>3. ASSUME NEW t \in Tasks
        PROVE  /\ attempts'[t] = "succeeded" <=> results'[t] # NoResult
               /\ attempts'[t] = "succeeded" /\ t \notin interrupted' => StagedOutputs(t)' = results'[t]
    BY <1>1, <1>4, <2>1, <2>2 DEF Stages
  <2>4. QED
    BY <2>3 DEF ManifestCoversOutputs
<1>5. QED
  BY <1>2, <1>3, <1>4, ResultsMove

(* What an attempt came to stays, in every step. *)
LEMMA FinalStep ==
    ASSUME TypeOK, SubmitInv, [Next]_vars, NEW t \in Tasks, attempts[t] \in Terminal
    PROVE  /\ attempts'[t] = attempts[t]
           /\ results'[t] = results[t]
           /\ attempts[t] = "succeeded" => outputs'[t] = outputs[t]
<1>0. /\ results \in [Tasks -> Submission \cup {NoResult}]
      /\ outputs \in [Tasks -> [Artifacts -> Contents \cup {NoContent}]]
  BY DEF TypeOK
<1>1. attempts'[t] = attempts[t]
  BY AttemptsMove, Zenon DEF AttemptMoves
<1>2. CASE Records
  <2>1. t # lock.task
    BY <1>2 DEF Records, Terminal
  <2>2. QED
    BY <1>0, <1>1, <1>2, <2>1 DEF Records
<1>3. CASE Neither
  BY <1>1, <1>3 DEF Neither
<1>4. ASSUME NEW a \in Artifacts, Stages(a)
      PROVE  results'[t] = results[t] /\ (attempts[t] = "succeeded" => outputs'[t] = outputs[t])
  <2>1. lock.task \in Tasks /\ attempts[lock.task] # "succeeded"
    BY <1>4, LockCases DEF Stages, put_task_output, Submitting, SubmitInv
  <2>2. QED
    BY <1>0, <1>4, <2>1 DEF Stages, put_task_output
<1>5. QED
  BY <1>1, <1>2, <1>3, <1>4, ResultsMove

-----------------------------------------------------------------------------
(* The inductive invariant. *)
IInv ==
    /\ TypeOK
    /\ SubmitInv
    /\ CallInv
    /\ OneConfinedRun
    /\ RunHasAuthority
    /\ LaunchInv
    /\ OutputsInv
    /\ ManifestCoversOutputs

(* It holds of a fresh store. *)
LEMMA IInvInit == Init => IInv
<1> SUFFICES ASSUME Init PROVE IInv
  OBVIOUS
<1>1. TypeOK
  BY TypeInit
<1>2. ~Submitting /\ \A c \in Runs : runs[c] = NoRun
  BY DEF Init, Submitting, Free
<1>3. \A t \in Tasks : attempts[t] = "none" /\ results[t] = NoResult
  BY Zenon DEF Init, AttemptsInit
<1>4. \A t \in Tasks, a \in Artifacts : outputs[t][a] = NoContent
  BY DEF Init
<1>5. SubmitInv /\ CallInv /\ OneConfinedRun /\ RunHasAuthority
  BY <1>2 DEF SubmitInv, CallInv, OneConfinedRun, RunHasAuthority
<1>6. LaunchInv
  <2>1. ASSUME NEW t \in Tasks PROVE launches[t] = 0 /\ launches[t] <= 1
    BY DEF Init
  <2>2. QED
    BY <2>1, Zenon DEF LaunchInv
<1>7. OutputsInv
  BY <1>2, <1>4 DEF OutputsInv, Staged
<1>8. ManifestCoversOutputs
  BY <1>3, Zenon DEF ManifestCoversOutputs
<1>9. QED
  BY <1>1, <1>5, <1>6, <1>7, <1>8 DEF IInv

(* Every step keeps it. *)
LEMMA IInvStep == IInv /\ [Next]_vars => IInv'
<1> SUFFICES ASSUME IInv, [Next]_vars PROVE IInv'
  OBVIOUS
<1> USE DEF IInv
<1>1. TypeOK' /\ SubmitInv'
  BY TypeStep, SubmitStep
<1>2. CallInv' /\ OneConfinedRun'
  BY ConfinedStep
<1>3. RunHasAuthority'
  BY <1>2, AuthorityStep
<1>4. LaunchInv' /\ OutputsInv' /\ ManifestCoversOutputs'
  BY LaunchStep, OutputsStep, ManifestStep
<1>5. QED
  BY <1>1, <1>2, <1>3, <1>4

(* The inductive invariant holds of every reachable state. *)
THEOREM Invariance == Spec => []IInv
  BY IInvInit, IInvStep, PTL DEF Spec

(* The tables, the lock and the calls keep their types. *)
THEOREM TypeCorrect == Spec => []TypeOK
<1>1. IInv => TypeOK
  BY DEF IInv
<1>2. QED
  BY <1>1, Invariance, PTL

(* However `task run` calls, crashes and restarts interleave, a worker is     *)
(* launched at most once for a task: run_worker starts the attempt durably    *)
(* before it launches.                                                        *)
THEOREM NoSecondLaunch == Spec => []LaunchedOnce
<1>1. IInv => LaunchedOnce
  BY Zenon DEF IInv, LaunchInv, LaunchedOnce
<1>2. QED
  BY <1>1, Invariance, PTL

(* A call with a worker, or with its outputs in hand, works on an issued task *)
(* whose attempt is Running or was completed by another submission.           *)
THEOREM WorkIsAuthorised == Spec => []RunHasAuthority
<1>1. IInv => RunHasAuthority
  BY DEF IInv
<1>2. QED
  BY <1>1, Invariance, PTL

(* Two calls are never past the cgroup leaf of one task: the leaf is made     *)
(* exclusively and only the call that holds it drops it.                      *)
THEOREM ConfinementIsExclusive == Spec => []OneConfinedRun
<1>1. IInv => OneConfinedRun
  BY DEF IInv
<1>2. QED
  BY <1>1, Invariance, PTL

(* A completed task has a result, and, unless a store call failed for it, the *)
(* staged bytes are exactly the ones its manifest covers, whoever submitted   *)
(* and whatever raced with it.                                                *)
THEOREM ManifestIsComplete == Spec => []ManifestCoversOutputs
<1>1. IInv => ManifestCoversOutputs
  BY DEF IInv
<1>2. QED
  BY <1>1, Invariance, PTL

(* No step moves a terminal attempt, replaces its result or changes the bytes *)
(* of a completed task.                                                       *)
THEOREM OutcomeStays == Spec => OutcomeIsFinal
<1>1. IInv /\ [Next]_vars =>
        [\A t \in Tasks : attempts[t] \in Terminal =>
           /\ attempts'[t] = attempts[t]
           /\ results'[t] = results[t]
           /\ attempts[t] = "succeeded" => outputs'[t] = outputs[t]]_vars
  BY FinalStep DEF IInv
<1>2. QED
  BY <1>1, Invariance, PTL DEF Spec, OutcomeIsFinal

-----------------------------------------------------------------------------
(* Execution implements TaskLife. *)

(* The order that is about to be put belongs to a claimed attempt, and what   *)
(* is being submitted to an issued order.                                     *)
IssueInv ==
    /\ lock.op = "put_order" => attempts[lock.task] = "claimed"
    /\ Submitting => lock.task \in orders

(* Every step keeps it: no attempt moves while a handler is in the lock. *)
LEMMA IssueStep ==
    ASSUME TypeOK, IssueInv, [Next]_vars
    PROVE  IssueInv'
<1>0. /\ attempts \in [Tasks -> AttemptState]
      /\ orders \subseteq orders'
  BY AttemptsMove DEF TypeOK, AttemptsTypeOK, AttemptMoves
<1>1. ASSUME lock' = Free PROVE IssueInv'
  <2>1. lock'.op = "free"
    BY <1>1 DEF Free
  <2>2. QED
    BY <2>1 DEF IssueInv, Submitting
<1>2. ASSUME lock' = lock, attempts' = attempts PROVE IssueInv'
  BY <1>0, <1>2 DEF IssueInv, Submitting
<1>3. ASSUME NEW t \in Tasks, IssueClaims(t) PROVE IssueInv'
  <2>1. lock'.op = "put_order" /\ lock'.task = t
    BY <1>3 DEF IssueClaims
  <2>2. attempts'[t] = "claimed"
    BY <1>0, <1>3 DEF IssueClaims, claim_attempt
  <2>3. QED
    BY <2>1, <2>2 DEF IssueInv, Submitting
<1>4. ASSUME NEW t \in Tasks, NEW sub, NEW by, submit_result(t, sub, by) PROVE IssueInv'
  <2>1. lock'.op = "submit" /\ lock'.task = t
    BY <1>4 DEF submit_result
  <2>2. t \in orders'
    BY <1>0, <1>4 DEF submit_result, Submittable
  <2>3. QED
    BY <2>1, <2>2 DEF IssueInv, Submitting
<1>5. ASSUME NEW a \in Artifacts, put_task_output(a) PROVE IssueInv'
  <2>1. Submitting /\ lock \in Submit /\ lock' = [lock EXCEPT !.left = @ \ {a}]
    BY <1>5, LockCases DEF put_task_output, Submitting
  <2>2. lock'.op = "submit" /\ lock'.task = lock.task
    BY <2>1 DEF Submit, Submitting
  <2>3. QED
    BY <1>0, <2>1, <2>2 DEF IssueInv, Submitting
<1>6. ASSUME NEW c \in Runs, RunSubmit(c) PROVE IssueInv'
  <2>1. CASE submit_result(runs[c].task, runs[c].got, c)
    <3>1. runs[c].task \in Tasks
      BY <1>6, RunParts DEF RunSubmit, TypeOK
    <3>2. QED
      BY <1>4, <2>1, <3>1, Zenon
  <2>2. CASE lock' = lock
    BY <1>2, <1>6, <2>2 DEF RunSubmit, attemptVars
  <2>3. QED
    BY <1>6, <2>1, <2>2 DEF RunSubmit
<1>7. CASE \E c \in Runs : RunStart(c) \/ \E committed \in BOOLEAN : MarkFailed(c, committed)
  BY <1>1, <1>7 DEF RunStart, MarkFailed
<1>8. QED
  BY <1>1, <1>2, <1>3, <1>4, <1>5, <1>6, <1>7, StepCases DEF vars, attemptVars, IssuePutsOrder,
     complete_attempt_with_result, Fulfill, RunGather, WorkerExits, RunPrepare, CgroupCreate,
     Collect, RunErr, RunAborts, StoreFails, Crash

(* One task moves to a stage of its life, and the others keep theirs. *)
LEMMA LifeMove ==
    ASSUME NEW t \in Tasks, NEW from, NEW to, lifeOf(t) \in from, lifeOf(t)' = to,
           \A u \in Tasks : u # t => lifeOf(u)' = lifeOf(u)
    PROVE  Life!Move(t, from, to)
  BY DEF Life!Move

(* A result is delivered only by the step that completes the attempt. *)
LEMMA NotDelivered ==
    ASSUME \A u \in Tasks : deliveredOf(u)' = deliveredOf(u)
    PROVE  [u \in Tasks |-> deliveredOf(u)]' = [u \in Tasks |-> deliveredOf(u)]
  OBVIOUS

(* The stages of an accepted task before a result. *)
LEMMA LifeStays ==
    ASSUME attempts' = attempts, orders' = orders, launches' = launches,
           \A u \in Tasks : deliveredOf(u)' = deliveredOf(u)
    PROVE  UNCHANGED Life!lvars
  BY NotDelivered DEF lifeOf, Life!lvars

(* A fresh store holds tasks that were accepted and nothing else. *)
LEMMA LifeInit == Init => Life!Init
<1> SUFFICES ASSUME Init PROVE Life!Init
  OBVIOUS
<1>1. \A t \in Tasks : lifeOf(t) = "accepted" /\ deliveredOf(t) = {}
  BY DEF Init, AttemptsInit, lifeOf, deliveredOf
<1>2. orders = {} /\ launches = [t \in Tasks |-> 0]
  BY DEF Init, AttemptsInit
<1>3. QED
  BY <1>1, <1>2 DEF Life!Init

(* Every step of Execution is a step of TaskLife or leaves it as it is. *)
LEMMA LifeStep ==
    ASSUME IInv, IssueInv, [Next]_vars
    PROVE  [Life!Next]_Life!lvars
<1>0. /\ TypeOK /\ attempts \in [Tasks -> AttemptState]
      /\ launches \in [Tasks -> 0..2] /\ results \in [Tasks -> Submission \cup {NoResult}]
      /\ outputs \in [Tasks -> [Artifacts -> Contents \cup {NoContent}]]
  BY DEF IInv, TypeOK, AttemptsTypeOK
<1>1. ASSUME attempts' = attempts, orders' = orders, launches' = launches, outputs' = outputs,
             results' = results
      PROVE  UNCHANGED Life!lvars
  BY <1>1, LifeStays DEF deliveredOf
<1>2. ASSUME NEW t \in Tasks, IssueClaims(t) PROVE Life!Next
  <2>1. /\ attempts[t] = "none" /\ attempts'[t] = "claimed"
        /\ \A u \in Tasks : u # t => attempts'[u] = attempts[u]
        /\ orders' = orders /\ launches' = launches
        /\ outputs' = outputs /\ results' = results
    BY <1>0, <1>2 DEF IssueClaims, claim_attempt, outputVars, runVars
  <2>2. Life!Move(t, {"accepted"}, "claimed")
    BY <2>1, LifeMove DEF lifeOf
  <2>3. \A u \in Tasks : deliveredOf(u)' = deliveredOf(u)
    BY <2>1 DEF deliveredOf
  <2>4. Life!Advance(t)
    BY <2>1, <2>2, <2>3, NotDelivered DEF Life!Advance
  <2>5. QED
    BY <2>4 DEF Life!Next
<1>3. CASE IssuePutsOrder
  <2>1. PICK t \in Tasks : t = lock.task /\ attempts[t] = "claimed"
    BY <1>0, <1>3, LockCases DEF IssuePutsOrder, IssueInv
  <2>2. /\ attempts' = attempts /\ orders' = orders \cup {t} /\ launches' = launches
        /\ outputs' = outputs /\ results' = results
    BY <1>3, <2>1 DEF IssuePutsOrder, put_work_order, outputVars, runVars
  <2>3. lifeOf(t) = "claimed" /\ \A u \in Tasks : lifeOf(u)' = lifeOf(u)
    BY <2>1, <2>2, Zenon DEF lifeOf
  <2>4. \A u \in Tasks : deliveredOf(u)' = deliveredOf(u)
    BY <2>2 DEF deliveredOf
  <2>5. Life!Order(t)
    BY <2>2, <2>3, <2>4, NotDelivered DEF Life!Order
  <2>6. QED
    BY <2>5 DEF Life!Next
<1>4. ASSUME NEW a \in Artifacts, put_task_output(a) PROVE UNCHANGED Life!lvars
  <2>1. lock.task \in Tasks /\ attempts[lock.task] # "succeeded"
    BY <1>0, <1>4, LockCases DEF put_task_output, Submitting, IInv, SubmitInv
  <2>2. /\ attempts' = attempts /\ orders' = orders /\ launches' = launches
        /\ \A u \in Tasks : u # lock.task => outputs'[u] = outputs[u]
        /\ results' = results
    BY <1>0, <1>4, <2>1 DEF put_task_output, attemptVars, runVars
  <2>3. \A u \in Tasks : deliveredOf(u)' = deliveredOf(u)
    BY <2>1, <2>2 DEF deliveredOf
  <2>4. QED
    BY <2>2, <2>3, LifeStays
<1>5. CASE complete_attempt_with_result
  <2>1. PICK t \in Tasks : t = lock.task /\ t \in orders
    BY <1>0, <1>5, LockCases DEF complete_attempt_with_result, Submitting, IssueInv
  <2>2. orders' = orders /\ launches' = launches /\ outputs' = outputs
    BY <1>5 DEF complete_attempt_with_result
  <2>3. CASE attempts[t] \in {"claimed", "running"}
    <3>1. /\ attempts'[t] = "succeeded"
          /\ \A u \in Tasks : u # t => attempts'[u] = attempts[u] /\ results'[u] = results[u]
      BY <1>0, <1>5, <2>1, <2>3 DEF complete_attempt_with_result
    <3>2. Life!Move(t, Life!InFlight, "succeeded")
      BY <2>3, <3>1, LifeMove DEF lifeOf, Life!InFlight
    <3>3. \A u \in Tasks : u # t => deliveredOf(u)' = deliveredOf(u)
      BY <2>2, <3>1 DEF deliveredOf
    <3>4. deliveredOf(t)' # {}
      BY <3>1 DEF deliveredOf
    <3>5. Life!Complete(t)
      BY <2>1, <2>2, <3>2, <3>3, <3>4 DEF Life!Complete
    <3>6. QED
      BY <3>5 DEF Life!Next
  <2>4. CASE attempts[t] \notin {"claimed", "running"}
    <3>1. attempts' = attempts /\ results' = results
      BY <1>5, <2>1, <2>4 DEF complete_attempt_with_result
    <3>2. QED
      BY <1>1, <2>2, <3>1
  <2>5. QED
    BY <2>3, <2>4
<1>6. ASSUME NEW c \in Runs, RunStart(c) PROVE [Life!Next]_Life!lvars
  <2>1. PICK t \in Tasks : t = runs[c].task /\ t \in orders
    BY <1>0, <1>6, RunParts DEF RunStart, TypeOK, IInv, CallInv
  <2>2. /\ attempts' = [attempts EXCEPT ![t] = IF @ = "claimed" THEN "running" ELSE @]
        /\ orders' = orders /\ outputs' = outputs /\ results' = results
    BY <1>0, <1>6, <2>1, Advanced DEF RunStart, outputVars
  <2>3. launches' = IF attempts[t] = "claimed" THEN [launches EXCEPT ![t] = Again(@)] ELSE launches
    BY <1>0, <1>6, <2>1, NextState DEF RunStart
  <2>4. CASE attempts[t] = "claimed"
    <3>1. launches' = [launches EXCEPT ![t] = @ + 1]
      <4>1. launches[t] = 0
        BY <2>1, <2>4, Zenon DEF IInv, LaunchInv
      <4>2. Again(launches[t]) = launches[t] + 1
        BY ONLY <4>1 DEF Again
      <4>3. QED
        BY <2>3, <2>4, <4>2, Zenon
    <3>2. attempts'[t] = "running" /\ \A u \in Tasks : u # t => attempts'[u] = attempts[u]
      BY <1>0, <2>2, <2>4
    <3>3. Life!Move(t, {"claimed"}, "running")
      BY <2>4, <3>2, LifeMove DEF lifeOf
    <3>4. \A u \in Tasks : deliveredOf(u)' = deliveredOf(u)
      BY <2>2, <2>4, <3>2 DEF deliveredOf
    <3>5. [u \in Tasks |-> deliveredOf(u)]' = [u \in Tasks |-> deliveredOf(u)]
      BY <3>4, NotDelivered
    <3>e. Life!Start(t)
      BY <2>1, <2>2, <3>1, <3>3, <3>5, Zenon DEF Life!Start
    <3>6. QED
      BY <3>e DEF Life!Next
  <2>5. CASE attempts[t] # "claimed"
    <3>1. attempts' = attempts /\ launches' = launches
      BY <1>0, <2>2, <2>3, <2>5, Zenon
    <3>2. QED
      BY <1>1, <2>2, <3>1
  <2>6. QED
    BY ONLY <2>4, <2>5, Zenon
<1>7. ASSUME NEW c \in Runs, NEW committed \in BOOLEAN, MarkFailed(c, committed)
      PROVE  [Life!Next]_Life!lvars
  <2>1. PICK t \in Tasks : t = runs[c].task
    BY <1>0, <1>7, RunParts DEF MarkFailed, TypeOK
  <2>2. outputs' = outputs /\ results' = results /\ launches' = launches
    BY <1>7 DEF MarkFailed, outputVars
  <2>3. CASE UNCHANGED attemptVars
    BY <1>1, <2>2, <2>3 DEF attemptVars
  <2>4. CASE advance_attempt(t, "Fail")
    <3>1. /\ attempts' = [attempts EXCEPT ![t] = IF @ = "running" THEN "failed" ELSE @]
          /\ orders' = orders
      BY <1>0, <2>4, Advanced
    <3>2. CASE attempts[t] = "running"
      <4>1. attempts'[t] = "failed" /\ \A u \in Tasks : u # t => attempts'[u] = attempts[u]
        BY <1>0, <3>1, <3>2
      <4>2. Life!Move(t, {"running"}, "failed")
        BY <3>2, <4>1, LifeMove DEF lifeOf
      <4>3. \A u \in Tasks : deliveredOf(u)' = deliveredOf(u)
        BY <2>2, <3>2, <4>1 DEF deliveredOf
      <4>4. Life!Fail(t)
        BY <2>2, <3>1, <4>2, <4>3, NotDelivered DEF Life!Fail
      <4>5. QED
        BY <4>4 DEF Life!Next
    <3>3. CASE attempts[t] # "running"
      <4>1. attempts' = attempts
        BY <1>0, <3>1, <3>3
      <4>2. QED
        BY <1>1, <2>2, <3>1, <4>1
    <3>4. QED
      BY <3>2, <3>3
  <2>5. QED
    BY <1>7, <2>1, <2>3, <2>4, Zenon DEF MarkFailed
<1>8. CASE Crash
  <2>1. /\ \A u \in Tasks : attempts'[u] = IF attempts[u] \in {"claimed", "running"}
                                           THEN "ambiguous" ELSE attempts[u]
        /\ orders' = orders /\ launches' = launches
        /\ outputs' = outputs /\ results' = results
    BY <1>8 DEF Crash, resolve_crashed_attempts, outputVars
  <2>2. \A u \in Tasks : deliveredOf(u)' = deliveredOf(u)
    BY <2>1 DEF deliveredOf
  <2>3. \A u \in Tasks : lifeOf(u)' = IF lifeOf(u) \in {"claimed", "running"} THEN "ambiguous"
                                       ELSE lifeOf(u)
    BY <2>1, Zenon DEF lifeOf
  <2>4. Life!Restart
    BY <2>1, <2>2, <2>3, NotDelivered DEF Life!Restart, Life!InFlight
  <2>5. QED
    BY <2>4 DEF Life!Next
<1>9. QED
  BY <1>1, <1>2, <1>3, <1>4, <1>5, <1>6, <1>7, <1>8, StepCases DEF vars, attemptVars, outputVars,
     runVars, Fulfill, RunGather, WorkerExits, RunPrepare, CgroupCreate, Collect, RunSubmit, RunErr,
     RunAborts, StoreFails

(* Performing a task keeps the promise of TaskLife: whatever calls, workers,  *)
(* failing store calls and restarts interleave, it starts under an issued     *)
(* order and once, comes to one outcome, and the manifest with the bytes      *)
(* staged for it is fixed by the step that completes it.                      *)
THEOREM KeepsTaskLife == Spec => ImplementsTaskLife
<1>1. Init => IssueInv
  BY DEF Init, IssueInv, Submitting, Free
<1>2. IInv /\ IssueInv /\ [Next]_vars => IssueInv'
  BY IssueStep DEF IInv
<1>3. IInv /\ IssueInv /\ [Next]_vars => [Life!Next]_Life!lvars
  BY LifeStep
<1>4. QED
  BY <1>1, <1>2, <1>3, Invariance, LifeInit, PTL DEF Spec, ImplementsTaskLife, Life!Spec

=============================================================================
