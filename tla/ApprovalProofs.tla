---------------------------- MODULE ApprovalProofs ----------------------------
(***************************************************************************)
(* Proofs about Approval, for every choice of its constants.               *)
(***************************************************************************)
EXTENDS Approval, TLAPS

(* The handlers that issue a work order, one commit at a time. *)
Issuing == lock.op \in {"claim", "put_order"}

(* The sweep's first section is in the lock: between two tasks, or issuing    *)
(* the order of the task it has just accepted.                                *)
Sweeping == lock.op = "sweep" \/ (Issuing /\ lock.by = Reactor)

(* The reactor is in a locked phase exactly while it holds the lock.          *)
PhaseInv ==
    /\ reactor.pc = "sweep" <=> Sweeping
    /\ reactor.pc = "mark" <=> lock.op = "mark"

(* No task the sweep still has to consider is handled, so none is denied.     *)
SweepInv == reactor.pc = "sweep" => reactor.left \cap reacted = {}

(* The hook has fired for every task of the sweep that is not left.           *)
HookInv ==
    /\ reactor.pc = "hook" => \A t \in reactor.pending \ reactor.left : hooks[t] > 0
    /\ reactor.pc = "mark" => \A t \in reactor.pending : hooks[t] > 0

(* A denial marks its task handled, an acceptance locks its head, and a work  *)
(* order is issued behind a locked head and a claimed attempt.                *)
DecisionInv ==
    /\ denied \subseteq reacted
    /\ \A t \in auto : heads[t] = "locked"
    /\ Issuing => heads[lock.task] = "locked"
    /\ lock.op = "put_order" => attempts[lock.task] # "none"

IInv ==
    /\ TypeOK
    /\ PhaseInv
    /\ SweepInv
    /\ HookInv
    /\ DecisionInv
    /\ DeniedIsNotAutoApproved
    /\ PolicyHasPeer
    /\ OrderHasDecision
    /\ ReactedWasAnnounced

-----------------------------------------------------------------------------
(* The lock is free, held between two steps of a sweep, or by an issue. *)
LEMMA LockCases ==
    ASSUME TypeOK
    PROVE  /\ \/ lock = Free /\ lock.op = "free"
              \/ lock = [op |-> "sweep"] /\ lock.op = "sweep"
              \/ lock = [op |-> "mark"] /\ lock.op = "mark"
              \/ lock \in Issue /\ Issuing
           /\ Issuing => /\ lock \in Issue
                         /\ lock.task \in Tasks
                         /\ lock.by \in {Operator, Reactor}
  BY DEF TypeOK, Free, Issue, Issuing

(* What an approval does to the head and to the lock (approve_and_issue). *)
LEMMA ApprovalEffect ==
    ASSUME NEW t \in Tasks, NEW by, NEW g \in BOOLEAN, approve_and_issue(t, by, g)
    PROVE  /\ heads[t] = "open"
           /\ heads' = [heads EXCEPT ![t] = "locked"]
           /\ lock' = [op |-> "claim", task |-> t, by |-> by] \/ lock' = Resume(by)
  BY DEF approve_and_issue, decide, accept_contract

(* The same for the two callers: the operator leaves the lock, or goes on to  *)
(* issue; the reactor goes on with its sweep, or issues.                      *)
LEMMA OperatorApproves ==
    ASSUME TypeOK, NEW t \in Tasks, NEW g \in BOOLEAN, TaskApprove(t, g)
    PROVE  /\ lock = Free
           /\ heads[t] = "open" /\ heads' = [heads EXCEPT ![t] = "locked"]
           /\ lock' = [op |-> "claim", task |-> t, by |-> Operator] \/ lock' = Free
           /\ UNCHANGED <<importVars, attemptVars, expired, policy, reacted, reactor, historyVars>>
  BY ApprovalEffect DEF TaskApprove, Resume

(* The reactor considers one task: accepted, or left alone. *)
LEMMA ReactorConsiders ==
    ASSUME TypeOK, NEW t \in Tasks, auto_approve_if_allowed(t)
    PROVE  /\ lock.op = "sweep"
           /\ t \in reactor.left
           /\ reactor' = [reactor EXCEPT !.left = @ \ {t}]
           /\ UNCHANGED <<importVars, attemptVars, expired, policy, reacted, denied, hooks,
                          interrupted>>
           /\ \/ /\ heads[t] = "open" /\ heads' = [heads EXCEPT ![t] = "locked"]
                 /\ lock' = [op |-> "claim", task |-> t, by |-> Reactor] \/ lock' = [op |-> "sweep"]
                 /\ auto' = auto \cup {t}
              \/ UNCHANGED <<heads, lock, auto>>
<1>1. /\ lock.op = "sweep"
      /\ t \in reactor.left
      /\ reactor' = [reactor EXCEPT !.left = @ \ {t}]
      /\ UNCHANGED <<importVars, attemptVars, expired, policy, reacted, denied, hooks,
                     interrupted>>
  BY DEF auto_approve_if_allowed
<1>2. CASE approve_and_issue(t, Reactor, TRUE) /\ auto' = auto \cup {t}
  <2>1. Resume(Reactor) = [op |-> "sweep"]
    BY DEF Resume, Reactor, Operator
  <2>2. /\ heads[t] = "open"
        /\ heads' = [heads EXCEPT ![t] = "locked"]
        /\ lock' = [op |-> "claim", task |-> t, by |-> Reactor] \/ lock' = Resume(Reactor)
    BY <1>2, ApprovalEffect, Zenon
  <2>3. QED
    BY <1>1, <1>2, <2>1, <2>2
<1>3. CASE UNCHANGED <<heads, lock, auto>>
  BY <1>1, <1>3
<1>4. QED
  BY <1>2, <1>3, Zenon DEF auto_approve_if_allowed

(* The steps of Next, by what they may touch beyond the relationship tables.  *)
LEMMA StepCases ==
    ASSUME [Next]_vars
    PROVE  \/ UNCHANGED vars
           \/ \E r \in Roots, l \in Labels : PeerAdd(r, l)
           \/ \E r \in Roots : PeerImportRemove(r)
           \/ \E r \in Roots : PeerAutoApprove(r)
           \/ \E r \in Roots, changed \in BOOLEAN : Introduced(r, changed)
           \/ \E t \in Tasks : ReceiveProposal(t)
           \/ \E t \in Tasks : Expire(t)
           \/ \E t \in Tasks : TaskDeny(t)
           \/ \E t \in Tasks : spawn_hook(t)
           \/ \E t \in Tasks, g \in BOOLEAN : TaskApprove(t, g)
           \/ \E trusted \in BOOLEAN : React(trusted)
           \/ MarkBegins
           \/ IssueClaims
           \/ IssuePutsOrder
           \/ \E t \in Tasks : auto_approve_if_allowed(t)
           \/ \E t \in Tasks : mark_task_reacted(t)
           \/ SweepEnds
           \/ StoreFails
           \/ Crash
  BY DEF Next, LockStep

-----------------------------------------------------------------------------
(* The initial state has the declared types. *)
LEMMA TypeInit == Init => TypeOK
<1> SUFFICES ASSUME Init PROVE TypeOK
  OBVIOUS
<1>1. ImportsTypeOK
  BY ImportsAssumption DEF Init, ImportsInit, ImportsTypeOK, ImportRow, PeerStatus
<1>2. AttemptsTypeOK
  BY DEF Init, AttemptsInit, AttemptsTypeOK, AttemptState
<1>3. QED
  BY <1>1, <1>2 DEF Init, TypeOK, Idle, Free

(* The transactions on the relationship tables keep their types. *)
LEMMA ImportsTypeStep ==
    ASSUME ImportsTypeOK, [Next]_vars
    PROVE  ImportsTypeOK'
<1> USE ImportsAssumption DEF ImportsTypeOK
<1>1. ASSUME NEW r \in Roots, NEW l \in Labels, PeerAdd(r, l) PROVE ImportsTypeOK'
  <2>1. imports[r] \in ImportRow
    OBVIOUS
  <2>2. [live |-> TRUE, label |-> l,
         epoch |-> IF imports[r].epoch = 0 THEN 1 ELSE imports[r].epoch] \in ImportRow
    BY <2>1 DEF ImportRow
  <2>3. QED
    BY <1>1, <2>2 DEF PeerAdd, add_peer_import
<1>2. ASSUME NEW r \in Roots, PeerImportRemove(r) PROVE ImportsTypeOK'
  <2>1. imports[r] \in ImportRow
    OBVIOUS
  <2>2. [live |-> FALSE, label |-> NoLabel, epoch |-> imports[r].epoch + 1] \in ImportRow
    BY <1>2, <2>1 DEF PeerImportRemove, remove_relationship, ImportRow
  <2>3. QED
    BY <1>2, <2>2 DEF PeerImportRemove, remove_relationship, PeerStatus
<1>3. ASSUME NEW r \in Roots, NEW changed \in BOOLEAN, Introduced(r, changed) PROVE ImportsTypeOK'
  BY <1>3 DEF Introduced, commit_introduced_peer, PeerStatus
<1>4. CASE UNCHANGED importVars
  BY <1>4 DEF importVars
<1>5. QED
  BY <1>1, <1>2, <1>3, <1>4, StepCases, Zenon DEF vars, PeerAutoApprove, ReceiveProposal, Expire, TaskDeny,
     spawn_hook, TaskApprove, React, MarkBegins, IssueClaims, IssuePutsOrder,
     auto_approve_if_allowed, mark_task_reacted, SweepEnds, StoreFails, Crash

(* So do the transactions on attempts and work orders. *)
LEMMA AttemptsTypeStep ==
    ASSUME TypeOK, [Next]_vars
    PROVE  AttemptsTypeOK'
<1> USE DEF AttemptsTypeOK, AttemptState
<1>0. AttemptsTypeOK
  BY DEF TypeOK
<1>1. CASE IssueClaims
  BY <1>0, <1>1, Zenon DEF IssueClaims, claim_attempt
<1>2. CASE IssuePutsOrder
  BY <1>0, <1>2, LockCases DEF IssuePutsOrder, put_work_order, Issuing
<1>3. CASE Crash
  BY <1>0, <1>3 DEF Crash, resolve_crashed_attempts
<1>4. CASE UNCHANGED attemptVars
  BY <1>0, <1>4 DEF attemptVars
<1>5. QED
  BY <1>1, <1>2, <1>3, <1>4, StepCases, Zenon DEF vars, PeerAdd, PeerImportRemove, Introduced,
     PeerAutoApprove, ReceiveProposal, Expire, TaskDeny, spawn_hook, TaskApprove, React, MarkBegins,
     auto_approve_if_allowed, mark_task_reacted, SweepEnds, StoreFails

(* Every step keeps the types. *)
LEMMA TypeStep ==
    ASSUME TypeOK, [Next]_vars
    PROVE  TypeOK'
<1> DEFINE Locks == {Free, [op |-> "sweep"], [op |-> "mark"]} \cup Issue
           Sweeps == [pc : {"idle", "sweep", "hook", "mark"}, left : SUBSET Tasks,
                      pending : SUBSET Tasks]
           Sets == /\ expired \subseteq Tasks /\ policy \subseteq Roots /\ reacted \subseteq Tasks
                   /\ denied \subseteq Tasks /\ auto \subseteq Tasks
<1>i. ImportsTypeOK'
  BY ImportsTypeStep DEF TypeOK
<1>a. AttemptsTypeOK'
  BY AttemptsTypeStep
<1>l. lock' \in Locks
  <2>1. \A t \in Tasks, by \in {Operator, Reactor} :
           /\ [op |-> "claim", task |-> t, by |-> by] \in Issue
           /\ Resume(by) \in Locks
    BY DEF Issue, Resume
  <2>2. ASSUME NEW t \in Tasks, NEW g \in BOOLEAN, TaskApprove(t, g) PROVE lock' \in Locks
    BY <2>1, <2>2, OperatorApproves, Zenon
  <2>3. ASSUME NEW t \in Tasks, auto_approve_if_allowed(t) PROVE lock' \in Locks
    BY <2>1, <2>3, ReactorConsiders, ZenonT(30) DEF TypeOK
  <2>4. CASE IssueClaims
    <3>1. lock \in Issue
      BY <2>4, LockCases DEF IssueClaims, Issuing
    <3>2. [lock EXCEPT !.op = "put_order"] \in Issue
      BY ONLY <3>1 DEF Issue
    <3>3. QED
      BY <2>4, <3>2 DEF IssueClaims
  <2>5. CASE IssuePutsOrder
    BY <2>1, <2>5, LockCases, Zenon DEF IssuePutsOrder, Issuing
  <2>6. CASE StoreFails
    BY <2>1, <2>6, LockCases, Zenon DEF StoreFails, Issuing
  <2>7. CASE lock' \in {lock, Free, [op |-> "sweep"], [op |-> "mark"]}
    BY <2>7 DEF TypeOK
  <2>8. QED
    BY <2>2, <2>3, <2>4, <2>5, <2>6, <2>7, StepCases DEF vars, PeerAdd, PeerImportRemove, Introduced,
       PeerAutoApprove, ReceiveProposal, Expire, TaskDeny, spawn_hook, React, MarkBegins,
       mark_task_reacted, SweepEnds, Crash
<1>r. reactor' \in Sweeps
  <2>0. reactor \in Sweeps
    BY DEF TypeOK
  <2>1. \A S \in SUBSET Tasks, pc \in {"hook", "mark"} :
           /\ [reactor EXCEPT !.left = S] \in Sweeps
           /\ [reactor EXCEPT !.pending = S] \in Sweeps
           /\ [reactor EXCEPT !.pc = pc] \in Sweeps
           /\ [reactor EXCEPT !.pc = pc, !.left = S] \in Sweeps
    BY ONLY <2>0, Zenon
  <2>2. reactor.left \subseteq Tasks /\ reactor.pending \subseteq Tasks /\ Idle \in Sweeps
    BY <2>0 DEF Idle
  <2>3. ASSUME NEW t \in Tasks, auto_approve_if_allowed(t) \/ spawn_hook(t)
        PROVE  reactor' \in Sweeps
    <3>1. reactor.left \ {t} \in SUBSET Tasks
      BY <2>2
    <3>2. reactor' = [reactor EXCEPT !.left = reactor.left \ {t}]
      BY <2>0, <2>3, Zenon DEF auto_approve_if_allowed, spawn_hook
    <3>3. QED
      BY <2>1, <3>1, <3>2, Zenon
  <2>4. ASSUME NEW trusted \in BOOLEAN, React(trusted) PROVE reactor' \in Sweeps
    BY <2>4 DEF React, tasks_awaiting_reaction
  <2>5. ASSUME NEW t \in Tasks, mark_task_reacted(t) PROVE reactor' \in Sweeps
    <3>1. reactor.pending \ {t} \in SUBSET Tasks
      BY <2>2
    <3>2. reactor' = Idle \/ reactor' = [reactor EXCEPT !.pending = reactor.pending \ {t}]
      BY <2>0, <2>5, SMTT(30) DEF mark_task_reacted
    <3>3. QED
      BY <2>1, <2>2, <3>1, <3>2, Zenon
  <2>6. CASE MarkBegins \/ SweepEnds
    BY <2>1, <2>2, <2>6, ZenonT(30) DEF MarkBegins, SweepEnds
  <2>7. CASE reactor' \in {reactor, Idle}
    BY <2>0, <2>2, <2>7
  <2>8. QED
    BY <2>3, <2>4, <2>5, <2>6, <2>7, StepCases DEF vars, PeerAdd, PeerImportRemove, Introduced,
       PeerAutoApprove, ReceiveProposal, Expire, TaskDeny, TaskApprove, IssueClaims, IssuePutsOrder,
       StoreFails, Crash
<1>h. heads' \in [Tasks -> {"empty", "open", "locked"}]
  <2>1. ASSUME NEW t \in Tasks, NEW v \in {"open", "locked"}, heads' = [heads EXCEPT ![t] = v]
        PROVE  heads' \in [Tasks -> {"empty", "open", "locked"}]
    BY <2>1 DEF TypeOK
  <2>2. CASE UNCHANGED heads
    BY <2>2 DEF TypeOK
  <2>3. ASSUME NEW t \in Tasks, auto_approve_if_allowed(t)
        PROVE  heads' = [heads EXCEPT ![t] = "locked"] \/ UNCHANGED heads
    BY <2>3, ReactorConsiders
  <2>4. ASSUME NEW t \in Tasks, NEW g \in BOOLEAN, TaskApprove(t, g)
        PROVE  heads' = [heads EXCEPT ![t] = "locked"]
    BY <2>4, OperatorApproves
  <2>5. QED
    BY <2>1, <2>2, <2>3, <2>4, StepCases DEF vars, PeerAdd, PeerImportRemove, Introduced,
       PeerAutoApprove, ReceiveProposal, Expire, TaskDeny, decide, spawn_hook, React, MarkBegins,
       IssueClaims, IssuePutsOrder, mark_task_reacted, SweepEnds, StoreFails, Crash
<1>k. hooks' \in [Tasks -> 0..2]
  <2>1. ASSUME NEW t \in Tasks, spawn_hook(t) PROVE hooks' \in [Tasks -> 0..2]
    BY <2>1 DEF spawn_hook, TypeOK
  <2>2. CASE UNCHANGED hooks
    BY <2>2 DEF TypeOK
  <2>3. QED
    BY <2>1, <2>2, StepCases, Zenon DEF vars, historyVars, PeerAdd, PeerImportRemove, Introduced,
       PeerAutoApprove, ReceiveProposal, Expire, TaskDeny, TaskApprove, React, MarkBegins,
       IssueClaims, IssuePutsOrder, auto_approve_if_allowed, mark_task_reacted, SweepEnds,
       StoreFails, Crash
<1>s. Sets'
  <2> DEFINE Kept == UNCHANGED <<expired, policy, reacted, denied, auto>>
  <2>0. Sets
    BY DEF TypeOK
  <2>1. ASSUME NEW t \in Tasks, Expire(t) \/ TaskDeny(t) \/ auto_approve_if_allowed(t)
                                  \/ mark_task_reacted(t)
        PROVE  Sets'
    BY <2>0, <2>1, Zenon DEF Expire, TaskDeny, auto_approve_if_allowed, mark_task_reacted, historyVars
  <2>2. ASSUME NEW r \in Roots, PeerImportRemove(r) \/ PeerAutoApprove(r)
        PROVE  Sets'
    BY <2>0, <2>2 DEF PeerImportRemove, PeerAutoApprove, historyVars
  <2>3. CASE Kept
    BY <2>0, <2>3
  <2>4. \/ Kept
        \/ \E r \in Roots : PeerImportRemove(r) \/ PeerAutoApprove(r)
        \/ \E t \in Tasks : Expire(t) \/ TaskDeny(t) \/ auto_approve_if_allowed(t)
                              \/ mark_task_reacted(t)
    BY StepCases DEF vars, historyVars, PeerAdd, Introduced, ReceiveProposal, spawn_hook,
       TaskApprove, React, MarkBegins, IssueClaims, IssuePutsOrder, SweepEnds, StoreFails, Crash
  <2>5. QED
    BY <2>1, <2>2, <2>3, <2>4
<1>n. interrupted' \subseteq Tasks
  <2>1. Holder \subseteq Tasks
    BY LockCases DEF Holder, Issuing
  <2>2. QED
    BY <2>1, StepCases, Zenon DEF TypeOK, vars, historyVars, PeerAdd, PeerImportRemove, Introduced,
       PeerAutoApprove, ReceiveProposal, Expire, TaskDeny, spawn_hook, TaskApprove, React,
       MarkBegins, IssueClaims, IssuePutsOrder, auto_approve_if_allowed, mark_task_reacted,
       SweepEnds, StoreFails, Crash
<1>q. QED
  BY <1>i, <1>a, <1>l, <1>r, <1>h, <1>k, <1>s, <1>n DEF TypeOK

-----------------------------------------------------------------------------
(* The reactor is in a locked phase exactly while it holds the lock. *)
LEMMA PhaseStep ==
    ASSUME TypeOK, PhaseInv, [Next]_vars
    PROVE  PhaseInv'
<1> USE DEF Operator, Reactor
<1>0. /\ lock = Free => lock.op = "free"
      /\ reactor \in [pc : {"idle", "sweep", "hook", "mark"}, left : SUBSET Tasks,
                      pending : SUBSET Tasks]
  BY LockCases DEF TypeOK, Free
<1>f. ASSUME lock.op = "free", lock'.op = "free", reactor'.pc = reactor.pc PROVE PhaseInv'
  BY <1>f DEF PhaseInv, Sweeping, Issuing
<1>1. ASSUME NEW t \in Tasks, NEW g \in BOOLEAN, TaskApprove(t, g) PROVE PhaseInv'
  <2>1. lock.op = "free" /\ reactor' = reactor
    BY <1>0, <1>1, OperatorApproves
  <2>2. CASE lock' = [op |-> "claim", task |-> t, by |-> Operator]
    BY <2>1, <2>2 DEF PhaseInv, Sweeping, Issuing
  <2>3. CASE lock' = Free
    BY <1>f, <2>1, <2>3 DEF Free
  <2>4. QED
    BY <1>1, <2>2, <2>3, OperatorApproves
<1>2. ASSUME NEW t \in Tasks, auto_approve_if_allowed(t) PROVE PhaseInv'
  <2>1. /\ lock.op = "sweep" /\ reactor'.pc = reactor.pc
        /\ \/ lock' = [op |-> "claim", task |-> t, by |-> Reactor]
           \/ lock' = [op |-> "sweep"]
           \/ lock' = lock
    BY <1>0, <1>2, ReactorConsiders
  <2>2. QED
    BY <2>1 DEF PhaseInv, Sweeping, Issuing
<1>3. CASE IssueClaims
  <2>1. lock \in Issue
    BY <1>3, LockCases DEF IssueClaims, Issuing
  <2>2. lock.op = "claim" /\ lock'.op = "put_order" /\ lock'.by = lock.by /\ reactor' = reactor
    BY <1>3, <2>1 DEF IssueClaims, Issue
  <2>3. QED
    BY <2>2 DEF PhaseInv, Sweeping, Issuing
<1>4. ASSUME Issuing, lock' = Resume(lock.by), reactor' = reactor PROVE PhaseInv'
  <2>1. lock.by \in {Operator, Reactor}
    BY <1>4, LockCases
  <2>2. QED
    BY <1>4, <2>1 DEF Resume, Free, PhaseInv, Sweeping, Issuing
<1>5. ASSUME NEW trusted \in BOOLEAN, React(trusted) PROVE PhaseInv'
  BY <1>5 DEF React, PhaseInv, Sweeping, Issuing
<1>6. CASE SweepEnds
  BY <1>0, <1>6 DEF SweepEnds, Free, PhaseInv, Sweeping, Issuing
<1>7. CASE MarkBegins
  BY <1>0, <1>7 DEF MarkBegins, PhaseInv, Sweeping, Issuing
<1>8. ASSUME NEW t \in Tasks, mark_task_reacted(t) PROVE PhaseInv'
  BY <1>0, <1>8 DEF mark_task_reacted, Free, Idle, PhaseInv, Sweeping, Issuing
<1>9. CASE lock' = Free /\ reactor' = Idle
  BY <1>9 DEF Free, Idle, PhaseInv, Sweeping, Issuing
<1>10. ASSUME NEW t \in Tasks, spawn_hook(t) PROVE PhaseInv'
  BY <1>0, <1>10 DEF spawn_hook, PhaseInv, Sweeping, Issuing
<1>11. CASE UNCHANGED <<lock, reactor>>
  BY <1>11 DEF PhaseInv, Sweeping, Issuing
<1>12. CASE StoreFails
  BY <1>4, <1>9, <1>12 DEF StoreFails, Issuing
<1>13. CASE IssuePutsOrder
  BY <1>4, <1>13 DEF IssuePutsOrder, Issuing
<1>14. QED
  BY <1>1, <1>2, <1>3, <1>5, <1>6, <1>7, <1>8, <1>9, <1>10, <1>11, <1>12, <1>13, StepCases
     DEF vars, PeerAdd, PeerImportRemove, Introduced, PeerAutoApprove, ReceiveProposal, Expire,
     TaskDeny, Crash

(* Handled tasks are only ever added by a denial, which needs the lock free,  *)
(* and by the last section of a sweep: none while the first one runs.         *)
LEMMA SweepStep ==
    ASSUME TypeOK, PhaseInv, SweepInv, [Next]_vars
    PROVE  SweepInv'
<1>0. /\ lock = Free => lock.op = "free"
      /\ reactor \in [pc : {"idle", "sweep", "hook", "mark"}, left : SUBSET Tasks,
                      pending : SUBSET Tasks]
  BY LockCases DEF TypeOK, Free
<1>1. ASSUME NEW t \in Tasks, TaskDeny(t) PROVE SweepInv'
  BY <1>0, <1>1 DEF TaskDeny, PhaseInv, Sweeping, Issuing, SweepInv
<1>2. ASSUME NEW t \in Tasks, mark_task_reacted(t) PROVE SweepInv'
  <2>1. reactor.pc # "sweep"
    BY <1>2 DEF mark_task_reacted, PhaseInv, Sweeping, Issuing
  <2>2. reactor'.pc # "sweep"
    BY <1>0, <1>2, <2>1 DEF mark_task_reacted, Idle
  <2>3. QED
    BY <2>2 DEF SweepInv
<1>3. ASSUME NEW trusted \in BOOLEAN, React(trusted) PROVE SweepInv'
  BY <1>3 DEF React, tasks_awaiting_reaction, SweepInv
<1>4. ASSUME NEW t \in Tasks, auto_approve_if_allowed(t) \/ spawn_hook(t) PROVE SweepInv'
  BY <1>0, <1>4, Zenon DEF auto_approve_if_allowed, spawn_hook, SweepInv
<1>5. CASE reactor' = Idle
  BY <1>5 DEF Idle, SweepInv
<1>6. CASE MarkBegins \/ SweepEnds
  BY <1>0, <1>6, Zenon DEF MarkBegins, SweepEnds, SweepInv
<1>7. CASE UNCHANGED <<reactor, reacted>>
  BY <1>7 DEF SweepInv
<1>8. QED
  BY <1>1, <1>2, <1>3, <1>4, <1>5, <1>6, <1>7, StepCases DEF vars, PeerAdd, PeerImportRemove,
     Introduced, PeerAutoApprove, ReceiveProposal, Expire, TaskApprove, IssueClaims,
     IssuePutsOrder, StoreFails, Crash

(* Hooks fire for every task of a sweep before any of them is marked, and a   *)
(* task is marked handled by the sweep that fired its hook, or by a denial.   *)
LEMMA HookStep ==
    ASSUME TypeOK, PhaseInv, HookInv, ReactedWasAnnounced, [Next]_vars
    PROVE  HookInv' /\ ReactedWasAnnounced'
<1>0. /\ reactor \in [pc : {"idle", "sweep", "hook", "mark"}, left : SUBSET Tasks,
                      pending : SUBSET Tasks]
      /\ reacted \subseteq Tasks
      /\ hooks \in [Tasks -> 0..2]
  BY DEF TypeOK
<1>1. ASSUME NEW t \in Tasks, spawn_hook(t) PROVE HookInv' /\ ReactedWasAnnounced'
  <2>1. /\ reactor.pc = "hook" /\ reactor'.pc = "hook"
        /\ reactor'.pending = reactor.pending /\ reactor'.left = reactor.left \ {t}
        /\ UNCHANGED <<reacted, denied>>
    BY <1>0, <1>1 DEF spawn_hook
  <2>2. /\ hooks'[t] > 0
        /\ \A u \in Tasks : u # t => hooks'[u] = hooks[u]
    BY <1>0, <1>1 DEF spawn_hook
  <2>3. HookInv'
    BY <1>0, <2>1, <2>2 DEF HookInv
  <2>4. ReactedWasAnnounced'
    BY <1>0, <2>1, <2>2 DEF ReactedWasAnnounced
  <2>5. QED
    BY <2>3, <2>4
<1>2. ASSUME NEW t \in Tasks, mark_task_reacted(t) PROVE HookInv' /\ ReactedWasAnnounced'
  <2>1. reactor.pc = "mark" /\ t \in reactor.pending
    BY <1>2 DEF mark_task_reacted, PhaseInv
  <2>2. /\ reacted' = reacted \cup {t} /\ UNCHANGED <<hooks, denied>>
        /\ \/ reactor' = Idle
           \/ reactor' = [reactor EXCEPT !.pending = @ \ {t}]
    BY <1>2 DEF mark_task_reacted, historyVars
  <2>3. hooks[t] > 0
    BY <2>1 DEF HookInv
  <2>4. HookInv'
    BY <1>0, <2>1, <2>2 DEF HookInv, Idle
  <2>5. ReactedWasAnnounced'
    BY <2>2, <2>3 DEF ReactedWasAnnounced
  <2>6. QED
    BY <2>4, <2>5
<1>3. CASE MarkBegins
  <2>1. /\ reactor.pc = "hook" /\ reactor.left = {} /\ reactor'.pc = "mark"
        /\ reactor'.pending = reactor.pending
        /\ UNCHANGED <<reacted, denied, hooks>>
    BY <1>0, <1>3 DEF MarkBegins, historyVars
  <2>2. QED
    BY <2>1 DEF HookInv, ReactedWasAnnounced
<1>4. CASE SweepEnds
  <2>1. /\ reactor'.pc = "hook" /\ reactor'.left = reactor'.pending
        /\ UNCHANGED <<reacted, denied, hooks>>
    BY <1>0, <1>4 DEF SweepEnds, historyVars
  <2>2. QED
    BY <2>1 DEF HookInv, ReactedWasAnnounced
<1>5. ASSUME NEW t \in Tasks, TaskDeny(t) PROVE HookInv' /\ ReactedWasAnnounced'
  BY <1>5 DEF TaskDeny, HookInv, ReactedWasAnnounced
<1>6. ASSUME reactor'.pc \notin {"hook", "mark"}, UNCHANGED <<reacted, denied, hooks>>
      PROVE  HookInv' /\ ReactedWasAnnounced'
  BY <1>6 DEF HookInv, ReactedWasAnnounced
<1>7. ASSUME NEW trusted \in BOOLEAN, React(trusted) PROVE HookInv' /\ ReactedWasAnnounced'
  BY <1>6, <1>7 DEF React, historyVars
<1>8. ASSUME NEW t \in Tasks, auto_approve_if_allowed(t) PROVE HookInv' /\ ReactedWasAnnounced'
  <2>1. reactor'.pc = "sweep"
    BY <1>0, <1>8 DEF auto_approve_if_allowed, PhaseInv, Sweeping
  <2>2. QED
    BY <1>6, <1>8, <2>1 DEF auto_approve_if_allowed
<1>9. CASE reactor' \in {reactor, Idle} /\ UNCHANGED <<reacted, denied, hooks>>
  BY <1>9 DEF Idle, HookInv, ReactedWasAnnounced
<1>10. QED
  BY <1>1, <1>2, <1>3, <1>4, <1>5, <1>7, <1>8, <1>9, StepCases DEF vars, historyVars, PeerAdd,
     PeerImportRemove, Introduced, PeerAutoApprove, ReceiveProposal, Expire, TaskApprove,
     IssueClaims, IssuePutsOrder, StoreFails, Crash

(* A decided head stays decided: no proposal, approval or sweep moves a       *)
(* locked head (submit_revision, accept_contract).                            *)
LEMMA HeadsMove ==
    ASSUME TypeOK, [Next]_vars
    PROVE  \A t \in Tasks : heads[t] = "locked" => heads'[t] = "locked"
<1>1. ASSUME NEW u \in Tasks, NEW v, heads[u] # "locked", heads' = [heads EXCEPT ![u] = v]
      PROVE  \A t \in Tasks : heads[t] = "locked" => heads'[t] = "locked"
  BY <1>1 DEF TypeOK
<1>2. ASSUME NEW u \in Tasks, ReceiveProposal(u)
      PROVE  heads[u] # "locked" /\ heads' = [heads EXCEPT ![u] = "open"]
  BY <1>2 DEF ReceiveProposal
<1>3. ASSUME NEW u \in Tasks, NEW g \in BOOLEAN, TaskApprove(u, g)
      PROVE  heads[u] # "locked" /\ heads' = [heads EXCEPT ![u] = "locked"]
  BY <1>3, OperatorApproves
<1>4. ASSUME NEW u \in Tasks, auto_approve_if_allowed(u)
      PROVE  \/ heads[u] # "locked" /\ heads' = [heads EXCEPT ![u] = "locked"]
             \/ UNCHANGED heads
  BY <1>4, ReactorConsiders
<1>5. CASE UNCHANGED heads
  BY <1>5
<1>6. QED
  BY <1>1, <1>2, <1>3, <1>4, <1>5, StepCases DEF vars, PeerAdd, PeerImportRemove, Introduced,
     PeerAutoApprove, Expire, TaskDeny, decide, spawn_hook, React, MarkBegins, IssueClaims,
     IssuePutsOrder, mark_task_reacted, SweepEnds, StoreFails, Crash

(* Attempts and work orders only move forward: a claim fills an empty row,    *)
(* the restart resolves one in flight, and orders are kept.                   *)
LEMMA AttemptsMove ==
    ASSUME TypeOK, [Next]_vars
    PROVE  /\ orders \subseteq orders'
           /\ \A t \in Tasks :
                 /\ attempts[t] # "none" => attempts'[t] # "none"
                 /\ attempts[t] = "ambiguous" => attempts'[t] = "ambiguous"
                 /\ attempts'[t] # attempts[t] =>
                       \/ lock.op = "claim" /\ lock.task = t /\ attempts[t] = "none"
                       \/ attempts[t] # "none" /\ attempts'[t] = "ambiguous"
                 /\ (t \in orders' /\ t \notin orders) => lock.op = "put_order" /\ lock.task = t
<1>0. attempts \in [Tasks -> AttemptState]
  BY DEF TypeOK, AttemptsTypeOK
<1>1. CASE IssueClaims
  BY <1>0, <1>1 DEF IssueClaims, claim_attempt
<1>2. CASE IssuePutsOrder
  BY <1>2 DEF IssuePutsOrder, put_work_order
<1>3. CASE Crash
  BY <1>0, <1>3 DEF Crash, resolve_crashed_attempts
<1>4. CASE UNCHANGED attemptVars
  BY <1>4 DEF attemptVars
<1>5. QED
  BY <1>1, <1>2, <1>3, <1>4, StepCases, Zenon DEF vars, PeerAdd, PeerImportRemove, Introduced,
     PeerAutoApprove, ReceiveProposal, Expire, TaskDeny, spawn_hook, TaskApprove, React, MarkBegins,
     auto_approve_if_allowed, mark_task_reacted, SweepEnds, StoreFails

(* Authority follows the decision: what is issued, and to whom, stays behind  *)
(* a locked head, through every crash and failing store call.                 *)
LEMMA OrderStep ==
    ASSUME TypeOK, DecisionInv, OrderHasDecision, [Next]_vars
    PROVE  OrderHasDecision'
<1> SUFFICES ASSUME NEW t \in Tasks
             PROVE  /\ t \in orders' => attempts'[t] # "none"
                    /\ attempts'[t] # "none" => heads'[t] = "locked"
  BY DEF OrderHasDecision
<1>1. ASSUME t \in orders' PROVE attempts'[t] # "none"
  <2>1. attempts[t] # "none"
    BY <1>1, AttemptsMove DEF OrderHasDecision, DecisionInv
  <2>2. QED
    BY <2>1, AttemptsMove
<1>2. ASSUME attempts'[t] # "none" PROVE heads'[t] = "locked"
  <2>1. heads[t] = "locked"
    BY <1>2, AttemptsMove DEF OrderHasDecision, DecisionInv, Issuing
  <2>2. QED
    BY <2>1, HeadsMove
<1>3. QED
  BY <1>1, <1>2

(* The steps after which a handler issues: an approval, or one of its commits. *)
LEMMA IssueStep ==
    ASSUME TypeOK, DecisionInv, [Next]_vars
    PROVE  /\ Issuing' => heads'[lock'.task] = "locked"
           /\ lock'.op = "put_order" => attempts'[lock'.task] # "none"
<1> DEFINE Goal == /\ Issuing' => heads'[lock'.task] = "locked"
                   /\ lock'.op = "put_order" => attempts'[lock'.task] # "none"
<1>1. ASSUME NEW t \in Tasks, heads'[t] = "locked", NEW by,
             lock' = [op |-> "claim", task |-> t, by |-> by]
      PROVE  Goal
  BY <1>1 DEF Issuing
<1>2. ASSUME lock'.op \notin {"claim", "put_order"} PROVE Goal
  BY <1>2 DEF Issuing
<1>3. ASSUME NEW t \in Tasks, NEW g \in BOOLEAN, TaskApprove(t, g) PROVE Goal
  <2>1. heads'[t] = "locked"
    BY <1>3, OperatorApproves DEF TypeOK
  <2>2. CASE lock' = Free
    BY <1>2, <2>2 DEF Free
  <2>3. QED
    BY <1>1, <1>3, <2>1, <2>2, OperatorApproves
<1>4. ASSUME NEW t \in Tasks, auto_approve_if_allowed(t) PROVE Goal
  <2>0. lock.op = "sweep"
    BY <1>4, ReactorConsiders
  <2>1. CASE /\ heads' = [heads EXCEPT ![t] = "locked"]
             /\ lock' = [op |-> "claim", task |-> t, by |-> Reactor]
    BY <1>1, <2>1 DEF TypeOK
  <2>2. CASE lock' = [op |-> "sweep"] \/ lock' = lock
    BY <1>2, <2>0, <2>2
  <2>3. QED
    BY <1>4, <2>1, <2>2, ReactorConsiders
<1>5. CASE IssueClaims
  <2>1. lock \in Issue /\ lock.task \in Tasks /\ heads[lock.task] = "locked"
    BY <1>5, LockCases DEF IssueClaims, Issuing, DecisionInv
  <2>2. lock'.task = lock.task /\ heads' = heads
    BY <1>5, <2>1 DEF IssueClaims, Issue
  <2>3. attempts'[lock.task] # "none"
    BY <1>5, <2>1 DEF IssueClaims, claim_attempt, TypeOK, AttemptsTypeOK
  <2>4. QED
    BY <2>1, <2>2, <2>3
<1>6. ASSUME Issuing, lock' = Resume(lock.by) PROVE Goal
  BY <1>2, <1>6 DEF Resume, Free
<1>7. CASE UNCHANGED lock
  <2>1. Issuing => lock.task \in Tasks
    BY LockCases
  <2>2. QED
    BY <1>7, <2>1, HeadsMove, AttemptsMove DEF DecisionInv, Issuing
<1>8. CASE lock' \in {Free, [op |-> "sweep"], [op |-> "mark"]}
  BY <1>2, <1>8 DEF Free
<1>9. CASE IssuePutsOrder \/ StoreFails
  BY <1>6, <1>8, <1>9 DEF IssuePutsOrder, StoreFails, Issuing
<1>10. QED
  BY <1>3, <1>4, <1>5, <1>7, <1>8, <1>9, StepCases DEF vars, PeerAdd, PeerImportRemove, Introduced,
     PeerAutoApprove, ReceiveProposal, Expire, TaskDeny, spawn_hook, React, MarkBegins,
     mark_task_reacted, SweepEnds, Crash

(* A denial and an acceptance by the reactor exclude one another: the sweep   *)
(* considers no handled task, and a denial needs an open head.                *)
LEMMA DeniedStep ==
    ASSUME TypeOK, PhaseInv, SweepInv, DecisionInv, DeniedIsNotAutoApproved, [Next]_vars
    PROVE  /\ denied' \subseteq reacted'
           /\ \A t \in auto' : heads'[t] = "locked"
           /\ DeniedIsNotAutoApproved'
<1> DEFINE Goal == /\ denied' \subseteq reacted'
                   /\ \A t \in auto' : heads'[t] = "locked"
                   /\ denied' \cap auto' = {}
<1>0. /\ denied \subseteq reacted
      /\ auto \subseteq Tasks
      /\ \A t \in auto : heads[t] = "locked" /\ heads'[t] = "locked"
      /\ denied \cap auto = {}
  BY HeadsMove DEF TypeOK, DecisionInv, DeniedIsNotAutoApproved
<1>1. ASSUME NEW t \in Tasks, TaskDeny(t) PROVE Goal
  <2>1. heads[t] = "open" /\ reacted' = reacted \cup {t} /\ denied' = denied \cup {t} /\ auto' = auto
    BY <1>1 DEF TaskDeny, decide
  <2>2. t \notin auto
    BY <1>0, <2>1
  <2>3. QED
    BY <1>0, <2>1, <2>2
<1>2. ASSUME NEW t \in Tasks, auto_approve_if_allowed(t) PROVE Goal
  <2>1. /\ UNCHANGED <<denied, reacted>>
        /\ \/ heads' = [heads EXCEPT ![t] = "locked"] /\ auto' = auto \cup {t}
           \/ auto' = auto
    BY <1>2, ReactorConsiders
  <2>2. t \notin denied
    <3>1. reactor.pc = "sweep" /\ t \in reactor.left
      BY <1>2, ReactorConsiders DEF PhaseInv, Sweeping
    <3>2. QED
      BY <1>0, <3>1 DEF SweepInv
  <2>3. CASE heads' = [heads EXCEPT ![t] = "locked"] /\ auto' = auto \cup {t}
    <3>1. heads'[t] = "locked"
      BY <2>3 DEF TypeOK
    <3>2. QED
      BY <1>0, <2>1, <2>2, <2>3, <3>1
  <2>4. CASE auto' = auto
    BY <1>0, <2>1, <2>4
  <2>5. QED
    BY <2>1, <2>3, <2>4
<1>3. ASSUME denied' = denied, auto' = auto, reacted \subseteq reacted' PROVE Goal
  BY <1>0, <1>3
<1>4. ASSUME NEW t \in Tasks, mark_task_reacted(t) PROVE Goal
  BY <1>3, <1>4 DEF mark_task_reacted, historyVars
<1>5. Goal
  BY <1>1, <1>2, <1>3, <1>4, StepCases DEF vars, historyVars, PeerAdd, PeerImportRemove, Introduced,
     PeerAutoApprove, ReceiveProposal, Expire, spawn_hook, TaskApprove, React, MarkBegins,
     IssueClaims, IssuePutsOrder, SweepEnds, StoreFails, Crash
<1>6. QED
  BY <1>5 DEF DeniedIsNotAutoApproved

(* A policy is set for a pinned peer only and goes with its relationship      *)
(* (PeerAutoApprove, remove_relationship); nothing else unpins a peer.        *)
LEMMA PolicyStep ==
    ASSUME TypeOK, PolicyHasPeer, [Next]_vars
    PROVE  PolicyHasPeer'
<1> USE DEF PolicyHasPeer
<1>0. /\ imports \in [Roots -> ImportRow]
      /\ peers \in [Roots -> PeerStatus]
      /\ policy \subseteq Roots
  BY DEF TypeOK, ImportsTypeOK
<1>1. ASSUME NEW r \in Roots, NEW l \in Labels, PeerAdd(r, l) PROVE PolicyHasPeer'
  BY <1>0, <1>1 DEF PeerAdd, add_peer_import
<1>2. ASSUME NEW r \in Roots, PeerImportRemove(r) PROVE PolicyHasPeer'
  BY <1>0, <1>2 DEF PeerImportRemove, remove_relationship
<1>3. ASSUME NEW r \in Roots, PeerAutoApprove(r) PROVE PolicyHasPeer'
  BY <1>0, <1>3 DEF PeerAutoApprove, importVars
<1>4. ASSUME NEW r \in Roots, NEW changed \in BOOLEAN, Introduced(r, changed) PROVE PolicyHasPeer'
  BY <1>0, <1>4 DEF Introduced, commit_introduced_peer
<1>5. CASE UNCHANGED <<importVars, policy>>
  BY <1>5 DEF importVars
<1>6. QED
  BY <1>1, <1>2, <1>3, <1>4, <1>5, StepCases, Zenon DEF vars, ReceiveProposal, Expire, TaskDeny,
     spawn_hook, TaskApprove, React, MarkBegins, IssueClaims, IssuePutsOrder,
     auto_approve_if_allowed, mark_task_reacted, SweepEnds, StoreFails, Crash

-----------------------------------------------------------------------------
(* The inductive invariant holds initially. *)
LEMMA IInvInit == Init => IInv
<1> SUFFICES ASSUME Init PROVE IInv
  OBVIOUS
<1>1. TypeOK
  BY TypeInit
<1>2. /\ lock.op = "free" /\ reactor.pc = "idle"
      /\ denied = {} /\ auto = {} /\ policy = {} /\ reacted = {} /\ orders = {}
      /\ \A t \in Tasks : attempts[t] = "none"
  BY DEF Init, Free, Idle, AttemptsInit
<1>3. PhaseInv /\ SweepInv /\ HookInv /\ DecisionInv
  BY <1>2 DEF PhaseInv, Sweeping, Issuing, SweepInv, HookInv, DecisionInv
<1>4. DeniedIsNotAutoApproved /\ PolicyHasPeer /\ OrderHasDecision /\ ReactedWasAnnounced
  BY <1>2 DEF DeniedIsNotAutoApproved, PolicyHasPeer, OrderHasDecision, ReactedWasAnnounced
<1>5. QED
  BY <1>1, <1>3, <1>4 DEF IInv

(* Every step keeps it. *)
LEMMA IInvStep == IInv /\ [Next]_vars => IInv'
<1> SUFFICES ASSUME IInv, [Next]_vars PROVE IInv'
  OBVIOUS
<1>0. /\ TypeOK /\ PhaseInv /\ SweepInv /\ HookInv /\ DecisionInv
      /\ DeniedIsNotAutoApproved /\ PolicyHasPeer /\ OrderHasDecision /\ ReactedWasAnnounced
  BY DEF IInv
<1>1. TypeOK'
  BY <1>0, TypeStep
<1>2. PhaseInv' /\ SweepInv'
  BY <1>0, PhaseStep, SweepStep
<1>3. HookInv' /\ ReactedWasAnnounced'
  BY <1>0, HookStep
<1>4. DecisionInv' /\ DeniedIsNotAutoApproved'
  <2>1. /\ Issuing' => heads'[lock'.task] = "locked"
        /\ lock'.op = "put_order" => attempts'[lock'.task] # "none"
    BY <1>0, IssueStep
  <2>2. /\ denied' \subseteq reacted'
        /\ \A t \in auto' : heads'[t] = "locked"
        /\ DeniedIsNotAutoApproved'
    BY <1>0, DeniedStep
  <2>3. QED
    BY <2>1, <2>2 DEF DecisionInv
<1>5. OrderHasDecision' /\ PolicyHasPeer'
  BY <1>0, OrderStep, PolicyStep
<1>6. QED
  BY <1>1, <1>2, <1>3, <1>4, <1>5 DEF IInv

(* The inductive invariant holds in every reachable state. *)
THEOREM Invariance == Spec => []IInv
  BY IInvInit, IInvStep, PTL DEF Spec

(* Type correctness of the approval machinery. *)
THEOREM TypeCorrect == Spec => []TypeOK
<1>1. IInv => TypeOK
  BY DEF IInv
<1>2. QED
  BY <1>1, Invariance, PTL

(* deny and auto_approve_if_allowed: no task the operator denied is ever      *)
(* accepted by the reactor, whatever the sweep was doing.                     *)
THEOREM DeniedNotApproved == Spec => []DeniedIsNotAutoApproved
<1>1. IInv => DeniedIsNotAutoApproved
  BY DEF IInv
<1>2. QED
  BY <1>1, Invariance, PTL

(* remove_relationship: standing authority never outlives its relationship. *)
THEOREM PolicyIsBacked == Spec => []PolicyHasPeer
<1>1. IInv => PolicyHasPeer
  BY DEF IInv
<1>2. QED
  BY <1>1, Invariance, PTL

(* approve_and_issue, issue_for_accepted: an order has a claimed attempt and  *)
(* an attempt a locked head, after every crash and failing store call.        *)
THEOREM OrderIsDecided == Spec => []OrderHasDecision
<1>1. IInv => OrderHasDecision
  BY DEF IInv
<1>2. QED
  BY <1>1, Invariance, PTL

(* react_once: a handled task was announced, or denied. *)
THEOREM ReactedAnnounced == Spec => []ReactedWasAnnounced
<1>1. IInv => ReactedWasAnnounced
  BY DEF IInv
<1>2. QED
  BY <1>1, Invariance, PTL

(* accept_contract, claim_attempt, resolve_crashed_attempts: heads, orders    *)
(* and resolved attempts are final, and only the approval that locked the     *)
(* head claims its attempt.                                                   *)
THEOREM DecisionStays == Spec => DecisionIsFinal
<1>1. ASSUME IInv, [Next]_vars
      PROVE  \A t \in Tasks :
               /\ heads[t] = "locked" => heads'[t] = "locked"
               /\ t \in orders => t \in orders'
               /\ attempts'[t] = "claimed" /\ attempts[t] # "claimed" =>
                    attempts[t] = "none" /\ Holder = {t}
               /\ attempts[t] = "ambiguous" => attempts'[t] = "ambiguous"
  <2>0. TypeOK
    BY <1>1 DEF IInv
  <2>1. \A t \in Tasks : heads[t] = "locked" => heads'[t] = "locked"
    BY <1>1, <2>0, HeadsMove
  <2>2. QED
    BY <1>1, <2>0, <2>1, AttemptsMove DEF Holder
<1>2. QED
  BY <1>1, Invariance, PTL DEF Spec, DecisionIsFinal

-----------------------------------------------------------------------------
(* Approval implements TaskLife. *)

(* A handler that is about to claim finds no attempt, and one that is about   *)
(* to put the order the attempt it claimed.                                   *)
ClaimInv ==
    /\ lock.op = "claim" => attempts[lock.task] = "none"
    /\ lock.op = "put_order" => attempts[lock.task] = "claimed"

(* Every step keeps it: the head that was open has no attempt, and no attempt *)
(* moves while a handler is in the lock.                                      *)
LEMMA ClaimStep ==
    ASSUME TypeOK, OrderHasDecision, ClaimInv, [Next]_vars
    PROVE  ClaimInv'
<1>0. attempts \in [Tasks -> AttemptState]
  BY DEF TypeOK, AttemptsTypeOK
<1>1. ASSUME NEW t \in Tasks, heads[t] = "open", attempts' = attempts, NEW by,
             lock' = [op |-> "claim", task |-> t, by |-> by]
      PROVE  ClaimInv'
  <2>1. lock'.op = "claim" /\ lock'.task = t
    BY <1>1
  <2>2. attempts[t] = "none"
    BY <1>1 DEF OrderHasDecision
  <2>3. QED
    BY <1>1, <2>1, <2>2 DEF ClaimInv
<1>2. ASSUME lock'.op \notin {"claim", "put_order"} PROVE ClaimInv'
  BY <1>2 DEF ClaimInv
<1>3. ASSUME lock' \in {Free, [op |-> "sweep"], [op |-> "mark"]} PROVE ClaimInv'
  BY <1>2, <1>3 DEF Free
<1>4. ASSUME lock' = lock, attempts' = attempts PROVE ClaimInv'
  BY <1>4 DEF ClaimInv
<1>5. ASSUME NEW t \in Tasks, NEW g \in BOOLEAN, TaskApprove(t, g) PROVE ClaimInv'
  <2>1. heads[t] = "open" /\ attempts' = attempts
        /\ (lock' = [op |-> "claim", task |-> t, by |-> Operator] \/ lock' = Free)
    BY <1>5, OperatorApproves DEF attemptVars
  <2>2. QED
    BY <1>1, <1>3, <2>1
<1>6. ASSUME NEW t \in Tasks, auto_approve_if_allowed(t) PROVE ClaimInv'
  <2>1. attempts' = attempts
        /\ \/ /\ heads[t] = "open"
              /\ lock' = [op |-> "claim", task |-> t, by |-> Reactor] \/ lock' = [op |-> "sweep"]
           \/ lock' = lock
    BY <1>6, ReactorConsiders DEF attemptVars
  <2>2. QED
    BY <1>1, <1>3, <1>4, <2>1
<1>7. CASE IssueClaims
  <2>1. lock \in Issue /\ lock.task \in Tasks /\ lock.op = "claim"
    BY <1>7, LockCases DEF IssueClaims, Issuing
  <2>2. lock'.op = "put_order" /\ lock'.task = lock.task
    BY <1>7, <2>1 DEF IssueClaims, Issue
  <2>3. attempts[lock.task] = "none"
    BY <2>1 DEF ClaimInv
  <2>4. attempts'[lock.task] = "claimed"
    BY <1>0, <1>7, <2>1, <2>3 DEF IssueClaims, claim_attempt
  <2>5. QED
    BY <2>2, <2>4 DEF ClaimInv
<1>8. CASE IssuePutsOrder \/ StoreFails
  <2>1. lock' = Free \/ lock' = Resume(lock.by)
    BY <1>8 DEF IssuePutsOrder, StoreFails
  <2>2. QED
    BY <1>3, <2>1 DEF Resume
<1>9. QED
  BY <1>3, <1>4, <1>5, <1>6, <1>7, <1>8, StepCases DEF vars, attemptVars, PeerAdd,
     PeerImportRemove, Introduced, PeerAutoApprove, ReceiveProposal, Expire, TaskDeny, spawn_hook,
     React, MarkBegins, mark_task_reacted, SweepEnds, Crash

(* One task moves to a stage of its life, and the others keep theirs. *)
LEMMA LifeMove ==
    ASSUME NEW t \in Tasks, NEW from, NEW to, lifeOf(t) \in from, lifeOf(t)' = to,
           \A u \in Tasks : u # t => lifeOf(u)' = lifeOf(u)
    PROVE  Life!Move(t, from, to)
  BY Zenon DEF Life!Move

(* A proposal, an acceptance and a claim advance one task. *)
LEMMA Advances ==
    ASSUME NEW t \in Tasks, NEW from, NEW to,
           <<from, to>> \in {<<"none", "proposed">>, <<"proposed", "accepted">>,
                             <<"accepted", "claimed">>},
           lifeOf(t) = from, lifeOf(t)' = to,
           \A u \in Tasks : u # t => lifeOf(u)' = lifeOf(u),
           orders' = orders
    PROVE  Life!Next
<1>1. Life!Move(t, {from}, to)
  BY LifeMove
<1>2. Life!Advance(t)
  BY <1>1 DEF Life!Advance
<1>3. QED
  BY <1>2 DEF Life!Next

(* No task is known at the start. *)
LEMMA LifeInit == Init => Life!Init
<1> SUFFICES ASSUME Init PROVE Life!Init
  OBVIOUS
<1>1. \A t \in Tasks : lifeOf(t) = "none"
  BY DEF Init, AttemptsInit, lifeOf
<1>2. orders = {}
  BY DEF Init, AttemptsInit
<1>3. QED
  BY <1>1, <1>2 DEF Life!Init

(* Every step of Approval is a step of TaskLife or leaves it as it is. *)
LEMMA LifeStep ==
    ASSUME TypeOK, OrderHasDecision, DecisionInv, ClaimInv, [Next]_vars
    PROVE  [Life!Next]_Life!lvars
<1>0. attempts \in [Tasks -> AttemptState] /\ heads \in [Tasks -> {"empty", "open", "locked"}]
  BY DEF TypeOK, AttemptsTypeOK
<1>1. ASSUME UNCHANGED heads, UNCHANGED attemptVars PROVE UNCHANGED Life!lvars
  BY <1>1 DEF attemptVars, lifeOf, Life!lvars
<1>2. ASSUME NEW t \in Tasks, ReceiveProposal(t) PROVE Life!Next
  <2>1. /\ heads[t] = "empty" /\ heads'[t] = "open"
        /\ \A u \in Tasks : u # t => heads'[u] = heads[u]
        /\ attempts' = attempts /\ orders' = orders
    BY <1>0, <1>2 DEF ReceiveProposal, attemptVars
  <2>2. attempts[t] = "none"
    BY <2>1 DEF OrderHasDecision
  <2>3. lifeOf(t) = "none" /\ lifeOf(t)' = "proposed"
        /\ \A u \in Tasks : u # t => lifeOf(u)' = lifeOf(u)
    BY <2>1, <2>2 DEF lifeOf
  <2>4. QED
    BY <2>1, <2>3, Advances
<1>3. ASSUME NEW t \in Tasks, heads[t] = "open", heads' = [heads EXCEPT ![t] = "locked"],
             UNCHANGED attemptVars
      PROVE  Life!Next
  <2>1. /\ heads'[t] = "locked" /\ \A u \in Tasks : u # t => heads'[u] = heads[u]
        /\ attempts' = attempts /\ orders' = orders
    BY <1>0, <1>3 DEF attemptVars
  <2>2. attempts[t] = "none"
    BY <1>3 DEF OrderHasDecision
  <2>3. lifeOf(t) = "proposed" /\ lifeOf(t)' = "accepted"
        /\ \A u \in Tasks : u # t => lifeOf(u)' = lifeOf(u)
    BY <1>3, <2>1, <2>2 DEF lifeOf
  <2>4. QED
    BY <2>1, <2>3, Advances
<1>4. CASE IssueClaims
  <2>1. PICK t \in Tasks : t = lock.task /\ attempts[t] = "none" /\ heads[t] = "locked"
    BY <1>4, LockCases DEF IssueClaims, Issuing, ClaimInv, DecisionInv
  <2>2. /\ attempts'[t] = "claimed" /\ \A u \in Tasks : u # t => attempts'[u] = attempts[u]
        /\ heads' = heads /\ orders' = orders
    BY <1>0, <1>4, <2>1 DEF IssueClaims, claim_attempt
  <2>3. lifeOf(t) = "accepted" /\ lifeOf(t)' = "claimed"
        /\ \A u \in Tasks : u # t => lifeOf(u)' = lifeOf(u)
    BY <2>1, <2>2 DEF lifeOf
  <2>4. QED
    BY <2>2, <2>3, Advances
<1>5. CASE IssuePutsOrder
  <2>1. PICK t \in Tasks : t = lock.task /\ attempts[t] = "claimed"
    BY <1>5, LockCases DEF IssuePutsOrder, Issuing, ClaimInv
  <2>2. attempts' = attempts /\ heads' = heads /\ orders' = orders \cup {t}
    BY <1>5, <2>1 DEF IssuePutsOrder, put_work_order
  <2>3. lifeOf(t) = "claimed" /\ \A u \in Tasks : lifeOf(u)' = lifeOf(u)
    BY <2>1, <2>2 DEF lifeOf
  <2>4. Life!Order(t)
    BY <2>2, <2>3 DEF Life!Order
  <2>5. QED
    BY <2>4 DEF Life!Next
<1>6. CASE Crash
  <2>1. /\ \A u \in Tasks : attempts'[u] = IF attempts[u] \in {"claimed", "running"}
                                           THEN "ambiguous" ELSE attempts[u]
        /\ heads' = heads /\ orders' = orders
    BY <1>6 DEF Crash, resolve_crashed_attempts
  <2>2. \A u \in Tasks : lifeOf(u)' = IF lifeOf(u) \in {"claimed", "running"} THEN "ambiguous"
                                       ELSE lifeOf(u)
    BY <2>1 DEF lifeOf
  <2>3. Life!Restart
    BY <2>1, <2>2 DEF Life!Restart, Life!InFlight
  <2>4. QED
    BY <2>3 DEF Life!Next
<1>7. ASSUME NEW t \in Tasks, NEW g \in BOOLEAN, TaskApprove(t, g) PROVE Life!Next
  BY <1>3, <1>7, OperatorApproves
<1>8. ASSUME NEW t \in Tasks, auto_approve_if_allowed(t) PROVE [Life!Next]_Life!lvars
  BY <1>1, <1>3, <1>8, ReactorConsiders
<1>9. QED
  BY <1>1, <1>2, <1>4, <1>5, <1>6, <1>7, <1>8, StepCases DEF vars, PeerAdd,
     PeerImportRemove, Introduced, PeerAutoApprove, Expire, TaskDeny, decide, spawn_hook, React,
     MarkBegins, mark_task_reacted, SweepEnds, StoreFails

(* Approving keeps the promise of TaskLife: whatever the operator, the        *)
(* reactor, failing store calls and restarts do, a task is proposed, accepted *)
(* and claimed once and in this order, and its order is issued for the        *)
(* attempt that was claimed for it.                                           *)
THEOREM KeepsTaskLife == Spec => ImplementsTaskLife
<1>1. Init => ClaimInv
  BY DEF Init, ClaimInv, Free
<1>2. IInv /\ ClaimInv /\ [Next]_vars => ClaimInv'
  BY ClaimStep DEF IInv
<1>3. IInv /\ ClaimInv /\ [Next]_vars => [Life!Next]_Life!lvars
  BY LifeStep DEF IInv
<1>4. QED
  BY <1>1, <1>2, <1>3, Invariance, LifeInit, PTL DEF Spec, ImplementsTaskLife, Life!Spec

=============================================================================
