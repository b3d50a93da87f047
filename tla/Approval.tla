------------------------------- MODULE Approval -------------------------------
(***************************************************************************)
(* How a received Task gets its authority (aksond): a proposal is an open  *)
(* contract head; the operator (`task approve`, `task deny`), or the       *)
(* reactor under a standing policy, decides it.  An approval locks the     *)
(* head and then issues the one-shot work order.                           *)
(*                                                                         *)
(* Handlers and the reactor's thread share one store lock.  A handler that *)
(* commits several times under the lock is atomic to the others but not to *)
(* a crash or a failing store call, so each commit is a step and `lock`    *)
(* holds what the handler in the lock has left to do.                      *)
(***************************************************************************)
EXTENDS Imports, Attempts

CONSTANTS
    Origin,     \* the root each task's proposal arrived from
    Covered     \* tasks of a type, size and capability set a policy may cover

ASSUME ApprovalAssumption ==
    /\ Origin \in [Tasks -> Roots]
    /\ Covered \subseteq Tasks

Operator == "operator"
Reactor == "reactor"
Free == [op |-> "free"]
Issue == [op : {"claim", "put_order"}, task : Tasks, by : {Operator, Reactor}]
Idle == [pc |-> "idle", left |-> {}, pending |-> {}]

VARIABLES
    heads,      \* contract_heads: "empty", "open" or "locked"
    expired,    \* tasks whose validity window or deadline has passed
    policy,     \* auto_approve: the roots with a standing policy
    reacted,    \* task_reactions
    lock,       \* what the handler holding the store lock has left to do
    reactor,    \* the sweep under way: its phase and the tasks it still has
    denied,     \* history: tasks the operator denied
    auto,       \* history: tasks the reactor accepted
    hooks,      \* history: how often the on-task hook fired, 2 for "again"
    interrupted \* history: tasks with an approval cut short between commits

historyVars == <<denied, auto, hooks, interrupted>>
vars == <<importVars, attemptVars, heads, expired, policy, reacted, lock, reactor, historyVars>>

TypeOK ==
    /\ ImportsTypeOK
    /\ AttemptsTypeOK
    /\ heads \in [Tasks -> {"empty", "open", "locked"}]
    /\ expired \subseteq Tasks
    /\ policy \subseteq Roots
    /\ reacted \subseteq Tasks
    /\ lock \in {Free, [op |-> "sweep"], [op |-> "mark"]} \cup Issue
    /\ reactor \in [pc : {"idle", "sweep", "hook", "mark"}, left : SUBSET Tasks,
                    pending : SUBSET Tasks]
    /\ denied \subseteq Tasks
    /\ auto \subseteq Tasks
    /\ hooks \in [Tasks -> 0..2]
    /\ interrupted \subseteq Tasks

Init ==
    /\ ImportsInit
    /\ AttemptsInit
    /\ heads = [t \in Tasks |-> "empty"]
    /\ expired = {}
    /\ policy = {}
    /\ reacted = {}
    /\ lock = Free
    /\ reactor = Idle
    /\ denied = {}
    /\ auto = {}
    /\ hooks = [t \in Tasks |-> 0]
    /\ interrupted = {}

-----------------------------------------------------------------------------
(* The requester: its import, introduction and standing policy, the        *)
(* arrival of its proposals, and time.                                     *)

PeerAdd(r, l) ==
    /\ lock = Free
    /\ add_peer_import(r, l)
    /\ UNCHANGED <<attemptVars, heads, expired, policy, reacted, lock, reactor, historyVars>>

(* Mutant: the removal leaves the standing policy behind. *)
PeerImportRemove_KeepsPolicy(r) ==
    /\ lock = Free
    /\ remove_relationship(r)
    /\ UNCHANGED <<attemptVars, heads, expired, policy, reacted, lock, reactor, historyVars>>

(* The standing policy goes in the same transaction. *)
PeerImportRemove(r) ==
    /\ lock = Free
    /\ remove_relationship(r)
    /\ policy' = policy \ {r}
    /\ UNCHANGED <<attemptVars, heads, expired, reacted, lock, reactor, historyVars>>

Introduced(r, changed) ==
    /\ lock = Free
    /\ commit_introduced_peer(r, imports[r].epoch, changed)
    /\ UNCHANGED <<attemptVars, heads, expired, policy, reacted, lock, reactor, historyVars>>

(* A policy binds to the introduced root behind a label; no types clear it. *)
PeerAutoApprove(r) ==
    /\ lock = Free
    /\ imports[r].live /\ peers[r] # "none"
    /\ policy' \in {policy \cup {r}, policy \ {r}}
    /\ UNCHANGED <<importVars, attemptVars, heads, expired, reacted, lock, reactor, historyVars>>

(* Mutant: a replayed proposal overwrites the head. *)
ReceiveProposal_Overwrites(t) ==
    /\ lock = Free
    /\ peers[Origin[t]] = "active"
    /\ heads' = [heads EXCEPT ![t] = "open"]
    /\ UNCHANGED <<importVars, attemptVars, expired, policy, reacted, lock, reactor, historyVars>>

(* A proposal becomes the open head of its task, compare-and-swap. *)
ReceiveProposal(t) ==
    /\ lock = Free
    /\ peers[Origin[t]] = "active"
    /\ heads[t] = "empty"
    /\ heads' = [heads EXCEPT ![t] = "open"]
    /\ UNCHANGED <<importVars, attemptVars, expired, policy, reacted, lock, reactor, historyVars>>

Expire(t) ==
    /\ heads[t] = "open"
    /\ expired' = expired \cup {t}
    /\ UNCHANGED <<importVars, attemptVars, heads, policy, reacted, lock, reactor, historyVars>>

-----------------------------------------------------------------------------
(* Approval: the decision commits the lock on the head, then the work      *)
(* order is issued.  What issue_for_accepted refuses (validity, deadline,  *)
(* a grant that was not requested or is not configured) it refuses after   *)
(* the head is locked.                                                     *)

Resume(by) == IF by = Operator THEN Free ELSE [op |-> "sweep"]

accept_contract(t) ==
    /\ heads[t] = "open"
    /\ heads' = [heads EXCEPT ![t] = "locked"]

(* Only an open head is decided; only an accept moves it. *)
decide(t, kind) ==
    /\ heads[t] = "open"
    /\ IF kind = "accept" THEN accept_contract(t) ELSE UNCHANGED heads

(* What issue_for_accepted asks of the contract and of the operator's grants. *)
Issuable(t, grantable) == t \notin expired /\ grantable

(* Mutant: the work order is issued without locking the head. *)
approve_and_issue_Unlocked(t, by, grantable) ==
    /\ heads[t] = "open"
    /\ peers[Origin[t]] # "none"
    /\ lock' = IF Issuable(t, grantable)
               THEN [op |-> "claim", task |-> t, by |-> by]
               ELSE Resume(by)
    /\ UNCHANGED heads

approve_and_issue(t, by, grantable) ==
    /\ peers[Origin[t]] # "none"
    /\ decide(t, "accept")
    /\ lock' = IF Issuable(t, grantable)
               THEN [op |-> "claim", task |-> t, by |-> by]
               ELSE Resume(by)

TaskApprove(t, grantable) ==
    /\ lock = Free
    /\ approve_and_issue(t, Operator, grantable)
    /\ UNCHANGED <<importVars, attemptVars, expired, policy, reacted, reactor, historyVars>>

IssueClaims ==
    /\ lock.op = "claim"
    /\ claim_attempt(lock.task)
    /\ lock' = [lock EXCEPT !.op = "put_order"]
    /\ UNCHANGED <<importVars, heads, expired, policy, reacted, reactor, historyVars>>

IssuePutsOrder ==
    /\ lock.op = "put_order"
    /\ put_work_order(lock.task)
    /\ lock' = Resume(lock.by)
    /\ UNCHANGED <<importVars, heads, expired, policy, reacted, reactor, historyVars>>

(* Mutant: a denial does not mark the task handled. *)
TaskDeny_NoMark(t) ==
    /\ lock = Free
    /\ heads[t] = "open"
    /\ denied' = denied \cup {t}
    /\ UNCHANGED <<importVars, attemptVars, heads, expired, policy, reacted, lock, reactor, auto,
                   hooks, interrupted>>

(* A denial leaves the head open, and takes the task from the reactor. *)
TaskDeny(t) ==
    /\ lock = Free
    /\ decide(t, "reject")
    /\ reacted' = reacted \cup {t}
    /\ denied' = denied \cup {t}
    /\ UNCHANGED <<importVars, attemptVars, expired, policy, lock, reactor, auto, hooks,
                   interrupted>>

-----------------------------------------------------------------------------
(* The reactor's sweep: accept what a policy covers (one locked section),  *)
(* fire the hooks (unlocked), mark the tasks handled (locked).             *)

(* Mutant: only the tasks a policy may cover are swept. *)
tasks_awaiting_reaction_Covered == {t \in Covered : heads[t] = "open"} \ reacted

tasks_awaiting_reaction == {t \in Tasks : heads[t] = "open"} \ reacted

React(trusted) ==
    /\ lock = Free
    /\ reactor.pc = "idle"
    /\ tasks_awaiting_reaction # {}
    /\ lock' = [op |-> "sweep"]
    /\ reactor' = [pc |-> "sweep",
                   left |-> IF trusted THEN tasks_awaiting_reaction ELSE {},
                   pending |-> tasks_awaiting_reaction]
    /\ UNCHANGED <<importVars, attemptVars, heads, expired, policy, reacted, historyVars>>

AutoApprovable(t) ==
    /\ t \in Covered
    /\ peers[Origin[t]] = "active"
    /\ Origin[t] \in policy

auto_approve_if_allowed(t) ==
    /\ lock.op = "sweep"
    /\ t \in reactor.left
    /\ reactor' = [reactor EXCEPT !.left = @ \ {t}]
    /\ \/ /\ AutoApprovable(t)
          /\ approve_and_issue(t, Reactor, TRUE)
          /\ auto' = auto \cup {t}
       \/ /\ ~AutoApprovable(t)
          /\ UNCHANGED <<heads, lock, auto>>
    /\ UNCHANGED <<importVars, attemptVars, expired, policy, reacted, denied, hooks, interrupted>>

SweepEnds ==
    /\ lock.op = "sweep"
    /\ reactor.left = {}
    /\ lock' = Free
    /\ reactor' = [reactor EXCEPT !.pc = "hook", !.left = reactor.pending]
    /\ UNCHANGED <<importVars, attemptVars, heads, expired, policy, reacted, historyVars>>

spawn_hook(t) ==
    /\ reactor.pc = "hook"
    /\ t \in reactor.left
    /\ hooks' = [hooks EXCEPT ![t] = IF @ = 2 THEN 2 ELSE @ + 1]
    /\ reactor' = [reactor EXCEPT !.left = @ \ {t}]
    /\ UNCHANGED <<importVars, attemptVars, heads, expired, policy, reacted, lock, denied, auto,
                   interrupted>>

(* Mutant: the tasks are marked before their hooks have fired. *)
MarkBegins_NoWait ==
    /\ lock = Free
    /\ reactor.pc = "hook"
    /\ lock' = [op |-> "mark"]
    /\ reactor' = [reactor EXCEPT !.pc = "mark"]
    /\ UNCHANGED <<importVars, attemptVars, heads, expired, policy, reacted, historyVars>>

MarkBegins ==
    /\ lock = Free
    /\ reactor.pc = "hook" /\ reactor.left = {}
    /\ lock' = [op |-> "mark"]
    /\ reactor' = [reactor EXCEPT !.pc = "mark"]
    /\ UNCHANGED <<importVars, attemptVars, heads, expired, policy, reacted, historyVars>>

mark_task_reacted(t) ==
    /\ lock.op = "mark"
    /\ t \in reactor.pending
    /\ reacted' = reacted \cup {t}
    /\ IF reactor.pending = {t}
       THEN /\ lock' = Free
            /\ reactor' = Idle
       ELSE /\ UNCHANGED lock
            /\ reactor' = [reactor EXCEPT !.pending = @ \ {t}]
    /\ UNCHANGED <<importVars, attemptVars, heads, expired, policy, historyVars>>

-----------------------------------------------------------------------------
(* Faults.  A failing store call ends the handler in the lock (the sweep   *)
(* goes on to its next task); a crash ends everything, and the restart     *)
(* resolves the attempts in flight.                                        *)

Holder == IF lock.op \in {"claim", "put_order"} THEN {lock.task} ELSE {}

StoreFails ==
    /\ lock.op \in {"claim", "put_order", "mark"}
    /\ interrupted' = interrupted \cup Holder
    /\ lock' = IF lock.op = "mark" THEN Free ELSE Resume(lock.by)
    /\ reactor' = IF lock.op = "mark" THEN Idle ELSE reactor
    /\ UNCHANGED <<importVars, attemptVars, heads, expired, policy, reacted, denied, auto, hooks>>

Crash ==
    /\ resolve_crashed_attempts
    /\ interrupted' = interrupted \cup Holder
    /\ lock' = Free
    /\ reactor' = Idle
    /\ UNCHANGED <<importVars, heads, expired, policy, reacted, denied, auto, hooks>>

-----------------------------------------------------------------------------
LockStep ==
    \/ IssueClaims
    \/ IssuePutsOrder
    \/ \E t \in Tasks : auto_approve_if_allowed(t) \/ mark_task_reacted(t)
    \/ SweepEnds

Next ==
    \/ \E r \in Roots, l \in Labels : PeerAdd(r, l)
    \/ \E r \in Roots : PeerImportRemove(r) \/ PeerAutoApprove(r)
    \/ \E r \in Roots, changed \in BOOLEAN : Introduced(r, changed)
    \/ \E t \in Tasks : ReceiveProposal(t) \/ Expire(t) \/ TaskDeny(t) \/ spawn_hook(t)
    \/ \E t \in Tasks, grantable \in BOOLEAN : TaskApprove(t, grantable)
    \/ \E trusted \in BOOLEAN : React(trusted)
    \/ MarkBegins
    \/ LockStep
    \/ StoreFails
    \/ Crash

Spec == Init /\ [][Next]_vars

(* A handler in the lock goes on.  The reactor polls, and gets the lock in *)
(* the end however often handlers take it: strong fairness for its two     *)
(* locked sections, weak fairness for the unlocked one.                    *)
Fairness ==
    /\ WF_vars(LockStep)
    /\ SF_vars(\E trusted \in BOOLEAN : React(trusted))
    /\ WF_vars(\E t \in Tasks : spawn_hook(t))
    /\ SF_vars(MarkBegins)

FairSpec == Spec /\ Fairness

-----------------------------------------------------------------------------
(* A task the operator denied is never approved by the reactor, however    *)
(* the denial falls into a sweep (approve.rs, deny: "so a denied task is   *)
(* never later auto-approved").                                            *)
DeniedIsNotAutoApproved == denied \cap auto = {}

(* Standing authority never outlives the relationship it was given to: a   *)
(* root with a policy is a live import with a pinned peer, so a removed    *)
(* and re-imported root starts from always-ask (remove_relationship).      *)
PolicyHasPeer == \A r \in policy : imports[r].live /\ peers[r] # "none"

(* A work order exists only behind a locked head and a claimed attempt,    *)
(* and an attempt only behind a locked head: no crash or failing call      *)
(* between the three commits of an approval leaves authority nobody gave.  *)
OrderHasDecision ==
    \A t \in Tasks :
        /\ t \in orders => attempts[t] # "none"
        /\ attempts[t] # "none" => heads[t] = "locked"

(* A task is marked handled only after its hook fired, or by a denial: a   *)
(* crash or failing call repeats an announcement rather than lose it       *)
(* (react_once, phase 3).                                                  *)
ReactedWasAnnounced == \A t \in reacted : hooks[t] > 0 \/ t \in denied

(* A decision is final: a locked head stays locked, an order stays issued, *)
(* and an attempt is claimed only by the approval that locked the head;    *)
(* one that a crash resolved is never claimed again.                       *)
DecisionIsFinal ==
    [][\A t \in Tasks :
         /\ heads[t] = "locked" => heads'[t] = "locked"
         /\ t \in orders => t \in orders'
         /\ attempts'[t] = "claimed" /\ attempts[t] # "claimed" =>
              attempts[t] = "none" /\ Holder = {t}
         /\ attempts[t] = "ambiguous" => attempts'[t] = "ambiguous"]_vars

(* Every step of the handlers, the reactor and the restart is a step in    *)
(* the life of a task, from its proposal to the order: of the commits of   *)
(* an approval none is repeated or undone, wherever it is cut short.       *)
lifeOf(t) ==
    IF attempts[t] # "none" THEN attempts[t]
    ELSE IF heads[t] = "locked" THEN "accepted"
    ELSE IF heads[t] = "open" THEN "proposed" ELSE "none"

Life == INSTANCE TaskLife WITH
    First <- "none",
    Undelivered <- "none",
    life <- [t \in Tasks |-> lifeOf(t)],
    ordered <- orders,
    started <- [t \in Tasks |-> 0],
    delivered <- [t \in Tasks |-> "none"]

ImplementsTaskLife == Life!Spec

(* Once crashes stop, every submitted task is decided, denied or announced *)
(* by the hook: no sweep loses it.                                         *)
SubmittedIsAnnounced ==
    <>[][~Crash]_vars =>
       \A t \in Tasks : heads[t] = "open" ~> hooks[t] > 0 \/ heads[t] = "locked" \/ t \in denied

(* An approval that was not cut short leaves a locked head only with its   *)
(* attempt: "Fails closed *before* the head is locked" (approve.rs).       *)
LockedHasAttempt ==
    \A t \in Tasks :
        heads[t] = "locked" /\ t \notin interrupted \cup Holder => attempts[t] # "none"

(* A task the reactor accepted is announced by the hook, across restarts:  *)
(* "Two reactions, in order, once per task" (reactor.rs).                  *)
AutoApprovedIsAnnounced == \A t \in Tasks : t \in auto ~> hooks[t] > 0

=============================================================================
