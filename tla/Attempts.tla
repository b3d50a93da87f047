------------------------------- MODULE Attempts -------------------------------
(***************************************************************************)
(* The performer's one-shot authority (akson-authority, akson-store): the  *)
(* attempts table, one row per work order and so per accepted task, and    *)
(* the issued work orders.  Each operator below is one store transaction   *)
(* or what one decides; the modules of the handlers that call them EXTEND  *)
(* this one.                                                               *)
(***************************************************************************)
CONSTANT Tasks  \* task ids, one per received proposal digest

VARIABLES
    attempts,   \* the state of each task's attempt, "none" for no row
    orders      \* the tasks with a work_orders row

attemptVars == <<attempts, orders>>

AttemptState == {"none", "claimed", "running", "succeeded", "failed", "ambiguous"}
Terminal == {"succeeded", "failed", "ambiguous"}

AttemptsTypeOK ==
    /\ attempts \in [Tasks -> AttemptState]
    /\ orders \subseteq Tasks

AttemptsInit ==
    /\ attempts = [t \in Tasks |-> "none"]
    /\ orders = {}

(* The events the daemon drives an attempt with, and where each leads. *)
Transition ==
    {<<"claimed", "Start", "running">>,
     <<"running", "Fail", "failed">>}

next(s, e) == {n \in AttemptState : <<s, e, n>> \in Transition}

(* Mutant: the claim inserts the row in its first state. *)
claim_attempt_Pending(t) ==
    /\ attempts' = [attempts EXCEPT ![t] = IF @ = "none" THEN "pending" ELSE @]
    /\ UNCHANGED orders

(* Idempotent: an order that is claimed keeps its state. *)
claim_attempt(t) ==
    /\ attempts' = [attempts EXCEPT ![t] = IF @ = "none" THEN "claimed" ELSE @]
    /\ UNCHANGED orders

put_work_order(t) ==
    /\ orders' = orders \cup {t}
    /\ UNCHANGED attempts

advance_attempt(t, e) ==
    /\ attempts' = [attempts EXCEPT ![t] = IF next(@, e) # {} THEN CHOOSE n \in next(@, e) : TRUE
                                           ELSE @]
    /\ UNCHANGED orders

(* Mutant: the restart resolves every attempt, finished ones too. *)
resolve_crashed_attempts_All ==
    /\ attempts' = [t \in Tasks |-> IF attempts[t] # "none" THEN "ambiguous" ELSE attempts[t]]
    /\ UNCHANGED orders

resolve_crashed_attempts ==
    /\ attempts' = [t \in Tasks |-> IF attempts[t] \in {"claimed", "running"}
                                    THEN "ambiguous" ELSE attempts[t]]
    /\ UNCHANGED orders

=============================================================================
