------------------------------ MODULE TaskLife ------------------------------
(***************************************************************************)
(* What a performer promises about each received task, with no sockets,    *)
(* handlers, store lock or runs: it is worked on only after an acceptance, *)
(* one claim and the work order issued under it; a worker is started for   *)
(* it at most once; what comes of it is decided once and, when it is a     *)
(* result, delivered with that decision and never changed.  A restart      *)
(* gives up everything that was claimed or running, all at once.           *)
(*                                                                         *)
(* Approval, Execution and Broker each model a part of this life; `First`  *)
(* is the stage at which the tasks of one of them enter it.                *)
(***************************************************************************)
EXTENDS Naturals

CONSTANTS
    Tasks,      \* task ids
    First,      \* the stage the tasks begin at
    Undelivered \* no result

VARIABLES
    life,       \* the stage of each task
    ordered,    \* the tasks with a work order
    started,    \* how often a worker was started for each task
    delivered   \* the result of each task

lvars == <<life, ordered, started, delivered>>

InFlight == {"claimed", "running"}

Init ==
    /\ life = [t \in Tasks |-> First]
    /\ ordered = IF First = "claimed" THEN Tasks ELSE {}
    /\ started = [t \in Tasks |-> 0]
    /\ delivered = [t \in Tasks |-> Undelivered]

Move(t, from, to) ==
    /\ life[t] \in from
    /\ life' = [life EXCEPT ![t] = to]

(* It is proposed, accepted and claimed. *)
Advance(t) ==
    /\ \/ Move(t, {"none"}, "proposed")
       \/ Move(t, {"proposed"}, "accepted")
       \/ Move(t, {"accepted"}, "claimed")
    /\ UNCHANGED <<ordered, started, delivered>>

Order(t) ==
    /\ life[t] = "claimed"
    /\ ordered' = ordered \cup {t}
    /\ UNCHANGED <<life, started, delivered>>

Start(t) ==
    /\ t \in ordered
    /\ Move(t, {"claimed"}, "running")
    /\ started' = [started EXCEPT ![t] = @ + 1]
    /\ UNCHANGED <<ordered, delivered>>

(* By the worker, or by the operator without one. *)
Complete(t) ==
    /\ t \in ordered
    /\ Move(t, InFlight, "succeeded")
    /\ delivered'[t] # Undelivered
    /\ delivered' = [delivered EXCEPT ![t] = delivered'[t]]
    /\ UNCHANGED <<ordered, started>>

Fail(t) ==
    /\ Move(t, {"running"}, "failed")
    /\ UNCHANGED <<ordered, started, delivered>>

Restart ==
    /\ life' = [t \in Tasks |-> IF life[t] \in InFlight THEN "ambiguous" ELSE life[t]]
    /\ UNCHANGED <<ordered, started, delivered>>

Next ==
    \/ \E t \in Tasks : Advance(t) \/ Order(t) \/ Start(t) \/ Complete(t) \/ Fail(t)
    \/ Restart

Spec == Init /\ [][Next]_lvars
=============================================================================
