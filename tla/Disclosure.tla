------------------------------ MODULE Disclosure ------------------------------
(***************************************************************************)
(* What the coordination surface promises about each staged content, with  *)
(* no routes, receipts, calls or network: it is disclosed only after one   *)
(* consent was given and spent for it, every disclosure of it belongs to   *)
(* that one spend, and it is acknowledged only after it was disclosed.     *)
(***************************************************************************)
CONSTANTS Stages, Roots

VARIABLES
    phase,      \* how far the operator and the driver have taken a content
    disclosed   \* the recipients its bytes were written to

dvars == <<phase, disclosed>>

Init ==
    /\ phase = [s \in Stages |-> "none"]
    /\ disclosed = [s \in Stages |-> {}]

Move(s, from, to) ==
    /\ phase[s] = from
    /\ phase' = [phase EXCEPT ![s] = to]
    /\ UNCHANGED disclosed

Disclose(s, r) ==
    /\ phase[s] \in {"spent", "acknowledged"}
    /\ disclosed' = [disclosed EXCEPT ![s] = @ \cup {r}]
    /\ UNCHANGED phase

Acknowledge(s) ==
    /\ disclosed[s] # {}
    /\ Move(s, "spent", "acknowledged")

Next == \E s \in Stages :
    \/ Move(s, "none", "staged")
    \/ Move(s, "staged", "consented")
    \/ Move(s, "consented", "spent")
    \/ \E r \in Roots : Disclose(s, r)
    \/ Acknowledge(s)

Spec == Init /\ [][Next]_dvars
=============================================================================
