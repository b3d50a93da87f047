------------------------------ MODULE MCBroker ------------------------------
(* Broker for TLC: one work order with a worker of two agents and an       *)
(* operator, one granted processor that is re-configured.                  *)
EXTENDS Broker

CONSTANTS t, op, a1, a2, r, inside, outside, o1, o2

MCConfigs == {[origin |-> o1, path |-> "/", local |-> TRUE],
              [origin |-> o1, path |-> "/", local |-> FALSE],
              [origin |-> o2, path |-> "/", local |-> FALSE]}
MCProcs == {"granted"}
MCGranted == [x \in Tasks |-> "granted"]
MCInstalled == [p \in MCProcs |-> [origin |-> o1, path |-> "/", local |-> FALSE]]
=============================================================================
