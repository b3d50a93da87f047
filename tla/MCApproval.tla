------------------------------ MODULE MCApproval ------------------------------
EXTENDS Approval, ListenerChecks, LedgerChecks, TLC

CONSTANTS t1, t2, r1, l1

MCOrigin == [t \in Tasks |-> r1]
=============================================================================
