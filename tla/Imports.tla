------------------------------- MODULE Imports -------------------------------
(***************************************************************************)
(* The relationship tables of one endpoint (akson-store): `peer_imports`,  *)
(* the operator's ledger of imported identity tokens, and `peers`, the     *)
(* identities pinned by a completed introduction.  Each operator below is  *)
(* one store transaction; the modules of the components that call them     *)
(* EXTEND this one.                                                        *)
(*                                                                         *)
(* A root is a thumbprint, a label is the operator's local name for one.   *)
(* Keys, endpoints and hints are abstracted: an introduction presents      *)
(* either the material already pinned or changed material.                 *)
(***************************************************************************)
EXTENDS Integers

CONSTANTS
    Roots,      \* the root thumbprints the operator may import
    Labels,     \* the local names the operator may give them
    NoLabel,    \* the NULL label
    MaxEpoch    \* bound on the relationship epoch of one root

ASSUME ImportsAssumption ==
    /\ NoLabel \notin Labels
    /\ MaxEpoch \in Nat \ {0}

VARIABLES
    imports,    \* peer_imports: one row per root; epoch 0 is "no row yet"
    peers       \* the status of the pinned identity behind a root

importVars == <<imports, peers>>

ImportRow == [live : BOOLEAN, label : Labels \cup {NoLabel}, epoch : 0..MaxEpoch]
PeerStatus == {"none", "active", "suspended"}

ImportsTypeOK ==
    /\ imports \in [Roots -> ImportRow]
    /\ peers \in [Roots -> PeerStatus]

ImportsInit ==
    /\ imports = [r \in Roots |-> [live |-> FALSE, label |-> NoLabel, epoch |-> 0]]
    /\ peers = [r \in Roots |-> "none"]

(* The live imports that hold label l. *)
peer_import_by_label(l) == {r \in Roots : imports[r].live /\ imports[r].label = l}

(* A live duplicate and a label held by another import are refused; a     *)
(* tombstoned root is revived under the epoch its removal advanced to.     *)
add_peer_import(r, l) ==
    /\ ~imports[r].live
    /\ peer_import_by_label(l) = {}
    /\ imports' = [imports EXCEPT ![r] =
                     [live  |-> TRUE,
                      label |-> l,
                      epoch |-> IF @.epoch = 0 THEN 1 ELSE @.epoch]]
    /\ UNCHANGED peers

update_peer_import(r, l) ==
    /\ imports[r].live
    /\ peer_import_by_label(l) \subseteq {r}
    /\ imports' = [imports EXCEPT ![r].label = l]
    /\ UNCHANGED peers

(* One transaction: the import is tombstoned, its label freed and its      *)
(* epoch advanced, and everything pinned behind the root is deleted.       *)
remove_relationship(r) ==
    /\ imports[r].live
    /\ imports[r].epoch < MaxEpoch
    /\ imports' = [imports EXCEPT ![r] =
                     [live |-> FALSE, label |-> NoLabel, epoch |-> @.epoch + 1]]
    /\ peers' = [peers EXCEPT ![r] = "none"]

(* The compare-and-swap that ends an introduction.  Changed material       *)
(* suspends a pinned peer; identical material leaves it as it is.          *)
commit_introduced_peer(r, expected_epoch, changed) ==
    /\ imports[r].live
    /\ imports[r].epoch = expected_epoch
    /\ peers' = [peers EXCEPT ![r] =
                   IF @ = "none" THEN "active"
                   ELSE IF changed THEN "suspended"
                   ELSE @]
    /\ UNCHANGED imports

=============================================================================
