----------------------------- MODULE Introduction -----------------------------
(***************************************************************************)
(* First contact (aksond `introduce.rs`, akson-pairing, the relationship   *)
(* tables of akson-store): two endpoints whose operators imported each     *)
(* other's identity token prove, over one TLS session and two request-     *)
(* response flights, that they are the imported roots, and each pins the   *)
(* other under the epoch its import had when its half began.               *)
(*                                                                         *)
(*   dialer                                 responder                      *)
(*   hello    ---- roots, nonce -------->   admission: imported?           *)
(*            <--- material, proofs -----                                  *)
(*   verify                                                                *)
(*   complete ---- material, proofs ---->   verify, commit (epoch)         *)
(*            <--- ack ------------------                                  *)
(*   commit (epoch)                                                        *)
(*                                                                         *)
(* Every endpoint is both; dials run concurrently, in both directions.     *)
(* Removal, re-import, restart, a broken connection and the 20 s ceiling   *)
(* fall between any two steps.  An endpoint's root, key and certificate    *)
(* are persistent and named by the endpoint; `material` is the rest of     *)
(* what it presents (card, interface URL, subject), which its              *)
(* configuration fixes at start.                                           *)
(***************************************************************************)
EXTENDS Integers, FiniteSets

CONSTANTS
    Endpoints,  \* the endpoints, each named by its root
    Conns,      \* connections under way at once
    Materials,  \* what an endpoint may present beside its keys
    Conforming, \* the materials whose card passes the A2A profile
    Installed,  \* what a freshly installed endpoint presents
    NoMaterial, \* nothing pinned
    NoRoot,     \* a connection nobody uses
    MaxEpoch,   \* bound on the epoch of an import
    KnockCap,   \* KNOCK_LOG_CAP
    MaxFaults   \* bound on what goes wrong around the protocol

ASSUME IntroductionAssumption ==
    /\ Conforming \subseteq Materials
    /\ Installed \in Materials
    /\ NoMaterial \notin Materials
    /\ NoRoot \notin Endpoints
    /\ MaxEpoch \in Nat \ {0}
    /\ KnockCap \in Nat
    /\ MaxFaults \in Nat

VARIABLES
    imports,    \* peer_imports of each endpoint; epoch 0 is "no row yet"
    peers,      \* the peers pinned by each endpoint
    peer_keys,  \* the roots each endpoint holds verification keys of
    knocks,     \* knock_log of each endpoint, without its counters
    material,   \* what each endpoint presents
    conns,      \* the TLS connections with both halves' state
    faults      \* how much went wrong so far

tables == <<imports, peers, peer_keys, knocks>>
vars == <<tables, material, conns, faults>>

ImportRow == [live : BOOLEAN, epoch : 0..MaxEpoch]
Pin == [status : {"none", "active", "suspended"}, mat : Materials \cup {NoMaterial}]
Unpinned == [status |-> "none", mat |-> NoMaterial]
KnockClass == {"wrong-target", "not-imported", "bad-proof"}
Knock == [claim : Endpoints, class : KnockClass]

(* One connection: who dialed whom under which epoch, who answered, the    *)
(* message under way, the dialer's wait and the responder's IntroConnState.*)
(* dcut and rcut are history: the relationship was removed on that side    *)
(* since its half began; dpin and rpin: that side committed.               *)
Conn == [dialer : Endpoints \cup {NoRoot}, root : Endpoints \cup {NoRoot},
         at : Endpoints \cup {NoRoot}, epoch : 0..MaxEpoch,
         net : {"none", "hello", "material", "complete", "ack", "refused"},
         wait : {"no", "material", "ack"},
         slot : {"Fresh", "Pending", "Done"}, repoch : 0..MaxEpoch,
         dmat : Materials \cup {NoMaterial}, rmat : Materials \cup {NoMaterial},
         dcut : BOOLEAN, rcut : BOOLEAN, dpin : BOOLEAN, rpin : BOOLEAN]

Idle == [dialer |-> NoRoot, root |-> NoRoot, at |-> NoRoot, epoch |-> 0,
         net |-> "none", wait |-> "no", slot |-> "Fresh", repoch |-> 0,
         dmat |-> NoMaterial, rmat |-> NoMaterial,
         dcut |-> FALSE, rcut |-> FALSE, dpin |-> FALSE, rpin |-> FALSE]

(* Every table row, pin and connection is one the code can hold, and the   *)
(* knock log never outgrows its cap.                                       *)
TypeOK ==
    /\ imports \in [Endpoints -> [Endpoints -> ImportRow]]
    /\ peers \in [Endpoints -> [Endpoints -> Pin]]
    /\ peer_keys \in [Endpoints -> SUBSET Endpoints]
    /\ knocks \in [Endpoints -> SUBSET Knock]
    /\ \A e \in Endpoints : Cardinality(knocks[e]) <= KnockCap
    /\ material \in [Endpoints -> Materials]
    /\ conns \in [Conns -> Conn]
    /\ faults \in 0..MaxFaults

Init ==
    /\ imports = [e \in Endpoints |-> [r \in Endpoints |-> [live |-> FALSE, epoch |-> 0]]]
    /\ peers = [e \in Endpoints |-> [r \in Endpoints |-> Unpinned]]
    /\ peer_keys = [e \in Endpoints |-> {}]
    /\ knocks = [e \in Endpoints |-> {}]
    /\ material = [e \in Endpoints |-> Installed]
    /\ conns = [c \in Conns |-> Idle]
    /\ faults = 0

-----------------------------------------------------------------------------
(* The relationship tables. *)

(* `peer add`; an endpoint's own token is refused. *)
Import(e, r) ==
    /\ e # r
    /\ ~imports[e][r].live
    /\ imports' = [imports EXCEPT ![e][r] =
                     [live |-> TRUE, epoch |-> IF @.epoch = 0 THEN 1 ELSE @.epoch]]
    /\ UNCHANGED <<peers, peer_keys, knocks, material, conns, faults>>

(* The halves of the dials under way that a removal at e of r cuts. *)
Cut(e, r) ==
    [c \in Conns |->
        [conns[c] EXCEPT
           !.dcut = @ \/ (conns[c].dialer = e /\ conns[c].root = r
                            /\ conns[c].wait # "no"),
           !.rcut = @ \/ (conns[c].at = e /\ conns[c].dialer = r
                            /\ conns[c].slot = "Pending")]]

Remove_KeepsKeys(e, r) ==
    /\ imports[e][r].live
    /\ imports[e][r].epoch < MaxEpoch
    /\ imports' = [imports EXCEPT ![e][r] = [live |-> FALSE, epoch |-> @.epoch + 1]]
    /\ peers' = [peers EXCEPT ![e][r] = Unpinned]
    /\ conns' = Cut(e, r)
    /\ UNCHANGED <<peer_keys, knocks, material, faults>>

(* `peer remove`: one transaction tombstones the import, advances its      *)
(* epoch and deletes the pinned peer and its keys.                         *)
Remove(e, r) ==
    /\ imports[e][r].live
    /\ imports[e][r].epoch < MaxEpoch
    /\ imports' = [imports EXCEPT ![e][r] = [live |-> FALSE, epoch |-> @.epoch + 1]]
    /\ peers' = [peers EXCEPT ![e][r] = Unpinned]
    /\ peer_keys' = [peer_keys EXCEPT ![e] = @ \ {r}]
    /\ conns' = Cut(e, r)
    /\ UNCHANGED <<knocks, material, faults>>

record_knock_Uncapped(e, claim, class) ==
    knocks' = [knocks EXCEPT ![e] = @ \cup {[claim |-> claim, class |-> class]}]

(* A known triple only counts up; a new one is dropped at the cap. *)
record_knock(e, claim, class) ==
    knocks' = [knocks EXCEPT ![e] =
                 IF Cardinality(@) >= KnockCap THEN @
                 ELSE @ \cup {[claim |-> claim, class |-> class]}]

(* Whether policy-relevant material moved against the pin. *)
detect_change(pinned, presented) == pinned # presented

CommitOutcome_NoEpoch(row, pin, expected_epoch, mat) ==
    IF ~row.live THEN "NotImported"
    ELSE IF pin.status = "none" THEN "Committed"
    ELSE IF detect_change(pin.mat, mat) THEN "Suspended"
    ELSE IF pin.status = "suspended" THEN "Suspended"
    ELSE "AlreadyActive"

CommitOutcome_Lifts(row, pin, expected_epoch, mat) ==
    IF ~row.live THEN "NotImported"
    ELSE IF row.epoch # expected_epoch THEN "EpochChanged"
    ELSE IF pin.status = "none" THEN "Committed"
    ELSE IF detect_change(pin.mat, mat) THEN "Suspended"
    ELSE "AlreadyActive"

(* What the compare-and-swap of an introduction answers. *)
CommitOutcome(row, pin, expected_epoch, mat) ==
    IF ~row.live THEN "NotImported"
    ELSE IF row.epoch # expected_epoch THEN "EpochChanged"
    ELSE IF pin.status = "none" THEN "Committed"
    ELSE IF detect_change(pin.mat, mat) THEN "Suspended"
    ELSE IF pin.status = "suspended" THEN "Suspended"
    ELSE "AlreadyActive"

Pinned == {"Committed", "AlreadyActive"}
Outcomes == Pinned \cup {"Suspended", "EpochChanged", "NotImported"}

(* The transaction: a peer that is new or identical is pinned with its     *)
(* keys; one whose material changed is suspended and nothing is re-pinned. *)
commit_introduced_peer(e, r, expected_epoch, mat, outcome) ==
    /\ outcome = CommitOutcome(imports[e][r], peers[e][r], expected_epoch, mat)
    /\ peers' = [peers EXCEPT ![e][r] =
                   CASE outcome \in Pinned -> [status |-> "active", mat |-> mat]
                     [] outcome = "Suspended" -> [@ EXCEPT !.status = "suspended"]
                     [] OTHER -> @]
    /\ peer_keys' = [peer_keys EXCEPT ![e] =
                       IF outcome \in Pinned THEN @ \cup {r} ELSE @]

(* The receive path's resolver: whose client certificate is a paired peer. *)
resolve(e) == {r \in peer_keys[e] : peers[e][r].status = "active"}

-----------------------------------------------------------------------------
(* Verification.  A proof signs both roots, both certificates, the TLS     *)
(* exporter and the nonce, so it is good on its own connection only: what  *)
(* is left to fail is the signer's root and the profile of its card.       *)
verify_introduction(expected_root, signer, mat) ==
    /\ signer = expected_root
    /\ mat \in Conforming

-----------------------------------------------------------------------------
(* The dialer. *)

Free(c) == conns[c].wait = "no" /\ conns[c].net = "none"

(* A TLS session with whoever answers at the import's endpoint hint, and   *)
(* the hello on it.  A hint carries no trust: another endpoint may answer. *)
dial_introduction(e, r, c, at) ==
    /\ Free(c)
    /\ imports[e][r].live
    /\ conns' = [conns EXCEPT ![c] =
                   [Idle EXCEPT !.dialer = e, !.root = r, !.at = at,
                                !.epoch = imports[e][r].epoch,
                                !.net = "hello", !.wait = "material"]]
    /\ UNCHANGED <<tables, material>>

(* `peer ping`: the introduction runs whatever is pinned. *)
PeerPing(e, r, c) == dial_introduction(e, r, c, r) /\ UNCHANGED faults

(* The first send to an imported peer: an active peer needs no introduction *)
(* and a suspended one is refused.                                         *)
resolve_performer(e, r, c) ==
    /\ peers[e][r].status = "none"
    /\ dial_introduction(e, r, c, r)
    /\ UNCHANGED faults

(* A connection both halves are done with: only its history remains. *)
Closed(conn) == [Idle EXCEPT !.dpin = conn.dpin, !.rpin = conn.rpin]

(* The dialer is done with the connection, whatever ended it; a request    *)
(* already on its way may still be answered.                               *)
Left(conn) == IF conn.net \in {"hello", "complete"}
              THEN [conn EXCEPT !.wait = "no"] ELSE Closed(conn)

(* Flight 2 arrived: verify the responder before disclosing anything.  A   *)
(* session the responder lost in a restart takes no second request.        *)
DialerVerifies(c) ==
    /\ conns[c].wait = "material"
    /\ conns[c].net = "material"
    /\ conns' = [conns EXCEPT ![c] =
                   IF verify_introduction(@.root, @.at, @.rmat) /\ @.slot = "Pending"
                   THEN [@ EXCEPT !.wait = "ack", !.net = "complete",
                                  !.dmat = material[conns[c].dialer]]
                   ELSE Left(@)]
    /\ UNCHANGED <<tables, material, faults>>

DialerRefused(c) ==
    /\ conns[c].wait # "no"
    /\ conns[c].net = "refused"
    /\ conns' = [conns EXCEPT ![c] = Left(@)]
    /\ UNCHANGED <<tables, material, faults>>

(* The ack: commit under the epoch the dial started from. *)
DialerCommits(c) ==
    /\ conns[c].wait = "ack"
    /\ conns[c].net = "ack"
    /\ \E outcome \in Outcomes :
         /\ commit_introduced_peer(conns[c].dialer, conns[c].root, conns[c].epoch,
                                   conns[c].rmat, outcome)
         /\ conns' = [conns EXCEPT ![c] =
                        Left([@ EXCEPT !.dpin = outcome \in Pinned])]
    /\ UNCHANGED <<imports, knocks, material, faults>>

-----------------------------------------------------------------------------
(* The responder.  One hello, one complete, then the connection closes. *)

Answer(c, conn) == conns' = [conns EXCEPT ![c] =
    IF conn.wait = "no" THEN Closed(conn) ELSE conn]

(* Admission: the target is this endpoint and the claimed root is imported, *)
(* with the epoch snapshotted for the commit; the proof goes out first.    *)
RespondHello(c) ==
    LET conn == conns[c]
        me == conn.at
        row == imports[me][conn.dialer]
    IN
    /\ conn.net = "hello"
    /\ conn.slot = "Fresh"
    /\ \/ /\ conn.root # me
          /\ record_knock(me, conn.dialer, "wrong-target")
          /\ Answer(c, [conn EXCEPT !.net = "refused", !.slot = "Done"])
       \/ /\ conn.root = me
          /\ ~row.live
          /\ record_knock(me, conn.dialer, "not-imported")
          /\ Answer(c, [conn EXCEPT !.net = "refused", !.slot = "Done"])
       \/ /\ conn.root = me
          /\ row.live
          /\ Answer(c, [conn EXCEPT !.net = "material", !.slot = "Pending",
                                    !.repoch = row.epoch, !.rmat = material[me]])
          /\ UNCHANGED knocks
    /\ UNCHANGED <<imports, peers, peer_keys, material, faults>>

Reply_Always(outcome) == "ack"
Reply_NewOnly(outcome) == IF outcome = "Committed" THEN "ack" ELSE "refused"

(* A pinned peer is acknowledged; a suspended or stale one gets a problem. *)
Reply(outcome) == IF outcome \in Pinned THEN "ack" ELSE "refused"

(* Verify, then commit against the epoch of the admission.               *)
RespondComplete(c) ==
    LET conn == conns[c]
        me == conn.at
        close(net, pin) == [conn EXCEPT !.net = net, !.slot = "Done", !.rpin = pin]
    IN
    /\ conn.net = "complete"
    /\ conn.slot = "Pending"
    /\ \/ /\ ~verify_introduction(conn.dialer, conn.dialer, conn.dmat)
          /\ record_knock(me, conn.dialer, "bad-proof")
          /\ Answer(c, close("refused", FALSE))
          /\ UNCHANGED <<peers, peer_keys>>
       \/ /\ verify_introduction(conn.dialer, conn.dialer, conn.dmat)
          /\ \E outcome \in Outcomes :
               /\ commit_introduced_peer(me, conn.dialer, conn.repoch, conn.dmat, outcome)
               /\ Answer(c, close(Reply(outcome), outcome \in Pinned))
          /\ UNCHANGED knocks
    /\ UNCHANGED <<imports, material, faults>>

-----------------------------------------------------------------------------
(* What goes wrong around them. *)

Fault == faults < MaxFaults /\ faults' = faults + 1

(* The hint leads to another endpoint. *)
Misroute(e, r, c, at) ==
    /\ at # r
    /\ Fault
    /\ dial_introduction(e, r, c, at)

(* The 20 s ceiling of a dial; its request may still reach the responder. *)
GiveUp(c) ==
    /\ Fault
    /\ conns[c].wait # "no"
    /\ conns' = [conns EXCEPT ![c] = Left(@)]
    /\ UNCHANGED <<tables, material>>

(* The connection breaks with whatever was on it. *)
Break(c) ==
    /\ Fault
    /\ conns[c].net # "none"
    /\ conns' = [conns EXCEPT ![c] = Closed(@)]
    /\ UNCHANGED <<tables, material>>

(* The responder's store call fails: a 500, and nothing committed. *)
StoreFails(c) ==
    /\ Fault
    /\ conns[c].net \in {"hello", "complete"}
    /\ Answer(c, [conns[c] EXCEPT !.net = "refused", !.slot = "Done"])
    /\ UNCHANGED <<tables, material>>

(* An endpoint restarts, perhaps with another configuration.  Its halves   *)
(* of the connections are gone; what it sent before may still arrive.      *)
Restart(e, m) ==
    /\ Fault
    /\ material' = [material EXCEPT ![e] = m]
    /\ conns' = [c \in Conns |->
         LET conn == conns[c]
         IN  IF conn.at = e /\ conn.net \in {"hello", "complete"} THEN Closed(conn)
             ELSE IF conn.dialer = e THEN Left(conn)
             ELSE IF conn.at = e THEN [conn EXCEPT !.slot = "Done"]
             ELSE conn]
    /\ UNCHANGED tables

Next ==
    \/ \E e, r \in Endpoints :
         \/ Import(e, r)
         \/ Remove(e, r)
         \/ \E c \in Conns : PeerPing(e, r, c) \/ resolve_performer(e, r, c)
         \/ \E c \in Conns, at \in Endpoints : Misroute(e, r, c, at)
    \/ \E c \in Conns :
         \/ DialerVerifies(c) \/ DialerRefused(c) \/ DialerCommits(c)
         \/ RespondHello(c) \/ RespondComplete(c)
         \/ GiveUp(c) \/ Break(c) \/ StoreFails(c)
    \/ \E e \in Endpoints, m \in Materials : Restart(e, m)

Spec == Init /\ [][Next]_vars

(* Messages arrive and handlers run; nothing obliges an operator. *)
Handles(c) == \/ DialerVerifies(c) \/ DialerRefused(c) \/ DialerCommits(c)
              \/ RespondHello(c) \/ RespondComplete(c)
FairSpec == Spec /\ \A c \in Conns : WF_vars(Handles(c))

-----------------------------------------------------------------------------
(* An introduction that began before the relationship was removed never     *)
(* pins anything, even when the root has been imported again since: the    *)
(* epoch the two halves compare was snapshotted before the removal.        *)
NoStaleCommit ==
    [][\A c \in Conns :
         /\ ~conns[c].dpin /\ conns'[c].dpin => ~conns[c].dcut
         /\ ~conns[c].rpin /\ conns'[c].rpin => ~conns[c].rcut]_vars

(* A dialer pins its peer only after that very peer pinned the dialer on    *)
(* the same connection: the ack is sent for a commit and for nothing else. *)
DialerPinsAfterResponder ==
    [][\A c \in Conns :
         ~conns[c].dpin /\ conns'[c].dpin =>
            conns[c].rpin /\ conns[c].at = conns[c].root]_vars

(* What is pinned stays as it was pinned, and what is suspended stays       *)
(* suspended, until the operator removes the relationship: no repeated     *)
(* introduction re-pins changed material or lifts a suspension.            *)
RepinNeedsRemoval ==
    [][\A e, r \in Endpoints :
         peers[e][r].status # "none" /\ peers'[e][r].status # "none" =>
            /\ peers'[e][r].mat = peers[e][r].mat
            /\ peers[e][r].status = "suspended" => peers'[e][r].status = "suspended"]_vars

(* A removed relationship leaves nothing behind and nothing comes back      *)
(* without an import: pins and verification keys exist together, behind    *)
(* live imports only, so the receive path admits nobody else.              *)
RemovedIsForgotten ==
    \A e, r \in Endpoints :
        /\ r \in peer_keys[e] <=> peers[e][r].status # "none"
        /\ r \in peer_keys[e] => imports[e][r].live

(* Both imported each other, nobody is suspended, and both present what     *)
(* the other has pinned or could pin.                                      *)
Undisturbed(e, r) ==
    /\ imports[e][r].live /\ imports[r][e].live
    /\ material[e] \in Conforming /\ material[r] \in Conforming
    /\ peers[e][r].status # "suspended" /\ peers[r][e].status # "suspended"
    /\ peers[e][r].mat \in {material[r], NoMaterial}
    /\ peers[r][e].mat \in {material[e], NoMaterial}

(* A half-finished introduction heals: whatever was lost (the ack with the  *)
(* responder already committed, a restart, a timeout), an operator who     *)
(* pings again until it works ends with both sides active.                 *)
HealsByRetry ==
    \A e, r \in Endpoints :
        ( /\ e # r
          /\ WF_vars(\E c \in Conns : PeerPing(e, r, c))
          /\ <>[]Undisturbed(e, r) )
        => <>(r \in resolve(e) /\ e \in resolve(r))
=============================================================================
