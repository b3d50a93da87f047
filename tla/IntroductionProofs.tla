------------------------- MODULE IntroductionProofs -------------------------
(***************************************************************************)
(* Proofs about Introduction, for every set of endpoints, connections and  *)
(* materials, and every bound.                                             *)
(***************************************************************************)
EXTENDS Introduction, FiniteSetTheorems, TLAPS

(* The tables and connections have their types; the cap of the knock log   *)
(* is apart, since only record_knock can disturb it.                       *)
TableTypes ==
    /\ imports \in [Endpoints -> [Endpoints -> ImportRow]]
    /\ peers \in [Endpoints -> [Endpoints -> Pin]]
    /\ peer_keys \in [Endpoints -> SUBSET Endpoints]
    /\ material \in [Endpoints -> Materials]
    /\ faults \in 0..MaxFaults

KnockInv ==
    /\ knocks \in [Endpoints -> SUBSET Knock]
    /\ \A e \in Endpoints : IsFiniteSet(knocks[e]) /\ Cardinality(knocks[e]) <= KnockCap

(* A connection in use names its endpoints; its responder was cut off only *)
(* after admission, admitted a hello that was for it, and acknowledged     *)
(* what it had pinned.                                                     *)
InUse(conn) == conn.net # "none" \/ conn.wait # "no" \/ conn.slot # "Fresh"
ConnInv(conn) ==
    /\ conn \in Conn
    /\ InUse(conn) => conn.dialer \in Endpoints /\ conn.root \in Endpoints /\ conn.at \in Endpoints
    /\ conn.at \in Endpoints => conn.dialer \in Endpoints /\ conn.root \in Endpoints
    /\ conn.slot = "Fresh" => ~conn.rcut
    /\ conn.slot = "Pending" => conn.at = conn.root
    /\ conn.net = "ack" => conn.rpin /\ conn.at = conn.root

(* The epoch of an open half is not ahead of the import's, and behind it   *)
(* once the relationship was removed.                                      *)
EpochInv(conn, rows) ==
    /\ conn.wait # "no" =>
         /\ conn.epoch <= rows[conn.dialer][conn.root].epoch
         /\ conn.dcut => conn.epoch < rows[conn.dialer][conn.root].epoch
    /\ conn.slot = "Pending" =>
         /\ conn.repoch <= rows[conn.at][conn.dialer].epoch
         /\ conn.rcut => conn.repoch < rows[conn.at][conn.dialer].epoch

ConnsInv ==
    /\ conns = [c \in Conns |-> conns[c]]
    /\ \A c \in Conns : ConnInv(conns[c]) /\ EpochInv(conns[c], imports)

IInv == TableTypes /\ KnockInv /\ ConnsInv /\ RemovedIsForgotten

-----------------------------------------------------------------------------
(* One connection. *)

(* A connection nobody uses is in order. *)
LEMMA IdleInv ==
    /\ ConnInv(Idle)
    /\ \A rows : EpochInv(Idle, rows)
  BY IntroductionAssumption DEF ConnInv, EpochInv, Idle, InUse, Conn

(* So is one that both halves are done with (Closed). *)
LEMMA ClosedInv ==
    ASSUME NEW conn, ConnInv(conn)
    PROVE  /\ ConnInv(Closed(conn))
           /\ \A rows : EpochInv(Closed(conn), rows)
           /\ Closed(conn).dpin = conn.dpin
           /\ Closed(conn).rpin = conn.rpin
<1>1. conn.dpin \in BOOLEAN /\ conn.rpin \in BOOLEAN
  BY DEF ConnInv, Conn
<1>2. Idle \in Conn
  BY IdleInv DEF ConnInv
<1>3. Closed(conn) \in Conn
  BY <1>1, <1>2, Zenon DEF Closed, Conn
<1>4. QED
  BY <1>1, <1>3, IntroductionAssumption DEF ConnInv, EpochInv, InUse, Closed, Idle

(* And one its dialer left (Left). *)
LEMMA LeftInv ==
    ASSUME NEW conn, NEW rows, ConnInv(conn), EpochInv(conn, rows)
    PROVE  /\ ConnInv(Left(conn))
           /\ EpochInv(Left(conn), rows)
           /\ Left(conn).dpin = conn.dpin
           /\ Left(conn).rpin = conn.rpin
<1>1. CASE conn.net \in {"hello", "complete"}
  <2>1. Left(conn) = [conn EXCEPT !.wait = "no"]
    BY <1>1 DEF Left
  <2>2. conn \in Conn
    BY DEF ConnInv
  <2>3. [conn EXCEPT !.wait = "no"] \in Conn
    BY <2>2 DEF Conn
  <2>4. /\ [conn EXCEPT !.wait = "no"].dialer = conn.dialer
        /\ [conn EXCEPT !.wait = "no"].root = conn.root
        /\ [conn EXCEPT !.wait = "no"].at = conn.at
        /\ [conn EXCEPT !.wait = "no"].net = conn.net
        /\ [conn EXCEPT !.wait = "no"].wait = "no"
        /\ [conn EXCEPT !.wait = "no"].slot = conn.slot
        /\ [conn EXCEPT !.wait = "no"].repoch = conn.repoch
        /\ [conn EXCEPT !.wait = "no"].rcut = conn.rcut
        /\ [conn EXCEPT !.wait = "no"].dpin = conn.dpin
        /\ [conn EXCEPT !.wait = "no"].rpin = conn.rpin
    BY <2>2 DEF Conn
  <2>5. QED
    BY <1>1, <2>1, <2>3, <2>4 DEF ConnInv, EpochInv, InUse
<1>2. CASE conn.net \notin {"hello", "complete"}
  BY <1>2, ClosedInv DEF Left
<1>3. QED
  BY <1>1, <1>2

(* The responder's answer to a request (Answer): the connection it leaves   *)
(* is the answered one, or closed when the dialer is gone.                 *)
LEMMA AnswerInv ==
    ASSUME NEW c \in Conns, NEW conn, ConnInv(conn), EpochInv(conn, imports),
           Answer(c, conn)
    PROVE  \E new : /\ conns' = [conns EXCEPT ![c] = new]
                    /\ ConnInv(new) /\ EpochInv(new, imports)
                    /\ new.dpin = conn.dpin /\ new.rpin = conn.rpin
<1>1. CASE conn.wait = "no"
  BY <1>1, ClosedInv, Zenon DEF Answer
<1>2. CASE conn.wait # "no"
  BY <1>2, Zenon DEF Answer
<1>3. QED
  BY <1>1, <1>2

-----------------------------------------------------------------------------
(* The commit. *)

(* What the compare-and-swap answers says what it found: a pin needs the    *)
(* live import of the expected epoch, and a pinned peer is left as it was. *)
LEMMA OutcomeFacts ==
    ASSUME NEW row, NEW pin \in Pin, NEW expected_epoch, NEW mat, NEW outcome,
           outcome = CommitOutcome(row, pin, expected_epoch, mat)
    PROVE  /\ outcome \in Pinned =>
                /\ row.live /\ row.epoch = expected_epoch
                /\ pin.status # "none" => pin.mat = mat /\ pin.status = "active"
           /\ outcome = "Suspended" => row.live /\ pin.status # "none"
           /\ outcome \in Pinned => outcome # "Suspended"
  BY DEF CommitOutcome, Pinned, detect_change, Pin

(* No step re-pins a pinned peer or lifts its suspension. *)
KeepsPins ==
    \A e, r \in Endpoints :
        peers[e][r].status # "none" /\ peers'[e][r].status # "none" =>
            /\ peers'[e][r].mat = peers[e][r].mat
            /\ peers[e][r].status = "suspended" => peers'[e][r].status = "suspended"

(* A pin is made under the epoch its half began with (commit_introduced_peer). *)
LEMMA PinNeedsEpoch ==
    ASSUME TableTypes, NEW e \in Endpoints, NEW r \in Endpoints, NEW expected_epoch, NEW mat,
           NEW outcome \in Pinned, commit_introduced_peer(e, r, expected_epoch, mat, outcome)
    PROVE  imports[e][r].epoch = expected_epoch
<1> PICK pin \in Pin : pin = peers[e][r]
  BY DEF TableTypes
<1> PICK row : row = imports[e][r]
  OBVIOUS
<1>1. outcome = CommitOutcome(row, pin, expected_epoch, mat)
  BY DEF commit_introduced_peer
<1>2. QED
  BY <1>1, OutcomeFacts

(* The transaction of an introduction (commit_introduced_peer). *)
LEMMA CommitEffect ==
    ASSUME TableTypes, RemovedIsForgotten,
           NEW e \in Endpoints, NEW r \in Endpoints, NEW expected_epoch,
           NEW mat \in Materials \cup {NoMaterial}, NEW outcome \in Outcomes,
           commit_introduced_peer(e, r, expected_epoch, mat, outcome),
           imports' = imports
    PROVE  /\ peers' \in [Endpoints -> [Endpoints -> Pin]]
           /\ peer_keys' \in [Endpoints -> SUBSET Endpoints]
           /\ RemovedIsForgotten'
           /\ KeepsPins
<1> PICK pin \in Pin : pin = peers[e][r]
  BY DEF TableTypes
<1> PICK row \in ImportRow : row = imports[e][r]
  BY DEF TableTypes
<1>1. outcome = CommitOutcome(row, pin, expected_epoch, mat)
  BY DEF commit_introduced_peer
<1>2. /\ outcome \in Pinned =>
           /\ row.live /\ row.epoch = expected_epoch
           /\ pin.status # "none" => pin.mat = mat /\ pin.status = "active"
      /\ outcome = "Suspended" => row.live /\ pin.status # "none"
      /\ outcome \in Pinned => outcome # "Suspended"
  BY <1>1, OutcomeFacts
<1>3. /\ pin.status \in {"none", "active", "suspended"}
      /\ pin.mat \in Materials \cup {NoMaterial}
      /\ [pin EXCEPT !.status = "suspended"] \in Pin
      /\ [pin EXCEPT !.status = "suspended"].status = "suspended"
      /\ [pin EXCEPT !.status = "suspended"].mat = pin.mat
  BY DEF Pin
<1>4. [status |-> "active", mat |-> mat] \in Pin
  BY DEF Pin
<1>5. CASE outcome \in Pinned
  <2>1. peers' = [peers EXCEPT ![e][r] = [status |-> "active", mat |-> mat]]
    BY <1>5, <1>2 DEF commit_introduced_peer
  <2>2. peer_keys' = [peer_keys EXCEPT ![e] = @ \cup {r}]
    BY <1>5 DEF commit_introduced_peer
  <2>3. /\ peers' \in [Endpoints -> [Endpoints -> Pin]]
        /\ peer_keys' \in [Endpoints -> SUBSET Endpoints]
    BY <2>1, <2>2, <1>4 DEF TableTypes
  <2>4. RemovedIsForgotten'
    BY <1>2, <1>5, <2>1, <2>2 DEF RemovedIsForgotten, TableTypes
  <2>5. KeepsPins
    BY <1>2, <1>5, <2>1 DEF KeepsPins, TableTypes
  <2>6. QED
    BY <1>2, <1>5, <2>3, <2>4, <2>5
<1>6. CASE outcome = "Suspended"
  <2>1. peers' = [peers EXCEPT ![e][r] = [pin EXCEPT !.status = "suspended"]]
    BY <1>6, <1>2 DEF commit_introduced_peer, TableTypes
  <2>2. peer_keys' = peer_keys
    BY <1>6, <1>2 DEF commit_introduced_peer, TableTypes
  <2>3. peers' \in [Endpoints -> [Endpoints -> Pin]]
    BY <2>1, <1>3 DEF TableTypes
  <2>4. RemovedIsForgotten'
    BY <1>2, <1>3, <1>6, <2>1, <2>2 DEF RemovedIsForgotten, TableTypes
  <2>5. KeepsPins
    BY <1>3, <2>1 DEF KeepsPins, TableTypes
  <2>6. QED
    BY <1>2, <1>6, <2>2, <2>3, <2>4, <2>5 DEF TableTypes
<1>7. CASE outcome \notin Pinned /\ outcome # "Suspended"
  <2>1. peers' = peers
    BY <1>7 DEF commit_introduced_peer, TableTypes
  <2>2. peer_keys' = peer_keys
    BY <1>7 DEF commit_introduced_peer, TableTypes
  <2>3. QED
    BY <1>7, <2>1, <2>2 DEF TableTypes, RemovedIsForgotten, KeepsPins
<1>8. QED
  BY <1>5, <1>6, <1>7

-----------------------------------------------------------------------------
(* The steps of one connection.  A half that pins was not cut off, and a   *)
(* dialer that pins was acknowledged by the root it dialed.                *)
HonestPin(old, new) ==
    /\ ~old.dpin /\ new.dpin => ~old.dcut /\ old.rpin /\ old.at = old.root
    /\ ~old.rpin /\ new.rpin => ~old.rcut

(* A step that replaces connection c by one in order. *)
Replaces(c) ==
    \E new : /\ conns' = [conns EXCEPT ![c] = new]
             /\ ConnInv(new) /\ EpochInv(new, imports)
             /\ HonestPin(conns[c], new)

(* Such a step keeps all connections in order. *)
LEMMA ReplacesInv ==
    ASSUME ConnsInv, NEW c \in Conns, Replaces(c), imports' = imports
    PROVE  /\ ConnsInv'
           /\ \A d \in Conns : HonestPin(conns[d], conns'[d])
<1>1. PICK new : /\ conns' = [conns EXCEPT ![c] = new]
                 /\ ConnInv(new) /\ EpochInv(new, imports)
                 /\ HonestPin(conns[c], new)
  BY Zenon DEF Replaces
<1>2. \A d \in Conns : conns'[d] = IF d = c THEN new ELSE conns[d]
  BY <1>1 DEF ConnsInv
<1>3. conns' = [d \in Conns |-> conns'[d]]
  BY <1>1 DEF ConnsInv
<1>4. \A d \in Conns : ConnInv(conns'[d]) /\ EpochInv(conns'[d], imports')
  BY <1>1, <1>2 DEF ConnsInv
<1>5. \A d \in Conns : HonestPin(conns[d], conns'[d])
  BY <1>1, <1>2 DEF HonestPin
<1>6. QED
  BY <1>3, <1>4, <1>5 DEF ConnsInv

(* A dial (dial_introduction) opens with the epoch of the live import. *)
LEMMA DialReplaces ==
    ASSUME TableTypes, ConnsInv, NEW e \in Endpoints, NEW r \in Endpoints, NEW c \in Conns,
           NEW at \in Endpoints, dial_introduction(e, r, c, at)
    PROVE  Replaces(c)
<1> PICK n \in 0..MaxEpoch : n = imports[e][r].epoch
  BY DEF TableTypes, ImportRow
<1> DEFINE new == [Idle EXCEPT !.dialer = e, !.root = r, !.at = at, !.epoch = n,
                               !.net = "hello", !.wait = "material"]
<1>1. conns' = [conns EXCEPT ![c] = new]
  BY DEF dial_introduction
<1>2. Idle \in Conn
  BY IdleInv DEF ConnInv
<1>3. new \in Conn
  BY <1>2, Zenon DEF Conn
<1>4. /\ new.dialer = e /\ new.root = r /\ new.at = at /\ new.epoch = n
      /\ new.net = "hello" /\ new.wait = "material" /\ new.slot = "Fresh"
      /\ new.dcut = FALSE /\ new.rcut = FALSE /\ new.dpin = FALSE /\ new.rpin = FALSE
  BY DEF Idle
<1>5. ConnInv(new)
  BY <1>3, <1>4 DEF ConnInv
<1>6. EpochInv(new, imports)
  BY <1>4 DEF EpochInv
<1>7. HonestPin(conns[c], new)
  BY <1>4 DEF HonestPin
<1>8. QED
  BY <1>1, <1>5, <1>6, <1>7, Zenon DEF Replaces

(* A dialer that is done, and a broken connection, pin nothing. *)
LEMMA LeavesReplaces ==
    ASSUME ConnsInv, NEW c \in Conns,
           \/ conns' = [conns EXCEPT ![c] = Left(@)]
           \/ conns' = [conns EXCEPT ![c] = Closed(@)]
    PROVE  Replaces(c)
<1> PICK old : old = conns[c]
  OBVIOUS
<1>1. ConnInv(old) /\ EpochInv(old, imports)
  BY DEF ConnsInv
<1>2. CASE conns' = [conns EXCEPT ![c] = Left(@)]
  <2>1. conns' = [conns EXCEPT ![c] = Left(old)]
    BY <1>2 DEF ConnsInv
  <2>2. QED
    BY <1>1, <2>1, LeftInv, Zenon DEF Replaces, HonestPin
<1>3. CASE conns' = [conns EXCEPT ![c] = Closed(@)]
  <2>1. conns' = [conns EXCEPT ![c] = Closed(old)]
    BY <1>3 DEF ConnsInv
  <2>2. QED
    BY <1>1, <2>1, ClosedInv, Zenon DEF Replaces, HonestPin
<1>4. QED
  BY <1>2, <1>3

(* A membership is a Boolean value. *)
LEMMA MembershipIsBoolean ==
    ASSUME NEW x, NEW S
    PROVE  \E b \in BOOLEAN : b = (x \in S)
<1>1. (x \in S) \in BOOLEAN
  BY SMT
<1>2. QED
  BY <1>1, Zenon

(* The edits the two ends make to their connection keep its type. *)
LEMMA ConnEdits ==
    ASSUME NEW old \in Conn
    PROVE  /\ \A mat \in Materials :
                [old EXCEPT !.wait = "ack", !.net = "complete", !.dmat = mat] \in Conn
           /\ [old EXCEPT !.net = "refused", !.slot = "Done"] \in Conn
           /\ \A n \in 0..MaxEpoch, mat \in Materials :
                [old EXCEPT !.net = "material", !.slot = "Pending", !.repoch = n, !.rmat = mat]
                   \in Conn
           /\ \A b \in BOOLEAN, net \in {"ack", "refused"} :
                [old EXCEPT !.net = net, !.slot = "Done", !.rpin = b] \in Conn
           /\ \A b \in BOOLEAN : [old EXCEPT !.dpin = b] \in Conn
<1>1. \A mat \in Materials :
         [old EXCEPT !.wait = "ack", !.net = "complete", !.dmat = mat] \in Conn
  BY Zenon DEF Conn
<1>2. [old EXCEPT !.net = "refused", !.slot = "Done"] \in Conn
  BY Zenon DEF Conn
<1>3. \A n \in 0..MaxEpoch, mat \in Materials :
         [old EXCEPT !.net = "material", !.slot = "Pending", !.repoch = n, !.rmat = mat] \in Conn
  BY Zenon DEF Conn
<1>4. \A b \in BOOLEAN, net \in {"ack", "refused"} :
         [old EXCEPT !.net = net, !.slot = "Done", !.rpin = b] \in Conn
  BY ZenonT(30) DEF Conn
<1>5. \A b \in BOOLEAN : [old EXCEPT !.dpin = b] \in Conn
  BY DEF Conn
<1>6. QED
  BY <1>1, <1>2, <1>3, <1>4, <1>5, Zenon

(* The dialer's check of flight 2 (DialerVerifies). *)
LEMMA VerifiesReplaces ==
    ASSUME TableTypes, ConnsInv, NEW c \in Conns, DialerVerifies(c)
    PROVE  Replaces(c)
<1> PICK old : old = conns[c]
  OBVIOUS
<1>1. ConnInv(old) /\ EpochInv(old, imports) /\ old \in Conn
  BY DEF ConnsInv, ConnInv
<1>2. old.wait = "material" /\ old.net = "material"
  BY DEF DialerVerifies
<1>3. old.dialer \in Endpoints
  BY <1>1, <1>2 DEF ConnInv, InUse
<1> PICK mat \in Materials : mat = material[old.dialer]
  BY <1>3 DEF TableTypes
<1> DEFINE new == [old EXCEPT !.wait = "ack", !.net = "complete", !.dmat = mat]
<1>4. conns' = [conns EXCEPT ![c] = new] \/ conns' = [conns EXCEPT ![c] = Left(@)]
  BY Zenon DEF DialerVerifies, ConnsInv
<1>5. CASE conns' = [conns EXCEPT ![c] = new]
  <2>1. new \in Conn
    BY <1>1, ConnEdits, Zenon
  <2>2. /\ new.dialer = old.dialer /\ new.root = old.root /\ new.at = old.at
        /\ new.epoch = old.epoch /\ new.net = "complete" /\ new.wait = "ack"
        /\ new.slot = old.slot /\ new.repoch = old.repoch
        /\ new.dcut = old.dcut /\ new.rcut = old.rcut
        /\ new.dpin = old.dpin /\ new.rpin = old.rpin
    BY <1>1 DEF Conn
  <2>3. ConnInv(new)
    BY <1>1, <1>2, <2>1, <2>2, SMTT(30) DEF ConnInv, InUse
  <2>4. EpochInv(new, imports)
    BY <1>1, <1>2, <2>2, Zenon DEF EpochInv
  <2>5. HonestPin(conns[c], new)
    BY <2>2 DEF HonestPin
  <2>6. QED
    BY <1>5, <2>3, <2>4, <2>5, Zenon DEF Replaces
<1>6. CASE conns' = [conns EXCEPT ![c] = Left(@)]
  BY <1>6, LeavesReplaces, Zenon
<1>7. QED
  BY <1>4, <1>5, <1>6

(* The dialer's commit (DialerCommits): the epoch of an open half that was  *)
(* cut off is behind, so the compare-and-swap refuses it.                  *)
LEMMA DialerCommitsReplaces ==
    ASSUME TableTypes, RemovedIsForgotten, ConnsInv, NEW c \in Conns, DialerCommits(c)
    PROVE  /\ Replaces(c)
           /\ peers' \in [Endpoints -> [Endpoints -> Pin]]
           /\ peer_keys' \in [Endpoints -> SUBSET Endpoints]
           /\ RemovedIsForgotten'
           /\ KeepsPins
<1> PICK old : old = conns[c]
  OBVIOUS
<1>1. ConnInv(old) /\ EpochInv(old, imports) /\ old \in Conn
  BY DEF ConnsInv, ConnInv
<1>2. old.wait = "ack" /\ old.net = "ack" /\ imports' = imports
  BY DEF DialerCommits
<1>3. old.dialer \in Endpoints /\ old.root \in Endpoints
  BY <1>1, <1>2 DEF ConnInv, InUse
<1>4. old.rmat \in Materials \cup {NoMaterial} /\ old.epoch \in 0..MaxEpoch
  BY <1>1 DEF Conn
<1>5. PICK outcome \in Outcomes :
        /\ commit_introduced_peer(old.dialer, old.root, old.epoch, old.rmat, outcome)
        /\ conns' = [conns EXCEPT ![c] = Left([@ EXCEPT !.dpin = outcome \in Pinned])]
  BY Zenon DEF DialerCommits
<1>6. /\ peers' \in [Endpoints -> [Endpoints -> Pin]]
      /\ peer_keys' \in [Endpoints -> SUBSET Endpoints]
      /\ RemovedIsForgotten'
      /\ KeepsPins
      /\ outcome \in Pinned => imports[old.dialer][old.root].epoch = old.epoch
  <2>1. commit_introduced_peer(old.dialer, old.root, old.epoch, old.rmat, outcome)
    BY <1>5
  <2>2. imports' = imports
    BY <1>2
  <2>3. /\ peers' \in [Endpoints -> [Endpoints -> Pin]]
        /\ peer_keys' \in [Endpoints -> SUBSET Endpoints]
    BY <1>3, <1>4, <2>1, <2>2, CommitEffect, Zenon
  <2>4. RemovedIsForgotten' /\ KeepsPins
    BY <1>3, <1>4, <2>1, <2>2, CommitEffect, Zenon
  <2>5. outcome \in Pinned => imports[old.dialer][old.root].epoch = old.epoch
    BY <1>3, <2>1, PinNeedsEpoch
  <2>6. QED
    BY <2>3, <2>4, <2>5
<1> PICK pinned \in BOOLEAN : pinned = (outcome \in Pinned)
  BY MembershipIsBoolean
<1> DEFINE mid == [old EXCEPT !.dpin = pinned]
<1>7. conns' = [conns EXCEPT ![c] = Left(mid)]
  BY <1>5 DEF ConnsInv
<1>8. mid \in Conn
  BY <1>1, ConnEdits, Zenon
<1>9. /\ mid.dialer = old.dialer /\ mid.root = old.root /\ mid.at = old.at
      /\ mid.epoch = old.epoch /\ mid.net = old.net /\ mid.wait = old.wait
      /\ mid.slot = old.slot /\ mid.repoch = old.repoch
      /\ mid.dcut = old.dcut /\ mid.rcut = old.rcut
      /\ mid.dpin = pinned /\ mid.rpin = old.rpin
  BY <1>1, SMTT(30) DEF Conn
<1>10. ConnInv(mid) /\ EpochInv(mid, imports)
  BY <1>1, <1>8, <1>9, Zenon DEF ConnInv, EpochInv, InUse
<1>11. ConnInv(Left(mid)) /\ EpochInv(Left(mid), imports)
       /\ Left(mid).dpin = mid.dpin /\ Left(mid).rpin = mid.rpin
  BY <1>10, LeftInv, Zenon
<1>12. outcome \in Pinned => ~old.dcut /\ old.rpin /\ old.at = old.root
  <2>1. ASSUME outcome \in Pinned, old.dcut PROVE FALSE
    <3>1. old.epoch < imports[old.dialer][old.root].epoch
      BY <1>1, <1>2, <2>1 DEF EpochInv
    <3>2. QED
      BY <1>4, <1>6, <2>1, <3>1, IntroductionAssumption
  <2>2. QED
    BY <1>1, <1>2, <2>1 DEF ConnInv
<1>13. HonestPin(old, Left(mid))
  BY <1>9, <1>11, <1>12, Zenon DEF HonestPin
<1>14. QED
  BY <1>6, <1>7, <1>11, <1>13, Zenon DEF Replaces

(* The responder's admission (RespondHello): what it admits is for it, and  *)
(* the epoch it snapshots is the import's.                                 *)
LEMMA HelloReplaces ==
    ASSUME TableTypes, ConnsInv, NEW c \in Conns, RespondHello(c)
    PROVE  Replaces(c)
<1> PICK old : old = conns[c]
  OBVIOUS
<1>1. ConnInv(old) /\ EpochInv(old, imports) /\ old \in Conn
  BY DEF ConnsInv, ConnInv
<1>2. old.net = "hello" /\ old.slot = "Fresh"
  BY DEF RespondHello
<1>3. old.dialer \in Endpoints /\ old.root \in Endpoints /\ old.at \in Endpoints /\ ~old.rcut
  BY <1>1, <1>2 DEF ConnInv, InUse
<1> PICK n \in 0..MaxEpoch : n = imports[old.at][old.dialer].epoch
  BY <1>3 DEF TableTypes, ImportRow
<1> PICK mat \in Materials : mat = material[old.at]
  BY <1>3, SMTT(30) DEF TableTypes
<1> DEFINE refused == [old EXCEPT !.net = "refused", !.slot = "Done"]
           admitted == [old EXCEPT !.net = "material", !.slot = "Pending", !.repoch = n, !.rmat = mat]
<1>4. Answer(c, refused) \/ (old.root = old.at /\ Answer(c, admitted))
  BY Zenon DEF RespondHello
<1>5. CASE Answer(c, refused)
  <2>1. refused \in Conn
    BY <1>1, ConnEdits, Zenon
  <2>2. /\ refused.dialer = old.dialer /\ refused.root = old.root /\ refused.at = old.at
        /\ refused.epoch = old.epoch /\ refused.wait = old.wait /\ refused.dcut = old.dcut
        /\ refused.net = "refused" /\ refused.slot = "Done"
        /\ refused.dpin = old.dpin /\ refused.rpin = old.rpin
    BY <1>1, SMTT(30) DEF Conn
  <2>3. ConnInv(refused) /\ EpochInv(refused, imports)
    BY <1>1, <1>3, <2>1, <2>2, Zenon DEF ConnInv, EpochInv
  <2>4. PICK new : /\ conns' = [conns EXCEPT ![c] = new]
                   /\ ConnInv(new) /\ EpochInv(new, imports)
                   /\ new.dpin = refused.dpin /\ new.rpin = refused.rpin
    BY <1>5, <2>3, AnswerInv, Zenon
  <2>5. QED
    BY <2>2, <2>4, Zenon DEF Replaces, HonestPin
<1>6. CASE old.root = old.at /\ Answer(c, admitted)
  <2>1. admitted \in Conn
    BY <1>1, ConnEdits, Zenon
  <2>2. /\ admitted.dialer = old.dialer /\ admitted.root = old.root /\ admitted.at = old.at
        /\ admitted.epoch = old.epoch /\ admitted.wait = old.wait /\ admitted.dcut = old.dcut
        /\ admitted.net = "material" /\ admitted.slot = "Pending" /\ admitted.repoch = n
        /\ admitted.rcut = old.rcut
        /\ admitted.dpin = old.dpin /\ admitted.rpin = old.rpin
    BY <1>1, Zenon DEF Conn
  <2> HIDE DEF admitted
  <2>3. ConnInv(admitted)
    BY <1>3, <1>6, <2>1, <2>2, Zenon DEF ConnInv
  <2>4. EpochInv(admitted, imports)
    <3>1. admitted.wait # "no" =>
            /\ admitted.epoch <= imports[admitted.dialer][admitted.root].epoch
            /\ admitted.dcut => admitted.epoch < imports[admitted.dialer][admitted.root].epoch
      BY <1>1, <2>2, Zenon DEF EpochInv
    <3>2. n <= n
      BY SMTT(30)
    <3>3. admitted.repoch <= imports[admitted.at][admitted.dialer].epoch
      BY <2>2, <3>2, Zenon
    <3>4. ~admitted.rcut
      BY <1>3, <2>2, Zenon
    <3>5. QED
      BY <3>1, <3>3, <3>4, SMTT(30) DEF EpochInv
  <2>5. PICK new : /\ conns' = [conns EXCEPT ![c] = new]
                   /\ ConnInv(new) /\ EpochInv(new, imports)
                   /\ new.dpin = admitted.dpin /\ new.rpin = admitted.rpin
    BY <1>6, <2>3, <2>4, AnswerInv, ZenonT(30)
  <2>6. QED
    BY <2>2, <2>5, Zenon DEF Replaces, HonestPin
<1>7. QED
  BY <1>4, <1>5, <1>6

(* A failing store call of the responder (StoreFails). *)
LEMMA StoreFailsReplaces ==
    ASSUME ConnsInv, NEW c \in Conns, StoreFails(c)
    PROVE  Replaces(c)
<1> PICK old : old = conns[c]
  OBVIOUS
<1>1. ConnInv(old) /\ EpochInv(old, imports) /\ old \in Conn
  BY DEF ConnsInv, ConnInv
<1> DEFINE refused == [old EXCEPT !.net = "refused", !.slot = "Done"]
<1>2. Answer(c, refused) /\ old.net \in {"hello", "complete"}
  BY DEF StoreFails
<1>3. refused \in Conn
  BY <1>1, ConnEdits, Zenon
<1>4. /\ refused.dialer = old.dialer /\ refused.root = old.root /\ refused.at = old.at
      /\ refused.epoch = old.epoch /\ refused.wait = old.wait /\ refused.dcut = old.dcut
      /\ refused.net = "refused" /\ refused.slot = "Done"
      /\ refused.dpin = old.dpin /\ refused.rpin = old.rpin
  BY <1>1, SMTT(30) DEF Conn
<1>5. ConnInv(refused) /\ EpochInv(refused, imports)
  BY <1>1, <1>2, <1>3, <1>4, Zenon DEF ConnInv, EpochInv, InUse
<1>6. PICK new : /\ conns' = [conns EXCEPT ![c] = new]
                 /\ ConnInv(new) /\ EpochInv(new, imports)
                 /\ new.dpin = refused.dpin /\ new.rpin = refused.rpin
  BY <1>2, <1>5, AnswerInv, Zenon
<1>7. QED
  BY <1>4, <1>6, Zenon DEF Replaces, HonestPin

(* The responder's check and commit (RespondComplete): an admission that    *)
(* was cut off is refused by its epoch, and only a pin is acknowledged.    *)
LEMMA CompleteReplaces ==
    ASSUME TableTypes, RemovedIsForgotten, ConnsInv, NEW c \in Conns, RespondComplete(c)
    PROVE  /\ Replaces(c)
           /\ peers' \in [Endpoints -> [Endpoints -> Pin]]
           /\ peer_keys' \in [Endpoints -> SUBSET Endpoints]
           /\ RemovedIsForgotten'
           /\ KeepsPins
<1> PICK old : old = conns[c]
  OBVIOUS
<1>1. ConnInv(old) /\ EpochInv(old, imports) /\ old \in Conn
  BY DEF ConnsInv, ConnInv
<1>2. old.net = "complete" /\ old.slot = "Pending"
  BY Zenon DEF RespondComplete
<1>3. imports' = imports
  BY Zenon DEF RespondComplete
<1>4. old.dialer \in Endpoints /\ old.root \in Endpoints /\ old.at \in Endpoints /\ old.at = old.root
  BY <1>1, <1>2 DEF ConnInv, InUse
<1>5. old.dmat \in Materials \cup {NoMaterial} /\ old.repoch \in 0..MaxEpoch
  BY <1>1 DEF Conn
<1> DEFINE closed(net, pin) == [old EXCEPT !.net = net, !.slot = "Done", !.rpin = pin]
<1>6. ASSUME NEW net \in {"ack", "refused"}, NEW pin \in BOOLEAN, Answer(c, closed(net, pin)),
             net = "ack" => pin, pin => ~old.rcut
      PROVE  Replaces(c)
  <2>1. closed(net, pin) \in Conn
    BY <1>1, ConnEdits, Zenon
  <2>2. /\ closed(net, pin).dialer = old.dialer /\ closed(net, pin).root = old.root
        /\ closed(net, pin).at = old.at /\ closed(net, pin).epoch = old.epoch
        /\ closed(net, pin).wait = old.wait /\ closed(net, pin).dcut = old.dcut
        /\ closed(net, pin).net = net /\ closed(net, pin).slot = "Done"
        /\ closed(net, pin).dpin = old.dpin /\ closed(net, pin).rpin = pin
    BY <1>1 DEF Conn
  <2>3. ConnInv(closed(net, pin))
    BY <1>4, <1>6, <2>1, <2>2, Zenon DEF ConnInv
  <2>4. EpochInv(closed(net, pin), imports)
    BY <1>1, <2>2 DEF EpochInv
  <2>5. PICK new : /\ conns' = [conns EXCEPT ![c] = new]
                   /\ ConnInv(new) /\ EpochInv(new, imports)
                   /\ new.dpin = closed(net, pin).dpin /\ new.rpin = closed(net, pin).rpin
    BY <1>6, <2>3, <2>4, AnswerInv, Zenon
  <2>6. HonestPin(conns[c], new)
    BY <1>6, <2>2, <2>5 DEF HonestPin
  <2>7. QED
    BY <2>5, <2>6, Zenon DEF Replaces
<1>7. CASE Answer(c, closed("refused", FALSE)) /\ UNCHANGED <<peers, peer_keys>>
  BY <1>3, <1>6, <1>7, Zenon DEF TableTypes, RemovedIsForgotten, KeepsPins
<1>8. ASSUME NEW outcome \in Outcomes,
             commit_introduced_peer(old.at, old.dialer, old.repoch, old.dmat, outcome),
             Answer(c, closed(Reply(outcome), outcome \in Pinned))
      PROVE  /\ Replaces(c)
             /\ peers' \in [Endpoints -> [Endpoints -> Pin]]
             /\ peer_keys' \in [Endpoints -> SUBSET Endpoints]
             /\ RemovedIsForgotten' /\ KeepsPins
  <2>1. commit_introduced_peer(old.at, old.dialer, old.repoch, old.dmat, outcome)
    BY <1>8
  <2>2. /\ peers' \in [Endpoints -> [Endpoints -> Pin]]
        /\ peer_keys' \in [Endpoints -> SUBSET Endpoints]
    BY <1>3, <1>4, <1>5, <2>1, CommitEffect, Zenon
  <2>3. RemovedIsForgotten' /\ KeepsPins
    BY <1>3, <1>4, <1>5, <2>1, CommitEffect, Zenon
  <2>4. outcome \in Pinned => imports[old.at][old.dialer].epoch = old.repoch
    BY <1>4, <2>1, PinNeedsEpoch
  <2>5. ASSUME outcome \in Pinned, old.rcut PROVE FALSE
    <3>1. old.repoch < imports[old.at][old.dialer].epoch
      BY <1>1, <1>2, <2>5 DEF EpochInv
    <3>2. QED
      BY <1>5, <2>4, <2>5, <3>1, IntroductionAssumption
  <2> PICK pin \in BOOLEAN : pin = (outcome \in Pinned)
    BY MembershipIsBoolean
  <2> PICK net \in {"ack", "refused"} : net = Reply(outcome)
    BY DEF Reply
  <2>6. net = "ack" => pin
    BY Zenon DEF Reply
  <2>7. pin => ~old.rcut
    BY <2>5, Zenon
  <2>8. Answer(c, closed(net, pin))
    BY <1>8
  <2>9. Replaces(c)
    BY <1>6, <2>6, <2>7, <2>8, Zenon
  <2>10. QED
    BY <2>2, <2>3, <2>9
<1>9. QED
  BY <1>7, <1>8, Zenon DEF RespondComplete

-----------------------------------------------------------------------------
(* The steps of the operator and of a restart. *)

(* An import (Import) moves no epoch back. *)
LEMMA ImportStep ==
    ASSUME TableTypes, ConnsInv, RemovedIsForgotten, NEW e \in Endpoints, NEW r \in Endpoints,
           Import(e, r)
    PROVE  /\ imports' \in [Endpoints -> [Endpoints -> ImportRow]]
           /\ ConnsInv'
           /\ RemovedIsForgotten'
<1> PICK row \in ImportRow : row = imports[e][r]
  BY DEF TableTypes
<1>1. row.epoch \in 0..MaxEpoch /\ ~row.live
  BY DEF Import, ImportRow
<1>2. PICK n \in 0..MaxEpoch : n = IF row.epoch = 0 THEN 1 ELSE row.epoch
  BY <1>1, IntroductionAssumption
<1>3. imports' = [imports EXCEPT ![e][r] = [live |-> TRUE, epoch |-> n]]
  BY <1>2 DEF Import, TableTypes
<1>4. [live |-> TRUE, epoch |-> n] \in ImportRow
  BY DEF ImportRow
<1>5. imports' \in [Endpoints -> [Endpoints -> ImportRow]]
  BY <1>3, <1>4 DEF TableTypes
<1>6. \A x, y \in Endpoints : /\ imports[x][y].epoch \in Nat
                              /\ imports'[x][y].epoch \in Nat
                              /\ imports[x][y].epoch <= imports'[x][y].epoch
  BY <1>1, <1>2, <1>3, IntroductionAssumption DEF TableTypes, ImportRow
<1>7. conns' = conns
  BY DEF Import
<1>8. ASSUME NEW c \in Conns PROVE EpochInv(conns[c], imports')
  <2> PICK conn \in Conn : conn = conns[c]
    BY DEF ConnsInv, ConnInv
  <2>1. ConnInv(conn) /\ EpochInv(conn, imports)
    BY DEF ConnsInv
  <2>2. conn.epoch \in Nat /\ conn.repoch \in Nat
    BY IntroductionAssumption, SMTT(30) DEF Conn
  <2>3. CASE InUse(conn)
    <3>1. conn.dialer \in Endpoints /\ conn.root \in Endpoints /\ conn.at \in Endpoints
      BY <2>1, <2>3 DEF ConnInv
    <3>2. ASSUME conn.wait # "no"
          PROVE  /\ conn.epoch <= imports'[conn.dialer][conn.root].epoch
                 /\ conn.dcut => conn.epoch < imports'[conn.dialer][conn.root].epoch
      <4>1. PICK before \in Nat, after \in Nat :
               /\ before = imports[conn.dialer][conn.root].epoch
               /\ after = imports'[conn.dialer][conn.root].epoch
               /\ before <= after
        BY <1>6, <3>1
      <4>2. conn.epoch <= before /\ (conn.dcut => conn.epoch < before)
        BY <2>1, <3>2, <4>1, Zenon DEF EpochInv
      <4>3. PICK x \in Nat : x = conn.epoch
        BY <2>2
      <4>4. x <= before /\ before <= after => x <= after
        OBVIOUS
      <4>5. x < before /\ before <= after => x < after
        OBVIOUS
      <4>6. QED
        BY <4>1, <4>2, <4>3, <4>4, <4>5, Zenon
    <3>3. ASSUME conn.slot = "Pending"
          PROVE  /\ conn.repoch <= imports'[conn.at][conn.dialer].epoch
                 /\ conn.rcut => conn.repoch < imports'[conn.at][conn.dialer].epoch
      <4>1. PICK before \in Nat, after \in Nat :
               /\ before = imports[conn.at][conn.dialer].epoch
               /\ after = imports'[conn.at][conn.dialer].epoch
               /\ before <= after
        BY <1>6, <3>1, Zenon
      <4>2. conn.repoch <= before /\ (conn.rcut => conn.repoch < before)
        BY <2>1, <3>3, <4>1, Zenon DEF EpochInv
      <4>3. PICK x \in Nat : x = conn.repoch
        BY <2>2
      <4>4. x <= before /\ before <= after => x <= after
        OBVIOUS
      <4>5. x < before /\ before <= after => x < after
        OBVIOUS
      <4>6. QED
        BY <4>1, <4>2, <4>3, <4>4, <4>5, Zenon
    <3>4. QED
      BY <3>2, <3>3, Zenon DEF EpochInv
  <2>4. CASE ~InUse(conn)
    BY <2>4 DEF InUse, EpochInv
  <2>5. QED
    BY <2>3, <2>4
<1>9. ConnsInv'
  BY <1>7, <1>8 DEF ConnsInv
<1>10. peers' = peers /\ peer_keys' = peer_keys
  BY DEF Import
<1>11. RemovedIsForgotten'
  BY <1>1, <1>3, <1>10 DEF RemovedIsForgotten, TableTypes
<1>12. QED
  BY <1>5, <1>9, <1>11

(* A removal (Remove) advances the epoch past every open half it cuts. *)
LEMMA RemoveStep ==
    ASSUME TableTypes, ConnsInv, RemovedIsForgotten, NEW e \in Endpoints, NEW r \in Endpoints,
           Remove(e, r)
    PROVE  /\ imports' \in [Endpoints -> [Endpoints -> ImportRow]]
           /\ peers' \in [Endpoints -> [Endpoints -> Pin]]
           /\ peer_keys' \in [Endpoints -> SUBSET Endpoints]
           /\ ConnsInv'
           /\ RemovedIsForgotten'
           /\ KeepsPins
           /\ \A c \in Conns : HonestPin(conns[c], conns'[c])
<1> PICK row \in ImportRow : row = imports[e][r]
  BY DEF TableTypes
<1>1. row.epoch \in 0..MaxEpoch /\ row.epoch < MaxEpoch /\ row.live
  BY DEF Remove, ImportRow
<1>2. PICK n \in 0..MaxEpoch : n = row.epoch + 1
  BY <1>1, IntroductionAssumption
<1>3. imports' = [imports EXCEPT ![e][r] = [live |-> FALSE, epoch |-> n]]
  BY <1>2 DEF Remove, TableTypes
<1>4. [live |-> FALSE, epoch |-> n] \in ImportRow
  BY DEF ImportRow
<1>5. imports' \in [Endpoints -> [Endpoints -> ImportRow]]
  BY <1>3, <1>4 DEF TableTypes
<1>6. \A x, y \in Endpoints : /\ imports[x][y].epoch \in Nat
                              /\ imports'[x][y].epoch \in Nat
                              /\ imports[x][y].epoch <= imports'[x][y].epoch
                              /\ x = e /\ y = r => imports[x][y].epoch < imports'[x][y].epoch
  BY <1>1, <1>2, <1>3, IntroductionAssumption DEF TableTypes, ImportRow
<1>7. Unpinned \in Pin /\ Unpinned.status = "none"
  BY DEF Unpinned, Pin
<1>8. /\ peers' = [peers EXCEPT ![e][r] = Unpinned]
      /\ peer_keys' = [peer_keys EXCEPT ![e] = @ \ {r}]
      /\ conns' = Cut(e, r)
  BY DEF Remove
<1>9. /\ peers' \in [Endpoints -> [Endpoints -> Pin]]
      /\ peer_keys' \in [Endpoints -> SUBSET Endpoints]
  BY <1>7, <1>8 DEF TableTypes
<1>10. RemovedIsForgotten'
  BY <1>3, <1>7, <1>8 DEF RemovedIsForgotten, TableTypes
<1>11. KeepsPins
  BY <1>7, <1>8 DEF KeepsPins, TableTypes
<1>12. ASSUME NEW c \in Conns
       PROVE  /\ ConnInv(conns'[c]) /\ EpochInv(conns'[c], imports')
              /\ HonestPin(conns[c], conns'[c])
  <2> PICK old \in Conn : old = conns[c]
    BY DEF ConnsInv, ConnInv
  <2>1. ConnInv(old) /\ EpochInv(old, imports)
    BY DEF ConnsInv
  <2>2. PICK d \in BOOLEAN : d = (old.dcut \/ (old.dialer = e /\ old.root = r /\ old.wait # "no"))
    BY Zenon
  <2>3. PICK k \in BOOLEAN : k = (old.rcut \/ (old.at = e /\ old.dialer = r /\ old.slot = "Pending"))
    BY Zenon
  <2> DEFINE new == [old EXCEPT !.dcut = d, !.rcut = k]
  <2>4. conns'[c] = new
    BY <1>8, <2>2, <2>3, Zenon DEF Cut
  <2>5. new \in Conn
    <3> DEFINE half == [old EXCEPT !.dcut = d]
    <3>1. half \in Conn
      BY SMTT(30) DEF Conn
    <3> HIDE DEF half
    <3>2. [half EXCEPT !.rcut = k] \in Conn
      BY <3>1, SMTT(30) DEF Conn
    <3>3. QED
      BY <3>2, Zenon DEF half
  <2>6. /\ new.dialer = old.dialer /\ new.root = old.root /\ new.at = old.at
        /\ new.epoch = old.epoch /\ new.net = old.net /\ new.wait = old.wait
        /\ new.slot = old.slot /\ new.repoch = old.repoch
        /\ new.dcut = d /\ new.rcut = k
        /\ new.dpin = old.dpin /\ new.rpin = old.rpin
    BY DEF Conn
  <2>7. old.epoch \in Nat /\ old.repoch \in Nat
    BY IntroductionAssumption DEF Conn
  <2>8. ConnInv(new)
    BY <2>1, <2>3, <2>5, <2>6, Zenon DEF ConnInv, InUse
  <2> HIDE DEF new
  <2>9. CASE InUse(old)
    <3>1. old.dialer \in Endpoints /\ old.root \in Endpoints /\ old.at \in Endpoints
      BY <2>1, <2>9 DEF ConnInv
    <3>2. ASSUME old.wait # "no"
          PROVE  /\ old.epoch <= imports'[old.dialer][old.root].epoch
                 /\ d => old.epoch < imports'[old.dialer][old.root].epoch
      <4>1. /\ old.epoch <= imports[old.dialer][old.root].epoch
            /\ old.dcut => old.epoch < imports[old.dialer][old.root].epoch
        BY <2>1, <3>2, SMTT(30) DEF EpochInv
      <4>2. /\ imports[old.dialer][old.root].epoch \in Nat
            /\ imports'[old.dialer][old.root].epoch \in Nat
            /\ imports[old.dialer][old.root].epoch <= imports'[old.dialer][old.root].epoch
            /\ old.dialer = e /\ old.root = r =>
                 imports[old.dialer][old.root].epoch < imports'[old.dialer][old.root].epoch
        BY <1>6, <3>1, Zenon
      <4>3. d => old.dcut \/ (old.dialer = e /\ old.root = r)
        BY <2>2, Zenon
      <4>4. PICK before \in Nat, after \in Nat :
               before = imports[old.dialer][old.root].epoch
               /\ after = imports'[old.dialer][old.root].epoch
        BY <4>2, ZenonT(30)
      <4>5. before <= after /\ old.epoch <= before
        BY <4>1, <4>2, <4>4, Zenon
      <4>6. ASSUME d PROVE old.epoch < after
        <5>1. CASE old.dcut
          <6>1. old.epoch < before
            BY <4>1, <4>4, <5>1, Zenon
          <6>2. QED
            BY <2>7, <4>5, <6>1, SMTT(30)
        <5>2. CASE old.dialer = e /\ old.root = r
          <6>1. before < after
            BY <4>2, <4>4, <5>2
          <6>2. QED
            BY <2>7, <4>5, <6>1
        <5>3. QED
          BY <4>3, <4>6, <5>1, <5>2
      <4>7. old.epoch <= after
        BY <2>7, <4>5, SMTT(30)
      <4>8. QED
        BY <4>4, <4>6, <4>7, Zenon
    <3>3. ASSUME old.slot = "Pending"
          PROVE  /\ old.repoch <= imports'[old.at][old.dialer].epoch
                 /\ k => old.repoch < imports'[old.at][old.dialer].epoch
      <4>1. /\ old.repoch <= imports[old.at][old.dialer].epoch
            /\ old.rcut => old.repoch < imports[old.at][old.dialer].epoch
        BY <2>1, <3>3, SMTT(30) DEF EpochInv
      <4>2. /\ imports[old.at][old.dialer].epoch \in Nat
            /\ imports'[old.at][old.dialer].epoch \in Nat
            /\ imports[old.at][old.dialer].epoch <= imports'[old.at][old.dialer].epoch
            /\ old.at = e /\ old.dialer = r =>
                 imports[old.at][old.dialer].epoch < imports'[old.at][old.dialer].epoch
        BY <1>6, <3>1, Zenon
      <4>3. k => old.rcut \/ (old.at = e /\ old.dialer = r)
        BY <2>3, Zenon
      <4>4. PICK before \in Nat, after \in Nat :
               before = imports[old.at][old.dialer].epoch
               /\ after = imports'[old.at][old.dialer].epoch
        BY <4>2, ZenonT(30)
      <4>5. before <= after /\ old.repoch <= before
        BY <4>1, <4>2, <4>4, Zenon
      <4>6. ASSUME k PROVE old.repoch < after
        <5>1. CASE old.rcut
          <6>1. old.repoch < before
            BY <4>1, <4>4, <5>1, Zenon
          <6>2. QED
            BY <2>7, <4>5, <6>1, SMTT(30)
        <5>2. CASE old.at = e /\ old.dialer = r
          <6>1. before < after
            BY <4>2, <4>4, <5>2
          <6>2. QED
            BY <2>7, <4>5, <6>1
        <5>3. QED
          BY <4>3, <4>6, <5>1, <5>2
      <4>7. old.repoch <= after
        BY <2>7, <4>5, SMTT(30)
      <4>8. QED
        BY <4>4, <4>6, <4>7, Zenon
    <3>4. EpochInv(new, imports')
      BY <2>6, <3>2, <3>3, Zenon DEF EpochInv
    <3>5. QED
      BY <2>4, <2>6, <2>8, <3>4 DEF HonestPin
  <2>10. CASE ~InUse(old)
    BY <2>4, <2>6, <2>8, <2>10, Zenon DEF InUse, EpochInv, HonestPin
  <2>11. QED
    BY <2>9, <2>10
<1>13. conns' = [c \in Conns |-> conns'[c]]
  BY <1>8, Zenon DEF Cut
<1>14. QED
  BY <1>5, <1>9, <1>10, <1>11, <1>12, <1>13 DEF ConnsInv

(* A restart (Restart) opens nothing and pins nothing. *)
LEMMA RestartStep ==
    ASSUME TableTypes, ConnsInv, NEW e \in Endpoints, NEW m \in Materials, Restart(e, m)
    PROVE  /\ material' \in [Endpoints -> Materials]
           /\ ConnsInv'
           /\ \A c \in Conns : HonestPin(conns[c], conns'[c])
<1>1. material' \in [Endpoints -> Materials]
  BY DEF Restart, TableTypes
<1>2. imports' = imports
  BY DEF Restart, tables
<1>3. ASSUME NEW c \in Conns
      PROVE  /\ ConnInv(conns'[c]) /\ EpochInv(conns'[c], imports)
             /\ HonestPin(conns[c], conns'[c])
  <2> PICK old \in Conn : old = conns[c]
    BY DEF ConnsInv, ConnInv
  <2>1. ConnInv(old) /\ EpochInv(old, imports)
    BY DEF ConnsInv
  <2>2. \/ conns'[c] = Closed(old)
        \/ conns'[c] = Left(old)
        \/ old.at = e /\ conns'[c] = [old EXCEPT !.slot = "Done"]
        \/ conns'[c] = old
    BY DEF Restart
  <2>3. CASE conns'[c] = Closed(old)
    BY <2>1, <2>3, ClosedInv DEF HonestPin
  <2>4. CASE conns'[c] = Left(old)
    BY <2>1, <2>4, LeftInv DEF HonestPin
  <2>5. CASE old.at = e /\ conns'[c] = [old EXCEPT !.slot = "Done"]
    <3> DEFINE new == [old EXCEPT !.slot = "Done"]
    <3>1. new \in Conn
      BY DEF Conn
    <3>2. /\ new.dialer = old.dialer /\ new.root = old.root /\ new.at = old.at
          /\ new.epoch = old.epoch /\ new.net = old.net /\ new.wait = old.wait
          /\ new.slot = "Done" /\ new.dcut = old.dcut
          /\ new.dpin = old.dpin /\ new.rpin = old.rpin
      BY DEF Conn
    <3>3. ConnInv(new)
      <4>1. old.dialer \in Endpoints /\ old.root \in Endpoints /\ old.at \in Endpoints
        BY <2>1, <2>5, SMTT(30) DEF ConnInv
      <4>2. QED
        BY <2>1, <3>1, <3>2, <4>1 DEF ConnInv
    <3>4. EpochInv(new, imports) /\ HonestPin(old, new)
      BY <2>1, <3>2, Zenon DEF EpochInv, HonestPin
    <3>5. QED
      BY <2>5, <3>3, <3>4
  <2>6. CASE conns'[c] = old
    BY <2>1, <2>6 DEF HonestPin
  <2>7. QED
    BY <2>2, <2>3, <2>4, <2>5, <2>6
<1>4. conns' = [c \in Conns |-> conns'[c]]
  BY DEF Restart
<1>5. QED
  BY <1>1, <1>2, <1>3, <1>4 DEF ConnsInv

(* The knock log stays within its cap (record_knock). *)
LEMMA KnockStep ==
    ASSUME KnockInv, NEW e \in Endpoints, NEW claim \in Endpoints, NEW class \in KnockClass,
           record_knock(e, claim, class)
    PROVE  KnockInv'
<1> DEFINE k == [claim |-> claim, class |-> class]
<1>1. k \in Knock
  BY DEF Knock
<1>2. CASE Cardinality(knocks[e]) >= KnockCap
  <2>1. knocks' = knocks
    BY <1>2 DEF record_knock, KnockInv
  <2>2. QED
    BY <2>1 DEF KnockInv
<1>3. CASE ~(Cardinality(knocks[e]) >= KnockCap)
  <2>1. knocks' = [knocks EXCEPT ![e] = @ \cup {k}]
    BY <1>3 DEF record_knock
  <2>2. knocks' \in [Endpoints -> SUBSET Knock]
    BY <1>1, <2>1 DEF KnockInv
  <2>3. IsFiniteSet(knocks[e])
    BY DEF KnockInv
  <2>4. /\ IsFiniteSet(knocks[e] \cup {k})
        /\ Cardinality(knocks[e] \cup {k}) =
             IF k \in knocks[e] THEN Cardinality(knocks[e]) ELSE Cardinality(knocks[e]) + 1
    BY <2>3, FS_AddElement, Zenon
  <2>5. Cardinality(knocks[e]) \in Nat
    BY <2>3, FS_CardinalityType
  <2>6. Cardinality(knocks[e] \cup {k}) <= KnockCap
    BY <1>3, <2>4, <2>5, IntroductionAssumption
  <2>7. \A x \in Endpoints : knocks'[x] = IF x = e THEN knocks[e] \cup {k} ELSE knocks[x]
    BY <2>1 DEF KnockInv
  <2>8. QED
    BY <2>2, <2>4, <2>6, <2>7 DEF KnockInv
<1>4. QED
  BY <1>2, <1>3
-----------------------------------------------------------------------------
(* The whole step. *)

Good ==
    /\ IInv'
    /\ KeepsPins
    /\ \A c \in Conns : HonestPin(conns[c], conns'[c])

(* A fault (Fault) is counted up to its bound; a step may leave it alone.  *)
LEMMA FaultsTyped ==
    ASSUME TableTypes, Fault \/ UNCHANGED faults
    PROVE  faults' \in 0..MaxFaults
<1>1. CASE UNCHANGED faults
  BY <1>1 DEF TableTypes
<1>2. CASE Fault
  BY <1>2, IntroductionAssumption DEF Fault, TableTypes
<1>3. QED
  BY <1>1, <1>2

(* A handler that replaces one connection and leaves the tables alone.     *)
LEMMA QuietStep ==
    ASSUME IInv, NEW c \in Conns, Replaces(c), UNCHANGED <<tables, material>>,
           Fault \/ UNCHANGED faults
    PROVE  Good
<1>1. TableTypes /\ KnockInv /\ ConnsInv /\ RemovedIsForgotten
  BY DEF IInv
<1>2. /\ imports' = imports /\ peers' = peers /\ peer_keys' = peer_keys
      /\ knocks' = knocks /\ material' = material
  BY DEF tables
<1>3. TableTypes'
  BY <1>1, <1>2, FaultsTyped DEF TableTypes
<1>4. KnockInv'
  BY <1>1, <1>2 DEF KnockInv
<1>5. imports' = imports
  BY <1>2
<1>6. ConnsInv' /\ \A d \in Conns : HonestPin(conns[d], conns'[d])
  BY <1>1, <1>5, ReplacesInv
<1>7. RemovedIsForgotten'
  BY <1>1, <1>2 DEF RemovedIsForgotten
<1>8. KeepsPins
  BY <1>2 DEF KeepsPins
<1>9. QED
  BY <1>3, <1>4, <1>6, <1>7, <1>8 DEF Good, IInv

(* A handler that commits: it replaces its connection and touches pins and *)
(* keys, or only the knock log.                                            *)
LEMMA CommitStep ==
    ASSUME IInv, NEW c \in Conns, Replaces(c), KnockInv',
           imports' = imports, material' = material, faults' = faults,
           peers' \in [Endpoints -> [Endpoints -> Pin]],
           peer_keys' \in [Endpoints -> SUBSET Endpoints],
           RemovedIsForgotten', KeepsPins
    PROVE  Good
<1>1. TableTypes /\ ConnsInv
  BY DEF IInv
<1>2. TableTypes'
  BY <1>1 DEF TableTypes
<1>3. ConnsInv' /\ \A d \in Conns : HonestPin(conns[d], conns'[d])
  BY <1>1, ReplacesInv
<1>4. QED
  BY <1>2, <1>3 DEF Good, IInv

(* The responder's first flight (RespondHello). *)
LEMMA HelloStep ==
    ASSUME IInv, NEW c \in Conns, RespondHello(c)
    PROVE  Good
<1>1. TableTypes /\ KnockInv /\ ConnsInv /\ RemovedIsForgotten
  BY DEF IInv
<1>2. Replaces(c)
  BY <1>1, HelloReplaces, Zenon
<1>3. /\ imports' = imports /\ peers' = peers /\ peer_keys' = peer_keys
      /\ material' = material /\ faults' = faults
  BY DEF RespondHello
<1> PICK old : old = conns[c]
  OBVIOUS
<1>4. old.at \in Endpoints /\ old.dialer \in Endpoints
  <2>1. ConnInv(old)
    BY <1>1 DEF ConnsInv
  <2>2. old.net = "hello"
    BY DEF RespondHello
  <2>3. QED
    BY <2>1, <2>2 DEF ConnInv, InUse
<1>5. KnockInv'
  <2>1. \/ record_knock(old.at, old.dialer, "wrong-target")
        \/ record_knock(old.at, old.dialer, "not-imported")
        \/ knocks' = knocks
    BY DEF RespondHello
  <2>2. CASE record_knock(old.at, old.dialer, "wrong-target")
    BY <1>1, <1>4, <2>2, KnockStep DEF KnockClass
  <2>3. CASE record_knock(old.at, old.dialer, "not-imported")
    BY <1>1, <1>4, <2>3, KnockStep DEF KnockClass
  <2>4. CASE knocks' = knocks
    BY <1>1, <2>4 DEF KnockInv
  <2>5. QED
    BY <2>1, <2>2, <2>3, <2>4, Zenon
<1>6. peers' \in [Endpoints -> [Endpoints -> Pin]]
  BY <1>1, <1>3 DEF TableTypes
<1>7. peer_keys' \in [Endpoints -> SUBSET Endpoints]
  BY <1>1, <1>3 DEF TableTypes
<1>8. RemovedIsForgotten'
  BY <1>1, <1>3 DEF RemovedIsForgotten
<1>9. KeepsPins
  BY <1>3 DEF KeepsPins
<1>10. imports' = imports
  BY <1>3
<1>11. material' = material
  BY <1>3
<1>12. faults' = faults
  BY <1>3
<1>13. QED
  BY <1>2, <1>5, <1>6, <1>7, <1>8, <1>9, <1>10, <1>11, <1>12, CommitStep

(* The responder's second flight (RespondComplete). *)
LEMMA CompleteStep ==
    ASSUME IInv, NEW c \in Conns, RespondComplete(c)
    PROVE  Good
<1>1. TableTypes /\ KnockInv /\ ConnsInv /\ RemovedIsForgotten
  BY DEF IInv
<1>2. /\ Replaces(c)
      /\ peers' \in [Endpoints -> [Endpoints -> Pin]]
      /\ peer_keys' \in [Endpoints -> SUBSET Endpoints]
      /\ RemovedIsForgotten'
      /\ KeepsPins
  BY <1>1, CompleteReplaces
<1>3. imports' = imports /\ material' = material /\ faults' = faults
  BY Zenon DEF RespondComplete
<1> PICK old : old = conns[c]
  OBVIOUS
<1>4. old.at \in Endpoints /\ old.dialer \in Endpoints
  <2>1. ConnInv(old)
    BY <1>1 DEF ConnsInv
  <2>2. old.net = "complete"
    BY Zenon DEF RespondComplete
  <2>3. QED
    BY <2>1, <2>2 DEF ConnInv, InUse
<1>5. KnockInv'
  <2>1. record_knock(old.at, old.dialer, "bad-proof") \/ knocks' = knocks
    BY Zenon DEF RespondComplete
  <2>2. CASE record_knock(old.at, old.dialer, "bad-proof")
    BY <1>1, <1>4, <2>2, KnockStep DEF KnockClass
  <2>3. CASE knocks' = knocks
    BY <1>1, <2>3 DEF KnockInv
  <2>4. QED
    BY <2>1, <2>2, <2>3
<1>6. QED
  BY <1>2, <1>3, <1>5, CommitStep

(* The dialer's commit (DialerCommits). *)
LEMMA DialerCommitsStep ==
    ASSUME IInv, NEW c \in Conns, DialerCommits(c)
    PROVE  Good
<1>1. TableTypes /\ KnockInv /\ ConnsInv /\ RemovedIsForgotten
  BY DEF IInv
<1>2. /\ Replaces(c)
      /\ peers' \in [Endpoints -> [Endpoints -> Pin]]
      /\ peer_keys' \in [Endpoints -> SUBSET Endpoints]
      /\ RemovedIsForgotten'
      /\ KeepsPins
  BY <1>1, DialerCommitsReplaces
<1>3. imports' = imports /\ material' = material /\ faults' = faults /\ knocks' = knocks
  BY DEF DialerCommits
<1>4. KnockInv'
  BY <1>1, <1>3 DEF KnockInv
<1>5. QED
  BY <1>2, <1>3, <1>4, CommitStep

(* The operator's commands and a restart (Import, Remove, Restart). *)
LEMMA OperatorStep ==
    ASSUME IInv, NEW e \in Endpoints,
           \/ \E r \in Endpoints : Import(e, r) \/ Remove(e, r)
           \/ \E m \in Materials : Restart(e, m)
    PROVE  Good
<1>1. TableTypes /\ KnockInv /\ ConnsInv /\ RemovedIsForgotten
  BY DEF IInv
<1>2. ASSUME NEW r \in Endpoints, Import(e, r)
      PROVE  Good
  <2>1. /\ peers' = peers /\ peer_keys' = peer_keys /\ knocks' = knocks
        /\ material' = material /\ faults' = faults /\ conns' = conns
    BY <1>2 DEF Import
  <2>2. /\ imports' \in [Endpoints -> [Endpoints -> ImportRow]]
        /\ ConnsInv' /\ RemovedIsForgotten'
    BY <1>1, <1>2, ImportStep
  <2>3. TableTypes' /\ KnockInv'
    BY <1>1, <2>1, <2>2, Zenon DEF TableTypes, KnockInv
  <2>4. KeepsPins /\ \A c \in Conns : HonestPin(conns[c], conns'[c])
    BY <2>1, SMTT(30) DEF KeepsPins, HonestPin
  <2>5. QED
    BY <2>2, <2>3, <2>4 DEF Good, IInv
<1>3. ASSUME NEW r \in Endpoints, Remove(e, r)
      PROVE  Good
  <2>1. knocks' = knocks /\ material' = material /\ faults' = faults
    BY <1>3 DEF Remove
  <2>2. /\ imports' \in [Endpoints -> [Endpoints -> ImportRow]]
        /\ peers' \in [Endpoints -> [Endpoints -> Pin]]
        /\ peer_keys' \in [Endpoints -> SUBSET Endpoints]
        /\ ConnsInv' /\ RemovedIsForgotten' /\ KeepsPins
        /\ \A c \in Conns : HonestPin(conns[c], conns'[c])
    BY <1>1, <1>3, RemoveStep, Zenon
  <2>3. TableTypes'
    BY <1>1, <2>1, <2>2, ZenonT(30) DEF TableTypes
  <2>4. KnockInv'
    BY <1>1, <2>1, ZenonT(30) DEF KnockInv
  <2>5. QED
    BY <2>2, <2>3, <2>4, Zenon DEF Good, IInv
<1>4. ASSUME NEW m \in Materials, Restart(e, m)
      PROVE  Good
  <2>1. /\ imports' = imports /\ peers' = peers /\ peer_keys' = peer_keys
        /\ knocks' = knocks /\ Fault
    BY <1>4 DEF Restart, tables
  <2>2. /\ material' \in [Endpoints -> Materials]
        /\ ConnsInv'
        /\ \A c \in Conns : HonestPin(conns[c], conns'[c])
    BY <1>1, <1>4, RestartStep
  <2>3. faults' \in 0..MaxFaults
    BY <1>1, <2>1, FaultsTyped, SMTT(30)
  <2>4. TableTypes' /\ KnockInv' /\ RemovedIsForgotten' /\ KeepsPins
    BY <1>1, <2>1, <2>2, <2>3, Zenon DEF TableTypes, KnockInv, RemovedIsForgotten, KeepsPins
  <2>5. QED
    BY <2>2, <2>4, Zenon DEF Good, IInv
<1>5. QED
  BY <1>2, <1>3, <1>4

(* The invariant holds initially: nothing is imported and nobody dials. *)
LEMMA InitInv == Init => IInv
<1> SUFFICES ASSUME Init
             PROVE  IInv
  OBVIOUS
<1>1. TableTypes
  BY IntroductionAssumption DEF Init, TableTypes, ImportRow, Pin, Unpinned
<1>2. KnockInv
  <2>1. \A e \in Endpoints : knocks[e] = {}
    BY DEF Init
  <2>2. IsFiniteSet({}) /\ Cardinality({}) = 0
    BY FS_EmptySet
  <2>3. knocks \in [Endpoints -> SUBSET Knock]
    BY DEF Init
  <2>4. QED
    BY <2>1, <2>2, <2>3, IntroductionAssumption DEF KnockInv
<1>3. ConnsInv
  BY IdleInv DEF Init, ConnsInv
<1>4. RemovedIsForgotten
  BY DEF Init, RemovedIsForgotten, Unpinned
<1>5. QED
  BY <1>1, <1>2, <1>3, <1>4 DEF IInv

(* Every step keeps the invariant, the pins and the honesty of a pin. *)
LEMMA StepInv == IInv /\ [Next]_vars => Good
<1> SUFFICES ASSUME IInv, [Next]_vars
             PROVE  Good
  OBVIOUS
<1>1. TableTypes /\ KnockInv /\ ConnsInv /\ RemovedIsForgotten
  BY DEF IInv
<1>2. ASSUME NEW e \in Endpoints, NEW r \in Endpoints, NEW c \in Conns, NEW at \in Endpoints,
             dial_introduction(e, r, c, at), Fault \/ UNCHANGED faults
      PROVE  Good
  <2>1. Replaces(c)
    BY <1>1, <1>2, DialReplaces
  <2>2. UNCHANGED <<tables, material>>
    BY <1>2 DEF dial_introduction
  <2>3. QED
    BY <1>2, <2>1, <2>2, QuietStep
<1>3. ASSUME NEW e \in Endpoints, NEW r \in Endpoints, NEW c \in Conns, PeerPing(e, r, c)
      PROVE  Good
  BY <1>2, <1>3 DEF PeerPing
<1>4. ASSUME NEW e \in Endpoints, NEW r \in Endpoints, NEW c \in Conns,
             resolve_performer(e, r, c)
      PROVE  Good
  BY <1>2, <1>4 DEF resolve_performer
<1>5. ASSUME NEW e \in Endpoints, NEW r \in Endpoints, NEW c \in Conns, NEW at \in Endpoints,
             Misroute(e, r, c, at)
      PROVE  Good
  BY <1>2, <1>5 DEF Misroute
<1>6. ASSUME NEW c \in Conns, DialerVerifies(c)
      PROVE  Good
  <2>1. Replaces(c)
    BY <1>1, <1>6, VerifiesReplaces
  <2>2. UNCHANGED <<tables, material>> /\ UNCHANGED faults
    BY <1>6 DEF DialerVerifies
  <2>3. QED
    BY <2>1, <2>2, QuietStep
<1>7. ASSUME NEW c \in Conns, DialerRefused(c)
      PROVE  Good
  <2>1. conns' = [conns EXCEPT ![c] = Left(@)]
    BY <1>7 DEF DialerRefused
  <2>2. Replaces(c)
    BY <1>1, <2>1, LeavesReplaces, Zenon
  <2>3. UNCHANGED <<tables, material>> /\ UNCHANGED faults
    BY <1>7 DEF DialerRefused
  <2>4. QED
    BY <2>2, <2>3, QuietStep
<1>8. ASSUME NEW c \in Conns, GiveUp(c)
      PROVE  Good
  <2>1. conns' = [conns EXCEPT ![c] = Left(@)]
    BY <1>8 DEF GiveUp
  <2>2. Replaces(c)
    BY <1>1, <2>1, LeavesReplaces, Zenon
  <2>3. UNCHANGED <<tables, material>> /\ Fault
    BY <1>8 DEF GiveUp
  <2>4. QED
    BY <2>2, <2>3, QuietStep
<1>9. ASSUME NEW c \in Conns, Break(c)
      PROVE  Good
  <2>1. conns' = [conns EXCEPT ![c] = Closed(@)]
    BY <1>9 DEF Break
  <2>2. Replaces(c)
    BY <1>1, <2>1, LeavesReplaces, Zenon
  <2>3. UNCHANGED <<tables, material>> /\ Fault
    BY <1>9 DEF Break
  <2>4. QED
    BY <2>2, <2>3, QuietStep
<1>10. ASSUME NEW c \in Conns, StoreFails(c)
       PROVE  Good
  <2>1. Replaces(c)
    BY <1>1, <1>10, StoreFailsReplaces
  <2>2. UNCHANGED <<tables, material>> /\ Fault
    BY <1>10 DEF StoreFails
  <2>3. QED
    BY <2>1, <2>2, QuietStep
<1>11. CASE UNCHANGED vars
  <2>1. /\ imports' = imports /\ peers' = peers /\ peer_keys' = peer_keys /\ knocks' = knocks
        /\ material' = material /\ conns' = conns /\ faults' = faults
    BY <1>11 DEF vars, tables
  <2>2. TableTypes' /\ KnockInv' /\ RemovedIsForgotten' /\ KeepsPins
    BY <1>1, <2>1 DEF TableTypes, KnockInv, RemovedIsForgotten, KeepsPins
  <2>3. ConnsInv' /\ \A c \in Conns : HonestPin(conns[c], conns'[c])
    BY <1>1, <2>1 DEF ConnsInv, HonestPin
  <2>4. QED
    BY <2>2, <2>3 DEF Good, IInv
<1>12. QED
  BY <1>3, <1>4, <1>5, <1>6, <1>7, <1>8, <1>9, <1>10, <1>11,
     HelloStep, CompleteStep, DialerCommitsStep, OperatorStep DEF Next

-----------------------------------------------------------------------------
(* The theorems. *)

(* The invariant in every behaviour. *)
LEMMA Invariance == Spec => []IInv
<1>1. IInv /\ [Next]_vars => IInv'
  BY StepInv DEF Good
<1>2. QED
  BY InitInv, <1>1, PTL DEF Spec

(* Rows, pins and connections keep their types for every number of          *)
(* endpoints and dials, and the knock log (record_knock) its cap.          *)
THEOREM TypeCorrect == Spec => []TypeOK
<1>1. IInv => TypeOK
  <2> SUFFICES ASSUME IInv
               PROVE  TypeOK
    OBVIOUS
  <2>1. conns \in [Conns -> Conn]
    BY DEF IInv, ConnsInv, ConnInv
  <2>2. QED
    BY <2>1 DEF IInv, TypeOK, TableTypes, KnockInv
<1>2. QED
  BY Invariance, <1>1, PTL

(* Pins and verification keys exist together and behind live imports only: *)
(* `peer remove` forgets both and no introduction under way brings them    *)
(* back.                                                                   *)
THEOREM RemovalForgets == Spec => []RemovedIsForgotten
<1>1. IInv => RemovedIsForgotten
  BY DEF IInv
<1>2. QED
  BY Invariance, <1>1, PTL

(* An introduction that began before a removal never pins, whatever was     *)
(* imported again since: the epoch of commit_introduced_peer is behind.    *)
THEOREM StaleNeverCommits == Spec => NoStaleCommit
<1>1. IInv /\ [Next]_vars =>
        [\A c \in Conns :
           /\ ~conns[c].dpin /\ conns'[c].dpin => ~conns[c].dcut
           /\ ~conns[c].rpin /\ conns'[c].rpin => ~conns[c].rcut]_vars
  BY StepInv DEF Good, HonestPin
<1>2. QED
  BY Invariance, <1>1, PTL DEF Spec, NoStaleCommit

(* A dialer pins only what that peer acknowledged on the same connection,   *)
(* with the dialer pinned (RespondComplete's reply, DialerCommits).        *)
THEOREM PinsAfterResponder == Spec => DialerPinsAfterResponder
<1>1. IInv /\ [Next]_vars =>
        [\A c \in Conns :
           ~conns[c].dpin /\ conns'[c].dpin =>
              conns[c].rpin /\ conns[c].at = conns[c].root]_vars
  BY StepInv DEF Good, HonestPin
<1>2. QED
  BY Invariance, <1>1, PTL DEF Spec, DialerPinsAfterResponder

(* No introduction re-pins changed material or lifts a suspension           *)
(* (commit_introduced_peer); only `peer remove` clears a pin.              *)
THEOREM OnlyRemovalClears == Spec => RepinNeedsRemoval
<1>1. IInv /\ [Next]_vars =>
        [\A e, r \in Endpoints :
           peers[e][r].status # "none" /\ peers'[e][r].status # "none" =>
              /\ peers'[e][r].mat = peers[e][r].mat
              /\ peers[e][r].status = "suspended" => peers'[e][r].status = "suspended"]_vars
  BY StepInv DEF Good, KeepsPins
<1>2. QED
  BY Invariance, <1>1, PTL DEF Spec, RepinNeedsRemoval
=============================================================================
