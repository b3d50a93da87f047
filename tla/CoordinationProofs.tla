-------------------------- MODULE CoordinationProofs --------------------------
(***************************************************************************)
(* Proofs about Coordination, for every choice of its constants.           *)
(***************************************************************************)
EXTENDS Coordination, TLAPS

(* The initial state has the declared types. *)
LEMMA TypeInit == Init => TypeOK
  BY CoordinationAssumption, ImportsAssumption, SMTT(30)
     DEF Init, TypeOK, ImportsInit, ImportsTypeOK, ImportRow, PeerStatus

(* A dispatch call exists only for a committed dispatch: dispatch_staged      *)
(* commits the row before the call leaves its locked section.                 *)
CallHasRow == \A c \in Carriages : calls[c] # NoCall => dispatches[calls[c].key] # NoRow

(* Every step keeps the types.  Post and RecordCarriage read the row of their *)
(* call, so the row must be there.                                            *)
LEMMA TypeStep == TypeOK /\ CallHasRow /\ [Next]_vars => TypeOK'
<1> SUFFICES ASSUME TypeOK, CallHasRow, [Next]_vars PROVE TypeOK'
  OBVIOUS
<1> USE CoordinationAssumption, ImportsAssumption DEF TypeOK, ImportsTypeOK, storeVars, farVars, importVars
<1>1. ASSUME NEW r \in Roots, NEW l \in Labels, PeerAdd(r, l) PROVE TypeOK'
  <2>1. imports[r] \in ImportRow
    OBVIOUS
  <2>2. CASE add_peer_import(r, l)
    <3>1. [live |-> TRUE, label |-> l,
           epoch |-> IF imports[r].epoch = 0 THEN 1 ELSE imports[r].epoch] \in ImportRow
      BY <2>1 DEF ImportRow
    <3>2. QED
      BY <1>1, <2>2, <3>1 DEF PeerAdd, add_peer_import
  <2>3. CASE update_peer_import(r, l)
    <3>1. [imports[r] EXCEPT !.label = l] \in ImportRow
      BY <2>1, Zenon DEF ImportRow
    <3>2. QED
      BY <1>1, <2>3, <3>1 DEF PeerAdd, update_peer_import
  <2>4. QED
    BY <1>1, <2>2, <2>3 DEF PeerAdd
<1>2. ASSUME NEW r \in Roots, PeerImportRemove(r) PROVE TypeOK'
  BY <1>2 DEF PeerImportRemove, remove_relationship, ImportRow, PeerStatus
<1>3. ASSUME NEW r \in Roots, NEW changed \in BOOLEAN, Introduced(r, changed) PROVE TypeOK'
  BY <1>3 DEF Introduced, commit_introduced_peer, PeerStatus
<1>4. ASSUME NEW s \in Stages, stage(s) PROVE TypeOK'
  BY <1>4 DEF stage
<1>5. ASSUME NEW s \in Stages, NEW rc \in Receipts, stage_consent(s, rc) PROVE TypeOK'
  BY <1>5 DEF stage_consent, ConsentRow, risk_card, peer_import_by_label
<1>6. ASSUME NEW c \in Carriages, NEW s \in Stages, NEW rc \in Receipts, NEW k \in ExecKeys, NEW r \in Roots, dispatch(c, s, rc, k, r) PROVE TypeOK'
  <2>1. [pc |-> "routed", key |-> k, root |-> r] \in Call
    BY DEF Call
  <2>2. CASE dispatch_staged(s, rc, k)
    <3>1. consents[rc] \in ConsentRow
      BY <2>2 DEF dispatch_staged
    <3>2. [consents[rc] EXCEPT !.uses = @ + 1] \in ConsentRow
      <4>1. consents[rc].uses \in {0, 1} /\ consents[rc].uses < 1
        BY <2>2, <3>1 DEF dispatch_staged, ConsentRow
      <4>2. consents[rc].uses + 1 = 1
        BY ONLY <4>1, SMT
      <4>3. QED
        BY ONLY <3>1, <4>2 DEF ConsentRow
    <3>3. [stage |-> s, receipt |-> rc, egress |-> "pending"] \in DispatchRow
      BY DEF DispatchRow, EgressState
    <3>4. consents' \in [Receipts -> ConsentRow \cup {NoRow}]
      BY <2>2, <3>2 DEF dispatch_staged
    <3>5. dispatches' \in [ExecKeys -> DispatchRow \cup {NoRow}]
      BY <2>2, <3>3 DEF dispatch_staged
    <3>6. QED
      BY <1>6, <2>1, <2>2, <3>4, <3>5 DEF dispatch, dispatch_staged
  <2>3. CASE egress_may_be_attempted(s, rc, k)
    BY <1>6, <2>1, <2>3 DEF dispatch, egress_may_be_attempted
  <2>4. QED
    BY <1>6, <2>2, <2>3 DEF dispatch
<1>7. ASSUME NEW c \in Carriages, Post(c) PROVE TypeOK'
  <2>1. calls[c] \in Call /\ dispatches[calls[c].key] \in DispatchRow
    BY <1>7 DEF Post, Call, CallHasRow
  <2>2. [at |-> "sent", body |-> message_body(c)] \in Msg
    BY <2>1 DEF message_body, Call, Msg, BodyType, DispatchRow
  <2>3. [calls[c] EXCEPT !.pc = "waiting"] \in Call
    BY <2>1, Zenon DEF Call
  <2>4. calls[c].key \in ExecKeys /\ calls[c].root \in Roots
    BY <2>1 DEF Call
  <2>5. QED
    BY <1>7, <2>2, <2>3, <2>4 DEF Post
<1>8. ASSUME NEW c \in Carriages, PostFails(c) PROVE TypeOK'
  <2>1. calls[c] \in Call
    BY <1>8 DEF PostFails
  <2>2. [calls[c] EXCEPT !.pc = "failed"] \in Call
    BY ONLY <2>1 DEF Call
  <2>3. QED
    BY <1>8, <2>2 DEF PostFails
<1>9. ASSUME NEW c \in Carriages, AnswerArrives(c) PROVE TypeOK'
  <2>1. calls[c] \in Call
    BY <1>9 DEF AnswerArrives
  <2>2. \A pc \in {"acked", "failed"} : [calls[c] EXCEPT !.pc = pc] \in Call
    BY ONLY <2>1 DEF Call
  <2>3. QED
    BY <1>9, <2>2, Zenon DEF AnswerArrives
<1>10. ASSUME NEW c \in Carriages, Timeout(c) PROVE TypeOK'
  <2>1. calls[c] \in Call
    BY <1>10 DEF Timeout
  <2>2. [calls[c] EXCEPT !.pc = "failed"] \in Call
    BY ONLY <2>1 DEF Call
  <2>3. QED
    BY <1>10, <2>2 DEF Timeout
<1>11. ASSUME NEW c \in Carriages, RecordCarriage(c) PROVE TypeOK'
  <2>1. calls[c] \in Call /\ calls[c].key \in ExecKeys
    BY <1>11 DEF RecordCarriage, Call
  <2>2. dispatches[calls[c].key] \in DispatchRow
    BY <1>11, <2>1 DEF RecordCarriage, CallHasRow
  <2>3. \A e \in EgressState :
          [dispatches[calls[c].key] EXCEPT !.egress = e] \in DispatchRow
    BY <2>2, Zenon DEF DispatchRow
  <2>4. QED
    BY <1>11, <2>1, <2>2, <2>3, Zenon DEF RecordCarriage, record_egress, DispatchRow, EgressState
<1>12. ASSUME NEW c \in Carriages, RecordSkipped(c) PROVE TypeOK'
  BY <1>12 DEF RecordSkipped
<1>13. CASE Crash
  BY <1>13, SMTT(30) DEF Crash
<1>14. ASSUME NEW c \in Carriages, RecvFresh(c) PROVE TypeOK'
  <2>1. wire[c] \in Msg
    BY <1>14 DEF RecvFresh
  <2>2. [wire[c] EXCEPT !.at = "admitting"] \in Msg
    BY <2>1, Zenon DEF Msg
  <2>3. wire[c].body.recipient \in Roots /\ wire[c].body.id \in ExecKeys
    BY <2>1 DEF Msg, BodyType
  <2>4. arrivals[wire[c].body.recipient][wire[c].body.id] + 1 \in 0..MaxArrivals
    BY <1>14, <2>3 DEF RecvFresh
  <2>5. arrivals' \in [Roots -> [ExecKeys -> 0..MaxArrivals]]
    BY <1>14, <2>3, <2>4, Zenon DEF RecvFresh
  <2>6. QED
    BY <1>14, <2>2, <2>5, Zenon DEF RecvFresh
<1>15. ASSUME NEW c \in Carriages, RecvCommit(c) PROVE TypeOK'
  <2>1. wire[c] \in Msg
    BY <1>15 DEF RecvCommit
  <2>2. [wire[c] EXCEPT !.at = "ok"] \in Msg
    BY <2>1, Zenon DEF Msg
  <2>3. wire[c].body \in BodyType /\ wire[c].body.recipient \in Roots
    BY <2>1 DEF Msg, BodyType
  <2>4. QED
    BY <1>15, <2>2, <2>3 DEF RecvCommit
<1>16. ASSUME NEW c \in Carriages, RecvAgain(c) PROVE TypeOK'
  <2>1. wire[c] \in Msg
    BY <1>16 DEF RecvAgain
  <2>2. [wire[c] EXCEPT !.at = "ok"] \in Msg /\ [wire[c] EXCEPT !.at = "no"] \in Msg
    BY <2>1, Zenon DEF Msg
  <2>3. \E m \in Msg : wire' = [wire EXCEPT ![c] = m]
    BY <1>16, <2>2, Zenon DEF RecvAgain
  <2>4. QED
    BY <1>16, <2>3, Zenon DEF RecvAgain
<1>17. ASSUME NEW c \in Carriages, RecvRefuse(c) PROVE TypeOK'
  BY <1>17, ZenonT(30) DEF RecvRefuse, Msg
<1>18. ASSUME NEW c \in Carriages, Lose(c) PROVE TypeOK'
  BY <1>18 DEF Lose
<1>19. CASE UNCHANGED vars
  BY <1>19 DEF vars
<1>20. QED
  BY <1>1, <1>2, <1>3, <1>4, <1>5, <1>6, <1>7, <1>8, <1>9, <1>10, <1>11, <1>12,
     <1>13, <1>14, <1>15, <1>16, <1>17, <1>18, <1>19, Zenon DEF Next

-----------------------------------------------------------------------------
(* The inductive invariant. *)

(* A dispatch row and the receipt it spent belong to each other. *)
RowsBacked == \A k \in ExecKeys : dispatches[k] # NoRow =>
    /\ consents[dispatches[k].receipt] # NoRow
    /\ consents[dispatches[k].receipt].stage = dispatches[k].stage
    /\ consents[dispatches[k].receipt].uses = 1
    /\ staged[dispatches[k].stage] = "dispatched"

(* A receipt that can still be spent is the only one of its content, and no  *)
(* dispatch of that content exists.                                          *)
LiveReceiptIsAlone == \A rc \in Receipts :
    (consents[rc] # NoRow /\ consents[rc].uses = 0) =>
        /\ staged[consents[rc].stage] = "consented"
        /\ \A k \in ExecKeys :
              dispatches[k] # NoRow => dispatches[k].stage # consents[rc].stage
        /\ \A rc2 \in Receipts :
              (consents[rc2] # NoRow /\ consents[rc2].stage = consents[rc].stage) => rc2 = rc

(* A consent row is for a staged content; a spent receipt has its dispatch.  *)
SpentReceiptHasRow == \A rc \in Receipts :
    consents[rc] # NoRow =>
        /\ staged[consents[rc].stage] # "none"
        /\ consents[rc].uses = 1 => \E k \in ExecKeys :
              dispatches[k] # NoRow /\ dispatches[k].receipt = rc

(* A content that is consented or dispatched has a receipt. *)
PhaseHasReceipt == \A s \in Stages :
    staged[s] \in {"consented", "dispatched"} =>
        \E rc \in Receipts : consents[rc] # NoRow /\ consents[rc].stage = s

LedgerInv ==
    /\ RowsBacked
    /\ LiveReceiptIsAlone
    /\ SpentReceiptHasRow
    /\ PhaseHasReceipt
    /\ OneDispatchPerStage

(* What a recipient holds of dispatch k was written to it. *)
HeldBy(k, r) == \E b \in inbox[r] : b.id = k

(* Calls and messages in a slot belong together, every message is backed,   *)
(* and an acknowledgement is on the wire or in a call only once the         *)
(* recipient's inbox holds the body.                                        *)
SlotInv(c) ==
    /\ (calls[c] # NoCall /\ calls[c].pc = "routed") => wire[c] = NoMsg
    /\ (calls[c] # NoCall /\ wire[c] # NoMsg) =>
          wire[c].body.id = calls[c].key /\ wire[c].body.recipient = calls[c].root
    /\ (calls[c] # NoCall /\ calls[c].pc = "acked") =>
          calls[c].root \in carriedTo[calls[c].key] /\ HeldBy(calls[c].key, calls[c].root)
    /\ wire[c] # NoMsg =>
          /\ Backed(wire[c].body)
          /\ wire[c].body.recipient \in carriedTo[wire[c].body.id]
          /\ wire[c].at = "ok" => wire[c].body \in inbox[wire[c].body.recipient]

CarriageInv == \A c \in Carriages : SlotInv(c)

(* What an inbox holds was written to its owner under a spent consent.       *)
InboxInv == \A r \in Roots : \A b \in inbox[r] :
    Backed(b) /\ b.recipient = r /\ r \in carriedTo[b.id]

(* Bytes are written only for a committed dispatch. *)
CarriedHasRow == \A k \in ExecKeys : carriedTo[k] # {} => dispatches[k] # NoRow

IInv ==
    /\ TypeOK
    /\ CallHasRow
    /\ LedgerInv
    /\ CarriageInv
    /\ InboxInv
    /\ CarriedHasRow
    /\ SentMeansAdmitted

-----------------------------------------------------------------------------
(* The steps of Next, grouped by what they touch. *)
PeerStep ==
    /\ UNCHANGED <<storeVars, calls, wire, farVars, carriedTo>>

(* An operator's peer command, an introduction or a stuttering step touches   *)
(* only the relationship tables.                                              *)
LEMMA StepCases ==
    ASSUME [Next]_vars
    PROVE  \/ PeerStep
           \/ \E s \in Stages : stage(s)
           \/ \E s \in Stages, rc \in Receipts : stage_consent(s, rc)
           \/ \E c \in Carriages, s \in Stages, rc \in Receipts, k \in ExecKeys, r \in Roots :
                 dispatch(c, s, rc, k, r)
           \/ \E c \in Carriages :
                 \/ Post(c) \/ PostFails(c) \/ AnswerArrives(c) \/ Timeout(c)
                 \/ RecordCarriage(c) \/ RecordSkipped(c)
                 \/ RecvFresh(c) \/ RecvCommit(c) \/ RecvAgain(c) \/ RecvRefuse(c) \/ Lose(c)
           \/ Crash
  BY DEF Next, PeerStep, PeerAdd, PeerImportRemove, Introduced, vars

(* Only stage, stage_consent, a spending dispatch and RecordCarriage write    *)
(* the ledger.                                                                *)
LEMMA LedgerCases ==
    ASSUME [Next]_vars
    PROVE  \/ UNCHANGED storeVars
           \/ \E s \in Stages : stage(s)
           \/ \E s \in Stages, rc \in Receipts : stage_consent(s, rc)
           \/ \E s \in Stages, rc \in Receipts, k \in ExecKeys : dispatch_staged(s, rc, k)
           \/ \E c \in Carriages : RecordCarriage(c)
  BY StepCases, ZenonT(30) DEF PeerStep, dispatch, egress_may_be_attempted, Post, PostFails, AnswerArrives,
     Timeout, RecordSkipped, RecvFresh, RecvCommit, RecvAgain, RecvRefuse, Lose, Crash

(* Rows, receipts and what recipients hold only grow. *)
RowsKept ==
    /\ \A k \in ExecKeys : dispatches[k] # NoRow =>
          /\ dispatches'[k] # NoRow
          /\ dispatches'[k].stage = dispatches[k].stage
          /\ dispatches'[k].receipt = dispatches[k].receipt
          /\ dispatches[k].egress = "sent" => dispatches'[k] = dispatches[k]
    /\ \A rc \in Receipts : (consents[rc] # NoRow /\ consents[rc].uses = 1) =>
          consents'[rc] = consents[rc]

(* No step changes what a committed dispatch or a spent receipt says, except  *)
(* for an egress state that is not yet sent.                                  *)
LEMMA RowsAreKept ==
    ASSUME TypeOK, CallHasRow, [Next]_vars
    PROVE  RowsKept
<1> USE CoordinationAssumption DEF TypeOK
<1>1. CASE UNCHANGED storeVars
  BY <1>1 DEF storeVars, RowsKept
<1>2. ASSUME NEW s \in Stages, stage(s) PROVE RowsKept
  BY <1>2 DEF stage, RowsKept
<1>3. ASSUME NEW s \in Stages, NEW rc \in Receipts, stage_consent(s, rc) PROVE RowsKept
  BY <1>3 DEF stage_consent, RowsKept
<1>4. ASSUME NEW s \in Stages, NEW rc \in Receipts, NEW k \in ExecKeys, dispatch_staged(s, rc, k)
      PROVE RowsKept
  BY <1>4 DEF dispatch_staged, RowsKept
<1>5. ASSUME NEW c \in Carriages, RecordCarriage(c) PROVE RowsKept
  <2>1. calls[c] \in Call /\ calls[c].key \in ExecKeys
    BY <1>5 DEF RecordCarriage, Call
  <2>2. dispatches[calls[c].key] \in DispatchRow
    BY <1>5, <2>1 DEF RecordCarriage, CallHasRow
  <2>3. dispatches'[calls[c].key] \in DispatchRow
    BY <1>5, <2>1, <2>2, Zenon DEF RecordCarriage, record_egress, DispatchRow, EgressState
  <2>4. dispatches[calls[c].key].egress = "sent" => dispatches'[calls[c].key] = dispatches[calls[c].key]
    BY <1>5, <2>1, <2>2 DEF RecordCarriage, record_egress, DispatchRow
  <2>5. QED
    BY <1>5, <2>1, <2>2, <2>3, <2>4 DEF RecordCarriage, record_egress, RowsKept, DispatchRow
<1>6. QED
  BY <1>1, <1>2, <1>3, <1>4, <1>5, LedgerCases

(* The ledger invariant is inductive.  A consent needs an empty ledger for    *)
(* its content, so a spendable receipt is alone and its spend is the first.   *)
LEMMA LedgerStep ==
    ASSUME TypeOK, TypeOK', CallHasRow, LedgerInv, [Next]_vars
    PROVE  LedgerInv'
<1> USE CoordinationAssumption
<1>k. RowsKept
  BY RowsAreKept
<1>1. CASE UNCHANGED storeVars
  BY <1>1 DEF storeVars, LedgerInv, RowsBacked, LiveReceiptIsAlone, SpentReceiptHasRow,
     PhaseHasReceipt, OneDispatchPerStage
<1>2. ASSUME NEW s \in Stages, stage(s) PROVE LedgerInv'
  <2>1. /\ consents' = consents /\ dispatches' = dispatches
        /\ staged[s] = "none" /\ staged'[s] = "staged"
        /\ \A t \in Stages : t # s => staged'[t] = staged[t]
    BY <1>2 DEF stage, TypeOK
  <2>2. /\ \A rc \in Receipts : consents[rc] # NoRow =>
              consents[rc].stage \in Stages /\ consents[rc].stage # s
        /\ \A k \in ExecKeys : dispatches[k] # NoRow =>
              dispatches[k].stage \in Stages /\ dispatches[k].stage # s
    BY <2>1 DEF TypeOK, ConsentRow, DispatchRow, LedgerInv, RowsBacked, SpentReceiptHasRow
  <2>3. RowsBacked'
    BY <2>1, <2>2 DEF LedgerInv, RowsBacked
  <2>4. LiveReceiptIsAlone'
    BY <2>1, <2>2 DEF LedgerInv, LiveReceiptIsAlone
  <2>5. SpentReceiptHasRow'
    BY <2>1, <2>2 DEF LedgerInv, SpentReceiptHasRow
  <2>6. PhaseHasReceipt'
    BY <2>1 DEF LedgerInv, PhaseHasReceipt
  <2>7. OneDispatchPerStage'
    BY <2>1 DEF LedgerInv, OneDispatchPerStage
  <2>8. QED
    BY <2>3, <2>4, <2>5, <2>6, <2>7 DEF LedgerInv
<1>3. ASSUME NEW s \in Stages, NEW rc \in Receipts, stage_consent(s, rc) PROVE LedgerInv'
  <2> DEFINE new == [stage |-> s, uses |-> 0, shown |-> risk_card(s)]
  <2>1. /\ consents[rc] = NoRow
        /\ consents'[rc] = new
        /\ new # NoRow
        /\ \A q \in Receipts : q # rc => consents'[q] = consents[q]
        /\ dispatches' = dispatches
        /\ staged' = [staged EXCEPT ![s] = "consented"]
        /\ \A k \in ExecKeys : dispatches[k] # NoRow => dispatches[k].stage # s
        /\ \A q \in Receipts : (consents[q] # NoRow /\ consents[q].stage = s) => consents[q].uses = 1
    BY <1>3, SMTT(30) DEF stage_consent, TypeOK, ConsentRow, coord_dispatch, unconsumed_consent,
       risk_card, peer_import_by_label
  <2>2. \A q \in Receipts : (consents[q] # NoRow /\ q # rc) => consents[q].stage # s
    BY <2>1 DEF LedgerInv, SpentReceiptHasRow, RowsBacked
  <2>3. RowsBacked'
    <3> SUFFICES ASSUME NEW k \in ExecKeys, dispatches[k] # NoRow
                 PROVE  /\ consents'[dispatches[k].receipt] # NoRow
                        /\ consents'[dispatches[k].receipt].stage = dispatches[k].stage
                        /\ consents'[dispatches[k].receipt].uses = 1
                        /\ staged'[dispatches[k].stage] = "dispatched"
      BY <2>1, Zenon DEF RowsBacked
    <3>1. dispatches[k].receipt \in Receipts /\ dispatches[k].stage \in Stages
      BY DEF TypeOK, DispatchRow
    <3>2. /\ consents[dispatches[k].receipt] # NoRow
          /\ consents[dispatches[k].receipt].stage = dispatches[k].stage
          /\ consents[dispatches[k].receipt].uses = 1
          /\ staged[dispatches[k].stage] = "dispatched"
      BY Zenon DEF LedgerInv, RowsBacked
    <3>3. dispatches[k].receipt # rc /\ dispatches[k].stage # s
      BY <2>1, <3>2, Zenon
    <3>4. consents'[dispatches[k].receipt] = consents[dispatches[k].receipt]
      BY <2>1, <3>1, <3>3, Zenon
    <3>5. staged'[dispatches[k].stage] = staged[dispatches[k].stage]
      BY <2>1, <3>1, <3>3 DEF TypeOK
    <3>6. QED
      BY <3>2, <3>4, <3>5, Zenon
  <2>4. LiveReceiptIsAlone'
    <3> SUFFICES ASSUME NEW q \in Receipts, consents'[q] # NoRow, consents'[q].uses = 0
                 PROVE  /\ staged'[consents'[q].stage] = "consented"
                        /\ \A k \in ExecKeys :
                              dispatches'[k] # NoRow => dispatches'[k].stage # consents'[q].stage
                        /\ \A q2 \in Receipts :
                              (consents'[q2] # NoRow /\ consents'[q2].stage = consents'[q].stage)
                                => q2 = q
      BY DEF LiveReceiptIsAlone
    <3>1. CASE q = rc
      <4>1. consents'[q].stage = s
        BY ONLY <2>1, <3>1, SMTT(30)
      <4>2. staged'[s] = "consented"
        BY <2>1, Zenon DEF TypeOK
      <4>3. QED
        BY <2>1, <2>2, <3>1, <4>1, <4>2
    <3>2. CASE q # rc
      <4>1. consents[q] \in ConsentRow /\ consents[q].stage # s /\ consents[q].stage \in Stages
        BY <2>1, <2>2, <3>2, Zenon DEF TypeOK, ConsentRow
      <4>2. consents'[rc].stage = s
        BY ONLY <2>1
      <4>3. staged'[consents[q].stage] = staged[consents[q].stage]
        BY <2>1, <4>1 DEF TypeOK
      <4>4. QED
        BY <2>1, <3>2, <4>1, <4>2, <4>3, SMTT(30) DEF LedgerInv, LiveReceiptIsAlone
    <3>3. QED
      BY <3>1, <3>2
  <2>5. SpentReceiptHasRow'
    <3> SUFFICES ASSUME NEW q \in Receipts, consents'[q] # NoRow
                 PROVE  /\ staged'[consents'[q].stage] # "none"
                        /\ consents'[q].uses = 1 => \E k \in ExecKeys :
                              dispatches'[k] # NoRow /\ dispatches'[k].receipt = q
      BY DEF SpentReceiptHasRow
    <3>1. CASE q = rc
      <4>1. consents'[q].stage = s /\ consents'[q].uses = 0
        BY ONLY <2>1, <3>1, SMTT(30)
      <4>2. staged'[s] = "consented"
        BY <2>1 DEF TypeOK
      <4>3. QED
        BY ONLY <4>1, <4>2
    <3>2. CASE q # rc
      <4>1. consents'[q] = consents[q] /\ consents[q] # NoRow
        BY ONLY <2>1, <3>2, consents'[q] # NoRow, q \in Receipts
      <4>2. consents[q].stage # s /\ consents[q].stage \in Stages
        BY <2>2, <3>2, <4>1, SMTT(30) DEF TypeOK, ConsentRow
      <4>3. staged'[consents[q].stage] = staged[consents[q].stage]
        BY <2>1, <4>2, Zenon DEF TypeOK
      <4>4. /\ staged[consents[q].stage] # "none"
            /\ consents[q].uses = 1 => \E k \in ExecKeys :
                  dispatches[k] # NoRow /\ dispatches[k].receipt = q
        BY <4>1 DEF LedgerInv, SpentReceiptHasRow
      <4>5. dispatches' = dispatches
        BY ONLY <2>1, Zenon
      <4>6. QED
        BY ONLY <4>1, <4>3, <4>4, <4>5
    <3>3. QED
      BY <3>1, <3>2
  <2>6. PhaseHasReceipt'
    <3> SUFFICES ASSUME NEW t \in Stages, staged'[t] \in {"consented", "dispatched"}
                 PROVE  \E q \in Receipts : consents'[q] # NoRow /\ consents'[q].stage = t
      BY DEF PhaseHasReceipt
    <3>1. CASE t = s
      BY <2>1, <3>1
    <3>2. CASE t # s
      <4>1. staged'[t] = staged[t]
        BY <2>1, <3>2, Zenon DEF TypeOK
      <4>2. PICK q \in Receipts : consents[q] # NoRow /\ consents[q].stage = t
        BY <4>1 DEF LedgerInv, PhaseHasReceipt
      <4>3. QED
        BY <2>1, <4>2
    <3>3. QED
      BY <3>1, <3>2
  <2>7. OneDispatchPerStage'
    BY <2>1 DEF LedgerInv, OneDispatchPerStage
  <2>8. QED
    BY <2>3, <2>4, <2>5, <2>6, <2>7 DEF LedgerInv
<1>4. ASSUME NEW s \in Stages, NEW rc \in Receipts, NEW k \in ExecKeys, dispatch_staged(s, rc, k)
      PROVE LedgerInv'
  <2>1. /\ consents[rc] \in ConsentRow
        /\ consents[rc].stage = s
        /\ consents[rc].uses = 0
        /\ dispatches[k] = NoRow
    BY <1>4 DEF dispatch_staged, TypeOK, ConsentRow
  <2>2. /\ consents'[rc] \in ConsentRow
        /\ consents'[rc].stage = s
        /\ consents'[rc].uses = 1
        /\ \A q \in Receipts : q # rc => consents'[q] = consents[q]
    <3>1. consents' = [consents EXCEPT ![rc] = [consents[rc] EXCEPT !.uses = 1]]
      BY <1>4, <2>1 DEF dispatch_staged, TypeOK, ConsentRow
    <3>2. [consents[rc] EXCEPT !.uses = 1] \in ConsentRow
      BY <2>1 DEF ConsentRow
    <3>3. QED
      BY <2>1, <3>1, <3>2, ZenonT(30) DEF TypeOK, ConsentRow
  <2>3. /\ dispatches'[k] \in DispatchRow
        /\ dispatches'[k].stage = s
        /\ dispatches'[k].receipt = rc
        /\ \A j \in ExecKeys : j # k => dispatches'[j] = dispatches[j]
        /\ staged' = [staged EXCEPT ![s] = "dispatched"]
    BY <1>4 DEF dispatch_staged, TypeOK, DispatchRow, EgressState
  <2>4. \A j \in ExecKeys : dispatches[j] # NoRow => dispatches[j].stage # s
    BY <2>1 DEF LedgerInv, LiveReceiptIsAlone
  <2>5. \A q \in Receipts : (consents[q] # NoRow /\ q # rc) => consents[q].stage # s
    BY <2>1 DEF LedgerInv, LiveReceiptIsAlone
  <2>s. /\ staged'[s] = "dispatched"
        /\ \A t \in Stages : t # s => staged'[t] = staged[t]
    BY <2>3, SMTT(30) DEF TypeOK
  <2>r. /\ \A q \in Receipts : (consents[q] # NoRow /\ q # rc) => consents[q].stage \in Stages
        /\ \A j \in ExecKeys : dispatches[j] # NoRow =>
              dispatches[j].stage \in Stages /\ dispatches[j].receipt \in Receipts
    BY Zenon DEF TypeOK, ConsentRow, DispatchRow
  <2>n. consents'[rc] # NoRow /\ dispatches'[k] # NoRow
    BY <2>2, <2>3
  <2>6. RowsBacked'
    <3> SUFFICES ASSUME NEW j \in ExecKeys, dispatches'[j] # NoRow
                 PROVE  /\ consents'[dispatches'[j].receipt] # NoRow
                        /\ consents'[dispatches'[j].receipt].stage = dispatches'[j].stage
                        /\ consents'[dispatches'[j].receipt].uses = 1
                        /\ staged'[dispatches'[j].stage] = "dispatched"
      BY DEF RowsBacked
    <3>1. CASE j = k
      BY <2>2, <2>3, <2>s, <2>n, <3>1
    <3>2. CASE j # k
      <4>1. dispatches[j] # NoRow /\ dispatches'[j] = dispatches[j] /\ dispatches[j].stage # s
        BY <2>3, <2>4, <3>2
      <4>2. dispatches[j].receipt # rc
        BY <2>1, <4>1 DEF LedgerInv, RowsBacked
      <4>3. QED
        BY <2>2, <2>s, <2>r, <4>1, <4>2 DEF LedgerInv, RowsBacked
    <3>3. QED
      BY <3>1, <3>2
  <2>7. LiveReceiptIsAlone'
    <3> SUFFICES ASSUME NEW q \in Receipts, consents'[q] # NoRow, consents'[q].uses = 0
                 PROVE  /\ staged'[consents'[q].stage] = "consented"
                        /\ \A j \in ExecKeys :
                              dispatches'[j] # NoRow => dispatches'[j].stage # consents'[q].stage
                        /\ \A q2 \in Receipts :
                              (consents'[q2] # NoRow /\ consents'[q2].stage = consents'[q].stage)
                                => q2 = q
      BY DEF LiveReceiptIsAlone
    <3>1. q # rc
      BY <2>2
    <3>2. consents'[q] = consents[q] /\ consents[q].stage # s /\ consents[q].stage \in Stages
      BY <2>2, <2>5, <2>r, <3>1
    <3>3. /\ staged[consents[q].stage] = "consented"
          /\ \A j \in ExecKeys : dispatches[j] # NoRow => dispatches[j].stage # consents[q].stage
          /\ \A q2 \in Receipts :
                (consents[q2] # NoRow /\ consents[q2].stage = consents[q].stage) => q2 = q
      BY <3>2, Zenon DEF LedgerInv, LiveReceiptIsAlone
    <3>4. staged'[consents'[q].stage] = "consented"
      BY <2>2, <2>s, <3>2, <3>3
    <3>5. \A j \in ExecKeys : dispatches'[j] # NoRow => dispatches'[j].stage # consents'[q].stage
      BY <2>2, <2>3, <3>2, <3>3
    <3>6. \A q2 \in Receipts :
            (consents'[q2] # NoRow /\ consents'[q2].stage = consents'[q].stage) => q2 = q
      BY <2>2, <3>2, <3>3
    <3>7. QED
      BY <3>4, <3>5, <3>6, Zenon
  <2>8. SpentReceiptHasRow'
    <3> SUFFICES ASSUME NEW q \in Receipts, consents'[q] # NoRow
                 PROVE  /\ staged'[consents'[q].stage] # "none"
                        /\ consents'[q].uses = 1 => \E j \in ExecKeys :
                              dispatches'[j] # NoRow /\ dispatches'[j].receipt = q
      BY DEF SpentReceiptHasRow
    <3>1. CASE q = rc
      BY <2>2, <2>3, <2>s, <2>n, <3>1
    <3>2. CASE q # rc
      <4>1. consents'[q] = consents[q] /\ consents[q].stage # s /\ consents[q].stage \in Stages
        BY <2>2, <2>5, <2>r, <3>2
      <4>2. QED
        BY <1>k, <2>s, <4>1 DEF LedgerInv, SpentReceiptHasRow, RowsKept
    <3>3. QED
      BY <3>1, <3>2
  <2>9. PhaseHasReceipt'
    <3> SUFFICES ASSUME NEW t \in Stages, staged'[t] \in {"consented", "dispatched"}
                 PROVE  \E q \in Receipts : consents'[q] # NoRow /\ consents'[q].stage = t
      BY DEF PhaseHasReceipt
    <3>1. CASE t = s
      BY <2>2, <2>n, <3>1
    <3>2. CASE t # s
      BY <2>1, <2>2, <2>s, <3>2 DEF LedgerInv, PhaseHasReceipt
    <3>3. QED
      BY <3>1, <3>2
  <2>10. OneDispatchPerStage'
    BY <2>3, <2>4 DEF LedgerInv, OneDispatchPerStage
  <2>11. QED
    BY <2>6, <2>7, <2>8, <2>9, <2>10 DEF LedgerInv
<1>5. ASSUME NEW c \in Carriages, RecordCarriage(c) PROVE LedgerInv'
  <2>1. /\ consents' = consents
        /\ staged' = staged
        /\ \A j \in ExecKeys : dispatches'[j] # NoRow => dispatches[j] # NoRow
    BY <1>5 DEF RecordCarriage, record_egress, CallHasRow, TypeOK, Call
  <2>2. \A j \in ExecKeys : /\ dispatches'[j] # NoRow <=> dispatches[j] # NoRow
                            /\ dispatches[j] # NoRow =>
                                  /\ dispatches'[j].stage = dispatches[j].stage
                                  /\ dispatches'[j].receipt = dispatches[j].receipt
    BY <2>1, <1>k, Zenon DEF RowsKept
  <2>3. RowsBacked'
    BY <2>1, <2>2 DEF LedgerInv, RowsBacked
  <2>4. LiveReceiptIsAlone'
    BY <2>1, <2>2 DEF LedgerInv, LiveReceiptIsAlone
  <2>5. SpentReceiptHasRow'
    BY <2>1, <2>2 DEF LedgerInv, SpentReceiptHasRow
  <2>6. PhaseHasReceipt'
    BY <2>1 DEF LedgerInv, PhaseHasReceipt
  <2>7. OneDispatchPerStage'
    BY <2>2 DEF LedgerInv, OneDispatchPerStage
  <2>8. QED
    BY <2>3, <2>4, <2>5, <2>6, <2>7 DEF LedgerInv
<1>6. QED
  BY <1>1, <1>2, <1>3, <1>4, <1>5, LedgerCases

-----------------------------------------------------------------------------
(* Every call under way has a committed dispatch: only dispatch starts one,   *)
(* after dispatch_staged or for the row egress_may_be_attempted found.        *)
LEMMA CallStep ==
    ASSUME TypeOK, CallHasRow, [Next]_vars
    PROVE  CallHasRow'
<1> USE CoordinationAssumption
<1>k. RowsKept
  BY RowsAreKept
<1>t. \A c \in Carriages : calls[c] # NoCall => calls[c].key \in ExecKeys
  BY DEF TypeOK, Call
<1>1. ASSUME \A c \in Carriages : calls'[c] # NoCall =>
                calls[c] # NoCall /\ calls'[c].key = calls[c].key
      PROVE  CallHasRow'
  BY <1>1, <1>k, <1>t DEF CallHasRow, RowsKept
<1>2. ASSUME NEW c \in Carriages, NEW s \in Stages, NEW rc \in Receipts, NEW k \in ExecKeys,
             NEW r \in Roots, dispatch(c, s, rc, k, r)
      PROVE  CallHasRow'
  <2>1. dispatches'[k] # NoRow
    <3>1. CASE dispatch_staged(s, rc, k)
      <4>1. [stage |-> s, receipt |-> rc, egress |-> "pending"] \in DispatchRow
        BY DEF DispatchRow, EgressState
      <4>2. QED
        BY <3>1, <4>1 DEF dispatch_staged, TypeOK
    <3>2. CASE egress_may_be_attempted(s, rc, k)
      BY <3>2 DEF egress_may_be_attempted, storeVars
    <3>3. QED
      BY <1>2, <3>1, <3>2, Zenon DEF dispatch
  <2>2. /\ calls'[c].key = k
        /\ \A d \in Carriages : d # c => calls'[d] = calls[d]
    BY <1>2, Zenon DEF dispatch, TypeOK
  <2>3. QED
    BY <2>1, <2>2, <1>k, <1>t DEF CallHasRow, RowsKept
<1>3. ASSUME NEW c \in Carriages,
             \/ Post(c) \/ PostFails(c) \/ AnswerArrives(c) \/ Timeout(c)
             \/ RecordCarriage(c) \/ RecordSkipped(c)
             \/ RecvFresh(c) \/ RecvCommit(c) \/ RecvAgain(c) \/ RecvRefuse(c) \/ Lose(c)
      PROVE  CallHasRow'
  <2>1. CASE Post(c) \/ PostFails(c) \/ AnswerArrives(c) \/ Timeout(c)
    <3>1. calls[c] \in Call /\ \E p : calls' = [calls EXCEPT ![c].pc = p]
      BY <2>1, Zenon DEF Post, PostFails, AnswerArrives, Timeout, TypeOK
    <3>2. QED
      BY <1>1, <2>1, <3>1 DEF TypeOK, Call, Post, PostFails, AnswerArrives, Timeout
  <2>2. CASE RecordCarriage(c) \/ RecordSkipped(c)
    BY <1>1, <2>2 DEF RecordCarriage, RecordSkipped, TypeOK
  <2>3. CASE UNCHANGED calls
    BY <1>1, <2>3
  <2>4. QED
    BY <1>3, <2>1, <2>2, <2>3, Zenon DEF RecvFresh, RecvCommit, RecvAgain, RecvRefuse, Lose
<1>4. QED
  BY <1>1, <1>2, <1>3, StepCases DEF PeerStep, stage, stage_consent, Crash

(* What recipients hold, and the record of who was written to, only grow. *)
LEMMA FarGrows ==
    ASSUME TypeOK, [Next]_vars
    PROVE  /\ \A r \in Roots : inbox[r] \subseteq inbox'[r]
           /\ \A k \in ExecKeys : carriedTo[k] \subseteq carriedTo'[k]
<1>1. CASE UNCHANGED <<inbox, carriedTo>>
  BY <1>1
<1>2. ASSUME NEW c \in Carriages, Post(c)
      PROVE  /\ \A r \in Roots : inbox[r] \subseteq inbox'[r]
             /\ \A k \in ExecKeys : carriedTo[k] \subseteq carriedTo'[k]
  BY <1>2 DEF Post, farVars, TypeOK
<1>3. ASSUME NEW c \in Carriages, RecvCommit(c)
      PROVE  /\ \A r \in Roots : inbox[r] \subseteq inbox'[r]
             /\ \A k \in ExecKeys : carriedTo[k] \subseteq carriedTo'[k]
  BY <1>3 DEF RecvCommit, TypeOK
<1>4. QED
  BY <1>1, <1>2, <1>3, StepCases, ZenonT(30) DEF PeerStep, stage, stage_consent, dispatch, PostFails,
     AnswerArrives, Timeout, RecordCarriage, RecordSkipped, RecvFresh, RecvAgain, RecvRefuse,
     Lose, Crash, farVars

(* A body that is backed stays backed. *)
LEMMA BackedStays ==
    ASSUME TypeOK, RowsKept, NEW b \in BodyType, Backed(b)
    PROVE  Backed(b)'
  BY DEF Backed, RowsKept, BodyType

(* A step that leaves a carriage slot alone keeps its invariant. *)
LEMMA SlotAlone ==
    ASSUME TypeOK, RowsKept, NEW c \in Carriages, SlotInv(c),
           calls'[c] = calls[c], wire'[c] = wire[c],
           \A r \in Roots : inbox[r] \subseteq inbox'[r],
           \A k \in ExecKeys : carriedTo[k] \subseteq carriedTo'[k]
    PROVE  SlotInv(c)'
<1> USE CoordinationAssumption
<1>1. calls[c] # NoCall => calls[c].key \in ExecKeys /\ calls[c].root \in Roots
  BY ZenonT(30) DEF TypeOK, Call
<1>2. wire[c] # NoMsg => /\ wire[c].body \in BodyType
                         /\ wire[c].body.id \in ExecKeys
                         /\ wire[c].body.recipient \in Roots
  BY SMTT(30) DEF TypeOK, Msg, BodyType
<1>3. wire[c] # NoMsg => Backed(wire[c].body)'
  <2>1. ASSUME NEW b \in BodyType, Backed(b), wire[c].body = b, wire[c] # NoMsg
        PROVE  Backed(wire[c].body)'
    <3>1. Backed(b)'
      BY <2>1, BackedStays, Zenon
    <3>2. wire'[c].body = b
      BY <2>1, Zenon
    <3>3. QED
      BY <3>1, <3>2, ZenonT(30) DEF Backed
  <2>2. QED
    BY <1>2, <2>1, Zenon DEF SlotInv
<1>4. QED
  BY <1>1, <1>2, <1>3, Zenon DEF SlotInv, HeldBy

(* The carriage invariant is inductive: a request is written only for a row  *)
(* dispatch_staged committed, and an acknowledgement only after the inbox     *)
(* record (RecvCommit, or RecvAgain for a body already held).                 *)
LEMMA CarriageStep ==
    ASSUME TypeOK, TypeOK', CallHasRow, LedgerInv, CarriageInv, [Next]_vars
    PROVE  CarriageInv'
<1> USE CoordinationAssumption
<1>k. RowsKept
  BY RowsAreKept
<1>g. /\ \A r \in Roots : inbox[r] \subseteq inbox'[r]
      /\ \A k \in ExecKeys : carriedTo[k] \subseteq carriedTo'[k]
  BY FarGrows
<1>a. ASSUME NEW c \in Carriages, calls'[c] = calls[c], wire'[c] = wire[c]
      PROVE  SlotInv(c)'
  BY <1>a, <1>k, <1>g, SlotAlone, Zenon DEF CarriageInv
<1>c. \A c \in Carriages : calls[c] # NoCall =>
          calls[c] \in Call /\ calls[c].key \in ExecKeys /\ calls[c].root \in Roots
  BY SMTT(30) DEF TypeOK, Call
<1>w. \A c \in Carriages : wire[c] # NoMsg =>
          /\ wire[c] \in Msg
          /\ wire[c].body \in BodyType
          /\ wire[c].body.id \in ExecKeys
          /\ wire[c].body.recipient \in Roots
  BY SMTT(30) DEF TypeOK, Msg, BodyType
(* The message of a slot is kept, whatever becomes of its call and progress. *)
<1>m. ASSUME NEW c \in Carriages, wire[c] # NoMsg, wire'[c] # NoMsg,
             wire'[c].body = wire[c].body
      PROVE  /\ Backed(wire[c].body)'
             /\ wire'[c].body.recipient \in carriedTo'[wire'[c].body.id]
             /\ wire[c].body \in inbox[wire[c].body.recipient] =>
                   wire'[c].body \in inbox'[wire'[c].body.recipient]
  <2>1. ASSUME NEW b \in BodyType, Backed(b), wire[c].body = b
        PROVE  Backed(wire[c].body)'
    <3>1. Backed(b)'
      BY <2>1, <1>k, BackedStays, Zenon
    <3>2. wire'[c].body = b
      BY <2>1, <1>m, Zenon
    <3>3. QED
      BY <3>1, <3>2, ZenonT(30) DEF Backed
  <2>2. QED
    BY <1>m, <1>w, <1>g, <2>1, Zenon DEF CarriageInv, SlotInv
<1>1. ASSUME NEW c \in Carriages, NEW s \in Stages, NEW rc \in Receipts, NEW k \in ExecKeys,
             NEW r \in Roots, dispatch(c, s, rc, k, r)
      PROVE  CarriageInv'
  <2>1. /\ calls'[c] = [pc |-> "routed", key |-> k, root |-> r]
        /\ wire'[c] = NoMsg
        /\ wire' = wire
        /\ \A d \in Carriages : d # c => calls'[d] = calls[d]
    BY <1>1, Zenon DEF dispatch, TypeOK
  <2>2. SlotInv(c)'
    <3>1. calls'[c].pc = "routed"
      BY ONLY <2>1
    <3>2. calls'[c].pc # "acked"
      BY ONLY <3>1
    <3>3. QED
      BY <2>1, <3>1, <3>2, Zenon DEF SlotInv
  <2>3. QED
    BY <1>a, <2>1, <2>2, Zenon DEF CarriageInv
<1>2. ASSUME NEW c \in Carriages, Post(c) PROVE CarriageInv'
  <2>1. /\ calls[c] # NoCall
        /\ wire'[c] = [at |-> "sent", body |-> message_body(c)]
        /\ calls'[c] = [calls[c] EXCEPT !.pc = "waiting"]
        /\ calls[c].root \in carriedTo'[calls[c].key]
        /\ \A d \in Carriages : d # c => calls'[d] = calls[d] /\ wire'[d] = wire[d]
        /\ UNCHANGED <<dispatches, consents>>
    BY <1>2, <1>c DEF Post, TypeOK, storeVars
  <2>2. /\ wire'[c].at = "sent"
        /\ wire'[c].body.id = calls[c].key
        /\ wire'[c].body.recipient = calls[c].root
        /\ wire'[c].body.stage = dispatches[calls[c].key].stage
        /\ wire'[c].body.receipt = dispatches[calls[c].key].receipt
    BY <2>1 DEF message_body
  <2>3. calls'[c].pc = "waiting" /\ calls'[c].key = calls[c].key /\ calls'[c].root = calls[c].root
    BY <2>1, <1>c DEF Call
  <2>4. Backed(wire[c].body)'
    BY <2>1, <2>2, <1>c DEF Backed, LedgerInv, RowsBacked, CallHasRow
  <2>5. SlotInv(c)'
    BY <2>1, <2>2, <2>3, <2>4 DEF SlotInv
  <2>6. QED
    BY <1>a, <2>1, <2>5 DEF CarriageInv
<1>3. ASSUME NEW c \in Carriages, PostFails(c) \/ Timeout(c) PROVE CarriageInv'
  <2>1. /\ calls[c] # NoCall
        /\ calls'[c] = [calls[c] EXCEPT !.pc = "failed"]
        /\ wire' = wire
        /\ \A d \in Carriages : d # c => calls'[d] = calls[d]
    BY <1>3 DEF PostFails, Timeout, TypeOK
  <2>2. calls'[c].pc = "failed" /\ calls'[c].key = calls[c].key /\ calls'[c].root = calls[c].root
    BY <2>1, <1>c DEF Call
  <2>3. SlotInv(c)'
    BY <1>m, <2>1, <2>2 DEF CarriageInv, SlotInv
  <2>4. QED
    BY <1>a, <2>1, <2>3 DEF CarriageInv
<1>4. ASSUME NEW c \in Carriages, AnswerArrives(c) PROVE CarriageInv'
  <2>1. /\ calls[c] # NoCall /\ wire[c] # NoMsg
        /\ calls'[c] = [calls[c] EXCEPT !.pc = IF wire[c].at = "ok" THEN "acked" ELSE "failed"]
        /\ wire'[c] = NoMsg
        /\ \A d \in Carriages : d # c => calls'[d] = calls[d] /\ wire'[d] = wire[d]
        /\ UNCHANGED <<inbox, carriedTo>>
    BY <1>4 DEF AnswerArrives, TypeOK, farVars
  <2>2. /\ calls'[c].pc = IF wire[c].at = "ok" THEN "acked" ELSE "failed"
        /\ calls'[c].key = calls[c].key
        /\ calls'[c].root = calls[c].root
    BY <2>1, <1>c DEF Call
  <2>3. SlotInv(c)'
    BY <2>1, <2>2, SMTT(30) DEF CarriageInv, SlotInv, HeldBy
  <2>4. QED
    BY <1>a, <2>1, <2>3 DEF CarriageInv
<1>5. ASSUME NEW c \in Carriages, RecordCarriage(c) \/ RecordSkipped(c) PROVE CarriageInv'
  <2>1. /\ calls'[c] = NoCall
        /\ wire' = wire
        /\ \A d \in Carriages : d # c => calls'[d] = calls[d]
    BY <1>5 DEF RecordCarriage, RecordSkipped, TypeOK
  <2>2. SlotInv(c)'
    BY <1>m, <2>1, Zenon DEF CarriageInv, SlotInv
  <2>3. QED
    BY <1>a, <2>1, <2>2, Zenon DEF CarriageInv
<1>6. CASE Crash
  <2>1. \A c \in Carriages : calls'[c] = NoCall /\ wire'[c] = wire[c]
    BY <1>6 DEF Crash
  <2>2. QED
    BY <1>m, <2>1, Zenon DEF CarriageInv, SlotInv
<1>7. ASSUME NEW c \in Carriages, NEW a \in {"admitting", "ok", "no"}, wire[c] # NoMsg,
             wire' = [wire EXCEPT ![c].at = a], calls' = calls,
             a = "ok" => wire[c].body \in inbox'[wire[c].body.recipient]
      PROVE  CarriageInv'
  <2>1. /\ wire'[c] # NoMsg
        /\ wire'[c].at = a
        /\ wire'[c].body = wire[c].body
        /\ \A d \in Carriages : d # c => wire'[d] = wire[d]
    BY <1>7, <1>w, ZenonT(30) DEF TypeOK, Msg
  <2>2. SlotInv(c)'
    BY <1>7, <1>m, <1>g, <1>c, <2>1 DEF CarriageInv, SlotInv, HeldBy
  <2>3. QED
    BY <1>a, <1>7, <2>1, <2>2 DEF CarriageInv
<1>8. ASSUME NEW c \in Carriages, RecvFresh(c) \/ RecvRefuse(c) PROVE CarriageInv'
  BY <1>7, <1>8, Zenon DEF RecvFresh, RecvRefuse
<1>9. ASSUME NEW c \in Carriages, RecvCommit(c) PROVE CarriageInv'
  <2>1. wire[c].body \in inbox'[wire[c].body.recipient]
    BY <1>9, <1>w DEF RecvCommit, TypeOK
  <2>2. QED
    BY <1>7, <1>9, <2>1, Zenon DEF RecvCommit
<1>10. ASSUME NEW c \in Carriages, RecvAgain(c) PROVE CarriageInv'
  <2>1. CASE PriorSighting(c) = {wire[c].body}
    <3>1. wire[c].body \in inbox[wire[c].body.recipient]
      BY <2>1 DEF PriorSighting
    <3>2. QED
      BY <1>7, <1>10, <2>1, <3>1, Zenon DEF RecvAgain, farVars
  <2>2. CASE PriorSighting(c) # {wire[c].body}
    BY <1>7, <1>10, <2>2, Zenon DEF RecvAgain
  <2>3. QED
    BY <2>1, <2>2
<1>11. ASSUME NEW c \in Carriages, Lose(c) PROVE CarriageInv'
  <2>1. /\ wire'[c] = NoMsg
        /\ calls' = calls
        /\ \A d \in Carriages : d # c => wire'[d] = wire[d]
        /\ wire[c] # NoMsg
    BY <1>11 DEF Lose, TypeOK
  <2>2. SlotInv(c)'
    BY <2>1, <1>g, <1>c, Zenon DEF CarriageInv, SlotInv, HeldBy
  <2>3. QED
    BY <1>a, <2>1, <2>2, SMTT(30) DEF CarriageInv
<1>12. CASE UNCHANGED <<calls, wire>>
  BY <1>a, <1>12, Zenon DEF CarriageInv
<1>13. QED
  BY <1>1, <1>2, <1>3, <1>4, <1>5, <1>6, <1>8, <1>9, <1>10, <1>11, <1>12, StepCases
     DEF PeerStep, stage, stage_consent

(* The inbox invariant is inductive: receive_request records a body only from *)
(* the wire, where it is backed and was written to this recipient.            *)
LEMMA InboxStep ==
    ASSUME TypeOK, CallHasRow, CarriageInv, InboxInv, [Next]_vars
    PROVE  InboxInv'
<1> USE CoordinationAssumption
<1>k. RowsKept
  BY RowsAreKept
<1>g. \A k \in ExecKeys : carriedTo[k] \subseteq carriedTo'[k]
  BY FarGrows, SMTT(30)
<1>1. ASSUME NEW r \in Roots, NEW b \in inbox[r]
      PROVE  Backed(b)' /\ b.recipient = r /\ r \in carriedTo'[b.id]
  <2>1. b \in BodyType /\ b.id \in ExecKeys
    BY SMTT(30) DEF TypeOK, BodyType
  <2>2. QED
    BY <1>k, <1>g, <2>1, BackedStays, Zenon DEF InboxInv
<1>2. ASSUME NEW c \in Carriages, RecvCommit(c) PROVE InboxInv'
  <2>n. PICK new : new = wire[c].body
    OBVIOUS
  <2>1. /\ new \in BodyType
        /\ new.recipient \in Roots
        /\ Backed(new)
        /\ new.recipient \in carriedTo[new.id]
    BY <1>2, <2>n DEF RecvCommit, CarriageInv, SlotInv, TypeOK, Msg, BodyType
  <2>2. /\ \A r \in Roots : \A b \in inbox'[r] :
              b \in inbox[r] \/ (b = new /\ r = new.recipient)
        /\ UNCHANGED <<dispatches, consents, carriedTo>>
    BY <1>2, <2>n, <2>1 DEF RecvCommit, TypeOK, storeVars
  <2>3. Backed(new)' /\ new.recipient \in carriedTo'[new.id]
    BY <2>1, <2>2 DEF Backed
  <2>4. SUFFICES ASSUME NEW r \in Roots, NEW b \in inbox'[r]
                 PROVE  Backed(b)' /\ b.recipient = r /\ r \in carriedTo'[b.id]
    BY DEF InboxInv, Backed
  <2>5. CASE b \in inbox[r]
    BY <1>1, <2>5, SMTT(30)
  <2>6. CASE b = new /\ r = new.recipient
    BY <2>3, <2>6, Zenon DEF Backed
  <2>7. QED
    BY <2>2, <2>5, <2>6
<1>3. CASE UNCHANGED inbox
  BY <1>1, <1>3 DEF InboxInv, Backed
<1>4. QED
  BY <1>2, <1>3, StepCases, Zenon DEF PeerStep, stage, stage_consent, dispatch, Post, PostFails,
     AnswerArrives, Timeout, RecordCarriage, RecordSkipped, RecvFresh, RecvAgain, RecvRefuse,
     Lose, Crash, farVars

(* Only Post writes to a recipient, for the row of its call. *)
LEMMA CarriedStep ==
    ASSUME TypeOK, CallHasRow, CarriedHasRow, [Next]_vars
    PROVE  CarriedHasRow'
<1> USE CoordinationAssumption
<1>k. RowsKept
  BY RowsAreKept
<1>1. ASSUME NEW c \in Carriages, Post(c) PROVE CarriedHasRow'
  <2>1. /\ calls[c].key \in ExecKeys
        /\ dispatches[calls[c].key] # NoRow
        /\ \A k \in ExecKeys : k # calls[c].key => carriedTo'[k] = carriedTo[k]
        /\ dispatches' = dispatches
    BY <1>1 DEF Post, TypeOK, Call, CallHasRow, storeVars
  <2>2. QED
    BY <2>1, Zenon DEF CarriedHasRow
<1>2. CASE UNCHANGED carriedTo
  BY <1>k, <1>2, Zenon DEF CarriedHasRow, RowsKept
<1>3. QED
  BY <1>1, <1>2, StepCases, ZenonT(30) DEF PeerStep, stage, stage_consent, dispatch, PostFails,
     AnswerArrives, Timeout, RecordCarriage, RecordSkipped, RecvFresh, RecvCommit, RecvAgain,
     RecvRefuse, Lose, Crash

(* record_egress writes `sent` only for a call that was acknowledged. *)
LEMMA SentStep ==
    ASSUME TypeOK, CallHasRow, CarriageInv, SentMeansAdmitted, [Next]_vars
    PROVE  SentMeansAdmitted'
<1> USE CoordinationAssumption
<1>g. /\ \A r \in Roots : inbox[r] \subseteq inbox'[r]
      /\ \A k \in ExecKeys : carriedTo[k] \subseteq carriedTo'[k]
      /\ \A k \in ExecKeys : carriedTo[k] \subseteq Roots
  BY FarGrows, Zenon DEF TypeOK
<1>1. ASSUME NEW k \in ExecKeys, \E r \in carriedTo[k] : \E b \in inbox[r] : b.id = k
      PROVE  \E r \in carriedTo'[k] : \E b \in inbox'[r] : b.id = k
  <2>1. PICK r \in carriedTo[k] : \E b \in inbox[r] : b.id = k
    BY <1>1
  <2>2. r \in carriedTo'[k] /\ r \in Roots
    BY <1>g, Zenon
  <2>3. QED
    BY <1>g, <2>1, <2>2, Zenon
<1>2. ASSUME \A k \in ExecKeys : (dispatches'[k] # NoRow /\ dispatches'[k].egress = "sent") =>
                dispatches[k] # NoRow /\ dispatches[k].egress = "sent"
      PROVE  SentMeansAdmitted'
  BY <1>1, <1>2, Zenon DEF SentMeansAdmitted
<1>3. ASSUME NEW s \in Stages, NEW rc \in Receipts, NEW k \in ExecKeys, dispatch_staged(s, rc, k)
      PROVE  SentMeansAdmitted'
  <2>1. /\ dispatches'[k].egress = "pending"
        /\ \A j \in ExecKeys : j # k => dispatches'[j] = dispatches[j]
    BY <1>3 DEF dispatch_staged, TypeOK
  <2>2. QED
    BY <1>2, <2>1, Zenon
<1>4. ASSUME NEW c \in Carriages, RecordCarriage(c) PROVE SentMeansAdmitted'
  <2>1. /\ calls[c] # NoCall /\ calls[c].key \in ExecKeys
        /\ dispatches[calls[c].key] \in DispatchRow
        /\ calls[c].pc \in {"acked", "failed"}
    BY <1>4 DEF RecordCarriage, TypeOK, Call, CallHasRow
  <2>2. \A j \in ExecKeys : j # calls[c].key => dispatches'[j] = dispatches[j]
    BY <1>4, <2>1 DEF RecordCarriage, record_egress, TypeOK
  <2>3. CASE calls[c].pc = "acked"
    <3>1. \E r \in carriedTo[calls[c].key] : \E b \in inbox[r] : b.id = calls[c].key
      BY <2>1, <2>3, Zenon DEF CarriageInv, SlotInv, HeldBy
    <3>2. QED
      BY <1>1, <2>1, <2>2, <3>1, SMTT(30) DEF SentMeansAdmitted
  <2>4. CASE calls[c].pc = "failed"
    <3>1. dispatches'[calls[c].key].egress = "sent" => dispatches[calls[c].key].egress = "sent"
      BY <1>4, <2>1, <2>4 DEF RecordCarriage, record_egress, TypeOK, DispatchRow
    <3>2. QED
      BY <1>2, <2>1, <2>2, <3>1, Zenon
  <2>5. QED
    BY <2>1, <2>3, <2>4, Zenon
<1>5. CASE UNCHANGED dispatches
  BY <1>2, <1>5
<1>6. QED
  BY <1>3, <1>4, <1>5, LedgerCases DEF storeVars, stage, stage_consent

-----------------------------------------------------------------------------
(* The inductive invariant holds initially. *)
LEMMA IInvInit == Init => IInv
<1> SUFFICES ASSUME Init PROVE IInv
  OBVIOUS
<1>1. TypeOK
  BY TypeInit
<1>2. /\ \A s \in Stages : staged[s] = "none"
      /\ \A rc \in Receipts : consents[rc] = NoRow
      /\ \A k \in ExecKeys : dispatches[k] = NoRow /\ carriedTo[k] = {}
      /\ \A c \in Carriages : calls[c] = NoCall /\ wire[c] = NoMsg
      /\ \A r \in Roots : inbox[r] = {}
  BY DEF Init
<1>3. CallHasRow
  BY <1>2, SMTT(30) DEF CallHasRow
<1>4. LedgerInv
  BY <1>2 DEF LedgerInv, RowsBacked, LiveReceiptIsAlone, SpentReceiptHasRow, PhaseHasReceipt,
     OneDispatchPerStage
<1>5. CarriageInv
  BY <1>2, ZenonT(30) DEF CarriageInv, SlotInv
<1>6. InboxInv /\ CarriedHasRow /\ SentMeansAdmitted
  BY <1>2 DEF InboxInv, CarriedHasRow, SentMeansAdmitted
<1>7. QED
  BY <1>1, <1>3, <1>4, <1>5, <1>6 DEF IInv

(* Every step keeps it. *)
LEMMA IInvStep == IInv /\ [Next]_vars => IInv'
<1> SUFFICES ASSUME IInv, [Next]_vars PROVE IInv'
  OBVIOUS
<1>1. TypeOK /\ CallHasRow /\ LedgerInv /\ CarriageInv /\ InboxInv /\ CarriedHasRow
      /\ SentMeansAdmitted
  BY DEF IInv
<1>2. TypeOK'
  BY <1>1, TypeStep
<1>3. CallHasRow'
  BY <1>1, CallStep
<1>4. LedgerInv'
  BY <1>1, <1>2, LedgerStep
<1>5. CarriageInv'
  BY <1>1, <1>2, CarriageStep
<1>6. InboxInv'
  BY <1>1, InboxStep
<1>7. CarriedHasRow'
  BY <1>1, CarriedStep
<1>8. SentMeansAdmitted'
  BY <1>1, SentStep
<1>9. QED
  BY <1>2, <1>3, <1>4, <1>5, <1>6, <1>7, <1>8 DEF IInv

(* The coordination surface keeps its inductive invariant for ever. *)
THEOREM Invariance == Spec => []IInv
  BY IInvInit, IInvStep, PTL DEF Spec

(* The rows, calls and messages of the coordination surface always have their *)
(* declared types: no handler writes a row of another shape.                  *)
THEOREM TypeCorrect == Spec => []TypeOK
<1>1. IInv => TypeOK
  BY DEF IInv
<1>2. QED
  BY Invariance, <1>1, PTL

(* One dispatch per staged content, for any number of receipts, execution     *)
(* keys, concurrent calls and crashes (stage_consent and dispatch_staged).    *)
THEOREM OneDispatch == Spec => []OneDispatchPerStage
<1>1. IInv => OneDispatchPerStage
  BY SMTT(30) DEF IInv, LedgerInv
<1>2. QED
  BY Invariance, <1>1, PTL

(* Durable before effect: no byte is on the network or in an inbox without a  *)
(* committed dispatch that spent a receipt minted for that content.           *)
THEOREM ByteIsConsented == Spec => []EveryByteIsConsented
<1>1. IInv => EveryByteIsConsented
  BY DEF IInv, EveryByteIsConsented, CarriageInv, SlotInv, InboxInv
<1>2. QED
  BY Invariance, <1>1, PTL

(* A dispatch recorded `sent` is durably held by a recipient it was written   *)
(* to (carry, record_egress, receive_request).                                *)
THEOREM SentIsAdmitted == Spec => []SentMeansAdmitted
<1>1. IInv => SentMeansAdmitted
  BY SMTT(30) DEF IInv
<1>2. QED
  BY Invariance, <1>1, PTL

(* A re-carriage is byte-identical for its recipient, so the idempotency      *)
(* lookup replays instead of answering 409 (message_body, admit).             *)
THEOREM NoConflict == Spec => []RetryNeverConflicts
<1>1. IInv => RetryNeverConflicts
  <2> SUFFICES ASSUME IInv, NEW c \in Carriages, wire[c] # NoMsg, NEW b \in PriorSighting(c)
               PROVE  b = wire[c].body
    BY DEF RetryNeverConflicts
  <2>1. /\ wire[c].body \in BodyType
        /\ wire[c].body.recipient \in Roots
    BY DEF IInv, TypeOK, Msg, BodyType
  <2>2. /\ b \in inbox[wire[c].body.recipient]
        /\ b.id = wire[c].body.id
    BY DEF PriorSighting
  <2>3. b \in BodyType /\ Backed(b) /\ b.recipient = wire[c].body.recipient
    BY <2>1, <2>2, SMTT(30) DEF IInv, InboxInv, TypeOK
  <2>4. Backed(wire[c].body)
    BY SMTT(30) DEF IInv, CarriageInv, SlotInv
  <2>5. b.stage = wire[c].body.stage /\ b.receipt = wire[c].body.receipt
    BY <2>2, <2>3, <2>4, Zenon DEF Backed
  <2>6. QED
    BY <2>1, <2>2, <2>3, <2>5 DEF BodyType
<1>2. QED
  BY Invariance, <1>1, PTL

(* `sent` is final: no late failure, crash or retry rewrites the row          *)
(* (record_egress).                                                           *)
THEOREM SentStaysSent == Spec => SentIsFinal
<1>1. IInv /\ [Next]_vars =>
        [\A k \in ExecKeys : (dispatches[k] # NoRow /\ dispatches[k].egress = "sent") =>
            dispatches'[k] = dispatches[k]]_vars
  BY RowsAreKept DEF IInv, RowsKept
<1>2. QED
  BY Invariance, <1>1, PTL DEF Spec, SentIsFinal

(* A recipient that holds a dispatch records no further arrival of it         *)
(* (admit looks the message id up before handle_coord_dispatch runs).         *)
THEOREM ArrivalsStop == Spec => NoArrivalAfterRecord
<1>1. IInv /\ [Next]_vars =>
        [\A r \in Roots : \A b \in inbox[r] : arrivals'[r][b.id] = arrivals[r][b.id]]_vars
  <2> SUFFICES ASSUME IInv, [Next]_vars, NEW r \in Roots, NEW b \in inbox[r]
               PROVE  arrivals'[r][b.id] = arrivals[r][b.id]
    OBVIOUS
  <2>1. CASE UNCHANGED arrivals
    BY <2>1, Zenon
  <2>2. ASSUME NEW c \in Carriages, RecvFresh(c) PROVE arrivals'[r][b.id] = arrivals[r][b.id]
    <3>1. b.id \in ExecKeys
      BY DEF IInv, TypeOK, BodyType
    <3>2. ~(r = wire[c].body.recipient /\ b.id = wire[c].body.id)
      BY <2>2 DEF RecvFresh, PriorSighting
    <3>3. QED
      BY <2>2, <3>1, <3>2 DEF RecvFresh, IInv, TypeOK
  <2>3. QED
    BY <2>1, <2>2, StepCases DEF PeerStep, stage, stage_consent, dispatch, Post, PostFails,
       AnswerArrives, Timeout, RecordCarriage, RecordSkipped, RecvCommit, RecvAgain, RecvRefuse,
       Lose, Crash, farVars
<1>2. QED
  BY Invariance, <1>1, PTL DEF Spec, NoArrivalAfterRecord

-----------------------------------------------------------------------------
(* Coordination implements Disclosure, for every choice of its constants:  *)
(* the initial states map to initial states, and under the inductive       *)
(* invariant every step maps to a Disclosure step or to a stutter.         *)

(* The refinement mapping, one content at a time. *)
disclosedOf(s) == UNION {carriedTo[k] : k \in coord_dispatch(s)}

(* A content whose ledger entries and recipients a step leaves alone keeps   *)
(* its abstract state.                                                       *)
LEMMA ContentAlone ==
    ASSUME NEW s \in Stages, staged'[s] = staged[s],
           coord_dispatch(s)' = coord_dispatch(s),
           \A k \in coord_dispatch(s) : dispatches'[k].egress = "sent" <=> dispatches[k].egress = "sent",
           \A k \in coord_dispatch(s) : carriedTo'[k] = carriedTo[k]
    PROVE  phaseOf(s)' = phaseOf(s) /\ disclosedOf(s)' = disclosedOf(s)
<1>1. phaseOf(s)' = phaseOf(s)
  BY DEF phaseOf
<1>2. disclosedOf(s)' = disclosedOf(s)
  BY SMTT(30) DEF disclosedOf
<1>3. QED
  BY <1>1, <1>2

(* The phase of a content without a dispatch is its staging status; with one  *)
(* it is spent, or acknowledged once that dispatch is sent.                   *)
LEMMA PhaseCases ==
    ASSUME IInv, NEW s \in Stages
    PROVE  /\ coord_dispatch(s) = {} =>
                 /\ phaseOf(s) = staged[s]
                 /\ staged[s] \in {"none", "staged", "consented"}
           /\ \A k \in coord_dispatch(s) :
                 /\ coord_dispatch(s) = {k}
                 /\ phaseOf(s) = IF dispatches[k].egress = "sent" THEN "acknowledged" ELSE "spent"
                 /\ disclosedOf(s) = carriedTo[k]
<1> USE CoordinationAssumption
<1>1. ASSUME coord_dispatch(s) = {}
      PROVE  /\ phaseOf(s) = staged[s]
             /\ staged[s] \in {"none", "staged", "consented"}
  <2>1. staged[s] # "dispatched"
    <3> SUFFICES ASSUME staged[s] = "dispatched" PROVE FALSE
      OBVIOUS
    <3>1. PICK rc \in Receipts : consents[rc] # NoRow /\ consents[rc].stage = s
      BY DEF IInv, LedgerInv, PhaseHasReceipt
    <3>2. consents[rc].uses \in {0, 1}
      BY <3>1 DEF IInv, TypeOK, ConsentRow
    <3>3. consents[rc].uses # 0
      BY <3>1, ZenonT(30) DEF IInv, LedgerInv, LiveReceiptIsAlone
    <3>4. PICK k \in ExecKeys : dispatches[k] # NoRow /\ dispatches[k].receipt = rc
      BY <3>1, <3>2, <3>3 DEF IInv, LedgerInv, SpentReceiptHasRow
    <3>5. dispatches[k].stage = s
      BY <3>1, <3>4 DEF IInv, LedgerInv, RowsBacked
    <3>6. QED
      BY <1>1, <3>4, <3>5 DEF coord_dispatch
  <2>2. QED
    BY <1>1, <2>1 DEF phaseOf, IInv, TypeOK
<1>2. ASSUME NEW k \in coord_dispatch(s)
      PROVE  /\ coord_dispatch(s) = {k}
             /\ phaseOf(s) = IF dispatches[k].egress = "sent" THEN "acknowledged" ELSE "spent"
             /\ disclosedOf(s) = carriedTo[k]
  <2>1. coord_dispatch(s) = {k}
    BY DEF coord_dispatch, IInv, LedgerInv, OneDispatchPerStage
  <2>2. staged[s] = "dispatched"
    BY DEF coord_dispatch, IInv, LedgerInv, RowsBacked
  <2>3. phaseOf(s) = IF dispatches[k].egress = "sent" THEN "acknowledged" ELSE "spent"
    BY <2>1, <2>2 DEF phaseOf
  <2>4. disclosedOf(s) = carriedTo[k]
    BY <2>1 DEF disclosedOf
  <2>5. QED
    BY <2>1, <2>3, <2>4
<1>3. QED
  BY <1>1, <1>2

(* The initial states of the surface are initial states of the promise. *)
LEMMA DisclosureInit == Init => Promise!Init
<1> SUFFICES ASSUME Init PROVE Promise!Init
  OBVIOUS
<1>1. \A s \in Stages : coord_dispatch(s) = {}
  BY DEF Init, coord_dispatch
<1>2. \A s \in Stages : phaseOf(s) = "none" /\ UNION {carriedTo[k] : k \in coord_dispatch(s)} = {}
  BY <1>1 DEF Init, phaseOf
<1>3. QED
  BY <1>2 DEF Promise!Init

(* A step that changes the abstract state of one content only. *)
AloneBut(s) == \A t \in Stages : t # s =>
    phaseOf(t)' = phaseOf(t) /\ disclosedOf(t)' = disclosedOf(t)

(* A phase change of one content is a Move of the promise. *)
LEMMA MapsToMove ==
    ASSUME NEW s \in Stages, NEW to, AloneBut(s), disclosedOf(s)' = disclosedOf(s),
           phaseOf(s)' = to
    PROVE  Promise!Move(s, phaseOf(s), to)
  BY Zenon DEF AloneBut, disclosedOf, Promise!Move

(* A new recipient of one content is a Disclose of the promise. *)
LEMMA MapsToDisclose ==
    ASSUME NEW s \in Stages, NEW r \in Roots, AloneBut(s), phaseOf(s)' = phaseOf(s),
           phaseOf(s) \in {"spent", "acknowledged"},
           disclosedOf(s)' = disclosedOf(s) \cup {r}
    PROVE  Promise!Disclose(s, r)
  BY ZenonT(30) DEF AloneBut, disclosedOf, Promise!Disclose

(* A step that changes no content's abstract state is a stutter. *)
LEMMA MapsToStutter ==
    ASSUME \A t \in Stages : phaseOf(t)' = phaseOf(t) /\ disclosedOf(t)' = disclosedOf(t)
    PROVE  UNCHANGED Promise!dvars
  BY DEF disclosedOf, Promise!dvars

(* Every step of the surface is a step of the promise or a stutter of it. *)
LEMMA DisclosureStep == IInv /\ IInv' /\ [Next]_vars => [Promise!Next]_Promise!dvars
<1> SUFFICES ASSUME IInv, IInv', [Next]_vars PROVE [Promise!Next]_Promise!dvars
  OBVIOUS
<1> USE CoordinationAssumption
<1>t. TypeOK
  BY DEF IInv
<1>1. CASE UNCHANGED <<storeVars, carriedTo>>
  <2>1. \A t \in Stages : coord_dispatch(t)' = coord_dispatch(t)
    BY <1>1, SMTT(30) DEF coord_dispatch, storeVars
  <2>2. \A t \in Stages : phaseOf(t)' = phaseOf(t) /\ disclosedOf(t)' = disclosedOf(t)
    BY <1>1, <2>1, ContentAlone DEF storeVars
  <2>3. QED
    BY <2>2, MapsToStutter
<1>2. ASSUME NEW s \in Stages, stage(s) PROVE Promise!Next
  <2>1. /\ \A t \in Stages : coord_dispatch(t)' = coord_dispatch(t)
        /\ \A t \in Stages : t # s => staged'[t] = staged[t]
        /\ staged[s] = "none" /\ staged'[s] = "staged"
        /\ dispatches' = dispatches /\ carriedTo' = carriedTo
    BY <1>2, <1>t DEF stage, TypeOK, coord_dispatch
  <2>2. AloneBut(s)
    BY <2>1, ContentAlone, Zenon DEF AloneBut
  <2>3. coord_dispatch(s) = {}
    BY <2>1, Zenon DEF coord_dispatch, IInv, LedgerInv, RowsBacked
  <2>4. phaseOf(s) = "none" /\ phaseOf(s)' = "staged" /\ disclosedOf(s)' = disclosedOf(s)
    <3>1. phaseOf(s) = staged[s] /\ phaseOf(s)' = staged'[s]
      <4>1. staged[s] # "dispatched" /\ staged'[s] # "dispatched"
        BY <2>1, Zenon
      <4>2. coord_dispatch(s) = {} /\ coord_dispatch(s)' = {}
        BY <2>1, <2>3, Zenon
      <4> QED
        BY <4>1, <4>2, ZenonT(30) DEF phaseOf
    <3>2. disclosedOf(s)' = disclosedOf(s)
      <4>1. carriedTo' = carriedTo /\ coord_dispatch(s)' = coord_dispatch(s)
        BY <2>1, Zenon
      <4> QED
        BY <4>1, Zenon DEF disclosedOf
    <3> QED
      BY <2>1, <3>1, <3>2, Zenon
  <2>5. Promise!Move(s, "none", "staged")
    BY <2>2, <2>4, MapsToMove
  <2>6. QED
    BY <2>5 DEF Promise!Next
<1>3. ASSUME NEW s \in Stages, NEW rc \in Receipts, stage_consent(s, rc) PROVE Promise!Next
  <2>1. /\ \A t \in Stages : coord_dispatch(t)' = coord_dispatch(t)
        /\ \A t \in Stages : t # s => staged'[t] = staged[t]
        /\ staged[s] # "none" /\ staged'[s] = "consented"
        /\ dispatches' = dispatches /\ carriedTo' = carriedTo
        /\ coord_dispatch(s) = {} /\ unconsumed_consent(s) = {}
    BY <1>3, <1>t, Zenon DEF stage_consent, TypeOK, coord_dispatch
  <2>2. AloneBut(s)
    BY <2>1, ContentAlone, Zenon DEF AloneBut
  <2>3. staged[s] # "consented"
    <3> SUFFICES ASSUME staged[s] = "consented" PROVE FALSE
      OBVIOUS
    <3>1. PICK q \in Receipts : consents[q] # NoRow /\ consents[q].stage = s
      BY Zenon DEF IInv, LedgerInv, PhaseHasReceipt
    <3>2. consents[q].uses \in {0, 1} /\ ~(consents[q].uses < 1)
      BY <2>1, <3>1, <1>t DEF unconsumed_consent, TypeOK, ConsentRow
    <3>3. consents[q].uses = 1
      BY ONLY <3>2, SMT
    <3>4. PICK k \in ExecKeys : dispatches[k] # NoRow /\ dispatches[k].receipt = q
      BY <3>1, <3>3, Zenon DEF IInv, LedgerInv, SpentReceiptHasRow
    <3>5. dispatches[k].stage = s
      BY <3>1, <3>4, Zenon DEF IInv, LedgerInv, RowsBacked
    <3> QED
      BY <2>1, <3>4, <3>5, Zenon DEF coord_dispatch
  <2>4. phaseOf(s) = "staged" /\ phaseOf(s)' = "consented" /\ disclosedOf(s)' = disclosedOf(s)
    <3>1. coord_dispatch(s) = {} /\ coord_dispatch(s)' = {}
      BY <2>1, ZenonT(30)
    <3>2. phaseOf(s) = "staged"
      <4>1. phaseOf(s) = staged[s] /\ staged[s] \in {"none", "staged", "consented"}
        BY <3>1, PhaseCases, Zenon
      <4> QED
        BY <2>1, <2>3, <4>1, SMTT(30)
    <3>3. phaseOf(s)' = "consented"
      BY <2>1, <3>1, Zenon DEF phaseOf
    <3>4. disclosedOf(s)' = disclosedOf(s)
      <4>1. carriedTo' = carriedTo /\ coord_dispatch(s)' = coord_dispatch(s)
        BY <2>1, Zenon
      <4> QED
        BY <4>1, Zenon DEF disclosedOf
    <3> QED
      BY <3>2, <3>3, <3>4
  <2>5. Promise!Move(s, "staged", "consented")
    BY <2>2, <2>4, MapsToMove
  <2>6. QED
    BY <2>5 DEF Promise!Next
<1>4. ASSUME NEW s \in Stages, NEW rc \in Receipts, NEW k \in ExecKeys, dispatch_staged(s, rc, k),
             carriedTo' = carriedTo
      PROVE  Promise!Next
  <2>1. /\ dispatches[k] = NoRow
        /\ consents[rc] # NoRow /\ consents[rc].stage = s /\ consents[rc].uses < 1
        /\ consents[rc].uses \in {0, 1}
    BY <1>4, <1>t DEF dispatch_staged, TypeOK, ConsentRow
  <2>2. consents[rc].uses = 0
    BY ONLY <2>1, SMT
  <2>3. staged[s] = "consented" /\ coord_dispatch(s) = {}
    BY <2>1, <2>2, Zenon DEF IInv, LedgerInv, LiveReceiptIsAlone, coord_dispatch
  <2>4. /\ dispatches'[k] = [stage |-> s, receipt |-> rc, egress |-> "pending"]
        /\ \A j \in ExecKeys : j # k => dispatches'[j] = dispatches[j]
        /\ staged'[s] = "dispatched"
        /\ \A t \in Stages : t # s => staged'[t] = staged[t]
    BY <1>4, <1>t DEF dispatch_staged, TypeOK
  <2>5. [stage |-> s, receipt |-> rc, egress |-> "pending"] \in DispatchRow
    BY DEF DispatchRow, EgressState
  <2>6. dispatches'[k] # NoRow /\ dispatches'[k].stage = s /\ dispatches'[k].egress = "pending"
    <3>1. dispatches'[k] \in DispatchRow
      BY <2>4, <2>5, ZenonT(30)
    <3>2. dispatches'[k].stage = s /\ dispatches'[k].egress = "pending"
      BY <2>4
    <3>3. dispatches'[k] # NoRow
      BY <3>1, CoordinationAssumption, Zenon
    <3> QED
      BY <3>2, <3>3
  <2>7. /\ coord_dispatch(s)' = {k}
        /\ \A t \in Stages : t # s => coord_dispatch(t)' = coord_dispatch(t)
    <3>1. ASSUME NEW j \in ExecKeys, j # k PROVE dispatches'[j] = dispatches[j]
      BY <2>4, <3>1, Zenon
    <3>2. coord_dispatch(s)' = {k}
      <4>1. \A j \in ExecKeys : ~(dispatches[j] # NoRow /\ dispatches[j].stage = s)
        BY <2>3, Zenon DEF coord_dispatch
      <4>2. \A j \in ExecKeys : (dispatches'[j] # NoRow /\ dispatches'[j].stage = s) <=> j = k
        BY <2>6, <3>1, <4>1, Zenon
      <4> QED
        BY <4>2, Zenon DEF coord_dispatch
    <3>3. ASSUME NEW t \in Stages, t # s PROVE coord_dispatch(t)' = coord_dispatch(t)
      BY <2>1, <2>6, <3>1, <3>3, Zenon DEF coord_dispatch
    <3> QED
      BY <3>2, <3>3, Zenon
  <2>8. \A t \in Stages : \A j \in coord_dispatch(t) : dispatches'[j] = dispatches[j]
    BY <2>1, <2>4, Zenon DEF coord_dispatch
  <2>9. AloneBut(s)
    BY <1>4, <2>4, <2>7, <2>8, ContentAlone, Zenon DEF AloneBut
  <2>10. carriedTo[k] = {}
    BY <2>1, Zenon DEF IInv, CarriedHasRow
  <2>11. phaseOf(s) = "consented" /\ phaseOf(s)' = "spent" /\ disclosedOf(s)' = disclosedOf(s)
    <3>1. phaseOf(s) = "consented"
      BY <2>3 DEF phaseOf
    <3>2. phaseOf(s)' = "spent"
      BY <2>4, <2>6, <2>7, Zenon DEF phaseOf
    <3>3. disclosedOf(s) = {}
      BY <2>3, SMTT(30) DEF disclosedOf
    <3>4. disclosedOf(s)' = {}
      BY <1>4, <2>7, <2>10 DEF disclosedOf
    <3>5. QED
      BY <3>1, <3>2, <3>3, <3>4
  <2>12. Promise!Move(s, "consented", "spent")
    BY <2>9, <2>11, MapsToMove
  <2>13. QED
    BY <2>12 DEF Promise!Next
<1>5. ASSUME NEW c \in Carriages, NEW k \in ExecKeys, NEW r \in Roots, NEW s \in Stages, Post(c),
             calls[c].key = k, calls[c].root = r, dispatches[k] # NoRow, dispatches[k].stage = s
      PROVE  Promise!Next
  <2>1. /\ carriedTo'[k] = carriedTo[k] \cup {r}
        /\ \A j \in ExecKeys : j # k => carriedTo'[j] = carriedTo[j]
        /\ UNCHANGED <<staged, dispatches>>
    BY <1>5, <1>t DEF Post, TypeOK, storeVars
  <2>2. \A t \in Stages : coord_dispatch(t)' = coord_dispatch(t)
    BY <2>1 DEF coord_dispatch
  <2>3. k \in coord_dispatch(s)
    BY <1>5 DEF coord_dispatch
  <2>4. \A t \in Stages : t # s => \A j \in coord_dispatch(t) : j # k /\ j \in ExecKeys
    BY <1>5 DEF coord_dispatch
  <2>5. AloneBut(s)
    BY <2>1, <2>2, <2>4, ContentAlone, Zenon DEF AloneBut
  <2>6. coord_dispatch(s) = {k} /\ disclosedOf(s) = carriedTo[k]
        /\ phaseOf(s) \in {"spent", "acknowledged"}
    BY <2>3, PhaseCases, ZenonT(30)
  <2>7. phaseOf(s)' = phaseOf(s)
    BY <2>1, <2>2, SMTT(30) DEF phaseOf
  <2>8. disclosedOf(s)' = disclosedOf(s) \cup {r}
    BY <2>1, <2>2, <2>6, SMTT(30) DEF disclosedOf
  <2>9. Promise!Disclose(s, r)
    BY <2>5, <2>6, <2>7, <2>8, MapsToDisclose, Zenon
  <2>10. QED
    BY <2>9 DEF Promise!Next
<1>6. ASSUME NEW c \in Carriages, NEW k \in ExecKeys, NEW s \in Stages, RecordCarriage(c),
             calls[c] # NoCall, calls[c].key = k, dispatches[k] \in DispatchRow,
             dispatches[k].stage = s
      PROVE  [Promise!Next]_Promise!dvars
  <2>1. /\ \A j \in ExecKeys : j # k => dispatches'[j] = dispatches[j]
        /\ dispatches'[k] \in DispatchRow
        /\ dispatches'[k].stage = s
        /\ dispatches'[k].egress = IF dispatches[k].egress = "sent" \/ calls[c].pc = "acked"
                                   THEN "sent" ELSE "failed"
        /\ UNCHANGED <<staged, carriedTo>>
    <3>1. /\ dispatches' = [dispatches EXCEPT ![k].egress = IF @ = "sent" THEN @ ELSE
                              IF calls[c].pc = "acked" THEN "sent" ELSE "failed"]
          /\ UNCHANGED <<staged, carriedTo>>
      BY <1>6 DEF RecordCarriage, record_egress
    <3>2. QED
      BY <1>6, <3>1, <1>t DEF TypeOK, DispatchRow, EgressState
  <2>2. \A t \in Stages : coord_dispatch(t)' = coord_dispatch(t)
    BY <1>6, <2>1, ZenonT(30) DEF coord_dispatch
  <2>3. k \in coord_dispatch(s) /\ \A t \in Stages : t # s =>
            \A j \in coord_dispatch(t) : j # k /\ j \in ExecKeys
    BY <1>6, Zenon DEF coord_dispatch
  <2>4. AloneBut(s)
    BY <2>1, <2>2, <2>3, ContentAlone, Zenon DEF AloneBut
  <2>5. coord_dispatch(s) = {k} /\ disclosedOf(s) = carriedTo[k]
        /\ phaseOf(s) = IF dispatches[k].egress = "sent" THEN "acknowledged" ELSE "spent"
    BY <2>3, PhaseCases, Zenon
  <2>6. disclosedOf(s)' = disclosedOf(s)
    <3>1. carriedTo' = carriedTo /\ coord_dispatch(s)' = coord_dispatch(s)
      BY <2>1, <2>2, Zenon
    <3> QED
      BY <3>1, Zenon DEF disclosedOf
  <2>7. CASE dispatches[k].egress # "sent" /\ calls[c].pc = "acked"
    <3>1. calls[c].root \in carriedTo[k]
      BY <1>6, <2>7, Zenon DEF IInv, CarriageInv, SlotInv
    <3>2. phaseOf(s)' = "acknowledged"
      BY <2>1, <2>2, <2>3, <2>7, Zenon DEF phaseOf
    <3>3. Promise!Move(s, "spent", "acknowledged")
      BY <2>4, <2>5, <2>6, <2>7, <3>2, MapsToMove, Zenon
    <3>4. Promise!Acknowledge(s)
      BY <2>5, <3>1, <3>3, Zenon DEF Promise!Acknowledge, disclosedOf
    <3>5. QED
      BY <3>4 DEF Promise!Next
  <2>8. CASE ~(dispatches[k].egress # "sent" /\ calls[c].pc = "acked")
    <3>1. phaseOf(s)' = phaseOf(s)
      BY <2>1, <2>2, <2>5, <2>8, Zenon DEF phaseOf
    <3>2. QED
      BY <2>4, <2>6, <3>1, MapsToStutter DEF AloneBut
  <2>9. QED
    BY <2>7, <2>8
<1>7. ASSUME NEW c \in Carriages, Post(c) PROVE Promise!Next
  <2>1. calls[c].key \in ExecKeys /\ calls[c].root \in Roots
        /\ dispatches[calls[c].key] # NoRow /\ dispatches[calls[c].key].stage \in Stages
    BY <1>7, <1>t DEF Post, TypeOK, Call, DispatchRow, IInv, CallHasRow
  <2>2. QED
    BY <1>5, <1>7, <2>1, Zenon
<1>8. ASSUME NEW c \in Carriages, RecordCarriage(c) PROVE [Promise!Next]_Promise!dvars
  <2>1. calls[c] # NoCall /\ calls[c].key \in ExecKeys
        /\ dispatches[calls[c].key] \in DispatchRow /\ dispatches[calls[c].key].stage \in Stages
    BY <1>8, <1>t, Zenon DEF RecordCarriage, TypeOK, Call, DispatchRow, IInv, CallHasRow
  <2>2. QED
    BY <1>6, <1>8, <2>1, Zenon
<1>9. ASSUME NEW c \in Carriages, NEW s \in Stages, NEW rc \in Receipts, NEW k \in ExecKeys,
             NEW r \in Roots, dispatch(c, s, rc, k, r)
      PROVE  [Promise!Next]_Promise!dvars
  BY <1>1, <1>4, <1>9, Zenon DEF dispatch, egress_may_be_attempted
<1>10. QED
  BY <1>1, <1>2, <1>3, <1>7, <1>8, <1>9, StepCases, Zenon DEF PeerStep, PostFails, AnswerArrives,
     Timeout, RecordSkipped, RecvFresh, RecvCommit, RecvAgain, RecvRefuse, Lose, Crash

(* The surface implements the disclosure promise: a content is disclosed only *)
(* after its one consent was spent, and acknowledged only after a disclosure. *)
THEOREM Implements == Spec => ImplementsDisclosure
  BY Invariance, DisclosureInit, DisclosureStep, PTL DEF Spec, ImplementsDisclosure, Promise!Spec
=============================================================================
