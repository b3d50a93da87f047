---------------------------- MODULE CoordChecks ----------------------------
(***************************************************************************)
(* What the coordination ledger's answers promise, over every database     *)
(* that a bounded sequence of its transactions leaves.                     *)
(***************************************************************************)
EXTENDS Integers, Sequences, FiniteSets
LOCAL INSTANCE CoordReads
LOCAL INSTANCE SequencesExt

LOCAL StageRefs == {1, 2}
LOCAL Keys == {31, 32}
LOCAL NewReceipt(db) == 21 + Cardinality(db.consents)
LOCAL Minted(db) == 21..NewReceipt(db)
LOCAL MaxConsents == 2

(* One transaction of the driver or the operator.  Trusted time stands     *)
(* still, which it may; the carriage of a dispatch may be recorded long    *)
(* after another's.                                                        *)
LOCAL After(db) ==
       {stage_contract(db, s) : s \in StageRefs}
  \cup (IF Cardinality(db.consents) < MaxConsents
        THEN {stage_consent(db, s, NewReceipt(db)).db : s \in StageRefs} ELSE {})
  \cup {dispatch(db, s, r, k, 5, TRUE, "lost").db : s \in StageRefs, r \in Minted(db), k \in Keys}
  \cup {record_egress(db, k, state, "why") : k \in Keys, state \in {"sent", "failed"}}

LOCAL MaxWrites == 8
LOCAL Databases ==
    LET reach[n \in 0..MaxWrites] ==
          IF n = 0 THEN {Fresh} ELSE reach[n - 1] \cup UNION {After(db) : db \in {x \in reach[n - 1] : Len(x.events) = n - 1}}
    IN reach[MaxWrites]

LOCAL Show(db, s) == stage_show(db, s).value
LOCAL Told(db, s) == task_status(db, s).value

(* The feed is enough: replaying its events, with nothing else, gives every *)
(* stage's status and the carriage state of every dispatch (the events     *)
(* stage_contract, mint_consent_receipt, dispatch_staged and record_egress *)
(* append in the transaction that writes the row).                         *)
ASSUME FeedTellsTheState ==
    LET told(view, e) ==
          CASE e.kind = "staged" -> [view EXCEPT !.status[e.about.stage] = "staged"]
            [] e.kind = "consent_recorded" -> [view EXCEPT !.status[e.about.stage] = "consented"]
            [] e.kind = "dispatched" -> [view EXCEPT !.status[e.about.stage] = "dispatched",
                                                     !.egress[e.about.key] = "pending"]
            [] OTHER -> [view EXCEPT !.egress[e.about.key] = e.about.state]
        view0 == [status |-> [s \in StageRefs |-> "none"], egress |-> [k \in Keys |-> "none"]]
    IN \A db \in Databases :
          LET view == FoldLeft(told, view0, db.events)
          IN /\ \A s \in StageRefs : view.status[s] = IF staged_row(db, s) = {} THEN "none"
                                                   ELSE StatusOf(db, s)
             /\ \A k \in Keys : view.egress[k] = IF dispatch_row_by(db, k) = {} THEN "none"
                                                 ELSE (CHOOSE d \in dispatch_row_by(db, k) : TRUE).egress_state

(* The stage row's status is a projection of the ledger (the comment in    *)
(* dispatch_staged): "consented" is a live receipt, shown by stage_show,   *)
(* "dispatched" a row of the ledger that task_status reports, and no stage *)
(* is ever both.                                                           *)
ASSUME StatusIsTheLedger ==
    \A db \in Databases : \A s \in {x \in StageRefs : staged_row(db, x) # {}} :
       /\ Show(db, s).status = "consented" <=> Show(db, s).consent # {}
       /\ Show(db, s).status = "dispatched" <=> task_status(db, s).ok
       /\ Cardinality(Show(db, s).consent) <= 1
       /\ Cardinality({d \in db.dispatches : d.stage_ref = s}) <= 1
       /\ Cardinality({c \in db.consents : c.stage_ref = s}) <= 1

(* The answers about one dispatch agree: what is retryable is what the     *)
(* recovery worklist has, the card says "disclosed" exactly where the      *)
(* driver is told "acknowledged", nothing is dated before it was carried,  *)
(* and the receipt and the stage address the same row (egress_json,        *)
(* verification_json, egress_line, unsent_dispatches, coord_dispatch).     *)
ASSUME AnswersAgree ==
    \A db \in Databases : \A d \in db.dispatches :
       LET status == Told(db, d.stage_ref)
           listed == d \in Range(unsent_dispatches(db, 10))
       IN /\ status = Told(db, d.dispatch_receipt)
          /\ status.egress.retryable <=> listed
          /\ status.verification.state = "acknowledged" <=> ~listed
          /\ egress_line({d}) = "disclosed" <=> ~listed
          /\ status.egress.state = "pending" <=> ~status.egress.at
          /\ status.egress.detail = EGRESS_PENDING_DETAIL <=> status.egress.state = "pending"

(* What the driver was once told never worsens: no later transaction, a    *)
(* failure reported late among them, takes back an acknowledgement or a    *)
(* dispatch (record_egress, dispatch_staged).                              *)
ASSUME ToldIsNotTakenBack ==
    \A db \in {x \in Databases : Len(x.events) < MaxWrites} : \A next \in After(db) :
       \A d \in db.dispatches :
          /\ task_status(next, d.dispatch_receipt).ok
          /\ Told(db, d.stage_ref).verification.state = "acknowledged" =>
                Told(next, d.stage_ref).verification.state = "acknowledged"

(* A retry under the key that owns a dispatch answers with the same receipt *)
(* and spends nothing, whatever happened since; a key never names two      *)
(* dispatches, a receipt never two stages, and no call with another key or *)
(* receipt reaches a spent consent (dispatch_staged).                      *)
ASSUME OneKeyOneDispatch ==
    \A db \in Databases : \A s \in StageRefs, r \in Minted(db), k \in Keys :
       LET call == dispatch(db, s, r, k, 6, TRUE, "failed")
           owned == \E d \in db.dispatches :
                       d.execution_key = k /\ d.stage_ref = s /\ d.receipt_id = r
       IN /\ owned => /\ call.answer.ok /\ call.answer.value.replayed
                      /\ call.db.consents = db.consents
                      /\ Cardinality(call.db.dispatches) = Cardinality(db.dispatches)
          /\ call.answer.ok /\ ~owned =>
                /\ \E c \in unconsumed_row(db, s) : c.receipt_id = r
                /\ dispatch_row_by(db, k) = {}
          /\ ~call.answer.ok => call.db = db

(* What the driver may do after a dispatch was refused or lost: consent to *)
(* the same stage is never given again, and the only call that resumes its *)
(* carriage is the same key's, which the route can still refuse: a peer    *)
(* suspended or removed after the disclosure was acknowledged turns the    *)
(* retry of a call whose answer was lost into a 409 (dispatch resolves the *)
(* route first).                                                           *)
ASSUME RetryNeedsTheRoute ==
    \A db \in Databases : \A d \in db.dispatches :
       /\ stage_consent(db, d.stage_ref, NewReceipt(db)).answer = Refusal(409)
       /\ dispatch(db, d.stage_ref, d.receipt_id, d.execution_key, 6, FALSE, "sent").answer
             = Refusal(409)
       /\ task_status(db, d.dispatch_receipt).ok

(* Staging again and consenting twice write nothing, not even an event. *)
ASSUME RestagingIsSilent ==
    \A db \in Databases : \A s \in StageRefs :
       /\ staged_row(db, s) # {} => stage_contract(db, s) = db
       /\ unconsumed_row(db, s) # {} => stage_consent(db, s, NewReceipt(db)).db = db

LOCAL Rows ==
    [imports : SUBSET {[label |-> "a", root |-> 1], [label |-> "b", root |-> 2]},
     peers : SUBSET {[root |-> 1, status |-> "active", identity |-> 11],
                     [root |-> 2, status |-> "suspended", identity |-> 12]},
     policies : SUBSET {1, 2}]

(* About a peer the two reads agree, and an unpinned one is given no        *)
(* identity and no card; nothing that cannot be answered has the state of  *)
(* something that can, and a peer no label names is not reachable even     *)
(* when a pin is left behind it (peer_show, capability_evidence).          *)
ASSUME NoIdentityIsInvented ==
    \A rows \in Rows, label \in {"a", "b", "malformed"},
       recovery \in {"normal", "detection_unavailable", "recovery"}, missing \in SUBSET {"landlock"} :
       LET shown == peer_show(rows, label)
           evidence == capability_evidence(rows, label, recovery, missing)
       IN /\ shown.ok = evidence.ok
          /\ shown.ok =>
               LET p == evidence.value.predicate
               IN /\ shown.value.verified <=> p.peer_identity.state = "verified"
                  /\ shown.value.verified <=> shown.value.identity # {}
                  /\ shown.value.verified <=> p.card_claims.state = "pinned"
                  /\ shown.value.status = p.peer_identity.relationship
                  /\ evidence.value.subject = <<"sha256", shown.value.root>>
                  /\ p.rollback_detection.detectable => p.rollback_detection.automatic_authority
=============================================================================
