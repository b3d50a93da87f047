----------------------------- MODULE CoordReads -----------------------------
(***************************************************************************)
(* What the coordination driver and the operator are told about a staged   *)
(* disclosure (aksond coord, akson-store): the transactions that write the *)
(* three coordination tables and their feed, the reads over them, and the  *)
(* evidence about a peer.  Coordination.tla has the interleavings of the   *)
(* carriage; here every answer is a function of the rows.                  *)
(*                                                                         *)
(* A reference, a receipt and a key are numbers, a stage's reference its   *)
(* digest as well; Malformed is one valid_id refuses.                      *)
(***************************************************************************)
EXTENDS Integers, Sequences, FiniteSets
LOCAL INSTANCE SequencesExt

MAX_ID_CHARS == 128
(* `text` has the kinds of an id's characters. *)
valid_id(text) ==
    Len(text) \in 1..MAX_ID_CHARS /\ \A i \in DOMAIN text : text[i] \notin {"control", "blank"}
Malformed == 0

Answer(value) == [ok |-> TRUE, value |-> value]
Refusal(status) == [ok |-> FALSE, status |-> status]

Fresh == [staged |-> {}, consents |-> {}, dispatches |-> {}, events |-> <<>>]

append_coord_event(db, kind, about) ==
    [db EXCEPT !.events = Append(@, [kind |-> kind, about |-> about])]

staged_row(db, s) == {row \in db.staged : row.stage_ref = s}
unconsumed_row(db, s) == {c \in db.consents : c.stage_ref = s /\ c.uses < 1}
dispatch_row_by(db, key) == {d \in db.dispatches : d.execution_key = key}
StatusOf(db, s) == (CHOOSE row \in staged_row(db, s) : TRUE).status

SetStatus(db, s, status) ==
    [db EXCEPT !.staged = {IF row.stage_ref = s THEN [row EXCEPT !.status = status] ELSE row
                           : row \in @}]

(* By receipt first, then by stage. *)
coord_dispatch(db, id) ==
    LET by_receipt == {d \in db.dispatches : d.dispatch_receipt = id}
    IN IF by_receipt # {} THEN by_receipt ELSE {d \in db.dispatches : d.stage_ref = id}

-----------------------------------------------------------------------------
(* The transactions. *)

stage_contract(db, s) ==
    IF staged_row(db, s) # {} THEN db
    ELSE append_coord_event([db EXCEPT !.staged = @ \cup {[stage_ref |-> s, status |-> "staged"]}],
                            "staged", [stage |-> s])

mint_consent_receipt(db, s, receipt) ==
    IF unconsumed_row(db, s) # {} THEN db
    ELSE append_coord_event(
            SetStatus([db EXCEPT !.consents = @ \cup {[receipt_id |-> receipt, stage_ref |-> s,
                                                       uses |-> 0]}], s, "consented"),
            "consent_recorded", [stage |-> s])

(* stage_consent: the ledger is asked before a receipt is minted. *)
stage_consent(db, s, receipt) ==
    IF staged_row(db, s) = {} THEN [db |-> db, answer |-> Refusal(404)]
    ELSE IF unconsumed_row(db, s) # {} \/ coord_dispatch(db, s) # {}
    THEN [db |-> db, answer |-> Refusal(409)]
    ELSE [db |-> mint_consent_receipt(db, s, receipt), answer |-> Answer(receipt)]

(* Drawn for the dispatch, so no two have the same. *)
DispatchReceipt(key) == 1000 + key

dispatch_staged(db, s, receipt, key, now) ==
    LET existing == dispatch_row_by(db, key)
        live == {c \in db.consents : c.receipt_id = receipt /\ c.stage_ref = s /\ c.uses < 1}
        known == {c \in db.consents : c.receipt_id = receipt /\ c.stage_ref = s}
        row == [execution_key |-> key, stage_ref |-> s, receipt_id |-> receipt,
                dispatch_receipt |-> DispatchReceipt(key), dispatched_at |-> now,
                egress_state |-> "pending", egress_detail |-> "", egress_at |-> FALSE]
    IN IF existing # {}
       THEN [db |-> db,
             outcome |-> IF \A d \in existing : d.stage_ref = s /\ d.receipt_id = receipt
                         THEN "AlreadyDispatched" ELSE "ExecutionKeyConflict"]
       ELSE IF live = {}
       THEN [db |-> db, outcome |-> IF known # {} THEN "ConsentSpent" ELSE "ConsentUnknown"]
       ELSE [db |-> append_coord_event(
                       SetStatus([db EXCEPT
                          !.consents = (@ \ live) \cup {[c EXCEPT !.uses = @ + 1] : c \in live},
                          !.dispatches = @ \cup {row}], s, "dispatched"),
                       "dispatched", [stage |-> s, key |-> key]),
             outcome |-> "Dispatched"]

record_egress(db, key, state, detail) ==
    LET moved == {d \in dispatch_row_by(db, key) : d.egress_state # "sent"}
    IN IF moved = {} THEN db
       ELSE append_coord_event(
               [db EXCEPT !.dispatches = (@ \ moved) \cup
                  {[d EXCEPT !.egress_state = state, !.egress_detail = detail, !.egress_at = TRUE]
                   : d \in moved}],
               "egress_recorded", [key |-> key, state |-> state])

-----------------------------------------------------------------------------
(* The reads. *)

egress_may_be_attempted(d) == d.egress_state # "sent"

(* Oldest first, at most `limit`. *)
unsent_dispatches(db, limit) ==
    LET rows == SetToSortSeq({d \in db.dispatches : d.egress_state # "sent"},
                   LAMBDA a, b : \/ a.dispatched_at < b.dispatched_at
                                 \/ a.dispatched_at = b.dispatched_at
                                       /\ a.execution_key < b.execution_key)
    IN SubSeq(rows, 1, IF Len(rows) < limit THEN Len(rows) ELSE limit)

EGRESS_PENDING_DETAIL == "pending"
egress_json(d) ==
    [state |-> d.egress_state, at |-> d.egress_at,
     detail |-> IF d.egress_detail = "" THEN EGRESS_PENDING_DETAIL ELSE d.egress_detail,
     retryable |-> egress_may_be_attempted(d)]

verification_json(d) ==
    [state |-> IF d.egress_state = "sent" THEN "acknowledged" ELSE "unacknowledged",
     detail |-> IF d.egress_state = "sent" THEN "no contract"
                ELSE IF d.egress_state = "failed" THEN d.egress_detail
                ELSE EGRESS_PENDING_DETAIL]

(* The card's line on what has already left. *)
egress_line(dispatched) ==
    IF dispatched = {} THEN "inert"
    ELSE LET d == CHOOSE x \in dispatched : TRUE
         IN CASE d.egress_state = "sent" -> "disclosed"
              [] d.egress_state = "failed" -> "dispatched, carriage failed"
              [] OTHER -> "dispatched, no acknowledgement"

stage_show(db, s) ==
    IF staged_row(db, s) = {} THEN Refusal(404)
    ELSE Answer([status |-> StatusOf(db, s),
                 consent |-> {c.receipt_id : c \in unconsumed_row(db, s)}])

task_status(db, id) ==
    IF id = Malformed \/ coord_dispatch(db, id) = {} THEN Refusal(404)
    ELSE LET d == CHOOSE x \in coord_dispatch(db, id) : TRUE
         IN Answer([stage_ref |-> d.stage_ref, status |-> StatusOf(db, d.stage_ref),
                    execution_key |-> d.execution_key, egress |-> egress_json(d),
                    verification |-> verification_json(d)])

dispatched_json(d, replayed) ==
    [dispatch_receipt |-> d.dispatch_receipt, consent_spent |-> TRUE, status |-> "dispatched",
     replayed |-> replayed, egress |-> egress_json(d)]

(* dispatch with its carriage done at once: the route is resolved and the  *)
(* envelope built before anything else, for a retry as well.  `carriage`   *)
(* is what record_egress is told, "lost" when the call ended before it.    *)
dispatch(db, s, receipt, key, now, routable, carriage) ==
    LET spent == dispatch_staged(db, s, receipt, key, now)
        again == spent.outcome = "AlreadyDispatched"
        row == CHOOSE d \in dispatch_row_by(spent.db, key) : TRUE
        carried == IF carriage = "lost" \/ (again /\ ~egress_may_be_attempted(row)) THEN spent.db
                   ELSE record_egress(spent.db, key, carriage, "why")
    IN IF key = Malformed THEN [db |-> db, answer |-> Refusal(400)]
       ELSE IF s = Malformed THEN [db |-> db, answer |-> Refusal(404)]
       ELSE IF receipt = Malformed THEN [db |-> db, answer |-> Refusal(409)]
       ELSE IF staged_row(db, s) = {} THEN [db |-> db, answer |-> Refusal(404)]
       ELSE IF ~routable THEN [db |-> db, answer |-> Refusal(409)]
       ELSE IF spent.outcome \in {"Dispatched", "AlreadyDispatched"}
       THEN [db |-> carried,
             answer |-> IF carriage = "lost" THEN Refusal(500)
                        ELSE Answer(dispatched_json(
                                CHOOSE d \in dispatch_row_by(carried, key) : TRUE, again))]
       ELSE [db |-> db, answer |-> Refusal(409)]

-----------------------------------------------------------------------------
(* About a peer.  `rows` has the live import a label names, the peer pinned *)
(* behind its root, the standing policy for it; a label is "malformed" or  *)
(* what valid_label takes.                                                 *)

peer_show(rows, label) ==
    LET imported == {i \in rows.imports : i.label = label}
        i == CHOOSE x \in imported : TRUE
        pinned == {p \in rows.peers : p.root = i.root}
    IN IF label = "malformed" \/ imported = {} THEN Refusal(404)
       ELSE IF pinned = {}
       THEN Answer([root |-> i.root, verified |-> FALSE, status |-> "imported", identity |-> {}])
       ELSE Answer([root |-> i.root, verified |-> TRUE,
                    status |-> (CHOOSE p \in pinned : TRUE).status,
                    identity |-> {p.identity : p \in pinned}])

(* Each dimension's source and state. *)
capability_predicate(rows, i, recovery, missing) ==
    LET pinned == {p \in rows.peers : p.root = i.root}
        known == pinned # {}
    IN [peer_identity |-> [source |-> "locally_observed",
                           state |-> IF known THEN "verified" ELSE "unverified",
                           relationship |-> IF known THEN (CHOOSE p \in pinned : TRUE).status
                                            ELSE "imported"],
        card_claims |-> [source |-> "peer_asserted", state |-> IF known THEN "pinned" ELSE "absent"],
        key_expiry |-> [source |-> "peer_asserted", state |-> "not_retained"],
        rollback_detection |-> [source |-> "locally_observed",
                                state |-> recovery,
                                detectable |-> recovery = "normal",
                                automatic_authority |-> recovery # "recovery"],
        confinement |-> [source |-> "locally_observed",
                         state |-> IF missing = {} THEN "ready" ELSE "degraded"],
        budget |-> [source |-> "locally_observed",
                    state |-> IF i.root \in rows.policies THEN "standing_policy" ELSE "always_ask"]]

(* Signed by this endpoint's evidence key, about the root. *)
capability_evidence(rows, label, recovery, missing) ==
    LET imported == {i \in rows.imports : i.label = label}
        i == CHOOSE x \in imported : TRUE
    IN IF label = "malformed" \/ imported = {} THEN Refusal(404)
       ELSE Answer([subject |-> <<"sha256", i.root>>,
                    predicate |-> capability_predicate(rows, i, recovery, missing),
                    signer |-> "evidence"])
=============================================================================
