------------------------------ MODULE RiskCard ------------------------------
(***************************************************************************)
(* What an operator is shown before they approve (akson-contract's         *)
(* risk_card.rs): the questions the contract fixes, one sentence and the   *)
(* lines behind it.  Wording is left out; what is counted, and what is     *)
(* said of every input, is kept.  <<>> is an absent field.                 *)
(***************************************************************************)
EXTENDS Integers, Sequences

LOCAL INSTANCE SequencesExt
LOCAL INSTANCE FiniteSets

ExposedInput(e) ==
    [id |-> e.id, media_type |-> e.media_type, byte_length |-> e.byte_length,
     worker_visible |-> e.worker_visible, processor_visible |-> e.processor_visible]

project_risk_card(proposal) ==
    LET c == proposal.contract
    IN [who |-> [requester |-> c.requester, task_type |-> c.task_type],
        what_leaves |-> [inputs |-> [i \in DOMAIN c.inputs |-> ExposedInput(c.inputs[i])],
                         processor_disclosure |-> c.disclosure],
        what_runs |-> [task_type |-> c.task_type, requested_capabilities |-> c.requested_capabilities,
                       processor_disclosure |-> c.disclosure],
        limits |-> [revision |-> c.revision, revision_digest |-> proposal.digest,
                    deadline |-> c.deadline, max_response_bytes |-> c.max_response_bytes,
                    max_cost_microusd |-> c.max_cost_microusd],
        evidence_and_destination |-> [evidence_slots |-> c.evidence_slots,
                                      result_recipient |-> c.result_recipient,
                                      retention_days |-> c.retention_days]]

Destination(input) ==
    CASE input.worker_visible /\ input.processor_visible -> "worker + processor"
      [] input.worker_visible /\ ~input.processor_visible -> "worker only"
      [] ~input.worker_visible /\ input.processor_visible -> "processor only"
      [] OTHER -> "neither"

(* The sentence counts every input as going to the worker. *)
render(card) ==
    LET shown == card.what_leaves.inputs
        to_processor == Cardinality({i \in DOMAIN shown : shown[i].processor_visible})
    IN [sentence |-> [agent |-> card.who.requester.agent, root |-> card.who.requester.root,
                      task_type |-> card.who.task_type, inputs |-> Len(shown),
                      total_bytes |-> FoldLeft(LAMBDA sum, e : sum + e.byte_length, 0, shown),
                      processor_clause |-> IF to_processor > 0
                                           THEN <<to_processor, card.what_leaves.processor_disclosure>>
                                           ELSE <<>>,
                      max_response_bytes |-> card.limits.max_response_bytes,
                      recipient |-> card.evidence_and_destination.result_recipient,
                      deadline |-> card.limits.deadline],
        who |-> [agent |-> card.who.requester.agent, issuer |-> card.who.requester.issuer,
                 task_type |-> card.who.task_type],
        what_leaves |-> [inputs |-> [i \in DOMAIN shown |-> [id |-> shown[i].id,
                                       media_type |-> shown[i].media_type,
                                       byte_length |-> shown[i].byte_length,
                                       destination |-> Destination(shown[i])]],
                         disclosure |-> card.what_leaves.processor_disclosure],
        what_runs |-> card.what_runs.requested_capabilities,
        limits |-> card.limits,
        destination |-> card.evidence_and_destination]
=============================================================================
