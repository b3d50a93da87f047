------------------------------ MODULE Authority ------------------------------
(***************************************************************************)
(* What an approved Task may do (akson-authority, aksond's issue.rs) and   *)
(* the gate its outputs pass (akson-worker).  An approval turns the        *)
(* contract's requested capabilities and the owner's two outward grants    *)
(* into a capability vector with one scope per component; the vector is    *)
(* sealed in a work order, and `gate_outputs` reads it back.  Media types, *)
(* ids and identities are opaque; lengths, counts and times are numbers.   *)
(***************************************************************************)
EXTENDS Integers, Sequences, FiniteSets

LOCAL C == INSTANCE Contract WITH NoDigest <- "none"

CapabilityComponent ==
    {"Respond", "ReadSuppliedInputs", "ReadSnapshot", "ProcessorUse", "StageWrite",
     "RunProfile", "Apply", "Egress", "SecretUse", "ArtifactExport", "Delegate",
     "RemoteCancel"}

grantable_in_v1 == {"Respond", "ReadSuppliedInputs", "ProcessorUse", "ArtifactExport"}

(* The requested capabilities of a contract, in its order: its enum has    *)
(* the grantable components only.                                          *)
Capability == grantable_in_v1
Requested(contract) == {contract.requested[i] : i \in DOMAIN contract.requested}

-----------------------------------------------------------------------------
(* Grants: a component and its scope. *)

RespondScope(task, contract, deadline) ==
    [component |-> "Respond", task_id |-> task, message_id |-> contract.message_id,
     recipient |-> "request-origin", max_responses |-> 1,
     max_bytes |-> contract.max_response_bytes, deadline |-> deadline]

InputIds(contract) == [i \in DOMAIN contract.inputs |-> contract.inputs[i].id]

ReadInputsScope(contract, digest) ==
    [component |-> "ReadSuppliedInputs", input_ids |-> InputIds(contract),
     contract_digest |-> digest]

ProcessorUseScope(contract, processor) ==
    [component |-> "ProcessorUse", processor_id |-> processor,
     input_ids |-> InputIds(contract), max_cost_microusd |-> contract.max_cost_microusd,
     max_bytes |-> contract.max_response_bytes]

ArtifactExportScope(task, contract) ==
    [component |-> "ArtifactExport", recipient |-> "request-origin", task_id |-> task,
     media_types |-> contract.deliverables,
     max_count |-> IF contract.deliverables = <<>> THEN 1 ELSE Len(contract.deliverables),
     max_bytes |-> contract.max_response_bytes]

(* The vector of a work order: grants by the place they were made at, in   *)
(* the order of the places; at least one and one per component.            *)
VectorOk(grants) ==
    /\ DOMAIN grants # {}
    /\ \A i, j \in DOMAIN grants : grants[i].component = grants[j].component => i = j

grants_component(vector, component) ==
    \E i \in DOMAIN vector : vector[i].component = component
grant(vector, component) ==
    vector[CHOOSE i \in DOMAIN vector : vector[i].component = component]

-----------------------------------------------------------------------------
(* Issuing.  `approval` holds the owner's outward grants: the processor    *)
(* chosen, if any, and whether artifacts may leave.                        *)

MAX_ATTEMPT_SECS == 3600

Earliest(S) == CHOOSE t \in S : \A u \in S : t <= u

clamp_deadline(contract, now) ==
    Earliest({contract.expires_at, contract.deadline, now + MAX_ATTEMPT_SECS})

(* A requested capability that discloses nothing is granted in its place;  *)
(* the outward ones come after them, by the owner's decision alone.        *)
AutoGranted == {"Respond", "ReadSuppliedInputs"}
AutoGrant(task, contract, digest, deadline, capability) ==
    IF capability = "Respond" THEN RespondScope(task, contract, deadline)
    ELSE ReadInputsScope(contract, digest)

AutoPlaces(contract) == {i \in DOMAIN contract.requested : contract.requested[i] \in AutoGranted}
ProcessorPlace(contract) == Len(contract.requested) + 1
ArtifactPlace(contract) == Len(contract.requested) + 2

Grants(task, contract, digest, approval, now) ==
    [i \in AutoPlaces(contract)
              \cup (IF approval.processor = "none" THEN {} ELSE {ProcessorPlace(contract)})
              \cup (IF approval.artifacts THEN {ArtifactPlace(contract)} ELSE {}) |->
        IF i \in AutoPlaces(contract)
        THEN AutoGrant(task, contract, digest, clamp_deadline(contract, now), contract.requested[i])
        ELSE IF i = ProcessorPlace(contract) THEN ProcessorUseScope(contract, approval.processor)
        ELSE ArtifactExportScope(task, contract)]

(* The refusals, in the order of the handler; "issued" when there is none. *)
IssueOutcome(task, contract, digest, approval, processors, now, leeway) ==
    LET requested == Requested(contract)
        vector == Grants(task, contract, digest, approval, now)
    IN IF C!validity(contract, now, leeway) = "Expired" THEN "contract-expired"
       ELSE IF C!validity(contract, now, leeway) = "NotYetValid" THEN "contract-not-yet-valid"
       ELSE IF clamp_deadline(contract, now) <= now THEN "deadline-passed"
       ELSE IF approval.processor # "none" /\ "ProcessorUse" \notin requested THEN
                "processor-not-requested"
       ELSE IF approval.processor # "none" /\ approval.processor \notin processors THEN
                "no-such-processor"
       ELSE IF approval.artifacts /\ "ArtifactExport" \notin requested THEN
                "artifacts-not-requested"
       ELSE IF ~VectorOk(vector) THEN "no-grantable-capabilities"
       ELSE "issued"

Budgets(contract, max_operations) ==
    [max_cost_microusd |-> contract.max_cost_microusd,
     max_bytes |-> contract.max_response_bytes, max_operations |-> max_operations]

WorkOrder(task, contract, digest, approval, now) ==
    [task_id |-> task, contract_digest |-> digest,
     capabilities |-> Grants(task, contract, digest, approval, now),
     input_manifest |-> InputIds(contract),
     request_origin |-> contract.requester,
     evidence_slots |-> contract.evidence_slots,
     not_before |-> contract.created_at,
     deadline |-> clamp_deadline(contract, now),
     remote_cancel |-> <<>>]

(* No order issued here carries the caveat, so no origin may cancel. *)
remote_cancel_allowed(order, origin) ==
    order.remote_cancel # <<>> /\ order.remote_cancel[1] = origin

(* The digest is of the order alone, the MAC of the order and the key. *)
order_digest(order) == [digest_of |-> order]
mac(order, key) == [mac_of |-> order, key |-> key]

seal(order, key) == [order |-> order, digest |-> order_digest(order), mac |-> mac(order, key)]

verify_order(issued, key) ==
    /\ issued.digest = order_digest(issued.order)
    /\ issued.mac = mac(issued.order, key)

-----------------------------------------------------------------------------
(* Standing policy: deny rules only. *)

rule_matches(rule, subject, task_type) ==
    rule.subject = subject /\ (rule.task_type = "any" \/ rule.task_type = task_type)

evaluate(rules, subject, task_type) ==
    IF \E r \in rules : rule_matches(r, subject, task_type) THEN "Deny" ELSE "Prompt"

RuleBinding == <<"peer_agent_card_key", "contract_task_type", "processor_id",
                 "sandbox_digest", "extension_version">>

(* The first attribute, in the order of the fields, that differs. *)
binding_changed(pinned, current) ==
    LET changed == {i \in DOMAIN RuleBinding : pinned[RuleBinding[i]] # current[RuleBinding[i]]}
    IN IF changed = {} THEN "None" ELSE RuleBinding[Earliest(changed)]

-----------------------------------------------------------------------------
(* The gate.  An output names its channel, recipient, media type and size. *)

channel_component(channel) == IF channel = "Response" THEN "Respond" ELSE "ArtifactExport"

SameChannel(batch, i) ==
    {j \in DOMAIN batch : j <= i /\ batch[j].channel = batch[i].channel}

GateReject(vector, batch, i) ==
    LET out == batch[i]
        scope == grant(vector, channel_component(out.channel))
    IN IF ~grants_component(vector, channel_component(out.channel)) THEN "NoGrant"
       ELSE IF out.recipient # scope.recipient THEN "Recipient"
       ELSE IF out.channel = "Artifact" /\ ~\E m \in DOMAIN scope.media_types :
                scope.media_types[m] = out.media_type THEN "MediaType"
       ELSE IF out.bytes > scope.max_bytes THEN "Size"
       ELSE IF Cardinality(SameChannel(batch, i)) >
                (IF out.channel = "Response" THEN scope.max_responses
                                             ELSE scope.max_count) THEN "Count"
       ELSE "ok"

(* The first offending output refuses the whole batch. *)
gate_outputs(vector, batch) ==
    \A i \in DOMAIN batch : GateReject(vector, batch, i) = "ok"
=============================================================================
