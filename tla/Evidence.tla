------------------------------ MODULE Evidence ------------------------------
(***************************************************************************)
(* The signed documents of a finished task (akson-evidence): the result    *)
(* manifest in its one canonical order, the requester's outcome bound to   *)
(* it, the evidence slots a contract requires, in-toto statements over the *)
(* outputs, and SARIF logs read with bounds; and the performer's decision  *)
(* on a contract (akson-contract), which is signed the same way.           *)
(*                                                                         *)
(* A string is a number, so that it has an order.  A payload is a document *)
(* and whether its bytes are the document's canonical form; the digest of  *)
(* canonical bytes is injective in the document.                           *)
(***************************************************************************)
EXTENDS Identity

LOCAL INSTANCE SequencesExt
LOCAL D == INSTANCE Contract WITH NoDigest <- "none"

Canonical(document) == [document |-> document, canonical |-> TRUE]

OutcomeV1 == "outcome"
DecisionV1 == "decision"
INTOTO_PAYLOAD_TYPE == "in-toto"
STATEMENT_TYPE_V1 == "statement-v1"
PREDICATE_EXECUTION_V1 == "execution-v1"

-----------------------------------------------------------------------------
(* The result manifest. *)

OutputKey(o) == <<o.role, o.artifact_id, o.part_index, o.sha256>>
EvidenceKey(e) == <<e.role, e.payload_type, e.sha256>>
SlotKey(s) == <<s.slot_id>>
OmissionKey(o) == <<o.subject, o.reason_code>>

Before(a, b) == \E i \in DOMAIN a : a[i] < b[i] /\ \A j \in 1..(i - 1) : a[j] = b[j]

(* A stable sort: an entry comes after every smaller one, and after those  *)
(* equal to it that stood before it.                                       *)
SortBy(seq, Key(_)) ==
    LET place(i) == 1 + Cardinality({j \in DOMAIN seq : \/ Before(Key(seq[j]), Key(seq[i]))
                                                        \/ Key(seq[j]) = Key(seq[i]) /\ j < i})
    IN [n \in DOMAIN seq |-> seq[CHOOSE i \in DOMAIN seq : place(i) = n]]

SortedBy(seq, Key(_)) == \A i \in 1..(Len(seq) - 1) : ~Before(Key(seq[i + 1]), Key(seq[i]))

assemble(header, outputs_in, evidence_in, slots_in, omissions_in) ==
    [header |-> header,
     outputs |-> SortBy(outputs_in, OutputKey), evidence |-> SortBy(evidence_in, EvidenceKey),
     slots |-> SortBy(slots_in, SlotKey), omissions |-> SortBy(omissions_in, OmissionKey)]

is_canonically_ordered(m) ==
    /\ SortedBy(m.outputs, OutputKey)
    /\ SortedBy(m.evidence, EvidenceKey)
    /\ SortedBy(m.slots, SlotKey)
    /\ SortedBy(m.omissions, OmissionKey)

Conclusive(slot) == slot.result \in {"passed", "failed", "error"}

(* The schema: between one output and 64, and evidence behind every        *)
(* conclusive slot.                                                        *)
ResultManifestSchema(m) ==
    /\ Len(m.outputs) \in 1..64
    /\ Len(m.evidence) <= 64
    /\ Len(m.slots) <= 32
    /\ \A i \in DOMAIN m.slots : Conclusive(m.slots[i]) => m.slots[i].evidence_role # <<>>

validate_manifest(m) == ResultManifestSchema(m) /\ is_canonically_ordered(m)

bundle_digest(m) == D!sha256(Canonical(m))

(* A document that does not validate, or a key of another purpose, signs   *)
(* nothing.                                                                *)
SignedUnder(key, purpose, type, document) ==
    IF sign_with(key, purpose) THEN <<D!sign(type, Canonical(document), key.key)>> ELSE <<>>

sign_manifest(m, key) ==
    IF validate_manifest(m) THEN SignedUnder(key, "task-result", D!ResultManifestV1, m) ELSE <<>>

verify_manifest(envelope, key) ==
    /\ key_for(key, "task-result")
    /\ D!verify(envelope, D!ResultManifestV1, key.key)
    /\ envelope.payload.canonical
    /\ validate_manifest(envelope.payload.document)

-----------------------------------------------------------------------------
(* The slots: what is left out never looks like a success. *)

SlotVerdict(req, provided) ==
    LET named == {i \in DOMAIN provided : provided[i].slot_id = req.slot_id}
        first == provided[CHOOSE i \in named : \A j \in named : i <= j]
    IN IF named = {} THEN "Missing"
       ELSE IF first.result # req.required_result THEN "ResultMismatch"
       ELSE IF req.require_full_disclosure /\ first.disclosure # "full" THEN "Redacted"
       ELSE "ok"

check_slots(required, provided) ==
    LET failing == {i \in DOMAIN required : SlotVerdict(required[i], provided) # "ok"}
    IN IF \E i \in DOMAIN provided :
                Conclusive(provided[i]) /\ provided[i].evidence_role = <<>> THEN "MissingEvidenceRole"
       ELSE IF failing # {} THEN
                SlotVerdict(required[CHOOSE i \in failing : \A j \in failing : i <= j], provided)
       ELSE "ok"

-----------------------------------------------------------------------------
(* The requester's outcome. *)

BindingFields == {"task_id", "context_id", "contract_id", "contract_revision", "contract_digest"}

for_manifest(m, state, requester, signed_at) ==
    [binding |-> [f \in BindingFields |-> m.header[f]], result_manifest_digest |-> bundle_digest(m),
     state |-> state, reason_code |-> <<>>, note |-> <<>>,
     requester |-> requester, signed_at |-> signed_at]

with_reason(outcome, code) == [outcome EXCEPT !.reason_code = <<code>>]
with_note(outcome, note) == [outcome EXCEPT !.note = <<note>>]

(* A manifest that does not validate has no digest to bind to. *)
check_binds_to(outcome, m) ==
    /\ validate_manifest(m)
    /\ outcome.result_manifest_digest = bundle_digest(m)
    /\ \A f \in BindingFields : outcome.binding[f] = m.header[f]

sign_outcome(outcome, key) == SignedUnder(key, "requester-outcome", OutcomeV1, outcome)

verify_outcome(envelope, key) ==
    /\ key_for(key, "requester-outcome")
    /\ D!verify(envelope, OutcomeV1, key.key)
    /\ envelope.payload.canonical

fixed_receipt(outcome) ==
    [received |-> TRUE, context_id |-> outcome.binding.context_id,
     reference_task_id |-> outcome.binding.task_id,
     outcome_digest |-> D!sha256(Canonical(outcome))]

-----------------------------------------------------------------------------
(* The performer's decision on one revision of a contract. *)

sign_decision(decision, key) == SignedUnder(key, "contract-decision", DecisionV1, decision)

verify_decision(envelope, key) ==
    /\ key_for(key, "contract-decision")
    /\ D!verify(envelope, DecisionV1, key.key)
    /\ envelope.payload.canonical

(* `proposal` is a parsed contract with its digest. *)
decision_binds_to(decision, proposal) ==
    /\ decision.contract_id = proposal.contract.contract_id
    /\ decision.contract_revision = proposal.contract.revision
    /\ decision.contract_digest = proposal.digest
    /\ decision.decider = proposal.contract.performer

-----------------------------------------------------------------------------
(* in-toto statements. *)

from_output(o) == [name |-> <<o.role, o.artifact_id, o.part_index>>, sha256 |-> o.sha256]

statement(subjects, predicate_type, predicate) ==
    [type |-> STATEMENT_TYPE_V1, subject |-> subjects,
     predicate_type |-> predicate_type, predicate |-> predicate]

execution_over(entries, predicate) ==
    statement([i \in DOMAIN entries |-> from_output(entries[i])], PREDICATE_EXECUTION_V1, predicate)

(* A digest that is not 64 hexadecimal digits is a negative number. *)
validate_statement(s) ==
    /\ s.type = STATEMENT_TYPE_V1
    /\ s.subject # <<>>
    /\ \A i \in DOMAIN s.subject : s.subject[i].sha256 >= 0
    /\ s.predicate_type # ""

sign_statement(s, key) ==
    IF validate_statement(s) THEN SignedUnder(key, "evidence", INTOTO_PAYLOAD_TYPE, s) ELSE <<>>

verify_statement(envelope, key) ==
    /\ key_for(key, "evidence")
    /\ D!verify(envelope, INTOTO_PAYLOAD_TYPE, key.key)
    /\ envelope.payload.canonical
    /\ validate_statement(envelope.payload.document)

(* Of two subjects of one name the later one stays. *)
subject_digests(s) ==
    LET named(n) == {i \in DOMAIN s.subject : s.subject[i].name = n}
    IN [n \in {s.subject[i].name : i \in DOMAIN s.subject} |->
          s.subject[CHOOSE i \in named(n) : \A j \in named(n) : j <= i].sha256]

-----------------------------------------------------------------------------
(* SARIF.  A field that is absent or of another type is <<>>; a message is *)
(* the sequence of its bytes, each with whether a character starts there.  *)

sarif_level(level) ==
    CASE level = <<>> -> "warning"
      [] level \in {<<"error">>, <<"warning">>, <<"note">>} -> level[1]
      [] OTHER -> "none"

nearest_char_boundary(s, max) ==
    LET ends == {i \in 0..Len(s) : i <= max /\ (i = 0 \/ i = Len(s) \/ s[i + 1].starts)}
    IN CHOOSE i \in ends : \A j \in ends : j <= i

Finding(r, max_message_len) ==
    [rule_id |-> r.rule_id, level |-> sarif_level(r.level),
     message |-> SubSeq(r.message, 1, IF Len(r.message) > max_message_len
                                      THEN nearest_char_boundary(r.message, max_message_len)
                                      ELSE Len(r.message))]

(* The findings of every run count against one cap. *)
parse_sarif(log, limits) ==
    LET all == FlattenSeq([i \in DOMAIN log.runs |-> log.runs[i].results])
        kept == IF Len(all) > limits.max_findings THEN limits.max_findings ELSE Len(all)
    IN IF log.size > limits.max_bytes THEN [error |-> "TooLarge"]
       ELSE IF ~log.ijson THEN [error |-> "IJson"]
       ELSE IF log.version # "2.1.0" \/ log.runs = <<>> THEN [error |-> "NotSarif"]
       ELSE IF log.runs[1].tool_name = <<>> THEN [error |-> "NotSarif"]
       ELSE [digest |-> D!sha256(log), byte_length |-> log.size,
             tool_name |-> log.runs[1].tool_name[1],
             findings |-> [i \in 1..kept |-> Finding(all[i], limits.max_message_len)],
             truncated_findings |-> Len(all) - kept]
=============================================================================
