--------------------------- MODULE EvidenceChecks ---------------------------
(***************************************************************************)
(* What the signed documents of a task guarantee, over bounded inputs.     *)
(***************************************************************************)
EXTENDS Evidence, RiskCard

LOCAL Header(n) ==
    [task_id |-> n, context_id |-> 1, contract_id |-> 2, contract_revision |-> 0,
     contract_digest |-> 3, attempt_digest |-> 4, work_order_receipt_digest |-> 5]

LOCAL Entry(r, a, i, d) == [role |-> r, artifact_id |-> a, part_index |-> i, media_type |-> 0,
                            byte_length |-> 1, sha256 |-> d]
LOCAL OutputEntries == {Entry(1, 1, 0, 7), Entry(1, 1, 1, 6), Entry(1, 2, 0, 7), Entry(2, 1, 0, 7)}

LOCAL SlotRecord(id, role, result, disclosure) ==
    [slot_id |-> id, evidence_role |-> role, result |-> result, disclosure |-> disclosure]
LOCAL Slots == {SlotRecord(1, <<9>>, "passed", "full"), SlotRecord(1, <<9>>, "failed", "full"),
                SlotRecord(1, <<>>, "not_run", "redacted"), SlotRecord(1, <<>>, "passed", "full"),
                SlotRecord(2, <<9>>, "passed", "summary"), SlotRecord(2, <<>>, "unavailable", "full")}

LOCAL UpTo(S, n) == UNION {[1..k -> S] : k \in 0..n}
LOCAL Attestation(r, d) == [role |-> r, payload_type |-> 1, byte_length |-> 1, sha256 |-> d,
                            signer_keyid |-> 1]

LOCAL Elements(seq) == {seq[i] : i \in DOMAIN seq}
LOCAL Distinct(seq, Key(_)) == \A i, j \in DOMAIN seq : Key(seq[i]) = Key(seq[j]) => i = j

LOCAL Manifest3(os, es, ss) == assemble(Header(0), os, es, ss, <<>>)

(* Whatever order the outputs are collected in, the manifest is in the     *)
(* canonical order, nothing is lost, and two collections of the same       *)
(* entries give the same bytes and the same bundle digest.                 *)
ASSUME AssembleIsCanonical ==
    LET collections == UpTo(OutputEntries, 3)
        assembled == [os \in collections |-> Manifest3(os, <<>>, <<>>)]
        Sorted(os) == assembled[os].outputs
    IN \A os \in collections :
          /\ is_canonically_ordered(assembled[os])
          /\ \A e \in OutputEntries : Cardinality({i \in DOMAIN os : os[i] = e}) =
                                      Cardinality({i \in DOMAIN os : Sorted(os)[i] = e})
          /\ \A ps \in collections :
                (\A e \in OutputEntries : Cardinality({i \in DOMAIN os : os[i] = e}) =
                                          Cardinality({i \in DOMAIN ps : ps[i] = e}))
                   => bundle_digest(assembled[os]) = bundle_digest(assembled[ps])

(* For slots and evidence the order is lost only when their keys differ:   *)
(* two slots of one id stay in the order they came in, so that the bytes   *)
(* of the manifest, and the slot that check_slots reads, depend on it.     *)
ASSUME SlotOrderIsByIdOnly ==
    /\ \A ss, ts \in UpTo(Slots, 2) :
          /\ Elements(ss) = Elements(ts) /\ Len(ss) = Len(ts) /\ Distinct(ss, SlotKey)
                => Manifest3(<<>>, <<>>, ss) = Manifest3(<<>>, <<>>, ts)
          /\ is_canonically_ordered(Manifest3(<<>>, <<>>, ss))
    /\ \E ss, ts \in UpTo(Slots, 2) :
          /\ Elements(ss) = Elements(ts)
          /\ Manifest3(<<>>, <<>>, ss) # Manifest3(<<>>, <<>>, ts)
    /\ \A e, f \in {Attestation(r, d) : r, d \in 1..2} :
          Manifest3(<<>>, <<e, f>>, <<>>) = Manifest3(<<>>, <<f, e>>, <<>>)

(* A manifest is signed only when it validates and only with the result    *)
(* key, and what is signed verifies under that key and no other; a payload *)
(* that is reordered, not canonical or of another type does not.           *)
ASSUME ManifestRoundTrip ==
    \A os \in UpTo(OutputEntries, 2), ss \in UpTo(Slots, 1), p \in KeyPurpose :
        LET m == Manifest3(os, <<>>, ss)
            signed == sign_manifest(m, PurposeKey(p, 1))
            good == PurposeKey("task-result", 1)
            swapped == [signed[1] EXCEPT !.payload.document.outputs = <<@[2], @[1]>>]
        IN /\ (signed # <<>>) <=> p = "task-result" /\ os # <<>>
                                  /\ SlotRecord(1, <<>>, "passed", "full") \notin Elements(ss)
           /\ signed # <<>> =>
                /\ verify_manifest(signed[1], good)
                /\ ~verify_manifest(signed[1], PurposeKey("task-result", 2))
                /\ \A q \in KeyPurpose \ {"task-result"} : ~verify_manifest(signed[1], PurposeKey(q, 1))
                /\ ~verify_manifest([signed[1] EXCEPT !.payload.canonical = FALSE], good)
                /\ ~verify_manifest([signed[1] EXCEPT !.payload_type = OutcomeV1], good)
                /\ Len(os) = 2 /\ os[1] # os[2] =>
                      /\ ~verify_manifest(swapped, good)
                      /\ ~validate_manifest(swapped.payload.document)

(* A required slot is satisfied only by a record of that id, with the      *)
(* required result, behind which there is evidence, shown in full if the   *)
(* contract asks for that: an omission never passes.                       *)
ASSUME OmissionNeverPasses ==
    /\ \A ss \in UpTo(Slots, 3), full \in BOOLEAN :
          LET required == <<[slot_id |-> 1, required_result |-> "passed",
                             require_full_disclosure |-> full]>>
          IN check_slots(required, ss) = "ok" =>
               \E i \in DOMAIN ss : /\ ss[i].slot_id = 1 /\ ss[i].result = "passed"
                                    /\ ss[i].evidence_role # <<>>
                                    /\ full => ss[i].disclosure = "full"
    /\ \E ss \in UpTo(Slots, 3) :
          check_slots(<<[slot_id |-> 1, required_result |-> "passed",
                         require_full_disclosure |-> TRUE]>>, ss) = "ok"

(* An outcome binds one manifest: not that of another task or contract,    *)
(* and not one with other outputs, whatever its state says; and it is not  *)
(* a manifest, nor a manifest an outcome, even under one key.              *)
ASSUME OutcomeBindsOneManifest ==
    LET manifests == {assemble(Header(n), os, <<>>, <<>>, <<>>) :
                          n \in 0..1, os \in UpTo(OutputEntries, 1) \ {<<>>}}
        key == PurposeKey("requester-outcome", 1)
    IN \A m, n \in manifests, state \in {"accepted", "rejected", "disputed"} :
          LET outcome == with_note(with_reason(for_manifest(m, state, 1, 2), 3), 4)
              signed == sign_outcome(outcome, key)[1]
          IN /\ check_binds_to(outcome, n) <=> m = n
             /\ verify_outcome(signed, key)
             /\ ~verify_manifest(signed, PurposeKey("task-result", 1))
             /\ ~verify_outcome(sign_manifest(m, PurposeKey("task-result", 1))[1], key)
             /\ fixed_receipt(outcome).reference_task_id = m.header.task_id
             /\ fixed_receipt(outcome) = fixed_receipt(signed.payload.document)

(* A decision binds one revision of one contract and its performer.        *)
ASSUME DecisionBindsOneRevision ==
    LET proposals == {[contract |-> [contract_id |-> i, revision |-> r, performer |-> p], digest |-> d]
                        : i, r, p, d \in 0..1}
        Decide(x) == [contract_id |-> x.contract.contract_id, contract_revision |-> x.contract.revision,
                      contract_digest |-> x.digest, decider |-> x.contract.performer]
    IN \A x, y \in proposals : decision_binds_to(Decide(x), y) <=> x = y

(* A decision is signed by a key of its purpose only, and what was signed  *)
(* verifies as that decision under that key and no other.                  *)
ASSUME DecisionRoundTrip ==
    \A p, q \in KeyPurpose :
        LET signed == sign_decision([decision |-> "accept"], PurposeKey(p, 1))
        IN /\ (signed # <<>>) <=> p = "contract-decision"
           /\ signed # <<>> =>
                (verify_decision(signed[1], PurposeKey(q, 1)) <=> q = "contract-decision")

(* An execution statement covers exactly the outputs of the manifest as    *)
(* long as no two of them have a place in common, and it verifies only     *)
(* under the evidence key.                                                 *)
ASSUME StatementCoversOutputs ==
    \A os \in UpTo(OutputEntries \cup {Entry(1, 1, 0, -1), Entry(1, 1, 0, 6)}, 2) :
        LET s == execution_over(os, 0)
            signed == sign_statement(s, PurposeKey("evidence", 1))
            Place(o) == from_output(o).name
        IN /\ (signed # <<>>) <=> os # <<>> /\ Entry(1, 1, 0, -1) \notin Elements(os)
           /\ Distinct(os, Place) =>
                 {<<n, subject_digests(s)[n]>> : n \in DOMAIN subject_digests(s)}
                    = {<<Place(o), o.sha256>> : o \in Elements(os)}
           /\ signed # <<>> =>
                /\ verify_statement(signed[1], PurposeKey("evidence", 1))
                /\ ~verify_statement(signed[1], PurposeKey("task-result", 1))
                /\ ~verify_statement([signed[1] EXCEPT !.payload.canonical = FALSE],
                                     PurposeKey("evidence", 1))

(* Every finding of every run is either shown, in order, or counted, and   *)
(* a message is cut at a character and never longer than the limit.        *)
ASSUME NoFindingIsHidden ==
    LET Byte(starts) == [starts |-> starts]
        wide == <<Byte(TRUE), Byte(FALSE), Byte(TRUE), Byte(FALSE), Byte(FALSE)>>
        Result(id, level) == [rule_id |-> id, level |-> level, message |-> SubSeq(wide, 1, id)]
        results == {<<>>, <<Result(2, <<>>)>>, <<Result(5, <<"error">>), Result(0, <<"odd">>)>>}
        Log(size, version, runs) == [size |-> size, ijson |-> TRUE, version |-> version, runs |-> runs]
        Run(name, rs) == [tool_name |-> name, results |-> rs]
    IN \A a \in results, b \in results, cap \in 0..4, len \in 0..6 :
          LET limits == [max_bytes |-> 10, max_findings |-> cap, max_message_len |-> len]
              runs == <<Run(<<"t">>, a), Run(<<>>, b)>>
              report == parse_sarif(Log(10, "2.1.0", runs), limits)
          IN /\ Len(report.findings) + report.truncated_findings = Len(a) + Len(b)
             /\ Len(report.findings) <= cap
             /\ report.truncated_findings > 0 => Len(report.findings) = cap
             /\ \A i \in DOMAIN report.findings :
                   LET f == report.findings[i]
                       r == (a \o b)[i]
                       n == Len(f.message)
                   IN /\ f.rule_id = r.rule_id /\ f.level = sarif_level(r.level)
                      /\ n <= len /\ f.message = SubSeq(r.message, 1, n)
                      /\ n < Len(r.message) => r.message[n + 1].starts
             /\ parse_sarif(Log(11, "2.1.0", runs), limits) = [error |-> "TooLarge"]
             /\ parse_sarif(Log(10, "2.0.0", runs), limits) = [error |-> "NotSarif"]
             /\ parse_sarif(Log(10, "2.1.0", <<>>), limits) = [error |-> "NotSarif"]
             /\ parse_sarif(Log(10, "2.1.0", <<Run(<<>>, a)>>), limits) = [error |-> "NotSarif"]

(* Every input of the contract has a line on the card, and the sentence    *)
(* counts exactly those that may reach a processor.  It counts all inputs  *)
(* as going to the worker: that is exact only when the worker sees them    *)
(* all, and otherwise says more than happens, never less.                  *)
ASSUME CardShowsEveryInput ==
    LET Input(n, w, p) == [id |-> n, media_type |-> 0, byte_length |-> n,
                           worker_visible |-> w, processor_visible |-> p]
        Proposal(inputs) ==
            [digest |-> 1,
             contract |-> [requester |-> [agent |-> 1, issuer |-> 2, root |-> 3], task_type |-> 4,
                           inputs |-> inputs, disclosure |-> "local-only",
                           requested_capabilities |-> <<"respond">>, revision |-> 0, deadline |-> 5,
                           max_response_bytes |-> 6, max_cost_microusd |-> <<>>,
                           evidence_slots |-> <<>>, result_recipient |-> "request-origin",
                           retention_days |-> <<>>]]
        Count(shown, destinations) == Cardinality({i \in DOMAIN shown : shown[i].destination \in destinations})
    IN \A inputs \in UpTo({Input(n, w, p) : n \in 1..2, w, p \in BOOLEAN}, 3) :
          LET view == render(project_risk_card(Proposal(inputs)))
              shown == view.what_leaves.inputs
              to_worker == Count(shown, {"worker + processor", "worker only"})
              to_processor == Count(shown, {"worker + processor", "processor only"})
          IN /\ Len(shown) = Len(inputs)
             /\ view.sentence.inputs >= to_worker
             /\ view.sentence.inputs = to_worker <=> \A i \in DOMAIN inputs : inputs[i].worker_visible
             /\ view.sentence.processor_clause =
                   IF to_processor = 0 THEN <<>> ELSE <<to_processor, "local-only">>
             /\ view.sentence.root = 3
=============================================================================
