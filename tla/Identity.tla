------------------------------ MODULE Identity ------------------------------
(***************************************************************************)
(* The keys of an endpoint and what they sign (akson-crypto, akson-proto's *)
(* card signatures, akson-pairing): a key acts in one purpose only, an     *)
(* Agent Card is signed by a detached JWS, and an introduction presents a  *)
(* record of keys, a card and a proof by every key over the transcript of  *)
(* the live session.                                                       *)
(*                                                                         *)
(* A key is a name; its thumbprint and its public half are injective in    *)
(* it.  A signature names the key that made it and what it was made over.  *)
(***************************************************************************)
EXTENDS Integers, Sequences, FiniteSets

KeyPurpose == {"tls-endpoint", "agent-card", "contract-proposal", "contract-decision",
               "task-result", "evidence", "requester-outcome", "local-authority"}

PAIRED == KeyPurpose \ {"local-authority"}

PurposeKey(purpose, key) == [purpose |-> purpose, key |-> key]
thumbprint(key) == [thumbprint_of |-> key]

(* Both doors to a key open for its own purpose only. *)
sign_with(purposeKey, intended) == purposeKey.purpose = intended
key_for(purposeKey, intended) == purposeKey.purpose = intended

Signature(key, over) == [by |-> key, over |-> over]

(* A fingerprint says how it was computed; two of different kinds differ.  *)
Fingerprint(kind, of) == [kind |-> kind, value |-> of]
matches(f, g) == f.kind = g.kind /\ f.value = g.value

-----------------------------------------------------------------------------
(* Detached JWS.  A header is the function of its members; one with any    *)
(* other member does not parse.  The protected header is signed as it came.*)

ProtectedHeader == {"alg", "typ", "kid"}

signing_input(protected, payload) == <<protected, payload>>

sign_detached(payload, key) ==
    LET header == [alg |-> "EdDSA", typ |-> "JOSE", kid |-> thumbprint(key)]
    IN [protected |-> header, signature |-> Signature(key, signing_input(header, payload))]

verify_detached(jws, payload, key) ==
    /\ DOMAIN jws.protected = ProtectedHeader
    /\ jws.protected.alg = "EdDSA"
    /\ jws.protected.typ = "JOSE"
    /\ jws.protected.kid = thumbprint(key)
    /\ jws.signature = Signature(key, signing_input(jws.protected, payload))

(* The Agent Card: the payload is the card without its signatures, and one *)
(* of them has to verify.                                                  *)
canonical_payload(card) == [f \in DOMAIN card \ {"signatures"} |-> card[f]]

sign_card(card, key) ==
    IF sign_with(key, "agent-card") THEN <<sign_detached(canonical_payload(card), key.key)>>
    ELSE <<>>

verify_card(card, key) ==
    /\ key_for(key, "agent-card")
    /\ \E i \in DOMAIN card.signatures :
          verify_detached(card.signatures[i], canonical_payload(card), key.key)

-----------------------------------------------------------------------------
(* The record of keys an endpoint presents, by purpose.  The schema admits *)
(* the statement purposes; an empty window, or one that now is not in, is  *)
(* refused, and so is one key for two purposes.                            *)

KeyEntry(key, not_before, not_after) ==
    [jwk |-> key, thumbprint |-> thumbprint(key),
     not_before |-> not_before, not_after |-> not_after]

EntryValid(entry, weak, now) ==
    /\ entry.jwk \notin weak
    /\ entry.thumbprint = thumbprint(entry.jwk)
    /\ entry.not_before < entry.not_after
    /\ entry.not_before <= now /\ now < entry.not_after

KeysDistinct(keys) ==
    \A p, q \in DOMAIN keys : thumbprint(keys[p].jwk) = thumbprint(keys[q].jwk) => p = q

verify_binding(set, weak, now) ==
    /\ DOMAIN set.keys # {} /\ DOMAIN set.keys \subseteq PAIRED \ {"tls-endpoint"}
    /\ \A p \in DOMAIN set.keys : EntryValid(set.keys[p], weak, now)
    /\ KeysDistinct(set.keys)

key_binding_digest_hex(set) == [digest_of |-> set]

-----------------------------------------------------------------------------
(* The transcript: every field of the session, and the signer's role and   *)
(* record, under one domain.                                               *)

signing_bytes(transcript) == [domain |-> "akson-introduction-v1", transcript |-> transcript]

Bound(transcript, set) ==
    [transcript EXCEPT !.key_binding_sha256 = key_binding_digest_hex(set)]

(* Every advertised key signed the message, and there is no other proof. *)
verify_proofs_over(set, message, proofs) ==
    /\ \A p \in DOMAIN set.keys :
          p \in DOMAIN proofs /\ proofs[p] = Signature(set.keys[p].jwk, message)
    /\ DOMAIN proofs \subseteq DOMAIN set.keys

transcript_tls_of_signer(transcript) ==
    IF transcript.role = "dialer" THEN transcript.dialer_tls_sha256
                                  ELSE transcript.responder_tls_sha256

(* `keys` maps each purpose to a purpose key; a key of another purpose does *)
(* not sign, and the material is not built.                                *)
build_intro_material(transcript, subject, card, keys, not_before, not_after) ==
    LET set == [subject |-> subject,
                tls_certificate_sha256 |-> transcript_tls_of_signer(transcript),
                keys |-> [p \in DOMAIN keys |-> KeyEntry(keys[p].key, not_before, not_after)]]
        message == signing_bytes(Bound(transcript, set))
    IN IF \E p \in DOMAIN keys : ~sign_with(keys[p], p) THEN <<>>
       ELSE <<[key_binding |-> set, extended_card |-> card,
               proofs |-> [p \in DOMAIN keys |-> Signature(keys[p].key, message)]]>>

(* The verdict on one side's material; `weak` holds the keys that are no   *)
(* valid points, and the profile says which cards are acceptable.          *)
verify_material(root, transcript, subject_tls, material, acceptable, weak, now) ==
    LET set == material.key_binding
        card == material.extended_card
    IN IF ~verify_binding(set, weak, now) THEN "KeyBinding"
       ELSE IF set.tls_certificate_sha256 # subject_tls THEN "TlsCertificateMismatch"
       ELSE IF "agent-card" \notin DOMAIN set.keys THEN "NoAgentCardKey"
       ELSE IF set.keys["agent-card"].thumbprint # root THEN "RootMismatch"
       ELSE IF ~verify_card(card, PurposeKey("agent-card", set.keys["agent-card"].jwk)) THEN
                "CardSignature"
       ELSE IF canonical_payload(card) \notin acceptable THEN "CardProfile"
       ELSE IF ~verify_proofs_over(set, signing_bytes(Bound(transcript, set)), material.proofs) THEN
                "ProofOfPossession"
       ELSE "verified"

-----------------------------------------------------------------------------
(* The identity that is pinned.  Its projection leaves out what is only    *)
(* shown, and sorts the required extensions: it tells how often each is    *)
(* listed and nothing of their order.                                      *)

security_projection(card, set) ==
    LET required == {i \in DOMAIN card.extensions : card.extensions[i].required}
    IN [interfaces |-> card.interfaces, security |-> card.security,
        required_extensions |->
            [uri \in {card.extensions[i].uri : i \in required} |->
                Cardinality({i \in required : card.extensions[i].uri = uri})],
        key_binding |-> set]

peer_identity_from(set, card) ==
    [issuer |-> set.subject.issuer, agent_id |-> set.subject.agent,
     endpoint_id |-> IF card.interfaces = <<>> THEN "" ELSE card.interfaces[1].url,
     tls_cert |-> Fingerprint("cert-sha256", set.tls_certificate_sha256),
     agent_card_key |-> Fingerprint("jwk7638", IF "agent-card" \in DOMAIN set.keys
                                               THEN set.keys["agent-card"].thumbprint ELSE ""),
     key_bindings |-> [p \in DOMAIN set.keys |-> set.keys[p].thumbprint],
     security_projection_digest |-> Fingerprint("json-sha256", security_projection(card, set)),
     full_card_digest |-> Fingerprint("json-sha256", canonical_payload(card))]

(* The binding of a purpose, if the peer pinned one. *)
binding(identity, purpose) ==
    IF purpose \in DOMAIN identity.key_bindings THEN <<identity.key_bindings[purpose]>> ELSE <<>>

(* A certificate is current from its first to its last second, included.   *)
check_cert_time_validity(cert, now) ==
    IF ~cert.parses THEN "Unparseable"
    ELSE IF now < cert.not_before THEN "NotYetValid"
    ELSE IF now > cert.not_after THEN "Expired"
    ELSE "ok"

self_signed_endpoint(purposeKey, now, valid_for) ==
    IF ~sign_with(purposeKey, "tls-endpoint") THEN <<>>
    ELSE <<[parses |-> TRUE, key |-> purposeKey.key,
            not_before |-> now, not_after |-> now + valid_for]>>
=============================================================================
