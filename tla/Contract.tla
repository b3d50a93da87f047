------------------------------ MODULE Contract ------------------------------
(***************************************************************************)
(* What a proposal Message says and when it is valid (akson-contract): the *)
(* contract and its DSSE envelope, the Parts of the Message, the binding   *)
(* of every input Part to a manifest entry, the validity window and the    *)
(* compare-and-swap chain of revisions.                                    *)
(*                                                                         *)
(* Bytes are sequences, so that a length and a digest say different        *)
(* things; a digest is an injective function of the bytes, a signature     *)
(* names the key that made it, and a contract is named by its digest.      *)
(***************************************************************************)
EXTENDS Integers, Sequences, FiniteSets

CONSTANT NoDigest    \* a contract without a predecessor

sha256(bytes) == [digest_of |-> bytes]

DSSE_ENVELOPE_MEDIA_TYPE == "dsse"
ContractV1 == "contract"
ResultManifestV1 == "result-manifest"

(* DSSE: one signature, over the type and the payload; `keyid` is derived  *)
(* from the signing key.                                                   *)
sign(type, payload, key) ==
    [payload_type |-> type, payload |-> payload,
     signatures |-> <<[keyid |-> key, by |-> key, over |-> <<type, payload>>]>>]

verify(envelope, type, key) ==
    /\ Len(envelope.signatures) = 1
    /\ envelope.payload_type = type
    /\ envelope.signatures[1].keyid = key
    /\ envelope.signatures[1].by = key
    /\ envelope.signatures[1].over = <<envelope.payload_type, envelope.payload>>

-----------------------------------------------------------------------------
(* The contract.  A payload is what was signed: its document, and whether  *)
(* its bytes are the document's one canonical form.                        *)

InputEntry(id, message_id, part_index, kind, media_type, rule, bytes, visible) ==
    [id |-> id, message_id |-> message_id, part_index |-> part_index, kind |-> kind,
     media_type |-> media_type, canonical_rule |-> rule, byte_length |-> Len(bytes),
     sha256 |-> sha256(bytes), worker_visible |-> visible]

(* The schema's coupling of revision and predecessor. *)
SchemaValid(c) == (c.revision = 0) = (c.predecessor_digest = NoDigest)

parse_payload(payload) == payload.canonical /\ SchemaValid(payload.contract)

sign_proposal(payload, key) == sign(ContractV1, payload, key)

verify_proposal(envelope, key) ==
    /\ verify(envelope, ContractV1, key)
    /\ parse_payload(envelope.payload)

check_proposal_identities(c, requester_origin, local_performer) ==
    /\ c.requester = requester_origin
    /\ c.performer = local_performer

-----------------------------------------------------------------------------
(* The Parts.  A data value is a document with a spelling; its canonical   *)
(* bytes depend on the document alone.                                     *)

Controls(parts) == {i \in DOMAIN parts : parts[i].media_type = DSSE_ENVELOPE_MEDIA_TYPE}

extract_proposal(parts) ==
    /\ Cardinality(Controls(parts)) = 1
    /\ \A i \in Controls(parts) : parts[i].kind = "data"
    /\ \A i \in DOMAIN parts \ Controls(parts) : parts[i].kind \in {"text", "data"}

Envelope(parts) == parts[CHOOSE i \in Controls(parts) : TRUE].value

(* Part indices count from 0, over all the Parts of the Message. *)
Inputs(message_id, parts) ==
    {[message_id |-> message_id, part_index |-> i - 1, media_type |-> parts[i].media_type,
      kind |-> parts[i].kind, value |-> parts[i].value] : i \in DOMAIN parts \ Controls(parts)}

CanonicalRule(kind) == IF kind = "text" THEN "utf8-exact" ELSE "jcs"
CanonicalBytes(part) == IF part.kind = "text" THEN part.value ELSE part.value.document

check_part(entry, part) ==
    /\ part.kind = entry.kind
    /\ entry.media_type = part.media_type
    /\ entry.canonical_rule = CanonicalRule(part.kind)
    /\ Len(CanonicalBytes(part)) = entry.byte_length
    /\ sha256(CanonicalBytes(part)) = entry.sha256

Coords(x) == <<x.message_id, x.part_index>>

(* `entries` is the sequence of the contract, `parts` the input Parts,      *)
(* whose coordinates the extraction made distinct.                         *)
bind_inputs(entries, parts) ==
    /\ \A i, j \in DOMAIN entries : Coords(entries[i]) = Coords(entries[j]) => i = j
    /\ \A p \in parts : \E i \in DOMAIN entries :
          Coords(entries[i]) = Coords(p) /\ check_part(entries[i], p)
    /\ \A i \in DOMAIN entries : \E p \in parts : Coords(p) = Coords(entries[i])

-----------------------------------------------------------------------------
(* Time.  The start of the window has a leeway, its end has none. *)

validity(c, now, leeway) ==
    IF c.created_at >= c.expires_at THEN "Expired"
    ELSE IF now < c.created_at - leeway THEN "NotYetValid"
    ELSE IF now >= c.expires_at THEN "Expired"
    ELSE "Valid"

-----------------------------------------------------------------------------
(* The whole validation of a received proposal. *)

receive_proposal(message_id, parts, key, requester_origin, local_performer, now, leeway) ==
    /\ extract_proposal(parts)
    /\ verify_proposal(Envelope(parts), key)
    /\ LET c == Envelope(parts).payload.contract
       IN /\ check_proposal_identities(c, requester_origin, local_performer)
          /\ bind_inputs(c.inputs, Inputs(message_id, parts))
          /\ validity(c, now, leeway) = "Valid"

-----------------------------------------------------------------------------
(* The chain of revisions of one Task. *)

Empty == [state |-> "Empty"]
Open(revision, digest) == [state |-> "Open", revision |-> revision, digest |-> digest]
Locked(head) == [head EXCEPT !.state = "Locked"]

Advances(head, c) ==
    IF c.revision = 0 THEN head = Empty
    ELSE /\ head.state = "Open"
         /\ c.revision = head.revision + 1
         /\ c.predecessor_digest = head.digest

apply_revision(head, c, digest) ==
    IF Advances(head, c) THEN Open(c.revision, digest) ELSE head

accept_head(head, digest) ==
    IF head.state = "Open" /\ head.digest = digest THEN Locked(head) ELSE head
=============================================================================
