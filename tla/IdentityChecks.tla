--------------------------- MODULE IdentityChecks ---------------------------
(***************************************************************************)
(* What the pure parts of an introduction compute, over bounded inputs.    *)
(***************************************************************************)
EXTENDS Identity, Token

LOCAL Keys == [agent_card |-> PurposeKey("agent-card", 1), evidence |-> PurposeKey("evidence", 2)]

LOCAL Presented(card_key, other) ==
    [p \in {"agent-card", "evidence"} |-> IF p = "agent-card" THEN card_key ELSE other]

LOCAL Transcripts ==
    {[role |-> r, dialer_root |-> thumbprint(1), responder_root |-> thumbprint(3),
      dialer_tls_sha256 |-> 11, responder_tls_sha256 |-> 12, tls_exporter |-> x, nonce |-> n,
      key_binding_sha256 |-> 0] : r \in {"dialer", "responder"}, x \in 0..1, n \in 0..1}

LOCAL Bare(name) ==
    [name |-> name, interfaces |-> <<[url |-> "u"]>>, security |-> "mtls",
     extensions |-> <<[uri |-> "e1", required |-> TRUE], [uri |-> "e2", required |-> FALSE],
                      [uri |-> "e3", required |-> TRUE]>>,
     signatures |-> <<>>]

LOCAL Signed(card, key) == [card EXCEPT !.signatures = sign_card(card, key)]

LOCAL Acceptable == {canonical_payload(Bare("card"))}

LOCAL Build(t, card, keys) == build_intro_material(t, [issuer |-> "i", agent |-> "a"], card, keys, 5, 9)

LOCAL Verdict(root, t, tls, material, now) ==
    verify_material(root, t, tls, material, Acceptable, {7}, now)

(* The material a side builds is accepted by the other side on that very   *)
(* session, and by nobody on another: not in the other role, not after a   *)
(* new exporter or nonce, not with another root imported.  A proof taken   *)
(* from one session is therefore worth nothing in the next one.            *)
ASSUME ProofIsForThisSession ==
    \A t \in Transcripts :
        LET built == Build(t, Signed(Bare("card"), Keys.agent_card), Presented(Keys.agent_card, Keys.evidence))
            tls == transcript_tls_of_signer(t)
        IN /\ Len(built) = 1
           /\ Verdict(thumbprint(1), t, tls, built[1], 5) = "verified"
           /\ \A u \in Transcripts : Verdict(thumbprint(1), u, tls, built[1], 5) = "verified" => u = t
           /\ Verdict(thumbprint(3), t, tls, built[1], 5) = "RootMismatch"
           /\ Verdict(thumbprint(1), t, 23 - tls, built[1], 5) = "TlsCertificateMismatch"

(* A record cannot be thinned or widened after its proofs were made: a key *)
(* dropped, added or swapped, in the record or in the proofs, is refused.  *)
ASSUME RecordIsWhole ==
    \A t \in Transcripts :
        LET m == Build(t, Signed(Bare("card"), Keys.agent_card), Presented(Keys.agent_card, Keys.evidence))[1]
            tls == transcript_tls_of_signer(t)
            keys == m.key_binding.keys
            Without(f, p) == [q \in DOMAIN f \ {p} |-> f[q]]
            With(f, p, v) == [q \in DOMAIN f \cup {p} |-> IF q = p THEN v ELSE f[q]]
            records == {Without(keys, "evidence"), With(keys, "task-result", KeyEntry(4, 5, 9)),
                        With(keys, "evidence", KeyEntry(4, 5, 9)),
                        With(keys, "task-result", KeyEntry(2, 5, 9))}
            proofs == {Without(m.proofs, "evidence"),
                       With(m.proofs, "task-result", m.proofs["evidence"]),
                       With(m.proofs, "evidence", m.proofs["agent-card"])}
        IN \A r \in records \cup {keys}, q \in proofs \cup {m.proofs} :
              (Verdict(thumbprint(1), t, tls,
                       [m EXCEPT !.key_binding.keys = r, !.proofs = q], 5) = "verified")
                 <=> (r = keys /\ q = m.proofs)

(* A key that is presented for two purposes, is no point of the curve, or  *)
(* is outside its window, first second included and last excluded, is      *)
(* refused whatever signs with it.                                         *)
ASSUME KeysAreSeparateAndCurrent ==
    LET t == CHOOSE t \in Transcripts : TRUE
        tls == transcript_tls_of_signer(t)
        Try(other, now) ==
            Verdict(thumbprint(1), t, tls,
                    Build(t, Signed(Bare("card"), Keys.agent_card),
                          Presented(Keys.agent_card, PurposeKey("evidence", other)))[1], now)
    IN \A other \in {1, 2, 7}, now \in 3..10 :
          (Try(other, now) = "verified") <=> (other = 2 /\ now \in 5..8)

(* A key signs in its own purpose only: a card or a record built with a    *)
(* key of another purpose is not built at all.                             *)
ASSUME PurposesAreSeparate ==
    \A p \in KeyPurpose :
        LET key == PurposeKey(p, 1)
        IN /\ (sign_card(Bare("card"), key) # <<>>) <=> p = "agent-card"
           /\ (self_signed_endpoint(key, 3, 4) # <<>>) <=> p = "tls-endpoint"
           /\ \A t \in Transcripts :
                 (Build(t, Bare("card"), Presented(key, Keys.evidence)) # <<>>) <=> p = "agent-card"
           /\ verify_card(Signed(Bare("card"), Keys.agent_card), key) <=> p = "agent-card"

(* One good signature of several is enough, and the signatures themselves  *)
(* are not part of what is signed; a changed card verifies under none.     *)
ASSUME OneSignatureIsEnough ==
    LET good == sign_card(Bare("card"), Keys.agent_card)[1]
        forged == {[good EXCEPT !.signature.by = 3], [good EXCEPT !.protected.alg = "none"],
                [good EXCEPT !.protected.typ = "JWT"], [good EXCEPT !.protected.kid = thumbprint(3)],
                [good EXCEPT !.protected = [f \in ProtectedHeader \cup {"crit"} |-> "x"]]}
        Card(name, signatures) == [Bare(name) EXCEPT !.signatures = signatures]
    IN \A x \in forged \cup {good}, y \in forged \cup {good}, name \in {"card", "other"} :
          verify_card(Card(name, <<x, y>>), Keys.agent_card) <=> (name = "card" /\ good \in {x, y})

(* What is pinned changes with the interfaces, the security requirements,  *)
(* the required extensions and the keys, and with nothing that is only     *)
(* shown or only reordered; the digest of the full card does tell those.   *)
ASSUME ProjectionIgnoresCosmetics ==
    LET set == Build(CHOOSE t \in Transcripts : TRUE, Bare("card"), Presented(Keys.agent_card, Keys.evidence))[1].key_binding
        base == peer_identity_from(set, Bare("card"))
        Swapped == [Bare("card") EXCEPT !.extensions = <<@[3], @[2], @[1]>>]
        Optional == [Bare("card") EXCEPT !.extensions = <<@[1], @[3]>>]
        Dropped == [Bare("card") EXCEPT !.extensions = <<@[1], @[2]>>]
        Same(card) == matches(peer_identity_from(set, card).security_projection_digest,
                              base.security_projection_digest)
    IN /\ \A card \in {Bare("renamed"), Swapped, Optional} :
             Same(card) /\ ~matches(peer_identity_from(set, card).full_card_digest, base.full_card_digest)
       /\ Same(Signed(Bare("card"), Keys.agent_card))
       /\ \A card \in {Dropped, [Bare("card") EXCEPT !.interfaces = <<>>],
                       [Bare("card") EXCEPT !.security = "none"]} : ~Same(card)
       /\ \A p \in KeyPurpose : (binding(base, p) # <<>>) <=> p \in {"agent-card", "evidence"}
       /\ ~matches(base.tls_cert, [base.tls_cert EXCEPT !.kind = "json-sha256"])

(* A certificate is good from its first to its last second, both included. *)
ASSUME CertificateWindow ==
    LET cert == self_signed_endpoint(PurposeKey("tls-endpoint", 1), 3, 4)[1]
    IN \A now \in 0..9 : /\ (check_cert_time_validity(cert, now) = "ok") <=> now \in 3..7
                         /\ check_cert_time_validity([cert EXCEPT !.parses = FALSE], now) = "Unparseable"

-----------------------------------------------------------------------------
(* The golden vectors of spec/vectors/token.                               *)

LOCAL GoldenKey == [i \in 1..32 |-> i - 1]
LOCAL WeakKey == [i \in 1..32 |-> IF i = 1 THEN 1 ELSE 0]

LOCAL GoldenToken ==
    <<97, 107, 115, 111, 110, 49, 113, 121, 113, 113, 122, 113, 115, 114, 113, 115, 122, 115,
      118, 112, 99, 103, 112, 121, 57, 113, 107, 114, 113, 100, 112, 99, 56, 51, 113, 121,
      103, 106, 122, 118, 50, 112, 50, 57, 115, 104, 114, 113, 118, 51, 53, 120, 99, 117,
      114, 53, 48, 112, 55, 108, 121, 107, 108, 52, 100>>
LOCAL WrongHrp ==
    <<97, 107, 115, 111, 109, 49, 113, 121, 113, 113, 122, 113, 115, 114, 113, 115, 122, 115,
      118, 112, 99, 103, 112, 121, 57, 113, 107, 114, 113, 100, 112, 99, 56, 51, 113, 121,
      103, 106, 122, 118, 50, 112, 50, 57, 115, 104, 114, 113, 118, 51, 53, 120, 99, 117,
      114, 53, 48, 112, 55, 117, 102, 97, 97, 113, 115>>
LOCAL UnknownVersion ==
    <<97, 107, 115, 111, 110, 49, 113, 103, 113, 113, 122, 113, 115, 114, 113, 115, 122, 115,
      118, 112, 99, 103, 112, 121, 57, 113, 107, 114, 113, 100, 112, 99, 56, 51, 113, 121,
      103, 106, 122, 118, 50, 112, 50, 57, 115, 104, 114, 113, 118, 51, 53, 120, 99, 117,
      114, 53, 48, 112, 55, 99, 118, 113, 104, 115, 97>>
LOCAL ShortPayload ==
    <<97, 107, 115, 111, 110, 49, 113, 121, 113, 113, 122, 113, 115, 114, 113, 115, 122, 115,
      118, 112, 99, 103, 112, 121, 57, 113, 107, 114, 113, 100, 112, 99, 56, 51, 113, 121,
      103, 106, 122, 118, 50, 112, 50, 57, 115, 104, 114, 113, 118, 51, 53, 120, 99, 117,
      114, 53, 48, 113, 119, 116, 102, 110, 108, 50>>
LOCAL WeakToken ==
    <<97, 107, 115, 111, 110, 49, 113, 121, 113, 115, 113, 113, 113, 113, 113, 113, 113, 113,
      113, 113, 113, 113, 113, 113, 113, 113, 113, 113, 113, 113, 113, 113, 113, 113, 113, 113,
      113, 113, 113, 113, 113, 113, 113, 113, 113, 113, 113, 113, 113, 113, 113, 113, 113, 113,
      113, 113, 113, 113, 113, 106, 120, 118, 48, 54, 51>>

(* The model's codec agrees with the repository's golden vectors, and a    *)
(* token is the same in upper case but refused in mixed case or with a     *)
(* hint still attached.                                                    *)
ASSUME GoldenVectors ==
    /\ encode_token(GoldenKey) = GoldenToken
    /\ decode_token(GoldenToken, {WeakKey}) = [version |-> 1, root_key |-> GoldenKey]
    /\ decode_token(ToUpper(GoldenToken), {WeakKey}) = decode_token(GoldenToken, {WeakKey})
    /\ decode_token([GoldenToken EXCEPT ![1] = 65], {WeakKey}) = Rejected("mixed-case")
    /\ decode_token([GoldenToken EXCEPT ![65] = 101], {WeakKey}) = Rejected("bad-checksum")
    /\ decode_token([GoldenToken EXCEPT ![1] = 226], {WeakKey}) = Rejected("bad-char")
    /\ decode_token(WrongHrp, {WeakKey}) = Rejected("bad-hrp")
    /\ decode_token(UnknownVersion, {WeakKey}) = Rejected("unknown-version")
    /\ decode_token(ShortPayload, {WeakKey}) = Rejected("bad-length")
    /\ decode_token(WeakToken, {WeakKey}) = Rejected("weak-key")
    /\ LET hinted == split_presentation(GoldenToken \o <<64, 49, 58, 56>>)
       IN hinted.token = GoldenToken /\ hinted.hint = <<49, 58, 56>>
    /\ split_presentation(GoldenToken) = [token |-> GoldenToken, hint |-> <<>>]
    /\ split_presentation(GoldenToken \o <<64>>) = [token |-> GoldenToken, hint |-> <<>>]

(* One mistyped character is always noticed: whatever single character of  *)
(* the data part is replaced by another digit of the charset, the token is *)
(* refused.                                                                *)
ASSUME OneTypoIsNoticed ==
    \A i \in 7..Len(GoldenToken) : \A d \in {1, 32} :
        CHARSET[d] # GoldenToken[i] =>
            decode_token([GoldenToken EXCEPT ![i] = CHARSET[d]], {}) = Rejected("bad-checksum")

(* Regrouping loses nothing, and a payload has one spelling only: a digit  *)
(* too many, or padding that is not zero, is refused.                      *)
ASSUME RegroupingIsExact ==
    /\ \A n \in 0..5, x \in {0, 1, 85, 170, 255}, y \in {0, 1, 255} :
          LET bytes == [i \in 1..n |-> IF i % 2 = 1 THEN x ELSE y]
              groups == to_five_bit(bytes)
          IN /\ to_eight_bit(groups) = [bytes |-> bytes]
             /\ to_eight_bit(groups \o <<0>>) \in {NoBytes, [bytes |-> bytes \o <<0>>]}
             /\ (n % 5 # 0) =>
                   to_eight_bit([groups EXCEPT ![Len(groups)] = @ + 1]) = NoBytes
=============================================================================
