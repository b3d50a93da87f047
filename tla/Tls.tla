-------------------------------- MODULE Tls --------------------------------
(***************************************************************************)
(* The TLS configurations of the daemon (akson-transport, tls.rs) and the  *)
(* handshake two of them make.  Every configuration speaks TLS 1.3 only,   *)
(* resumes nothing and sends no early data; they differ in what they       *)
(* present and in whom they accept.  A certificate is the record that      *)
(* `self_signed_endpoint` builds, or one of a public authority.            *)
(***************************************************************************)
EXTENDS Identity

(* The key leaves its box for the TLS purpose only. *)
private_key(purposeKey) == IF sign_with(purposeKey, "tls-endpoint") THEN <<purposeKey.key>> ELSE <<>>

(* The Pinned logic: which certificate, and who holds its key. *)
check(expected, cert) == matches(Fingerprint("cert-sha256", cert), expected)
verify_tls13(message, cert, dss) == dss = Signature(cert.key, message)
tls12_disabled == FALSE

check_cert_time(cert, now) ==
    CASE check_cert_time_validity(cert, now) = "Unparseable" -> "BadEncoding"
      [] check_cert_time_validity(cert, now) = "NotYetValid" -> "NotValidYet"
      [] check_cert_time_validity(cert, now) = "Expired" -> "Expired"
      [] OTHER -> "ok"

PinnedServerVerifier(expected, cert, now) ==
    IF check(expected, cert) THEN check_cert_time(cert, now) ELSE "ApplicationVerificationFailure"
PinnedClientVerifier(expected, cert, now) ==
    IF check(expected, cert) THEN check_cert_time(cert, now) ELSE "ApplicationVerificationFailure"

AcceptAnyClientVerifier(cert, now) == check_cert_time(cert, now)
AcceptAnyServerVerifier(cert, now) == check_cert_time(cert, now)
client_auth_mandatory(verifier) == verifier # "AcceptAnyClient"

-----------------------------------------------------------------------------
(* The configurations.  None comes of a key that is not the TLS key.  What  *)
(* is presented is empty when the client stays anonymous.                  *)

Config(presents, verifier, expected) ==
    [versions |-> {"1.3"}, presents |-> presents, verifier |-> verifier, expected |-> expected,
     resumption |-> FALSE, early_data |-> FALSE]

NoPin == Fingerprint("none", "none")

Presenting(purposeKey, cert, verifier, expected) ==
    IF private_key(purposeKey) = <<>> THEN <<>>
    ELSE <<Config(<<[cert |-> cert, key |-> purposeKey.key]>>, verifier, expected)>>

introduction_client_config(purposeKey, cert) == Presenting(purposeKey, cert, "AcceptAnyServer", NoPin)
discovery_client_config == Config(<<>>, "AcceptAnyServer", NoPin)
bootstrap_server_config(purposeKey, cert) == Presenting(purposeKey, cert, "AcceptAnyClient", NoPin)
server_config(purposeKey, cert, peer) == Presenting(purposeKey, cert, "PinnedClient", peer)
client_config(purposeKey, cert, peer) == Presenting(purposeKey, cert, "PinnedServer", peer)
ca_client_config == Config(<<>>, "WebPki", NoPin)

(* A certificate that a root of the compiled-in bundle vouches for. *)
WebPki(cert) == "authority" \in DOMAIN cert

(* What a side makes of the certificate it is shown, at its wall clock.     *)
Verdict(config, cert, now) ==
    CASE config.verifier = "PinnedServer" -> PinnedServerVerifier(config.expected, cert, now)
      [] config.verifier = "PinnedClient" -> PinnedClientVerifier(config.expected, cert, now)
      [] config.verifier = "AcceptAnyServer" -> AcceptAnyServerVerifier(cert, now)
      [] config.verifier = "AcceptAnyClient" -> AcceptAnyClientVerifier(cert, now)
      [] OTHER -> IF WebPki(cert) /\ check_cert_time_validity(cert, now) = "ok" THEN "ok"
                  ELSE "UnknownIssuer"

(* A side is accepted when its certificate is, and it signed this handshake *)
(* with the certificate's key, in the one version that can be verified.    *)
Accepts(config, now, side, version, message) ==
    /\ Verdict(config, side.cert, now) = "ok"
    /\ IF version = "1.3" THEN verify_tls13(message, side.cert, Signature(side.key, message))
       ELSE tls12_disabled

handshake(client, server, client_now, server_now, session) ==
    \E version \in client.versions \cap server.versions :
        /\ Accepts(client, client_now, server.presents[1], version, session)
        /\ IF client.presents = <<>> THEN ~client_auth_mandatory(server.verifier)
           ELSE Accepts(server, server_now, client.presents[1], version, session)

(* The fingerprint the server captures of its client. *)
peer_certificate(client) ==
    IF client.presents = <<>> THEN <<>>
    ELSE <<Fingerprint("cert-sha256", client.presents[1].cert).value>>
=============================================================================
