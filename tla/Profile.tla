------------------------------- MODULE Profile -------------------------------
(***************************************************************************)
(* The A2A profile an Agent Card, a Message and a negotiation have to meet *)
(* (akson-proto, profile.rs; the required set is akson-ext's).  Every      *)
(* validator reports the set of all violations it sees.  A text is the     *)
(* sequence of its character classes: "p" printable ASCII, "/" a delimiter  *)
(* of the authority, "s" a space or a control character, "u" the rest.     *)
(***************************************************************************)
EXTENDS Integers, Sequences, FiniteSets

MAX_ID_LEN == 3               \* 128 in the code
MAX_EXTENSION_URI_LEN == 4    \* 256; here without the scheme

is_valid_id(id) == Len(id) \in 1..MAX_ID_LEN /\ \A i \in DOMAIN id : id[i] \in {"p", "/"}

(* A URI is its scheme and the rest; the authority ends at a delimiter. *)
is_bounded_https_uri(uri) ==
    /\ Len(uri.rest) <= MAX_EXTENSION_URI_LEN
    /\ uri.scheme = "https"
    /\ uri.rest # <<>> /\ uri.rest[1] # "/"
    /\ \A i \in DOMAIN uri.rest : uri.rest[i] # "s"

check_extension_uri(uri) == IF is_bounded_https_uri(uri) THEN {} ELSE {"BadExtensionUri"}

-----------------------------------------------------------------------------
PartViolation(part) ==
    CASE part \in {"text", "data"} -> {}
      [] part = "raw" -> {"RawPartUnsupported"}
      [] part = "url" -> {"UrlPartUnsupported"}
      [] OTHER -> {"EmptyPart"}

validate_message(message) ==
    (IF is_valid_id(message.message_id) THEN {} ELSE {"BadMessageId"})
    \cup (IF message.context_id = <<>> \/ is_valid_id(message.context_id) THEN {} ELSE {"BadId"})
    \cup (IF message.task_id = <<>> \/ is_valid_id(message.task_id) THEN {} ELSE {"BadId"})
    \cup (IF \A i \in DOMAIN message.references : is_valid_id(message.references[i])
          THEN {} ELSE {"BadId"})
    \cup (IF message.role \in {"user", "agent"} THEN {} ELSE {"BadRole"})
    \cup (IF message.parts = <<>> THEN {"NoParts"} ELSE {})
    \cup UNION {PartViolation(message.parts[i]) : i \in DOMAIN message.parts}
    \cup UNION {check_extension_uri(message.extensions[i]) : i \in DOMAIN message.extensions}

(* A field that is absent is the empty sequence. *)
validate_send_message_request(request) ==
    (IF request.message = <<>> THEN {"NoMessage"} ELSE validate_message(request.message[1]))
    \cup (IF request.configuration = <<>> THEN {"NotNonblocking"}
          ELSE (IF request.configuration[1].return_immediately THEN {} ELSE {"NotNonblocking"})
               \cup (IF request.configuration[1].push = <<>> THEN {} ELSE {"PushConfigForbidden"}))

-----------------------------------------------------------------------------
HTTP_JSON_BINDING == "HTTP+JSON"

MtlsSchemes(card) == {name \in DOMAIN card.schemes : card.schemes[name] = "mtls"}

(* Every alternative a client may pick includes an mTLS scheme. *)
MtlsMandatory(card) ==
    /\ card.requirements # {}
    /\ \A req \in card.requirements : req \cap MtlsSchemes(card) # {}

Capabilities(caps, required) ==
    IF caps = <<>>
    THEN {<<"StreamingNotDisabled">>, <<"PushNotDisabled">>, <<"NoExtendedCard">>}
         \cup {<<"MissingRequiredExtension", uri>> : uri \in required}
    ELSE (IF caps[1].streaming = "false" THEN {} ELSE {<<"StreamingNotDisabled">>})
         \cup (IF caps[1].push = "false" THEN {} ELSE {<<"PushNotDisabled">>})
         \cup (IF caps[1].extended = "true" THEN {} ELSE {<<"NoExtendedCard">>})
         \cup {<<"MissingRequiredExtension", uri>> :
                 uri \in {u \in required : ~\E i \in DOMAIN caps[1].extensions :
                              /\ caps[1].extensions[i].uri = u
                              /\ caps[1].extensions[i].required}}

validate_agent_card(card, required) ==
    (IF \E i \in DOMAIN card.interfaces :
            /\ card.interfaces[i].binding = HTTP_JSON_BINDING
            /\ card.interfaces[i].version = "1.0"
            /\ is_bounded_https_uri(card.interfaces[i].url)
     THEN {} ELSE {<<"NoV1Interface">>})
    \cup Capabilities(card.capabilities, required)
    \cup (IF MtlsMandatory(card) THEN {} ELSE {<<"NoMutualTls">>})

-----------------------------------------------------------------------------
ProfileConfig(required) == IF required = {} THEN <<>> ELSE <<required>>

required_extension_uris == {"contract", "key-binding", "delivery", "result-evidence", "outcome"}

(* The set to echo, or what is wrong. *)
negotiate_extensions(supported, required, activated) ==
    LET missing == {<<"ExtensionNotActivated", uri>> : uri \in required \ activated}
        unsupported == {<<"ExtensionNotSupported", uri>> : uri \in activated \ supported}
    IN [violations |-> missing \cup unsupported,
        echo |-> IF missing \cup unsupported = {} THEN activated ELSE {}]
=============================================================================
