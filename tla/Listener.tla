------------------------------ MODULE Listener ------------------------------
(***************************************************************************)
(* The network face of the daemon (aksond's receive_server and             *)
(* receive_http, akson-transport's ingress, the covered values of          *)
(* akson-store): what one request meets between the TLS handshake and the  *)
(* handlers, which the modules Exchange, Coordination and Introduction     *)
(* model.                                                                  *)
(*                                                                         *)
(* A store is the record of the rows these gates read: `keys` by           *)
(* certificate and purpose, `status` by root, and the request records      *)
(* `inbox` and `tombstones` by peer and message id.                        *)
(***************************************************************************)
EXTENDS Integers, Sequences, FiniteSets, Functions

-----------------------------------------------------------------------------
(* The limiter of the anonymous routes, by source bucket. *)

rate_bucket(source) ==
    IF source.family = "v4" THEN source ELSE [source EXCEPT !.host = 0]

(* `limit` is [window, per_window, tracked]; a table maps each tracked      *)
(* bucket to its count and the start of its window.  The table is pruned    *)
(* only when it is full, and then takes no new bucket while it stays full. *)
Pruned(limit, table, now) ==
    IF Cardinality(DOMAIN table) < limit.tracked THEN table
    ELSE [b \in {b \in DOMAIN table : now - table[b].start < limit.window} |-> table[b]]

intro_rate_admit(limit, table, source, now) ==
    LET bucket == rate_bucket(source)
        kept == Pruned(limit, table, now)
        old == IF bucket \in DOMAIN kept THEN kept[bucket] ELSE [count |-> 0, start |-> now]
        entry == IF now - old.start >= limit.window THEN [count |-> 1, start |-> now]
                 ELSE [old EXCEPT !.count = @ + 1]
    IN IF Cardinality(DOMAIN kept) >= limit.tracked /\ bucket \notin DOMAIN kept
       THEN [table |-> kept, admit |-> FALSE]
       ELSE [table |-> [b \in DOMAIN kept \cup {bucket} |-> IF b = bucket THEN entry ELSE kept[b]],
             admit |-> entry.count <= limit.per_window]

-----------------------------------------------------------------------------
(* The peer behind a certificate: an active root that owns the key row. *)

peer_key(store, fp, purpose) ==
    IF <<fp, purpose>> \in DOMAIN store.keys THEN <<store.keys[<<fp, purpose>>]>> ELSE <<>>

resolve(store, fp) ==
    LET row == peer_key(store, fp, "contract-proposal")
    IN IF /\ row # <<>>
          /\ row[1].root # ""
          /\ row[1].root \in DOMAIN store.status /\ store.status[row[1].root] = "Active"
          /\ row[1].parses
       THEN <<[peer_id |-> row[1].root, proposal_key |-> row[1].key]>>
       ELSE <<>>

peer_known(store, fp) == resolve(store, fp) # <<>>

(* The result key has to belong to the root admitted on this connection. *)
TaskResultKey(store, fp, peer) ==
    LET row == peer_key(store, fp, "task-result")
    IN IF row # <<>> /\ row[1].root = peer.peer_id /\ row[1].parses THEN <<row[1].key>> ELSE <<>>

-----------------------------------------------------------------------------
(* The covered values and the request records. *)

body_digest(body) == [digest_of |-> body]

(* A Content-Digest header is its list of members; one member is            *)
(* [alg, framed, value], without an algorithm when it has no `=`.          *)
verify_content_digest(header, body) ==
    IF header = <<>> THEN "Missing"
    ELSE IF Len(header) > 1 THEN "NotSingle"
    ELSE IF header[1].alg = "" THEN "Malformed"
    ELSE IF header[1].alg # "sha-256" THEN "Algorithm"
    ELSE IF ~header[1].framed THEN "Malformed"
    ELSE IF header[1].value # body_digest(body) THEN "Mismatch"
    ELSE "ok"

content_digest(body) == <<[alg |-> "sha-256", framed |-> TRUE, value |-> body_digest(body)]>>

(* The order and the repetition of extensions do not matter. *)
normalized(covered) == [covered EXCEPT !.extensions = Range(@)]
commitment(covered, key) == [mac_of |-> normalized(covered), key |-> key]

prior_response(store, peer, message_id) ==
    IF <<peer, message_id>> \in DOMAIN store.inbox THEN <<store.inbox[<<peer, message_id>>]>>
    ELSE IF <<peer, message_id>> \in DOMAIN store.tombstones
         THEN <<store.tombstones[<<peer, message_id>>]>>
    ELSE <<>>

(* A response that cannot be unsealed counts as a conflict. *)
decide(committed, prior) ==
    IF prior.commitment = committed /\ prior.opens THEN "Duplicate" ELSE "Conflict"

peek(store, covered) ==
    LET prior == prior_response(store, covered.peer, covered.message_id)
    IN IF prior = <<>> THEN "Fresh" ELSE decide(commitment(covered, store.key), prior[1])

With(f, x, v) == [y \in DOMAIN f \cup {x} |-> IF y = x THEN v ELSE f[y]]
Without(f, x) == [y \in DOMAIN f \ {x} |-> f[y]]

receive_request(store, covered, class) ==
    IF peek(store, covered) # "Fresh" THEN store
    ELSE [store EXCEPT !.inbox =
            With(@, <<covered.peer, covered.message_id>>,
                 [commitment |-> commitment(covered, store.key), class |-> class, opens |-> TRUE])]

demote_to_tombstone(store, peer, message_id) ==
    IF <<peer, message_id>> \notin DOMAIN store.inbox THEN store
    ELSE [store EXCEPT !.tombstones = With(@, <<peer, message_id>>, store.inbox[<<peer, message_id>>]),
                       !.inbox = Without(@, <<peer, message_id>>)]

tombstone_lifetime_secs(task_retention, max_retry_window, contract_expiry) ==
    IF task_retention > max_retry_window + contract_expiry THEN task_retention
    ELSE max_retry_window + contract_expiry

-----------------------------------------------------------------------------
(* The gates of an A2A request, in order. *)

A2A_MEDIA_TYPE == "a2a+json"
A2A_VERSION == "1.0"

validate_a2a_version(version) == version = A2A_VERSION

(* Parameters of the media type do not matter here, though they are covered. *)
media_type_matches(content_type) == content_type.type = A2A_MEDIA_TYPE

CoveredValues(req, peer) ==
    [peer |-> peer, message_id |-> req.message.id, body_digest |-> body_digest(req.body),
     a2a_version |-> req.a2a_version, extensions |-> req.extensions,
     content_type |-> req.content_type, http_method |-> req.method]

admit(store, required, req, peer) ==
    IF ~media_type_matches(req.content_type) THEN "UnsupportedMediaType"
    ELSE IF ~validate_a2a_version(req.a2a_version) THEN "BadA2aVersion"
    ELSE IF verify_content_digest(req.content_digest, req.body) # "ok" THEN "ContentDigest"
    ELSE IF ~(required \subseteq Range(req.extensions)) THEN "MissingRequiredExtensions"
    ELSE peek(store, CoveredValues(req, peer))

reject_to_http(reject) == IF reject = "UnsupportedMediaType" THEN 415 ELSE 400

COORD_REFUSED_CLASS == "coordination-refused"
replay(class) == IF class = COORD_REFUSED_CLASS THEN 422 ELSE 200

(* A message is read by the envelopes among its Parts: a signed result       *)
(* manifest first, then a coordination envelope, then a proposal.           *)
part_envelope(part) == part.media_type = "dsse" /\ part.kind = "data"
result_manifest_envelope(parts) ==
    \E i \in DOMAIN parts : part_envelope(parts[i]) /\ parts[i].payload_type = "result-manifest"
coord_dispatch_envelope(parts) ==
    \E i \in DOMAIN parts : parts[i].media_type = "coord-dispatch" /\ parts[i].kind = "data"

ResultGates(req) ==
    /\ req.content_type = [type |-> A2A_MEDIA_TYPE, params |-> ""]
    /\ req.a2a_version = A2A_VERSION
    /\ verify_content_digest(req.content_digest, req.body) = "ok"

(* What the handler answers and leaves in the store.  `outcome` is what the  *)
(* modelled handlers decide of a message that is let through; 409 stands    *)
(* for every refusal of a result.                                          *)
handle_result(store, result_key, outcome) ==
    [status |-> IF result_key = <<>> THEN 415 ELSE IF outcome = "accept" THEN 200 ELSE 409,
     store |-> store]

handle_coord_dispatch(store, covered, outcome) ==
    IF outcome = "accept" THEN [status |-> 200, store |-> receive_request(store, covered, "coordination")]
    ELSE [status |-> 422, store |-> receive_request(store, covered, COORD_REFUSED_CLASS)]

dispatch_proposal(store, covered, outcome) ==
    IF outcome = "accept" THEN [status |-> 200, store |-> receive_request(store, covered, "task")]
    ELSE [status |-> 422, store |-> receive_request(store, covered, "rejected")]

handle_receive(store, required, req, peer, result_key, outcome) ==
    LET verdict == admit(store, required, req, peer)
        covered == CoveredValues(req, peer)
        Plain(status) == [status |-> status, store |-> store]
    IN IF req.method # "POST" THEN Plain(405)
       ELSE IF ~req.message.parses THEN Plain(400)
       ELSE IF result_manifest_envelope(req.message.parts) THEN
              IF ResultGates(req) THEN handle_result(store, result_key, outcome) ELSE Plain(422)
       ELSE IF verdict = "Duplicate" THEN
              Plain(replay(prior_response(store, peer, req.message.id)[1].class))
       ELSE IF verdict = "Conflict" THEN Plain(409)
       ELSE IF verdict = "Fresh" THEN
              IF coord_dispatch_envelope(req.message.parts)
              THEN handle_coord_dispatch(store, covered, outcome)
              ELSE dispatch_proposal(store, covered, outcome)
       ELSE Plain(reject_to_http(verdict))

-----------------------------------------------------------------------------
(* One request on a connection.  The gates before the body use the store as  *)
(* it is then, `respond` the store as it is when the body has arrived.      *)

MAX_ACTIVATED_EXTENSIONS == 2     \* 32 in the code
MAX_INTRODUCTION_BODY == 1        \* 64 KiB
MAX_RECEIVE_BODY == 2             \* 1 MiB

(* `http` is the request as it arrives: its head, and a body of which some   *)
(* bytes come in time.  The listed extensions are cut at the cap.           *)
Activated(http) ==
    LET listed == SelectSeq(http.extensions, LAMBDA e : e # "")
    IN SubSeq(listed, 1, IF Len(listed) < MAX_ACTIVATED_EXTENSIONS THEN Len(listed)
                         ELSE MAX_ACTIVATED_EXTENSIONS)

respond(store, required, http, time_certain, outcome) ==
    LET peer == IF http.fp = <<>> THEN <<>> ELSE resolve(store, http.fp[1])
        req == [http EXCEPT !.extensions = Activated(http)]
    IN IF peer = <<>> THEN [status |-> 403, store |-> store]
       ELSE IF ~time_certain THEN [status |-> 503, store |-> store]
       ELSE handle_receive(store, required, req, peer[1].peer_id,
                           TaskResultKey(store, http.fp[1], peer[1]), outcome)

public_card(intro) == IF intro THEN 200 ELSE 404

(* The introduction's answer is that of module Introduction; an endpoint     *)
(* without the service refuses and closes.                                  *)
respond_intro(intro, http, answer) ==
    IF intro /\ http.method = "POST" /\ http.fp # <<>> THEN answer
    ELSE [status |-> 403, close |-> TRUE]

is_intro(path) == path \in {"hello", "complete"}

Closing(status) == [status |-> status, close |-> TRUE, read |-> 0]

(* Reading stops at the cap, or at the timeout with what came until then.   *)
BodyRead(http, cap) ==
    IF http.arrives > cap THEN [status |-> 413, read |-> cap]
    ELSE IF http.arrives < http.length THEN [status |-> 408, read |-> http.arrives]
    ELSE [status |-> 200, read |-> http.length]

handle(before, after, required, http, rate_ok, intro, time_certain, answer, outcome) ==
    LET cap == IF is_intro(http.path) THEN MAX_INTRODUCTION_BODY ELSE MAX_RECEIVE_BODY
        body == BodyRead(http, cap)
        responded == respond(after, required, http, time_certain, outcome)
        introduced == respond_intro(intro, http, answer)
    IN IF http.method = "GET" /\ http.path = "card" THEN
              Closing(IF rate_ok THEN public_card(intro) ELSE 403)
       ELSE IF is_intro(http.path) /\ ~rate_ok THEN Closing(403)
       ELSE IF ~is_intro(http.path) /\ ~(http.fp # <<>> /\ peer_known(before, http.fp[1])) THEN
              Closing(403)
       ELSE IF body.status # 200 THEN [status |-> body.status, close |-> FALSE, read |-> body.read]
       ELSE IF is_intro(http.path) THEN
              [status |-> introduced.status, close |-> introduced.close, read |-> body.read]
       ELSE [status |-> responded.status, close |-> responded.status = 403, read |-> body.read]
=============================================================================
