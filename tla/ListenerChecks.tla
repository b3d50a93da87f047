--------------------------- MODULE ListenerChecks ---------------------------
(***************************************************************************)
(* What the handshake, the gates of the listener, the request records and  *)
(* the A2A profile decide, over bounded inputs.                            *)
(***************************************************************************)
EXTENDS Integers, Sequences, FiniteSets

LOCAL INSTANCE SequencesExt
LOCAL INSTANCE Tls
LOCAL INSTANCE Listener
LOCAL INSTANCE Profile

LOCAL TlsKey(k) == PurposeKey("tls-endpoint", k)
LOCAL Cert(k, from, to) == [parses |-> TRUE, key |-> k, not_before |-> from, not_after |-> to]

(* Two endpoints, one of which renewed its certificate over the same key.  *)
LOCAL Certs == {Cert(1, 0, 4), Cert(2, 0, 2), Cert(2, 2, 4)}
LOCAL Pin(cert) == Fingerprint("cert-sha256", cert)

(* A pinned connection comes up exactly when each side presents the very   *)
(* certificate the other pinned, holds its key, and the certificate is     *)
(* current by the other side's clock: a renewed certificate over the same  *)
(* key is a stranger, and a side that stays anonymous is no peer.          *)
ASSUME PinnedHandshakeIsMutual ==
    \A mine, yours, my_pin, your_pin \in Certs, k, l \in 1..2, now, then \in {1, 2, 3, 5} :
        LET client == client_config(TlsKey(k), mine, Pin(my_pin))[1]
            server == server_config(TlsKey(l), yours, Pin(your_pin))[1]
        IN /\ handshake(client, server, now, then, "session")
                <=> /\ my_pin = yours /\ your_pin = mine
                    /\ k = mine.key /\ l = yours.key
                    /\ yours.not_before <= now /\ now <= yours.not_after
                    /\ mine.not_before <= then /\ then <= mine.not_after
           /\ ~handshake(discovery_client_config, server, now, then, "session")
           /\ ~handshake(ca_client_config, server, now, then, "session")

(* The listener and the first contact take any current certificate whose   *)
(* key signs, and learn its fingerprint; only the listener takes a client  *)
(* that has none.  No configuration comes of a key of another purpose.     *)
ASSUME FirstContactProvesPossession ==
    /\ \A mine, yours \in Certs, k, l \in 1..2, now \in {1, 2, 3, 5} :
        LET client == introduction_client_config(TlsKey(k), mine)[1]
            server == bootstrap_server_config(TlsKey(l), yours)[1]
            Current(cert) == cert.not_before <= now /\ now <= cert.not_after
        IN /\ handshake(client, server, now, now, "session")
                <=> k = mine.key /\ l = yours.key /\ Current(mine) /\ Current(yours)
           /\ handshake(discovery_client_config, server, now, now, "session")
                <=> l = yours.key /\ Current(yours)
           /\ peer_certificate(client) = <<Pin(mine).value>>
    /\ peer_certificate(discovery_client_config) = <<>>
    /\ \A purpose \in KeyPurpose, cert \in Certs :
          LET key == PurposeKey(purpose, 1)
          IN {Len(introduction_client_config(key, cert)), Len(bootstrap_server_config(key, cert)),
              Len(server_config(key, cert, Pin(cert))), Len(client_config(key, cert, Pin(cert)))}
                = {IF purpose = "tls-endpoint" THEN 1 ELSE 0}

-----------------------------------------------------------------------------
LOCAL V4 == [family |-> "v4", prefix |-> 1, host |-> 1]
LOCAL V6(prefix, host) == [family |-> "v6", prefix |-> prefix, host |-> host]
LOCAL Sources == {V4, V6(1, 1), V6(1, 2), V6(2, 1)}
LOCAL Network(source) == <<source.family, source.prefix>>
LOCAL Limit == [window |-> 2, per_window |-> 2, tracked |-> 2]

(* Requests arrive one after the other, each some seconds after the last.   *)
LOCAL Serve(log, arrival) ==
    LET now == log.now + arrival[2]
        step == intro_rate_admit(Limit, log.table, arrival[1], now)
    IN [now |-> now, table |-> step.table,
        seen |-> Append(log.seen, [bucket |-> rate_bucket(arrival[1]), at |-> now,
                                   before |-> log.table, after |-> step.table,
                                   admit |-> step.admit])]
LOCAL Served(arrivals) ==
    FoldLeft(Serve, [now |-> 0, table |-> <<>>, seen |-> <<>>], arrivals).seen

(* The limiter keeps its bounds whatever the order and the pace: it never  *)
(* tracks more buckets than its cap, no bucket is admitted more than twice *)
(* its budget in any stretch of one window, and a bucket inside its open   *)
(* window keeps what is left of its budget however many others arrive, and *)
(* a tracked one starts afresh when its window has lapsed.  (Once lapsed it *)
(* may be dropped for a newcomer, and is then a newcomer itself.)          *)
(* One address of a v6 prefix spends the budget of all of them.            *)
ASSUME LimiterKeepsItsBounds ==
    \A arrivals \in [1..4 -> Sources \X {0, 1, 2}] :
        LET seen == Served(arrivals)
        IN \A i \in DOMAIN seen :
              LET r == seen[i]
                  earlier == {j \in 1..i : seen[j].bucket = r.bucket /\ seen[j].admit
                                           /\ r.at - seen[j].at < Limit.window}
              IN /\ Cardinality(DOMAIN r.after) <= Limit.tracked
                 /\ Cardinality(earlier) <= 2 * Limit.per_window
                 /\ r.bucket \in DOMAIN r.before =>
                      LET old == r.before[r.bucket]
                      IN IF r.at - old.start < Limit.window
                         THEN /\ r.admit <=> old.count < Limit.per_window
                              /\ r.bucket \in DOMAIN r.after
                         ELSE r.admit
                 /\ (r.bucket \notin DOMAIN r.before
                       /\ Cardinality(DOMAIN r.before) < Limit.tracked) => r.admit
                 /\ \A j \in DOMAIN seen :
                      (r.bucket = seen[j].bucket)
                        <=> (Network(arrivals[i][1]) = Network(arrivals[j][1]))

-----------------------------------------------------------------------------
LOCAL Part(media_type, kind, payload_type) ==
    [media_type |-> media_type, kind |-> kind, payload_type |-> payload_type]
LOCAL Proposal == <<Part("dsse", "data", "contract"), Part("text/plain", "text", "")>>
LOCAL Dispatch == <<Part("coord-dispatch", "data", ""), Part("octets", "raw", "")>>
LOCAL Result == <<Part("dsse", "data", "result-manifest"), Part("octets", "raw", "")>>

LOCAL Http(parts, body, extensions, params) ==
    [method |-> "POST", path |-> "message", fp |-> <<"f1">>, length |-> 1, arrives |-> 1,
     content_type |-> [type |-> A2A_MEDIA_TYPE, params |-> params], a2a_version |-> A2A_VERSION,
     content_digest |-> content_digest(body), extensions |-> extensions, body |-> body,
     message |-> [parses |-> TRUE, id |-> "m1", parts |-> parts]]

LOCAL Row(root, key) == [root |-> root, key |-> key, parses |-> TRUE]
LOCAL NoRows == [x \in {} |-> 0]
LOCAL Rows(status, result_root) ==
    [keys |-> (<<"f1", "contract-proposal">> :> Row("r1", 1))
              @@ (<<"f1", "task-result">> :> Row(result_root, 2)),
     status |-> [r1 |-> status, r2 |-> "Active"], inbox |-> NoRows, tombstones |-> NoRows, key |-> "k"]
LOCAL Paired == Rows("Active", "r1")
LOCAL Required == {"e1"}

LOCAL Requests ==
    {Http(parts, body, extensions, params) :
        parts \in {Proposal, Dispatch}, body \in {"b1", "b2"}, params \in {"", "utf-8"},
        extensions \in {<<"e1">>, <<"e1", "e2">>, <<"e2", "e1">>, <<"e1", "e1">>, <<"e1", "", "e2", "e3">>}}

LOCAL Respond(store, http, outcome) == respond(store, Required, http, TRUE, outcome)

(* A request that comes again, even after its record was reduced to a      *)
(* tombstone, has no second effect whatever the handlers would say of it   *)
(* now, and is answered as the first time, with one exception: a proposal  *)
(* that was refused with 422 is answered 200 when it comes again, because  *)
(* only a refused coordination keeps its status.                           *)
ASSUME ReplayHasNoEffect ==
    \A http \in Requests, outcome, again \in {"accept", "refuse"} :
        LET first == Respond(Paired, http, outcome)
        IN \A store \in {first.store, demote_to_tombstone(first.store, "r1", "m1")} :
              LET second == Respond(store, http, again)
              IN /\ store # Paired
                 /\ second.store = store
                 /\ (second.status = first.status)
                      <=> ~(http.message.parts = Proposal /\ outcome = "refuse")

(* The same message id is the same request exactly when everything that is *)
(* covered agrees: the extensions as a set (and only those the listener    *)
(* reads, up to its cap), but the media type with its parameters.          *)
ASSUME ConflictIsOnCoveredValues ==
    \A http, other \in Requests :
        LET store == Respond(Paired, http, "accept").store
            same == /\ http.body = other.body
                    /\ http.content_type = other.content_type
                    /\ ToSet(Activated(http)) = ToSet(Activated(other))
        IN /\ (Respond(store, other, "accept").status = 409) <=> ~same
           /\ Respond(store, other, "accept").store = store

(* Nothing is recorded for a request that a gate stops, and the order of   *)
(* the gates is the order of the answers.                                  *)
ASSUME GatesComeFirst ==
    \A parts \in {Proposal, Dispatch}, type \in {A2A_MEDIA_TYPE, "json"}, version \in {"1.0", "2.0"},
       digest \in {<<>>, content_digest("b1"), content_digest("b2"),
                   content_digest("b1") \o content_digest("b1"),
                   <<[alg |-> "md5", framed |-> TRUE, value |-> body_digest("b1")]>>,
                   <<[alg |-> "sha-256", framed |-> FALSE, value |-> body_digest("b1")]>>},
       extensions \in {<<>>, <<"e1">>, <<"e2">>, <<"e2", "e3", "e1">>}, method \in {"POST", "GET"},
       parses, certain \in BOOLEAN :
        LET http == [Http(parts, "b1", extensions, "") EXCEPT
                       !.content_type.type = type, !.a2a_version = version,
                       !.content_digest = digest, !.method = method, !.message.parses = parses]
            answer == respond(Paired, Required, http, certain, "accept")
            passes == /\ certain /\ method = "POST" /\ parses
                      /\ type = A2A_MEDIA_TYPE /\ version = "1.0" /\ digest = content_digest("b1")
                      /\ "e1" \in ToSet(Activated(http))
        IN /\ (answer.status = 200) <=> passes
           /\ (answer.store # Paired) <=> passes
           /\ answer.status \in {200, 400, 405, 415, 503}

(* A result is taken only with the result key of the root that was         *)
(* admitted on this connection; a second root behind the same certificate  *)
(* lends it nothing.                                                       *)
ASSUME ResultKeyIsOfThisRoot ==
    \A status \in {"Active", "Removed"}, root \in {"r1", "r2"}, outcome \in {"accept", "refuse"} :
        LET answer == Respond(Rows(status, root), Http(Result, "b1", <<>>, ""), outcome)
        IN /\ (answer.status = 200) <=> (status = "Active" /\ root = "r1" /\ outcome = "accept")
           /\ (answer.status = 403) <=> (status = "Removed")

(* A client without a certificate, or with one nobody paired, gets the     *)
(* public card or a refusal that closes, and makes the daemon read no more *)
(* than an introduction; a peer removed while its body was on the way is   *)
(* refused.  Everybody else is cut at the cap of the route.                *)
ASSUME OnlyTheCardIsPublic ==
    \A method \in {"GET", "POST"}, path \in {"card", "hello", "complete", "message"},
       fp \in {<<>>, <<"f1">>, <<"f2">>}, length \in 0..4, arrives \in 0..4,
       rate_ok, intro \in BOOLEAN, before, after \in {Rows("Active", "r1"), Rows("Removed", "r1")} :
        arrives <= length =>
        LET http == [Http(Proposal, "b1", <<"e1">>, "") EXCEPT
                       !.method = method, !.path = path, !.fp = fp,
                       !.length = length, !.arrives = arrives]
            out == handle(before, after, Required, http, rate_ok, intro, TRUE,
                          [status |-> 200, close |-> FALSE], "accept")
            paired == fp = <<"f1">> /\ before.status["r1"] = "Active"
        IN /\ out.read <= IF is_intro(path) THEN MAX_INTRODUCTION_BODY ELSE MAX_RECEIVE_BODY
           /\ out.read > 0 => (is_intro(path) /\ rate_ok) \/ paired
           /\ out.status = 200 =>
                \/ method = "GET" /\ path = "card" /\ intro
                \/ is_intro(path) /\ intro /\ fp # <<>>
                \/ paired /\ after.status["r1"] = "Active"
           /\ out.status = 403 => out.close
           /\ (paired /\ path = "message" /\ after.status["r1"] = "Removed" /\ length = arrives
                 /\ length <= MAX_RECEIVE_BODY) => out.status = 403

(* A tombstone outlives every retry its sender may still make. *)
ASSUME TombstoneOutlivesRetries ==
    \A retention, retry, expiry \in 0..4 :
        LET life == tombstone_lifetime_secs(retention, retry, expiry)
        IN /\ life >= retry + expiry /\ life >= retention
           /\ life \in {retry + expiry, retention}

-----------------------------------------------------------------------------
LOCAL Uri(rest) == [scheme |-> "https", rest |-> rest]
LOCAL Schemes == [s1 |-> "mtls", s2 |-> "bearer"]

LOCAL Card(requirements, streaming, marked) ==
    [interfaces |-> <<[binding |-> "GRPC", version |-> "1.0", url |-> Uri(<<"p">>)],
                      [binding |-> HTTP_JSON_BINDING, version |-> "1.0", url |-> Uri(<<"p", "/">>)]>>,
     capabilities |-> <<[streaming |-> streaming, push |-> "false", extended |-> "true",
                         extensions |-> SetToSeq({[uri |-> u, required |-> u \in marked] :
                                                    u \in required_extension_uris})]>>,
     schemes |-> Schemes, requirements |-> requirements]

(* A card is accepted only if no client without mTLS can meet any of the   *)
(* alternatives it offers, and some client can; an undefined scheme, an    *)
(* empty alternative or an extension that is listed but not required makes *)
(* no difference for the better.                                           *)
ASSUME CardForcesMutualTls ==
    \A requirements \in SUBSET SUBSET {"s1", "s2", "s3"}, streaming \in {"false", "true", "absent"},
       marked \in {required_extension_uris, required_extension_uris \ {"outcome"}} :
        LET card == Card(requirements, streaming, marked)
            Meets(can) == \E req \in requirements : req \subseteq can
        IN (validate_agent_card(card, required_extension_uris) = {})
             <=> /\ Meets({"s1", "s2", "s3"}) /\ ~Meets({"s2", "s3"})
                 /\ streaming = "false" /\ marked = required_extension_uris

(* A request is judged whole: whatever combination of faults it has, each  *)
(* is reported, and none hides another.                                    *)
ASSUME EachFaultIsReported ==
    LET good == [message_id |-> <<"p">>, context_id |-> <<>>, task_id |-> <<"p", "p">>,
                 references |-> <<<<"p">>>>, role |-> "user", parts |-> <<"text", "data">>,
                 extensions |-> <<Uri(<<"p", "/", "u">>)>>]
        ids == {<<"p">>, <<>>, <<"u">>, <<"p", "p", "p", "p">>}
        uris == {Uri(<<"p">>), Uri(<<"/", "p">>), Uri(<<"p", "s">>), [scheme |-> "http", rest |-> <<"p">>],
                 Uri(<<"p", "p", "p", "p", "p">>)}
    IN /\ validate_message(good) = {}
       /\ \A id, ctx \in ids, role \in {"agent", "none"}, uri \in uris,
             parts \in {<<"text">>, <<"raw", "data">>, <<"url", "raw">>, <<>>, <<"none">>},
             config \in {<<>>} \cup {<<[return_immediately |-> r, push |-> p]>> :
                                        r \in BOOLEAN, p \in {<<>>, <<"x">>}} :
            LET one(field, value) == validate_message([good EXCEPT ![field] = value])
                all == [good EXCEPT !.message_id = id, !.context_id = ctx, !.role = role,
                                    !.parts = parts, !.extensions = <<uri>>]
            IN /\ validate_message(all) =
                    one("message_id", id) \cup one("context_id", ctx) \cup one("role", role)
                    \cup one("parts", parts) \cup one("extensions", <<uri>>)
               /\ (one("context_id", ctx) = {}) <=> (ctx \in {<<>>, <<"p">>})
               /\ (validate_send_message_request([message |-> <<all>>, configuration |-> config]) = {})
                    <=> /\ validate_message(all) = {}
                        /\ config = <<[return_immediately |-> TRUE, push |-> <<>>]>>

(* A negotiation that succeeds echoes the whole required set and nothing   *)
(* this endpoint does not support, and no profile has nothing to require.  *)
ASSUME NegotiationHasNoDowngrade ==
    \A supported, required, activated \in SUBSET {"e1", "e2", "e3"} :
        LET out == negotiate_extensions(supported, required, activated)
        IN /\ (out.violations = {}) <=> (required \subseteq activated /\ activated \subseteq supported)
           /\ ProfileConfig(required) # <<>> /\ out.violations = {} =>
                /\ out.echo # {} /\ required \subseteq out.echo /\ out.echo \subseteq supported
=============================================================================
