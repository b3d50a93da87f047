--------------------------- MODULE ControlChecks ---------------------------
(***************************************************************************)
(* What the control plane promises, over small sets of callers, requests,  *)
(* events, files and texts.                                                *)
(***************************************************************************)
EXTENDS Integers, Sequences, FiniteSets
LOCAL INSTANCE Control
LOCAL INSTANCE SequencesExt
LOCAL INSTANCE FiniteSetsExt

LOCAL Texts(chars, n) == UNION {[1..k -> chars] : k \in 0..n}

(* The narrow surfaces reach disjoint requests, none of which pairs,        *)
(* decides, issues, sends, delivers or mints consent, and no request is    *)
(* beyond the operator (Surface::satisfies, ControlOp::required_surface).  *)
ASSUME NarrowSurfacesStayApart ==
    LET reach(surface) == {req \in ControlRequest : authorize(surface, op[req])}
    IN /\ \A req \in ControlRequest : op[req] \in ControlOp
       /\ reach("Admin") = ControlRequest
       /\ reach("Worker") \cap reach("Coord") = {}
       /\ \A surface \in {"Worker", "Coord"} : \A req \in reach(surface) :
             op[req] \notin AdminOps
       /\ "StageConsent" \notin reach("Coord") /\ "Dispatch" \in reach("Coord")

(* No permitted request ends in a delegate that answers it as unsupported: *)
(* the routing of DaemonState::dispatch and the matches of dispatch_control *)
(* and dispatch_coord name the same requests, and what the coordination    *)
(* surface reaches is answered by dispatch_coord alone.                    *)
ASSUME EveryRequestHasItsHandler ==
    /\ \A req \in ControlRequest :
          /\ route(req) = "dispatch_control" <=> req \in dispatch_control
          /\ route(req) = "dispatch_coord" <=> req \in dispatch_coord
    /\ \A req \in ControlRequest :
          authorize("Coord", op[req]) => route(req) = "dispatch_coord"

LOCAL DaemonUid == 1
LOCAL CoordUid == 2
LOCAL ForeignUid == 3
LOCAL Lengths == {0, 1, MAX_COORD_REQUEST_BYTES - 1, MAX_COORD_REQUEST_BYTES,
                  MAX_COORD_REQUEST_BYTES + 1, MAX_COORD_REQUEST_BYTES + 2, 2^22}
LOCAL Connections ==
    [uid : {DaemonUid, CoordUid, ForeignUid}, credentials : BOOLEAN, bytes : Lengths,
     cut_utf8 : BOOLEAN, request : ControlRequest \cup {"none"}]
LOCAL AdmissionOf(surface) ==
    IF surface = "Coord" THEN coord_admission(DaemonUid, CoordUid) ELSE same_uid(DaemonUid)

(* The gate of handle_connection: nothing is read of a peer that is not    *)
(* admitted, a request is dispatched only for an admitted peer on a        *)
(* surface that may ask for it, the coordination user is held to its own   *)
(* socket, and the daemon never buffers more of it than the ceiling and    *)
(* one byte.                                                               *)
ASSUME OnlyAdmittedAndAuthorized ==
    \A surface \in Surface, conn \in Connections :
       LET admitted == conn.credentials /\ conn.uid \in AdmissionOf(surface)
           outcome == handle_connection(conn, surface, AdmissionOf(surface))
       IN /\ outcome.read > 0 => admitted
          /\ outcome.dispatched =>
                admitted /\ conn.request # "none" /\ authorize(surface, op[conn.request])
          /\ conn.uid = CoordUid /\ outcome.dispatched =>
                surface = "Coord" /\ op[conn.request] \in CoordOps
          /\ conn.uid = ForeignUid => ~outcome.dispatched
          /\ surface = "Coord" => outcome.read <= MAX_COORD_REQUEST_BYTES + 1

(* A whole line at the ceiling is served and one byte more is refused as   *)
(* too large, the largest payload that may be staged fits in base64 with   *)
(* room for its envelope, and a peer is left without an answer only where  *)
(* the read of an over-long line was cut inside a character.               *)
ASSUME CeilingIsExact ==
    /\ \A conn \in Connections :
          LET outcome == handle_connection(conn, "Coord", AdmissionOf("Coord"))
          IN /\ outcome.dispatched => conn.bytes <= MAX_COORD_REQUEST_BYTES
             /\ outcome.status = 413 => conn.bytes > MAX_COORD_REQUEST_BYTES
             /\ outcome.status = NoAnswer <=>
                   /\ conn.credentials /\ conn.uid \in AdmissionOf("Coord")
                   /\ conn.bytes > MAX_COORD_REQUEST_BYTES + 1
                   /\ ~conn.cut_utf8
             /\ /\ conn.credentials /\ conn.uid = CoordUid
                /\ conn.bytes = MAX_COORD_REQUEST_BYTES
                /\ conn.request = "Stage"
                => outcome.dispatched
    /\ 4 * ((MAX_STAGED_PAYLOAD_BYTES + 2) \div 3) + 2^16 < MAX_COORD_REQUEST_BYTES

LOCAL Events == {"connect", "return", "panic", "inline_return", "inline_panic"}
LOCAL Loop(events, max) == FoldLeft(LAMBDA loop, event : serve(loop, event, max), Listening, events)
LOCAL Count(events, event) == Cardinality({i \in DOMAIN events : events[i] = event})

(* The accept loop with room for two: at most that many threads, a         *)
(* connection is served on the accept thread only at the ceiling, and as   *)
(* long as no connection panics the counter is the number of threads.      *)
(* Every thread that panics costs one of the places for good, so after as  *)
(* many panics the socket serves one connection at a time; and a panic on  *)
(* the accept thread, possible only at the ceiling, ends the loop.         *)
ASSUME PanicsCostPlaces ==
    /\ \A n \in 0..2 :
          LET panics == [i \in 1..(2 * n) |-> IF i % 2 = 1 THEN "connect" ELSE "panic"]
          IN Loop(panics \o <<"connect">>, 2).inline <=> n = 2
    /\ \A events \in Texts(Events, 6) :
       LET loop == Loop(events, 2)
       IN /\ loop.threads <= loop.in_flight /\ loop.in_flight <= 2
          /\ Count(events, "panic") = 0 => loop.threads = loop.in_flight
          /\ loop.in_flight = 2 /\ loop.threads = 0 => Count(events, "panic") >= 2
          /\ loop.inline /\ Count(events, "panic") = 0 => Count(events, "connect") >= 3
          /\ ~loop.accepting => Count(events, "inline_panic") >= 1

LOCAL Env == [bootstraps : BOOLEAN, coord_uid : {"unset", "blank", "not-utf8", "not-a-uid", "2"},
              receive_addr : {"free", "squatted", "off"}]
LOCAL SocketFiles == {"admin.sock", "worker.sock", "coord.sock"}

(* Starting is all or nothing: a daemon that serves serves both of its own *)
(* surfaces, the coordination surface exactly when a uid was given and the *)
(* listener exactly when it was not turned off; a coordination uid that    *)
(* does not parse stops the start before any socket is bound (run).  A     *)
(* coordination socket left by an earlier start is not removed by one that *)
(* has no coordination surface.                                            *)
ASSUME StartsWholeOrNotAtAll ==
    \A env \in Env, files \in SUBSET SocketFiles :
       LET started == run(files, env)
       IN /\ started.serving # {} =>
                /\ {"Admin", "Worker"} \subseteq started.serving
                /\ "Coord" \in started.serving <=> env.coord_uid = "2"
                /\ "A2A" \in started.serving <=> env.receive_addr # "off"
          /\ env.coord_uid \in {"not-utf8", "not-a-uid"} =>
                started.serving = {} /\ started.files = files
          /\ "Coord" \in started.serving => "coord.sock" \in started.files
          /\ "coord.sock" \in started.files /\ "Coord" \notin started.serving =>
                "coord.sock" \in files \/ env.receive_addr = "squatted"

(* By the modes a start sets, only the daemon's own user reaches any of    *)
(* the sockets: the 0660 of the coordination socket admits a group that    *)
(* the 0700 of its directory, set again at every start, keeps out.         *)
ASSUME OnlyTheOwnerReachesTheSockets ==
    /\ \A file \in SocketFiles : reaches("owner", file) /\ ~reaches("other", file)
    /\ "group" \in SocketMode("coord.sock") /\ ~reaches("group", "coord.sock")

LOCAL CrashLens == {0, 1, SECRET_LEN - 1, SECRET_LEN}

(* A secret, once a start has handed it out, is the secret of every later  *)
(* start; a start that died while writing it leaves a file that every      *)
(* later start refuses, and none replaces (load_or_init_secret).  The      *)
(* certificate of a start that died is taken as it was left.               *)
ASSUME SecretsAreStable ==
    \A c1 \in CrashLens, c2 \in CrashLens :
       LET first == load_or_init_secret(NoFile, 7, c1)
           second == load_or_init_secret(first.file, 8, c2)
           cert == load_or_init_endpoint_cert(NoFile, 7, c1)
           again == load_or_init_endpoint_cert(cert.file, 8, c2)
       IN /\ first.secret.ok => second.secret = first.secret
          /\ ~first.secret.ok => ~second.secret.ok
          /\ second.file = first.file
          /\ again.file = cert.file
          /\ again.fingerprint = cert.fingerprint <=> c1 = SECRET_LEN

(* The label grammar refuses what could be read as two words or as an      *)
(* option, and everything a hint needs besides letters and digits          *)
(* (valid_label): no valid label is a valid hint.                          *)
ASSUME LabelsAreWords ==
    \A text \in Texts({"a", "1", "-", ":", "."}, 4) :
       /\ valid_label(text) => ~valid_hint(text)
       /\ valid_label(text) =>
             /\ text # <<>> /\ text[1] # "-"
             /\ valid_label(text \o <<"-">> \o text) /\ ~valid_label(text \o <<"-", "-">> \o text)

LOCAL Port == <<"6", "1">>

(* What host_port_of presents with a token can be added by a peer exactly  *)
(* where the host has no bracket: an endpoint whose interface is an IPv6   *)
(* literal, as the one derived from a wildcard IPv6 bind address is,       *)
(* presents a hint that valid_hint refuses, while the same literal without *)
(* its brackets would be taken.                                            *)
ASSUME PresentedHints ==
    /\ \A host \in Texts({"h", "1", ".", ":", "[", "]"}, 4) : host # <<>> =>
          LET hint == host_port_of(host \o <<":">> \o Port \o <<"/", "a">>)
          IN /\ hint = host \o <<":">> \o Port
             /\ valid_hint(hint) <=> \A i \in DOMAIN host : host[i] \notin {"[", "]"}
    /\ \A text \in Texts({"h", "1", ":", "/"}, 5) :
          LET hint == host_port_of(text)
          IN \A i \in DOMAIN hint : hint[i] # "/"
    /\ valid_hint(host_port_of(interface_of(<<"0", ".", "0", ".", "0", ".", "0", ":">> \o Port)))
    /\ ~valid_hint(host_port_of(interface_of(<<"[", ":", ":", "]", ":">> \o Port)))
    /\ valid_hint(<<":", ":", "1", ":">> \o Port)

(* The port of a hint is a number from 1 to 65535, with a plus sign or     *)
(* leading zeros if it has them (valid_hint).                              *)
ASSUME PortsAreInRange ==
    LET hint(port) == <<"h", ":">> \o port
        digits == {"0", "1", "6", "7"}
    IN /\ \A port \in Texts(digits, 5) : port # <<>> =>
             (valid_hint(hint(port)) <=> PortNumber(port) \in 1..65535)
       /\ valid_hint(hint(<<"+", "1">>)) /\ ~valid_hint(hint(<<"+">>)) /\ ~valid_hint(hint(<<>>))
       /\ ~valid_hint(hint(<<"0">>)) /\ ~valid_hint(hint(<<"6", "6", "0", "0", "0">>))
       /\ valid_hint(hint(<<"0", "0", "0", "0", "0", "6", "1">>))
=============================================================================
