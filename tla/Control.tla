------------------------------ MODULE Control ------------------------------
(***************************************************************************)
(* The local control plane of the daemon (aksond: control, socket,         *)
(* control_dispatch, bootstrap, main): the three surfaces and what each    *)
(* may ask for, the gate one connection passes, the accept loop, what a    *)
(* start binds and what it keeps on disk, and the operator's addressing.   *)
(*                                                                         *)
(* A request is its variant's name: the gate looks at nothing else.  Texts *)
(* are sequences of one-character strings.                                 *)
(***************************************************************************)
EXTENDS Integers, Sequences, FiniteSets
LOCAL INSTANCE SequencesExt
LOCAL INSTANCE FiniteSetsExt

Done(value) == [ok |-> TRUE, value |-> value]
Problem(status) == [ok |-> FALSE, status |-> status]

-----------------------------------------------------------------------------
(* Surfaces and authority. *)

Surface == {"Admin", "Worker", "Coord"}

satisfies(surface, required) == surface = "Admin" \/ surface = required

WorkerOps == {"SubmitTaskInput", "ReportProgress", "SubmitResult", "ReferenceEvidence",
              "RequestProcessorCall"}
CoordOps == {"CoordWhoAmI", "CoordPeerShow", "CoordStage", "CoordStageShow", "CoordDispatch",
             "CoordTaskStatus", "CoordEventsRead", "CoordCapabilityEvidence"}
AdminOps == {"Pair", "Policy", "ApproveContract", "IssueWorkOrder", "SignOutcome",
             "DeliverResult", "SendTask", "Export", "Recovery", "Processor", "TaskInspect",
             "TaskCancel", "RunWorker", "FulfillTask", "Inspect", "Diagnose", "StageConsent"}
ControlOp == WorkerOps \cup CoordOps \cup AdminOps

required_surface(operation) ==
    IF operation \in WorkerOps THEN "Worker" ELSE IF operation \in CoordOps THEN "Coord"
    ELSE "Admin"

authorize(surface, operation) == satisfies(surface, required_surface(operation))

(* The authorization unit of each request. *)
op ==
    [Diagnose |-> "Diagnose", WhoAmI |-> "Diagnose", Token |-> "Diagnose",
     TaskInbox |-> "TaskInspect", TaskShow |-> "TaskInspect", TaskSent |-> "TaskInspect",
     TaskOutcomes |-> "TaskInspect", TaskOutput |-> "TaskInspect",
     PeerList |-> "Inspect", PeerKnocks |-> "Inspect",
     PeerAdd |-> "Pair", PeerLabel |-> "Pair", PeerImportRemove |-> "Pair", PeerPing |-> "Pair",
     PeerAutoApprove |-> "Policy", TaskApprove |-> "ApproveContract",
     TaskDeny |-> "ApproveContract", TaskRun |-> "RunWorker", TaskFulfill |-> "FulfillTask",
     TaskDeliver |-> "DeliverResult", TaskSend |-> "SendTask", SubmitResult |-> "SubmitResult",
     RequestProcessorCall |-> "RequestProcessorCall", ProcessorAdd |-> "Processor",
     ProcessorList |-> "Processor", ProcessorCredential |-> "Processor",
     IssueWorkOrder |-> "IssueWorkOrder", StageConsent |-> "StageConsent",
     CoordWhoAmI |-> "CoordWhoAmI", PeerShow |-> "CoordPeerShow", Stage |-> "CoordStage",
     StageShow |-> "CoordStageShow", Dispatch |-> "CoordDispatch",
     TaskStatus |-> "CoordTaskStatus", EventsRead |-> "CoordEventsRead",
     CapabilityEvidence |-> "CoordCapabilityEvidence"]

ControlRequest == DOMAIN op

(* Who answers a permitted request, and what each of the two delegates     *)
(* answers for itself.                                                     *)
route(req) ==
    IF req \in {"TaskInbox", "TaskShow"} THEN "dispatch_control"
    ELSE IF req \in {"CoordWhoAmI", "PeerShow", "Stage", "StageShow", "Dispatch", "TaskStatus",
                     "EventsRead", "CapabilityEvidence", "StageConsent"} THEN "dispatch_coord"
    ELSE "dispatch"

dispatch_control == {"TaskInbox", "TaskShow"}
dispatch_coord == {"CoordWhoAmI", "PeerShow", "Stage", "StageShow", "StageConsent", "EventsRead",
                   "Dispatch", "TaskStatus", "CapabilityEvidence"}

-----------------------------------------------------------------------------
(* One connection. *)

same_uid(daemon_uid) == {daemon_uid}
coord_admission(daemon_uid, coord_uid) == {coord_uid, daemon_uid}

MAX_COORD_REQUEST_BYTES == 2^20
MAX_STAGED_PAYLOAD_BYTES == 512 * 1024
Unlimited == -1
request_ceiling(surface) == IF surface = "Coord" THEN MAX_COORD_REQUEST_BYTES ELSE Unlimited

(* A line of `bytes` bytes up to and with its newline.  Only what the       *)
(* ceiling lets through, and one byte more, is ever read; `cut_utf8` says  *)
(* whether a line cut there still is UTF-8, `request` is its variant or    *)
(* "none" for a line that is no request.                                   *)
ReadBytes(surface, bytes) ==
    IF request_ceiling(surface) = Unlimited THEN bytes
    ELSE Min({bytes, request_ceiling(surface) + 1})

NoAnswer == 0
handle_connection(conn, surface, admission) ==
    LET outcome(status, read, dispatched) ==
            [status |-> status, read |-> read, dispatched |-> dispatched]
        read == ReadBytes(surface, conn.bytes)
        cut == read < conn.bytes
    IN IF ~(conn.credentials /\ conn.uid \in admission) THEN outcome(403, 0, FALSE)
       ELSE IF cut /\ ~conn.cut_utf8 THEN outcome(NoAnswer, read, FALSE)
       ELSE IF request_ceiling(surface) # Unlimited /\ read > request_ceiling(surface)
       THEN outcome(413, read, FALSE)
       ELSE IF conn.request = "none" THEN outcome(400, read, FALSE)
       ELSE IF ~authorize(surface, op[conn.request]) THEN outcome(403, read, FALSE)
       ELSE outcome(200, read, TRUE)

-----------------------------------------------------------------------------
(* The accept loop: `threads` serve, `in_flight` is the counter they       *)
(* release when their connection returns, `inline` is the connection the   *)
(* accept thread serves itself.  A connection that panics never gets to    *)
(* the release; on the accept thread it unwinds the loop.                  *)

MAX_CONCURRENT_CONNECTIONS == 16

Listening == [threads |-> 0, in_flight |-> 0, inline |-> FALSE, accepting |-> TRUE]

serve(loop, event, max) ==
    IF event = "connect" THEN
        IF ~loop.accepting \/ loop.inline THEN loop
        ELSE IF loop.in_flight >= max THEN [loop EXCEPT !.inline = TRUE]
        ELSE [loop EXCEPT !.threads = @ + 1, !.in_flight = @ + 1]
    ELSE IF event \in {"return", "panic"} /\ loop.threads > 0 THEN
        [loop EXCEPT !.threads = @ - 1, !.in_flight = IF event = "return" THEN @ - 1 ELSE @]
    ELSE IF event = "inline_return" /\ loop.inline THEN [loop EXCEPT !.inline = FALSE]
    ELSE IF event = "inline_panic" /\ loop.inline
    THEN [loop EXCEPT !.inline = FALSE, !.accepting = FALSE]
    ELSE loop

-----------------------------------------------------------------------------
(* Starting.  AKSON_COORD_UID: unset and blank mean no coordination        *)
(* surface, anything but a uid is fatal.                                   *)

parse_coord_uid(value) ==
    IF value \in {"unset", "blank"} THEN Done({})
    ELSE IF value \in {"not-utf8", "not-a-uid"} THEN Problem(0)
    ELSE Done({value})

(* The files of the runtime directory a start leaves; the first step that  *)
(* fails ends it.  A start removes only the stale sockets it binds anew.   *)
bind_coord_socket(files, coord_uid) ==
    IF coord_uid = {} THEN files ELSE files \cup {"coord.sock"}

run(files, env) ==
    LET coord == parse_coord_uid(env.coord_uid)
        bound == bind_coord_socket(files \cup {"admin.sock", "worker.sock"}, coord.value)
    IN IF ~env.bootstraps \/ ~coord.ok THEN [serving |-> {}, files |-> files]
       ELSE IF env.receive_addr = "squatted" THEN [serving |-> {}, files |-> bound]
       ELSE [serving |-> {"Admin", "Worker"} \cup (IF coord.value = {} THEN {} ELSE {"Coord"})
                         \cup (IF env.receive_addr = "off" THEN {} ELSE {"A2A"}),
             files |-> bound]

(* Who may connect, by the modes the start sets: the directory is 0700,    *)
(* whatever was granted on it before, the coordination socket 0660.        *)
DirMode == {"owner"}
SocketMode(file) == IF file = "coord.sock" THEN {"owner", "group"} ELSE {"owner"}
reaches(class, file) == class \in DirMode \cap SocketMode(file)

-----------------------------------------------------------------------------
(* The secrets a start loads or creates: the first `n` of a file's 32      *)
(* bytes are on disk when the start dies; Len 0 is a file just created.    *)

SECRET_LEN == 32
NoFile == [exists |-> FALSE, secret |-> 0, len |-> 0]

load_or_init_secret(file, fresh, crash_len) ==
    IF file.exists
    THEN [file |-> file, secret |-> IF file.len = SECRET_LEN THEN Done(file.secret) ELSE Problem(0)]
    ELSE [file |-> [exists |-> TRUE, secret |-> fresh, len |-> crash_len],
          secret |-> IF crash_len = SECRET_LEN THEN Done(fresh) ELSE Problem(0)]

(* The endpoint certificate: an existing file is taken as it is, whole or   *)
(* cut short by a crash; its fingerprint covers the bytes that are there.  *)
load_or_init_endpoint_cert(file, fresh, crash_len) ==
    IF file.exists THEN [file |-> file, fingerprint |-> <<file.secret, file.len>>]
    ELSE [file |-> [exists |-> TRUE, secret |-> fresh, len |-> crash_len],
          fingerprint |-> <<fresh, SECRET_LEN>>]

-----------------------------------------------------------------------------
(* Addressing. *)

Lower == {"a", "h", "z"}
Digit == {"0", "1", "2", "6", "7"}

valid_label(label) ==
    /\ Len(label) \in 1..64
    /\ \A i \in DOMAIN label : label[i] \in Lower \cup Digit \cup {"-"}
    /\ label[1] # "-" /\ Last(label) # "-"
    /\ \A i \in 1..(Len(label) - 1) : ~(label[i] = "-" /\ label[i + 1] = "-")

LastColon(text) == Max({0} \cup {i \in DOMAIN text : text[i] = ":"})

(* Decimal digits, after a plus sign if there is one: a u16 that is not 0. *)
DigitValue ==
    [d \in Digit |-> CASE d = "0" -> 0 [] d = "1" -> 1 [] d = "2" -> 2 [] d = "6" -> 6 [] d = "7" -> 7]
PortNumber(text) == FoldLeft(LAMBDA n, d : Min({65536, 10 * n + DigitValue[d]}), 0, text)
IsPort(text) ==
    LET digits == IF text # <<>> /\ text[1] = "+" THEN Tail(text) ELSE text
    IN /\ digits # <<>>
       /\ \A i \in DOMAIN digits : digits[i] \in Digit
       /\ PortNumber(digits) \in 1..65535

valid_hint(hint) ==
    LET colon == LastColon(hint)
        host == SubSeq(hint, 1, colon - 1)
    IN /\ colon > 1
       /\ Len(host) <= 253
       /\ \A i \in DOMAIN host : host[i] \in Lower \cup Digit \cup {".", "-", ":"}
       /\ IsPort(SubSeq(hint, colon + 1, Len(hint)))

(* The hint a token is presented with: what stands between the scheme and  *)
(* the first slash, where it has a colon; <<>> is no hint.                 *)
host_port_of(after_scheme) ==
    LET slash == Min({Len(after_scheme) + 1} \cup {i \in DOMAIN after_scheme : after_scheme[i] = "/"})
        hp == SubSeq(after_scheme, 1, slash - 1)
    IN IF \E i \in DOMAIN hp : hp[i] = ":" THEN hp ELSE <<>>

(* The advertised interface when none is configured: the bind address with *)
(* the wildcards replaced by the loopback of their family.                 *)
interface_of(receive_addr) ==
    LET v4 == ReplaceFirstSubSeq(<<"1", "2", "7", ".", "0", ".", "0", ".", "1">>,
                                 <<"0", ".", "0", ".", "0", ".", "0">>, receive_addr)
    IN ReplaceFirstSubSeq(<<"[", ":", ":", "1", "]">>, <<"[", ":", ":", "]">>, v4) \o <<"/", "a">>
=============================================================================
