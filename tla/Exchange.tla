------------------------------ MODULE Exchange ------------------------------
(***************************************************************************)
(* A Task between two paired daemons (aksond): the requester assembles,    *)
(* signs and sends a proposal, the performer validates it and keeps it as  *)
(* an open head, approves it, completes it and delivers the result, and    *)
(* the requester checks the result against what it sent and records a      *)
(* signed outcome.                                                         *)
(*                                                                         *)
(*   requester                              performer                      *)
(*   run_send    ---- proposal --------->   dispatch_proposal              *)
(*   record      <--- task id -----------   approve, submit_result         *)
(*   finalize    <--- result ------------   run_delivery                   *)
(*               ---- ack -------------->                                  *)
(*                                                                         *)
(* The network loses requests and answers, a dialer may give up on a       *)
(* request that still arrives, another client of the requester may repeat  *)
(* a proposal, both daemons crash between any two commits, and the         *)
(* performer's wall clock may step back.  Approval and Execution model how *)
(* a decision and a result come about; here they are one step each.        *)
(***************************************************************************)
EXTENDS Contract

CONSTANTS
    Requester, Performer,   \* the two endpoints: identity, root and keys
    Specs,      \* the TaskSpecs `task send` is called with, by send
    Foreign,    \* proposals of another client of the requester, by name
    Conns,      \* connections under way at once
    Submissions,\* what a worker may submit: sets of output ids with bytes
    None,       \* no row, nothing recorded
    MaxTime,    \* bound on the performer's clock
    Tolerance,  \* CLOCK_TOLERANCE_SECS
    Leeway,     \* NOT_YET_VALID_LEEWAY_SECS
    MaxFaults   \* bound on what goes wrong

ASSUME ExchangeAssumption ==
    /\ Requester # Performer
    /\ MaxTime \in Nat /\ Tolerance \in Nat /\ Leeway \in Nat /\ MaxFaults \in Nat
    /\ \A sub \in Submissions :
          IsFiniteSet(sub) /\ \A o, r \in sub : o.artifact_id = r.artifact_id => o = r

Later(a, b) == IF a > b THEN a ELSE b

-----------------------------------------------------------------------------
(* What `task send` puts on the wire: contract, message and context ids are *)
(* fresh for every call (the send's name, and the context of its spec), the *)
(* envelope is Part 0 and input i is Part i.                               *)

Assemble(s) ==
    [contract_id |-> s, revision |-> 0, predecessor_digest |-> NoDigest,
     requester |-> Requester, performer |-> Performer,
     inputs |-> [i \in DOMAIN Specs[s].inputs |->
                   LET input == Specs[s].inputs[i]
                   IN  InputEntry(input.id, s, i, "text", input.media_type, "utf8-exact",
                                  input.text, TRUE)],
     created_at |-> Specs[s].created_at, expires_at |-> Specs[s].deadline]

prepare_send(s) ==
    [message_id |-> s, context_id |-> Specs[s].context,
     parts |-> <<[media_type |-> DSSE_ENVELOPE_MEDIA_TYPE, kind |-> "data",
                  value |-> sign_proposal([canonical |-> TRUE, contract |-> Assemble(s)],
                                          Requester)]>>
               \o [i \in DOMAIN Specs[s].inputs |->
                     [media_type |-> Specs[s].inputs[i].media_type, kind |-> "text",
                      value |-> Specs[s].inputs[i].text]]]

Mail == DOMAIN Specs \cup DOMAIN Foreign
Message == [m \in Mail |-> IF m \in DOMAIN Specs THEN prepare_send(m) ELSE Foreign[m]]
MessageIds == {Message[m].message_id : m \in Mail}

(* The contract a message carries; its Task id is derived from its digest. *)
ContractOf == [m \in Mail |-> Envelope(Message[m].parts).payload.contract]
TaskOf == [m \in Mail |-> ContractOf[m].contract_id]
Tasks == {TaskOf[m] : m \in Mail}
Stored == [t \in Tasks |-> ContractOf[CHOOSE m \in Mail : TaskOf[m] = t]]

(* A Task id is a digest of the contract: one Task, one contract. *)
ASSUME ContractAssumption ==
    \A m \in Mail :
        /\ ContractOf[m].expires_at \in Int
        /\ DOMAIN ContractOf[m].inputs \subseteq Nat
        /\ \A n \in Mail : TaskOf[m] = TaskOf[n] => ContractOf[m] = ContractOf[n]

-----------------------------------------------------------------------------
VARIABLES
    wall, floor,    \* the performer's wall clock and its TRUSTED_TIME
    requests,       \* request records by message id: which message, which class
    heads, contexts, inputs,     \* contract_heads with the context, task_inputs
    orders,         \* the Tasks with an issued work order
    results, outputs,            \* the signed manifest, task_outputs
    requester_active,            \* the performer's pin of the requester
    lock,           \* what the performer's handler has left to do
    sent_requests, outcomes, held,   \* the requester's rows and task_outputs
    performer_active,            \* the requester's pin of the performer
    conns,          \* the connections
    used,           \* the sends made
    latest,         \* history: the latest time the performer acted on
    faults

clock == <<wall, floor, latest>>
tasks == <<requests, heads, contexts, inputs, orders>>
work == <<results, outputs>>
asked == <<sent_requests, outcomes, held>>
pins == <<requester_active, performer_active>>
vars == <<clock, tasks, work, asked, pins, lock, conns, used, faults>>

Free == [at |-> "free"]
Idle == [kind |-> "idle"]

Init ==
    /\ wall = 0 /\ floor = 0 /\ latest = 0   \* the first start adopts its clock
    /\ requests = [id \in MessageIds |-> None]
    /\ heads = [t \in Tasks |-> Empty]
    /\ contexts = [t \in Tasks |-> None]
    /\ inputs = [t \in Tasks |-> {}]
    /\ orders = {}
    /\ results = [t \in Tasks |-> None]
    /\ outputs = [t \in Tasks |-> {}]
    /\ sent_requests = [t \in Tasks |-> None]
    /\ outcomes = [t \in Tasks |-> None]
    /\ held = [t \in Tasks |-> {}]
    /\ requester_active = TRUE /\ performer_active = TRUE
    /\ lock = Free
    /\ conns = [k \in Conns |-> Idle]
    /\ used = {}
    /\ faults = 0

-----------------------------------------------------------------------------
(* The connections.  `up` says whether the dialer still waits. *)

Post(k, kind, body) ==
    /\ conns[k] = Idle
    /\ conns' = [conns EXCEPT ![k] = [kind |-> kind, body |-> body, at |-> "posted",
                                      up |-> TRUE, reply |-> None]]

Answered(conn, reply) ==
    IF conn.up THEN [conn EXCEPT !.at = "answered", !.reply = reply] ELSE Idle
Reply(status, task) == [status |-> status, task |-> task]

ToPerformer == {"send", "resend"}
At(k, kinds, at) == conns[k].kind \in kinds /\ conns[k].at = at

-----------------------------------------------------------------------------
(* The requester sends.  The proposal is assembled in the lock, posted      *)
(* without it, and the request recorded when the answer is back.           *)

run_send(k, s) ==
    /\ performer_active
    /\ s \in DOMAIN Specs \ used
    /\ Post(k, "send", s)
    /\ used' = used \cup {s}
    /\ UNCHANGED <<clock, tasks, work, asked, pins, lock, faults>>

(* Only a 200 that names a task is recorded; the row stays if it is there. *)
put_sent_request(t, row) ==
    sent_requests' = [sent_requests EXCEPT ![t] = IF @ = None THEN row ELSE @]

SendReturns(k) ==
    /\ At(k, {"send"}, "answered")
    /\ LET conn == conns[k]
       IN  IF conn.reply.status = 200 /\ conn.reply.task # None
           THEN put_sent_request(TaskOf[conn.body],
                    [task_id |-> conn.reply.task, context_id |-> Message[conn.body].context_id,
                     contract_id |-> TaskOf[conn.body], performer |-> Performer])
           ELSE UNCHANGED sent_requests
    /\ conns' = [conns EXCEPT ![k] = Idle]
    /\ UNCHANGED <<clock, tasks, work, outcomes, held, pins, lock, used, faults>>

(* Another client of the requester: a retry of a proposal on the wire, or   *)
(* a proposal of its own.  It reads its answer and keeps nothing here.     *)
Resend(k, m) ==
    /\ m \in used \cup DOMAIN Foreign
    /\ Post(k, "resend", m)
    /\ UNCHANGED <<clock, tasks, work, asked, pins, lock, used, faults>>

ResendReturns(k) ==
    /\ At(k, {"resend"}, "answered")
    /\ conns' = [conns EXCEPT ![k] = Idle]
    /\ UNCHANGED <<clock, tasks, work, asked, pins, lock, used, faults>>

-----------------------------------------------------------------------------
(* Trusted time: a clock behind the floor by more than the tolerance stops  *)
(* everything that needs it; otherwise the floor follows and is the time.  *)

Certain == wall >= floor - Tolerance
TrustedNow_Wall == wall
TrustedNow == Later(wall, floor)

observe_time ==
    /\ Certain
    /\ floor' = TrustedNow
    /\ latest' = Later(latest, wall)
    /\ UNCHANGED wall

-----------------------------------------------------------------------------
(* The performer receives a proposal: one lock, one commit per store call.  *)

Answer(k, reply) ==
    /\ conns' = [conns EXCEPT ![k] = Answered(@, reply)]
    /\ lock' = Free

(* The idempotency record of the message id, and whether it is of the same  *)
(* covered values (body digest included).                                  *)
peek(m) ==
    LET row == requests[Message[m].message_id]
    IN  IF row = None THEN "Fresh"
        ELSE IF row.message = m THEN "Duplicate" ELSE "Conflict"

(* An exact replay gets the recorded answer under status 200, whatever its  *)
(* class.                                                                  *)
replay(m) ==
    LET row == requests[Message[m].message_id]
    IN  Reply(200, IF row.class = "task" THEN TaskOf[m] ELSE None)

Valid(m) ==
    receive_proposal(Message[m].message_id, Message[m].parts, Requester, Requester, Performer,
                     TrustedNow, Leeway)

(* An unpinned certificate is refused before anything is read or changed. *)
RefuseUnknown(k) ==
    /\ lock = Free
    /\ At(k, ToPerformer, "posted")
    /\ ~requester_active
    /\ Answer(k, Reply(403, None))
    /\ UNCHANGED <<clock, tasks, work, asked, pins, used, faults>>

TimeUncertain(k) ==
    /\ lock = Free
    /\ At(k, ToPerformer, "posted")
    /\ requester_active
    /\ ~Certain
    /\ Answer(k, Reply(503, None))
    /\ UNCHANGED <<clock, tasks, work, asked, pins, used, faults>>

dispatch_proposal(k) ==
    LET m == conns[k].body
    IN
    /\ lock = Free
    /\ At(k, ToPerformer, "posted")
    /\ requester_active
    /\ observe_time
    /\ \/ peek(m) = "Duplicate" /\ Answer(k, replay(m))
       \/ peek(m) = "Conflict" /\ Answer(k, Reply(409, None))
       \/ /\ peek(m) = "Fresh"
          /\ lock' = [at |-> IF Valid(m) THEN "submit" ELSE "reject", conn |-> k, message |-> m]
          /\ UNCHANGED conns
    /\ UNCHANGED <<tasks, work, asked, pins, used, faults>>

Handling(at) == lock.at = at
Goes(at) == lock' = [lock EXCEPT !.at = at]

(* The verdict is not looked at: a stale revision leaves the head and the   *)
(* handler goes on.                                                        *)
submit_revision_StaleIsDone ==
    LET t == TaskOf[lock.message]
    IN
    /\ Handling("submit")
    /\ heads' = [heads EXCEPT ![t] = apply_revision(@, ContractOf[lock.message], t)]
    /\ Goes(IF Advances(heads[t], ContractOf[lock.message]) THEN "context" ELSE "commit")
    /\ UNCHANGED <<clock, requests, contexts, inputs, orders, work, asked, pins, conns, used, faults>>

submit_revision ==
    LET t == TaskOf[lock.message]
    IN
    /\ Handling("submit")
    /\ heads' = [heads EXCEPT ![t] = apply_revision(@, ContractOf[lock.message], t)]
    /\ Goes("context")
    /\ UNCHANGED <<clock, requests, contexts, inputs, orders, work, asked, pins, conns, used, faults>>

(* An UPDATE of the head row: without a head there is nothing to update. *)
set_task_context ==
    LET t == TaskOf[lock.message]
    IN
    /\ Handling("context")
    /\ contexts' = [contexts EXCEPT ![t] =
                      IF heads[t] = Empty THEN @ ELSE Message[lock.message].context_id]
    /\ Goes("inputs")
    /\ UNCHANGED <<clock, requests, heads, inputs, orders, work, asked, pins, conns, used, faults>>

(* The rows the worker-visible entries of a message make, first id wins. *)
InputRow(m, entry) ==
    LET part == CHOOSE p \in Inputs(Message[m].message_id, Message[m].parts) :
                    Coords(p) = Coords(entry)
    IN  [id |-> entry.id, sha256 |-> entry.sha256, payload |-> CanonicalBytes(part)]
Visible(m) == {i \in DOMAIN ContractOf[m].inputs : ContractOf[m].inputs[i].worker_visible}
Missing(m) ==
    {i \in Visible(m) :
        ~\E row \in inputs[TaskOf[m]] : row.id = ContractOf[m].inputs[i].id}

(* One commit per input, in order; a row already there stays. *)
persist_worker_inputs ==
    LET m == lock.message
        next == CHOOSE i \in Missing(m) : \A j \in Missing(m) : i <= j
    IN
    /\ Handling("inputs")
    /\ IF Missing(m) = {}
       THEN Goes("commit") /\ UNCHANGED inputs
       ELSE /\ inputs' = [inputs EXCEPT ![TaskOf[m]] =
                            @ \cup {InputRow(m, ContractOf[m].inputs[next])}]
            /\ UNCHANGED lock
    /\ UNCHANGED <<clock, requests, heads, contexts, orders, work, asked, pins, conns, used, faults>>

(* The response is durable before it is sent. *)
Commit(class, reply) ==
    LET m == lock.message
    IN
    /\ requests' = [requests EXCEPT ![Message[m].message_id] = [message |-> m, class |-> class]]
    /\ Answer(lock.conn, reply)
    /\ UNCHANGED <<clock, heads, contexts, inputs, orders, work, asked, pins, used, faults>>

receive_request ==
    /\ Handling("commit")
    /\ Commit("task", Reply(200, TaskOf[lock.message]))

reject ==
    /\ Handling("reject")
    /\ Commit("rejected", Reply(422, None))

-----------------------------------------------------------------------------
(* The performer approves and completes.  The decision locks the open head  *)
(* of a requester that is still paired, whatever the time; the work order  *)
(* is issued after it, if the contract is valid at trusted time.  `grants` *)
(* is FALSE where issuing fails for another reason: a capability that may  *)
(* not be granted, the task's own deadline, the store.  A locked head is   *)
(* not decided again.                                                      *)

accept_contract(t) ==
    /\ heads[t].state = "Open"
    /\ heads' = [heads EXCEPT ![t] = accept_head(@, t)]

issue_for_accepted(t, grants) ==
    LET issued == grants /\ validity(Stored[t], TrustedNow, Leeway) = "Valid"
    IN  orders' = orders \cup (IF issued THEN {t} ELSE {})

approve_and_issue(t, grants) ==
    /\ lock = Free
    /\ requester_active
    /\ observe_time
    /\ accept_contract(t)
    /\ issue_for_accepted(t, grants)
    /\ UNCHANGED <<requests, contexts, inputs, work, asked, pins, lock, conns, used, faults>>

(* Staging keeps the bytes already there under an output id. *)
Staged(t, sub) ==
    outputs[t] \cup {o \in sub : ~\E old \in outputs[t] : old.artifact_id = o.artifact_id}

Entry(o) == [artifact_id |-> o.artifact_id, byte_length |-> Len(o.bytes), sha256 |-> sha256(o.bytes)]

(* The manifest names what was submitted, in the one canonical order.  An  *)
(* unset context is the empty one.                                         *)
Manifest(t, sub) ==
    [task_id |-> t, contract_digest |-> t, contract_id |-> t, context_id |-> contexts[t],
     outputs |-> {Entry(o) : o \in sub}]

submit_result(t, sub) ==
    /\ lock = Free
    /\ heads[t].state = "Locked"
    /\ t \in orders
    /\ results[t] = None
    /\ observe_time
    /\ outputs' = [outputs EXCEPT ![t] = Staged(t, sub)]
    /\ results' = [results EXCEPT ![t] = sign(ResultManifestV1, Manifest(t, sub), Performer)]
    /\ UNCHANGED <<tasks, asked, pins, lock, conns, used, faults>>

-----------------------------------------------------------------------------
(* The performer delivers: the job is read in the lock and posted without   *)
(* it, to a requester that is still pinned.                                *)

run_delivery(k, t) ==
    /\ lock = Free
    /\ heads[t].state = "Locked"
    /\ results[t] # None
    /\ requester_active
    /\ Post(k, "result", [task |-> t, envelope |-> results[t], delivered |-> outputs[t]])
    /\ UNCHANGED <<clock, tasks, work, asked, pins, lock, used, faults>>

DeliveryReturns(k) ==
    /\ At(k, {"result"}, "answered")
    /\ conns' = [conns EXCEPT ![k] = Idle]
    /\ UNCHANGED <<clock, tasks, work, asked, pins, lock, used, faults>>

-----------------------------------------------------------------------------
(* The requester finalizes.  Every check precedes the one transaction that  *)
(* stores the bytes and the outcome.                                       *)

(* The row this manifest answers, sent to the performer that delivers it. *)
MatchesRequest_Swapped(manifest) ==
    LET sent == sent_requests[manifest.contract_digest]
    IN  /\ sent # None
        /\ sent.task_id = manifest.task_id
        /\ sent.performer = Performer
        /\ sent.contract_id = manifest.context_id
        /\ sent.context_id = manifest.contract_id

MatchesRequest(manifest) ==
    LET sent == sent_requests[manifest.contract_digest]
    IN  /\ sent # None
        /\ sent.task_id = manifest.task_id
        /\ sent.performer = Performer
        /\ sent.contract_id = manifest.contract_id
        /\ sent.context_id = manifest.context_id

(* Every entry has its bytes, and nothing else came along. *)
OutputsMatch_IdsOnly(entries, delivered) ==
    /\ \A e, f \in entries : e.artifact_id = f.artifact_id => e = f
    /\ \A e \in entries : \E d \in delivered :
          d.artifact_id = e.artifact_id /\ Len(d.bytes) = e.byte_length
    /\ Cardinality(delivered) = Cardinality(entries)

OutputsMatch(entries, delivered) ==
    /\ \A e, f \in entries : e.artifact_id = f.artifact_id => e = f
    /\ \A e \in entries : \E d \in delivered :
          /\ d.artifact_id = e.artifact_id
          /\ Len(d.bytes) = e.byte_length
          /\ sha256(d.bytes) = e.sha256
    /\ Cardinality(delivered) = Cardinality(entries)

Finalizes(job) ==
    /\ verify(job.envelope, ResultManifestV1, Performer)
    /\ MatchesRequest(job.envelope.payload)
    /\ OutputsMatch(job.envelope.payload.outputs, job.delivered)

(* One transaction; an outcome already there stands. *)
record_outcome_with_outputs(manifest, delivered) ==
    LET t == manifest.contract_digest
    IN  IF outcomes[t] = None
        THEN /\ outcomes' = [outcomes EXCEPT ![t] = manifest]
             /\ held' = [held EXCEPT ![t] = delivered]
        ELSE UNCHANGED <<outcomes, held>>

finalize_result(k) ==
    LET job == conns[k].body
    IN
    /\ At(k, {"result"}, "posted")
    /\ performer_active
    /\ IF Finalizes(job)
       THEN /\ record_outcome_with_outputs(job.envelope.payload, job.delivered)
            /\ conns' = [conns EXCEPT ![k] = Answered(@, Reply(200, job.task))]
       ELSE /\ conns' = [conns EXCEPT ![k] = Answered(@, Reply(409, None))]
            /\ UNCHANGED <<outcomes, held>>
    /\ UNCHANGED <<clock, tasks, work, sent_requests, pins, lock, used, faults>>

RefuseResult(k) ==
    /\ At(k, {"result"}, "posted")
    /\ ~performer_active
    /\ conns' = [conns EXCEPT ![k] = Answered(@, Reply(403, None))]
    /\ UNCHANGED <<clock, tasks, work, asked, pins, lock, used, faults>>

-----------------------------------------------------------------------------
(* What goes wrong, and the clock. *)

Fault == faults < MaxFaults /\ faults' = faults + 1

Tick ==
    /\ wall < MaxTime
    /\ wall' = wall + 1
    /\ UNCHANGED <<floor, latest, tasks, work, asked, pins, lock, conns, used, faults>>

StepBack(now) ==
    /\ Fault
    /\ now < wall
    /\ wall' = now
    /\ UNCHANGED <<floor, latest, tasks, work, asked, pins, lock, conns, used>>

(* A request or an answer is lost, or the dialer gives up on a request that *)
(* may still arrive.                                                       *)
Lose(k) ==
    /\ Fault
    /\ conns[k] # Idle /\ conns[k].at \in {"posted", "answered"}
    /\ lock.at # "free" => lock.conn # k
    /\ conns' = [conns EXCEPT ![k] = Idle]
    /\ UNCHANGED <<clock, tasks, work, asked, pins, lock, used>>

GiveUp(k) ==
    /\ Fault
    /\ conns[k] # Idle /\ conns[k].at = "posted" /\ conns[k].up
    /\ conns' = [conns EXCEPT ![k].up = FALSE]
    /\ UNCHANGED <<clock, tasks, work, asked, pins, lock, used>>

(* A store call of the performer's handler fails: a 500 with what was       *)
(* committed before it.                                                    *)
StoreFails ==
    /\ Fault
    /\ lock # Free
    /\ Answer(lock.conn, Reply(500, None))
    /\ UNCHANGED <<clock, tasks, work, asked, pins, used>>

(* The requester cannot finalize: a failing store, an uncertain clock. *)
FinalizeFails_Acks(k) ==
    /\ Fault
    /\ At(k, {"result"}, "posted")
    /\ conns' = [conns EXCEPT ![k] = Answered(@, Reply(200, conns[k].body.task))]
    /\ UNCHANGED <<clock, tasks, work, asked, pins, lock, used>>

FinalizeFails(k) ==
    /\ Fault
    /\ At(k, {"result"}, "posted")
    /\ conns' = [conns EXCEPT ![k] = Answered(@, Reply(500, None))]
    /\ UNCHANGED <<clock, tasks, work, asked, pins, lock, used>>

(* A submission stops after some of its outputs were staged. *)
StagingFails(t, sub) ==
    /\ Fault
    /\ lock = Free
    /\ heads[t].state = "Locked"
    /\ t \in orders
    /\ results[t] = None
    /\ observe_time
    /\ outputs' = [outputs EXCEPT ![t] = Staged(t, sub)]
    /\ UNCHANGED <<tasks, results, asked, pins, lock, conns, used>>

(* A daemon dies: its handlers and its own calls are gone, what it posted    *)
(* may still arrive.                                                       *)
DialerOf(kind) == IF kind = "result" THEN Performer ELSE Requester
Crash(e) ==
    /\ Fault
    /\ conns' = [k \in Conns |->
         CASE conns[k] = Idle -> Idle
           [] conns[k] # Idle /\ DialerOf(conns[k].kind) = e ->
                IF conns[k].at = "posted" THEN [conns[k] EXCEPT !.up = FALSE] ELSE Idle
           [] OTHER -> IF conns[k].at = "posted" THEN Idle ELSE conns[k]]
    /\ lock' = IF e = Performer \/ lock = Free THEN Free ELSE lock
    /\ UNCHANGED <<clock, tasks, work, asked, pins, used>>

(* The operator of one side removes the other, and pairs again. *)
Unpair(e) ==
    /\ Fault
    /\ lock = Free
    /\ requester_active' = IF e = Performer THEN FALSE ELSE requester_active
    /\ performer_active' = IF e = Requester THEN FALSE ELSE performer_active
    /\ UNCHANGED <<clock, tasks, work, asked, lock, conns, used>>

Pair ==
    /\ ~(requester_active /\ performer_active)
    /\ requester_active' = TRUE /\ performer_active' = TRUE
    /\ UNCHANGED <<clock, tasks, work, asked, lock, conns, used, faults>>

Handles(k) ==
    \/ SendReturns(k) \/ ResendReturns(k) \/ DeliveryReturns(k)
    \/ RefuseUnknown(k) \/ TimeUncertain(k) \/ dispatch_proposal(k)
    \/ finalize_result(k) \/ RefuseResult(k)
Commits == submit_revision \/ set_task_context \/ persist_worker_inputs \/ receive_request \/ reject

Next ==
    \/ \E k \in Conns : Handles(k) \/ Lose(k) \/ GiveUp(k) \/ FinalizeFails(k)
    \/ \E k \in Conns, s \in DOMAIN Specs : run_send(k, s)
    \/ \E k \in Conns, m \in Mail : Resend(k, m)
    \/ \E k \in Conns, t \in Tasks : run_delivery(k, t)
    \/ Commits
    \/ \E t \in Tasks, grants \in BOOLEAN : approve_and_issue(t, grants)
    \/ \E t \in Tasks, sub \in Submissions : submit_result(t, sub) \/ StagingFails(t, sub)
    \/ Tick \/ \E now \in 0..MaxTime : StepBack(now)
    \/ StoreFails \/ Pair
    \/ \E e \in {Requester, Performer} : Crash(e) \/ Unpair(e)

Spec == Init /\ [][Next]_vars

(* Requests are answered and handlers run; nothing obliges an operator. *)
FairSpec ==
    /\ Spec
    /\ \A k \in Conns : WF_vars(Handles(k))
    /\ WF_vars(Commits)

-----------------------------------------------------------------------------
(* An outcome is recorded only for a request this requester recorded, over  *)
(* exactly the manifest the performer signed for that Task, and with it    *)
(* the requester holds, byte for byte, what that manifest names: not an    *)
(* older staging, not a part of it.                                        *)
AcceptedIsSigned ==
    \A t \in Tasks : outcomes[t] # None =>
        /\ sent_requests[t] # None
        /\ results[t] # None /\ results[t].payload = outcomes[t]
        /\ {Entry(o) : o \in held[t]} = outcomes[t].outputs

(* The performer is told "delivered" only when the outcome is on disk at    *)
(* the requester, whatever crashed or was lost in between.                 *)
DeliveredIsAccepted ==
    \A k \in Conns :
        At(k, {"result"}, "answered") /\ conns[k].reply.status = 200 =>
            outcomes[conns[k].body.task] = conns[k].body.envelope.payload

(* What prepare_send makes: a first revision, its input ids distinct, its   *)
(* context the only one its contract is sent with.                         *)
Plain(m) ==
    /\ ContractOf[m].revision = 0
    /\ \A i, j \in DOMAIN ContractOf[m].inputs :
          ContractOf[m].inputs[i].id = ContractOf[m].inputs[j].id => i = j
    /\ \A n \in Mail : TaskOf[n] = TaskOf[m] => Message[n].context_id = Message[m].context_id

(* A proposal answered with a Task left that Task whole: head, context and  *)
(* every worker-visible input with the bytes its digest covers, though each *)
(* is a commit of its own and the daemon may die between any two.  The      *)
(* verdict on a revision is not looked at, so a later revision is answered  *)
(* with a Task too; that one is nobody's work: no head, no order, no result. *)
AnsweredTaskIsWhole ==
    \A m \in Mail :
        LET row == requests[Message[m].message_id]
            t == TaskOf[m]
            entries == ContractOf[m].inputs
        IN  row # None /\ row.message = m /\ row.class = "task" =>
              /\ Plain(m) =>
                    /\ heads[t] # Empty
                    /\ contexts[t] = Message[m].context_id
                    /\ \A i \in Visible(m) : \E r \in inputs[t] :
                          r.id = entries[i].id /\ sha256(r.payload) = entries[i].sha256
              /\ ContractOf[m].revision # 0 =>
                    heads[t] = Empty /\ t \notin orders /\ results[t] = None

Opens(t) == heads'[t] # heads[t] /\ heads'[t].state = "Open"
Issues(t) == t \in orders' \ orders

(* Authority that lapsed stays lapsed: no head is opened and no work order  *)
(* is issued once the performer has acted at a time past the contract's     *)
(* end, even when its wall clock has stepped back since.  (A head may still *)
(* be locked then: the acceptance comes first, and issuing is refused.)     *)
NoRevival ==
    [][\A t \in Tasks : Opens(t) \/ Issues(t) => latest' < Stored[t].expires_at]_vars

(* A completed result whose staged bytes are the submitted ones reaches its *)
(* requester: whatever was lost, refused too early or cut by a crash, an   *)
(* operator who delivers until it works gets it recorded, once the request *)
(* itself is recorded and both sides are paired.                           *)
Deliverable(t) ==
    /\ performer_active /\ requester_active
    /\ results[t] # None
    /\ results[t].payload.outputs = {Entry(o) : o \in outputs[t]}
    /\ sent_requests[t] # None
    /\ contexts[t] = results[t].payload.context_id
    /\ sent_requests[t].context_id = contexts[t]

RedeliveryFinalizes ==
    \A t \in Tasks :
        ( /\ SF_vars(\E k \in Conns : run_delivery(k, t))
          /\ <>[]Deliverable(t) )
        => <>(outcomes[t] # None)
=============================================================================
