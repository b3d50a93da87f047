----------------------------- MODULE ApprovedRun -----------------------------
(***************************************************************************)
(* A run under its approval: Execution's runs with the work order, the     *)
(* gate and the sandbox of Authority and Confinement, for any contract the *)
(* owner may have approved, with any of the two outward grants.            *)
(***************************************************************************)
EXTENDS Execution, Confinement

CONSTANTS
    Contracts,      \* proposals an owner may accept
    Approvals,      \* the outward grants: a processor or "none", and artifacts
    Processors,     \* the configured processors
    Batches,        \* what a worker may hand over
    Invocations,    \* configured workers
    Host,           \* the host's directories and files
    Now, Leeway

ContractType(c) ==
    /\ c.requested \in Seq(Capability)
    /\ DOMAIN c.deliverables = 1..Len(c.deliverables) /\ Len(c.deliverables) \in Nat
    /\ c.max_response_bytes \in Nat
    /\ c.created_at \in Int /\ c.expires_at \in Int /\ c.deadline \in Int

OutputType(out) == out.channel \in {"Response", "Artifact"} /\ out.bytes \in Nat

(* Sizes and times are numbers, and the run's own directories are not among *)
(* the host's worker programs.                                             *)
ASSUME ApprovedAssumption ==
    /\ Now \in Int /\ Leeway \in Int
    /\ \A c \in Contracts : ContractType(c)
    /\ \A a \in Approvals : a.artifacts \in BOOLEAN
    /\ "none" \notin Processors
    /\ \A batch \in Batches :
          /\ Len(batch) \in Nat /\ DOMAIN batch = 1..Len(batch)
          /\ \A i \in DOMAIN batch : OutputType(batch[i])
    /\ \A inv \in Invocations : inv.kind \in {"Adapter", "Shell"}
    /\ {"run/inputs", "run/output"} \cap Host.files = {}

-----------------------------------------------------------------------------
Issued(c, a) == IssueOutcome("t", c, "d", a, Processors, Now, Leeway) = "issued"
Vector(c, a) == Grants("t", c, "d", a, Now)
IssuedPairs == {ca \in Contracts \X Approvals : Issued(ca[1], ca[2])}

OnChannel(batch, channel) == {i \in DOMAIN batch : batch[i].channel = channel}

(* What the approval of a contract allows to leave, from the contract and  *)
(* the owner's decision alone.                                             *)
Allowed(c, a, batch) ==
    /\ \A i \in DOMAIN batch :
          /\ batch[i].recipient = "request-origin"
          /\ batch[i].bytes <= c.max_response_bytes
          /\ batch[i].channel = "Response" => "Respond" \in Requested(c)
          /\ batch[i].channel = "Artifact" =>
                a.artifacts /\ \E d \in DOMAIN c.deliverables :
                                  c.deliverables[d] = batch[i].media_type
    /\ Cardinality(OnChannel(batch, "Response")) <= 1
    /\ Cardinality(OnChannel(batch, "Artifact")) <= Len(c.deliverables)

GateIsApproval ==
    \A ca \in IssuedPairs, batch \in Batches :
        gate_outputs(Vector(ca[1], ca[2]), batch) <=> Allowed(ca[1], ca[2], batch)

(* An order ends with the contract, and a run's wall clock with the order; *)
(* an order is sealed under one key and as it is.                          *)
OrderIsBounded ==
    \A ca \in IssuedPairs :
        LET order == WorkOrder("t", ca[1], "d", ca[2], Now)
            later == [order EXCEPT !.deadline = @ + 1]
        IN /\ Now + worker_wall_clock(order.deadline, Now) <= ca[1].expires_at
           /\ Now + worker_wall_clock(order.deadline, Now) <= ca[1].deadline
           /\ worker_wall_clock(order.deadline, Now) \in 1..WORKER_WALL_CLOCK_MAX
           /\ ~remote_cancel_allowed(order, ca[1].requester)
           /\ verify_order(seal(order, "k"), "k")
           /\ ~verify_order(seal(order, "other"), "k")
           /\ ~verify_order([seal(order, "k") EXCEPT !.order = later], "k")

-----------------------------------------------------------------------------
(* What the worker of an approval finds. *)

SpecOf(ca, inv) == worker_spec(Vector(ca[1], ca[2]), inv, Host)
ArgvOf(ca, inv) ==
    build_argv(SpecOf(ca, inv), program(inv), worker_args(inv), worker_seccomp(inv))
ViewOf(ca, inv) == View(ArgvMounts(ArgvOf(ca, inv)))

Shows(view, path, host) == path \in DOMAIN view /\ view[path].host = host
Writable(view) == {p \in DOMAIN view : view[p].kind = "rw"}

(* The stored inputs are the visible ones. *)
VisibleInputs(c) ==
    [i \in {i \in DOMAIN c.inputs : c.inputs[i].worker_visible} |-> c.inputs[i]]
StagedFor(ca) ==
    stage_inputs(StageItems(from_capabilities(Vector(ca[1], ca[2])), VisibleInputs(ca[1])))
Ids(items) == {items[i].id : i \in DOMAIN items}

(* The two ways to enforce the policy agree on the mounts; these are the   *)
(* system directories, the worker's program and the run's own directories: *)
(* its inputs if it may read, one writable directory if it may answer.     *)
MountsAreApproved(ca, inv) ==
    LET spec == SpecOf(ca, inv)
        view == ViewOf(ca, inv)
        answers == "Respond" \in Requested(ca[1]) \/ ca[2].artifacts
    IN /\ view = View(build_plan(spec).mounts)
       /\ {view[p].host : p \in DOMAIN view} \subseteq
             {"none", "run/inputs", "run/output"} \cup Host.directories
                 \cup (Host.files \cap {bind_token(inv)})
       /\ Shows(view, "/inputs", "run/inputs") <=> "ReadSuppliedInputs" \in Requested(ca[1])
       /\ Writable(view) = IF answers THEN {"/output"} ELSE {}
       /\ answers => Shows(view, "/output", "run/output")
       /\ \A p \in DOMAIN view :
             "write" \in landlock_apply(landlock_profile(spec), p) <=> p \in Writable(view)

(* All visible inputs are staged, under names that stay in the directory,  *)
(* or none when a name is unsafe or used twice.                            *)
StagedIsApproved(ca) ==
    LET visible == VisibleInputs(ca[1])
        safe == /\ \A i \in DOMAIN visible : is_safe_id(visible[i].id)
                /\ \A i, j \in DOMAIN visible : visible[i].id = visible[j].id => i = j
    IN "ReadSuppliedInputs" \in Requested(ca[1]) =>
          {f[1] : f \in StagedFor(ca)} = IF safe THEN Ids(visible) \cup {ManifestName} ELSE {}

(* The broker's descriptor if a processor was granted; no network and no   *)
(* sockets, and for a direct adapter no processes.                         *)
ReachIsApproved(ca, inv) ==
    LET spec == SpecOf(ca, inv)
        filter == compile(worker_seccomp(inv))
    IN /\ Range(spec.env) = IF ca[2].processor = "none" THEN {} ELSE {"AKSON_BROKER_FD"}
       /\ "Net" \in build_plan(spec).unshare
       /\ ~HasOption(ArgvOf(ca, inv), "--share-net")
       /\ \A s \in SocketFamily : filter[s] = "kill"
       /\ inv.kind = "Adapter" => \A s \in ProcessCreation : filter[s] = "kill"

ViewIsApproval ==
    \A ca \in IssuedPairs :
        /\ StagedIsApproved(ca)
        /\ \A inv \in Invocations : MountsAreApproved(ca, inv) /\ ReachIsApproved(ca, inv)

(* Once a task has its work order, whichever contract was approved with    *)
(* whichever outward grants, the order ends with the contract, the gate    *)
(* that `submit_result` applies lets exactly the outputs of that approval  *)
(* through, and the sandbox that `run_worker` builds shows the worker      *)
(* exactly what the approval names.                                        *)
WorkerKeepsToApproval ==
    \A t \in orders : OrderIsBounded /\ GateIsApproval /\ ViewIsApproval
=============================================================================
