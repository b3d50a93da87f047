----------------------------- MODULE Confinement -----------------------------
(***************************************************************************)
(* The boundary a worker runs in (akson-sandbox, akson-worker and aksond's *)
(* confinement.rs and worker_run.rs), as functions of the capability       *)
(* vector, the configuration and the host: the mounts, the namespaces, the *)
(* syscall filter, the cgroup, the staged inputs, and what is collected    *)
(* from the output directory.                                              *)
(*                                                                         *)
(* Paths are opaque; the syscalls of a filter are grouped by what they     *)
(* do; names of inputs and roles are sequences of characters, as their     *)
(* validation is about them.                                               *)
(***************************************************************************)
EXTENDS Authority, Functions

-----------------------------------------------------------------------------
(* What the host offers.  A file that cannot be read is "absent". *)

Feature == {"user_namespaces", "cgroup2", "memory_controller", "pids_controller",
            "seccomp", "no_new_privs", "landlock"}

required == Feature \ {"landlock"}

detect_user_namespaces(host) ==
    /\ host.unprivileged_userns_clone # "0"
    /\ host.apparmor_restrict # "1"
    /\ host.max_user_namespaces # "0"

(* The mounted hierarchy has a controllers file; an absent one reads as {}. *)
detect(host) ==
    {f \in Feature :
        CASE f = "user_namespaces" -> detect_user_namespaces(host)
          [] f = "cgroup2" -> host.cgroup2
          [] f = "memory_controller" -> host.cgroup2 /\ "memory" \in host.controllers
          [] f = "pids_controller" -> host.cgroup2 /\ "pids" \in host.controllers
          [] OTHER -> f \in host.kernel}

ensure(features, needed) == needed \subseteq features

(* The daemon's place in the cgroup hierarchy: `path_dirs[i]` is the i-th  *)
(* directory below the root on the way to its own cgroup, so that <<>> is  *)
(* the root itself.                                                        *)
has_controllers(dir) == {"memory", "pids"} \subseteq dir.subtree_control

(* The nearest usable directory upwards from the own cgroup; 0 for none.   *)
find_delegated_parent(path_dirs) ==
    LET usable == {i \in DOMAIN path_dirs : has_controllers(path_dirs[i]) /\ path_dirs[i].writable}
    IN IF usable = {} THEN 0 ELSE CHOOSE i \in usable : \A j \in usable : j <= i

(* The daemon moves itself into a leaf; the controllers may be enabled     *)
(* only when nothing else is left in the directory.                        *)
Supervisor == [subtree_control |-> {}, controllers |-> {}, writable |-> TRUE, others |-> FALSE]

prepare_delegated_subtree(path_dirs) ==
    IF find_delegated_parent(path_dirs) # 0 \/ path_dirs = <<>> THEN path_dirs
    ELSE LET own == path_dirs[Len(path_dirs)]
         IN IF ~({"memory", "pids"} \subseteq own.controllers /\ own.writable) THEN path_dirs
            ELSE LET enabled == IF own.others THEN own.subtree_control
                                ELSE {"memory", "pids", "cpu"} \cap own.controllers
                 IN Append([path_dirs EXCEPT ![Len(path_dirs)].subtree_control = enabled], Supervisor)

diagnose(host) ==
    [f \in Feature \cup {"cgroup_delegation", "bubblewrap"} |->
        [required |-> f # "landlock",
         available |-> CASE f = "cgroup_delegation" -> find_delegated_parent(host.path_dirs) # 0
                         [] f = "bubblewrap" -> host.bwrap
                         [] OTHER -> f \in detect(host)]]

all_required_available(report) ==
    \A f \in DOMAIN report : report[f].required => report[f].available

-----------------------------------------------------------------------------
(* The syscall filters: an allow-list, everything else is denied. *)

common_worker_syscalls ==
    {"read_write", "open_files", "stat", "memory", "signals", "poll", "wait", "pipe",
     "fd_messages", "execve", "exit", "time", "ids"}
ProcessCreation == {"vfork", "clone", "clone3"}
SocketFamily == {"socket", "connect", "bind", "listen", "accept", "socketpair"}
AsyncRuntime == {"epoll_wait", "eventfd", "timerfd", "signalfd"}
Syscalls == common_worker_syscalls \cup ProcessCreation \cup SocketFamily \cup AsyncRuntime
                \cup {"mount", "ptrace"}

deny_all_except(allow, deny) == [allow |-> allow, deny |-> deny]

clean_worker_baseline(deny) == deny_all_except(common_worker_syscalls \cup ProcessCreation, deny)
adapter_worker_baseline(deny) == deny_all_except(common_worker_syscalls, deny)
agent_worker_baseline(deny) ==
    deny_all_except(common_worker_syscalls \cup ProcessCreation \cup SocketFamily
                        \cup AsyncRuntime, deny)

compile(policy) ==
    [s \in Syscalls |-> IF s \in policy.allow THEN "allow" ELSE policy.deny]

-----------------------------------------------------------------------------
(* The isolation policy of one worker, and the two ways to enforce it. *)

clean_worker(workdir) ==
    [ro_binds |-> <<>>, rw_binds |-> <<>>, tmpfs |-> <<>>, chdir |-> workdir,
     env |-> <<>>, allow_network |-> FALSE]

ro_bind(spec, host, sandbox) == [spec EXCEPT !.ro_binds = Append(@, <<host, sandbox>>)]
rw_bind(spec, host, sandbox) == [spec EXCEPT !.rw_binds = Append(@, <<host, sandbox>>)]
setenv(spec, key) == [spec EXCEPT !.env = Append(@, key)]

landlock_profile(spec) ==
    [read_only |-> {spec.ro_binds[i][2] : i \in DOMAIN spec.ro_binds},
     read_write |-> Range(spec.tmpfs) \cup {spec.rw_binds[i][2] : i \in DOMAIN spec.rw_binds}]

(* Access the policy leaves: the ruleset handles every access, reading is  *)
(* granted back to the one set and everything to the other.                *)
landlock_apply(policy, path) ==
    (IF path \in policy.read_only THEN {"read"} ELSE {})
        \cup (IF path \in policy.read_write THEN {"read", "write"} ELSE {})

Binds(op, binds) == [i \in DOMAIN binds |-> <<op, binds[i][1], binds[i][2]>>]
Tmpfs(paths) == [i \in DOMAIN paths |-> <<"tmpfs", "none", paths[i]>>]

build_plan(spec) ==
    [unshare |-> {"User", "Mount", "Pid", "Ipc", "Uts", "Cgroup"}
                    \cup (IF spec.allow_network THEN {} ELSE {"Net"}),
     mounts |-> <<<<"proc", "none", "/proc">>, <<"dev", "none", "/dev">>>>
                    \o Binds("ro", spec.ro_binds) \o Binds("rw", spec.rw_binds)
                    \o Tmpfs(spec.tmpfs),
     chdir |-> spec.chdir, env |-> spec.env]

(* The arguments of bubblewrap, one entry per option with its operands:     *)
(* what is taken away, the mounts, and the command under its filter.       *)
IsolationOptions(spec) ==
    <<<<"--unshare-all">>>>
    \o (IF spec.allow_network THEN <<<<"--share-net">>>> ELSE <<>>)
    \o <<<<"--die-with-parent">>, <<"--new-session">>, <<"--cap-drop", "ALL">>,
         <<"--clearenv">>>>
    \o [i \in DOMAIN spec.env |-> <<"--setenv", spec.env[i]>>]

MountOptions(spec) ==
    <<<<"--proc", "none", "/proc">>, <<"--dev", "none", "/dev">>>>
    \o Binds("--ro-bind", spec.ro_binds) \o Binds("--bind", spec.rw_binds)
    \o [i \in DOMAIN spec.tmpfs |-> <<"--tmpfs", "none", spec.tmpfs[i]>>]

build_argv(spec, program, args, seccomp) ==
    IsolationOptions(spec) \o MountOptions(spec)
    \o <<<<"--seccomp", seccomp>>, <<"--chdir", spec.chdir>>, <<"--", program, args>>>>

(* What bubblewrap does with the arguments (external): a mount covers an   *)
(* earlier one at the same path.                                           *)
MountKinds == [o \in {"--proc", "--dev", "--ro-bind", "--bind", "--tmpfs"} |->
    CASE o = "--ro-bind" -> "ro" [] o = "--bind" -> "rw" [] o = "--proc" -> "proc"
      [] o = "--dev" -> "dev" [] OTHER -> "tmpfs"]

ArgvMounts(argv) ==
    [i \in {i \in DOMAIN argv : argv[i][1] \in DOMAIN MountKinds} |->
        <<MountKinds[argv[i][1]], argv[i][2], argv[i][3]>>]

View(mounts) ==
    [p \in {mounts[i][3] : i \in DOMAIN mounts} |->
        LET at == {i \in DOMAIN mounts : mounts[i][3] = p}
            top == mounts[CHOOSE i \in at : \A j \in at : j <= i]
        IN [kind |-> top[1], host |-> top[2]]]

HasOption(argv, option) == \E i \in DOMAIN argv : argv[i][1] = option

(* The native launcher's own steps.  Its root has the read-only binds,     *)
(* remounted so, and the scratch mounts, on a fresh root; a user namespace *)
(* comes with a mapping to root.                                           *)
setup_root(spec) == Binds("ro", spec.ro_binds) \o Tmpfs(spec.tmpfs)

clone_flags(namespaces) ==
    LET flag == [n \in {"User", "Mount", "Pid", "Net", "Ipc", "Uts", "Cgroup"} |->
                    IF n = "Mount" THEN "NEWNS" ELSE n]
    IN {flag[n] : n \in namespaces}

(* `kernel` says whether the unshare is permitted and which id maps can be *)
(* written; they are written for a user namespace only, the uid first.     *)
enter_namespaces(namespaces, kernel) ==
    IF ~kernel.unshare THEN "unshare"
    ELSE IF "User" \in namespaces /\ "uid_map" \notin kernel.maps THEN "uid_map"
    ELSE IF "User" \in namespaces /\ "gid_map" \notin kernel.maps THEN "gid_map"
    ELSE "entered"

(* The descriptors of one launch, by the run that made them.  Those that   *)
(* are not close-on-exec pass to every process started while they are open,*)
(* also to the bubblewrap of another run.                                  *)
broker_socketpair(run) == {[of |-> run, fd |-> "broker-worker", cloexec |-> FALSE],
                           [of |-> run, fd |-> "broker-daemon", cloexec |-> TRUE]}
to_memfd(run) == [of |-> run, fd |-> "seccomp", cloexec |-> FALSE]
cgroup_procs(run) == [of |-> run, fd |-> "cgroup.procs", cloexec |-> TRUE]

LaunchFds(run, spec) ==
    {to_memfd(run), cgroup_procs(run)}
        \cup (IF "AKSON_BROKER_FD" \in Range(spec.env) THEN broker_socketpair(run) ELSE {})

Inherited(open) == {d \in open : ~d.cloexec}

(* A launch: each step can fail, in this order, and the last one before the*)
(* exec moves bubblewrap into the cgroup.                                  *)
SupportedArch == {"x86_64", "aarch64", "riscv64"}

launch_confined(host, arch, cgroup, success) ==
    IF ~ensure(detect(host), required) THEN "missing-features"
    ELSE IF arch \notin SupportedArch THEN "no-filter"
    ELSE IF ~cgroup.opens THEN "no-cgroup"
    ELSE IF ~cgroup.joins \/ ~host.bwrap THEN "not-spawned"
    ELSE IF ~success THEN "worker-exited"
    ELSE "ok"

-----------------------------------------------------------------------------
(* The boundary of one run. *)

from_capabilities_OutputAlways(vector) ==
    LET reads == grants_component(vector, "ReadSuppliedInputs")
        uses == grants_component(vector, "ProcessorUse")
    IN [reads_inputs |-> reads,
        input_ids |-> IF reads THEN grant(vector, "ReadSuppliedInputs").input_ids ELSE <<>>,
        writes_output |-> TRUE,
        processor |-> IF uses THEN grant(vector, "ProcessorUse").processor_id ELSE "none"]

from_capabilities(vector) ==
    LET reads == grants_component(vector, "ReadSuppliedInputs")
        uses == grants_component(vector, "ProcessorUse")
    IN [reads_inputs |-> reads,
        input_ids |-> IF reads THEN grant(vector, "ReadSuppliedInputs").input_ids ELSE <<>>,
        writes_output |-> \/ grants_component(vector, "Respond")
                          \/ grants_component(vector, "ArtifactExport"),
        processor |-> IF uses THEN grant(vector, "ProcessorUse").processor_id ELSE "none"]

to_spec(confinement, staging, output, runtime) ==
    LET base == [clean_worker("/") EXCEPT
                   !.ro_binds = [i \in DOMAIN runtime |-> <<runtime[i], runtime[i]>>]]
        reading == IF confinement.reads_inputs THEN ro_bind(base, staging, "/inputs") ELSE base
    IN IF confinement.writes_output THEN rw_bind(reading, output, "/output") ELSE reading

(* The configured worker: a direct adapter wins over the shell command.    *)
(* Each is a sequence of words.                                            *)
Invocation(config) ==
    IF config.worker_exec # <<>> THEN [kind |-> "Adapter", words |-> config.worker_exec]
    ELSE IF config.worker_command # <<>> THEN [kind |-> "Shell", words |-> config.worker_command]
    ELSE [kind |-> "None", words |-> <<>>]

program(inv) == IF inv.kind = "Shell" THEN "/bin/sh" ELSE inv.words[1]
worker_args(inv) == IF inv.kind = "Shell" THEN <<"-c", inv.words>> ELSE Tail(inv.words)
bind_token(inv) == inv.words[1]
worker_seccomp(inv) ==
    IF inv.kind = "Shell" THEN clean_worker_baseline("kill") ELSE adapter_worker_baseline("kill")

Present(dir, host) == IF dir \in host.directories THEN <<dir>> ELSE <<>>

system_dirs(host) ==
    Present("/usr", host) \o Present("/bin", host) \o Present("/sbin", host)
    \o Present("/lib", host) \o Present("/lib64", host) \o Present("/etc/alternatives", host)

(* The system directories that exist, and the worker's own file when its   *)
(* token has a slash and names a file.                                     *)
bind_dirs(inv, host) ==
    LET system == system_dirs(host)
        token == bind_token(inv)
    IN IF token \in host.paths /\ token \in host.files /\ token \notin Range(system)
       THEN Append(system, token) ELSE system

(* The broker channel is opened for a processor grant only. *)
worker_spec(vector, inv, host) ==
    LET confinement == from_capabilities(vector)
        spec == to_spec(confinement, "run/inputs", "run/output", bind_dirs(inv, host))
    IN IF confinement.processor # "none" THEN setenv(spec, "AKSON_BROKER_FD") ELSE spec

worker_limits == [max_memory_bytes |-> 256, max_pids |-> 64, cpu_max |-> "none"]

WORKER_WALL_CLOCK_MAX == 600

(* The time a run may take; 0 when the deadline has passed. *)
worker_wall_clock(deadline, now) ==
    IF deadline - now <= 0 THEN 0
    ELSE IF deadline - now < WORKER_WALL_CLOCK_MAX THEN deadline - now
    ELSE WORKER_WALL_CLOCK_MAX

-----------------------------------------------------------------------------
(* Staging.  A slug is one path component. *)

SlugStart == {"a", "7"}
SlugChar == SlugStart \cup {"-"}

is_safe_id(id) ==
    /\ id # <<>>
    /\ id[1] \in SlugStart
    /\ \A i \in DOMAIN id : id[i] \in SlugChar

ManifestName == <<"m", ".", "j">>

(* The items the read grant names, of the stored worker-visible inputs. *)
StageItems(confinement, inputs) ==
    [i \in {i \in DOMAIN inputs : inputs[i].id \in Range(confinement.input_ids)} |-> inputs[i]]

(* The directory is pristine, so that only two items can collide. *)
stage_inputs(items) ==
    IF /\ \A i \in DOMAIN items : is_safe_id(items[i].id)
       /\ \A i, j \in DOMAIN items : items[i].id = items[j].id => i = j
    THEN {<<items[i].id, items[i].content>> : i \in DOMAIN items}
            \cup {<<ManifestName, [i \in DOMAIN items |-> items[i].id]>>}
    ELSE {}

-----------------------------------------------------------------------------
(* Collecting.  `files` maps the names written to /output to their size;   *)
(* `declared` is the artifact manifest, a sequence of roles and types.     *)

MAX_WORKER_FILE_BYTES == 64

is_slug_role(role) ==
    /\ role # <<>>
    /\ role[1] \in SlugStart
    /\ \A i \in DOMAIN role : role[i] \in SlugChar

read_worker_file(files, name) ==
    IF name \notin DOMAIN files THEN "absent"
    ELSE IF files[name] > MAX_WORKER_FILE_BYTES THEN "output-too-large"
    ELSE "read"

ArtifactRefused(entry, files, inert) ==
    \/ ~is_slug_role(entry.role)
    \/ read_worker_file(files, entry.role) # "read"
    \/ ~inert[entry.media_type]

Response == <<"response">>
Manifest == <<"artifacts.json">>

Proposed(channel, media_type, bytes) ==
    [channel |-> channel, recipient |-> "request-origin", media_type |-> media_type,
     bytes |-> bytes]

collect_response(files) ==
    IF Response \in DOMAIN files THEN <<Proposed("Response", "text/plain", files[Response])>>
    ELSE <<>>

(* What the worker's list of artifacts declares, when there is one. *)
Declared(list, files) == IF Manifest \in DOMAIN files THEN list.entries ELSE <<>>

ListRefused(list, files) ==
    CASE read_worker_file(files, Manifest) = "absent" -> FALSE
      [] read_worker_file(files, Manifest) = "output-too-large" -> TRUE
      [] OTHER -> ~list.parses

collect_artifacts(list, files) ==
    [i \in DOMAIN Declared(list, files) |->
        Proposed("Artifact", list.entries[i].media_type, files[list.entries[i].role])]

(* The outputs of a run that are submitted; <<>> when it is refused.       *)
collect(vector, list, files, inert) ==
    IF \/ read_worker_file(files, Response) = "output-too-large"
       \/ ListRefused(list, files)
       \/ \E i \in DOMAIN Declared(list, files) : ArtifactRefused(list.entries[i], files, inert)
    THEN <<>>
    ELSE LET batch == collect_response(files) \o collect_artifacts(list, files)
         IN IF gate_outputs(vector, batch) THEN batch ELSE <<>>

-----------------------------------------------------------------------------
(* Whether a renderable artifact is inert.  A text is a sequence of        *)
(* tokens, each spelled plainly, by numeric character references, or by    *)
(* malformed ones, which stay as they are.                                 *)

is_renderable == {"svg", "html", "xhtml", "markdown", "mermaid", "graphviz"}

decode_numeric_entities(text) ==
    [i \in DOMAIN text |-> IF text[i].spelled = "malformed" THEN "&#" ELSE text[i].token]

ActiveMarkup == {"<script", "<iframe", "<object", "<!entity"}
ScriptUri == {"javascript:", "data:text/html", "vbscript:"}
AbsoluteUrl == {"http://", "https://", "//"}
Space == {"sp", "nl"}

(* The first position from `k` on whose token is outside `skip`. *)
SkipFrom(tokens, k, skip) ==
    LET rest == {j \in k..Len(tokens) : tokens[j] \notin skip}
    IN IF rest = {} THEN Len(tokens) + 1 ELSE CHOOSE j \in rest : \A i \in rest : j <= i

TokenIn(tokens, i, set) == i \in DOMAIN tokens /\ tokens[i] \in set

has_event_handler(tokens) ==
    \E i \in DOMAIN tokens :
        /\ tokens[i] = "on"
        /\ i = 1 \/ tokens[i - 1] \in Space \cup {"<", "/", "quote"}
        /\ TokenIn(tokens, i + 1, {"letters"})
        /\ TokenIn(tokens, SkipFrom(tokens, SkipFrom(tokens, i + 1, {"letters"}), Space), {"="})

references_external_url(tokens) ==
    \E i \in DOMAIN tokens :
        /\ \/ tokens[i] \in {"href", "srcset", "src"}
           \/ /\ tokens[i] = "url"
              /\ i = 1 \/ tokens[i - 1] \notin {"letters", "on", "href", "srcset", "src", "url"}
              /\ TokenIn(tokens, SkipFrom(tokens, i + 1, Space), {"=", "("})
        /\ TokenIn(tokens, SkipFrom(tokens, i + 1, {"=", "quote", "(", "sp"}), AbsoluteUrl)

check_inert(media_type, text, clean_utf8) ==
    \/ media_type \notin is_renderable
    \/ /\ clean_utf8
       /\ LET tokens == decode_numeric_entities(text)
          IN /\ \A i \in DOMAIN tokens : tokens[i] \notin ActiveMarkup \cup ScriptUri
             /\ ~has_event_handler(tokens)
             /\ ~references_external_url(tokens)
=============================================================================
