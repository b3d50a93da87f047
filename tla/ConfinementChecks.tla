-------------------------- MODULE ConfinementChecks --------------------------
(***************************************************************************)
(* Confinement checked on bounded inputs, for the approvals of ApprovedRun. *)
(***************************************************************************)
EXTENDS ApprovedRun

LOCAL INSTANCE SequencesExt
LOCAL INSTANCE TLC

(* A collected batch is exactly what the gate lets through, with bytes that *)
(* were read: an unsafe role, a missing or oversized file, an artifact     *)
(* that is not inert, an unreadable list of artifacts or an output over its *)
(* scope collects nothing; without a list there are no artifacts.          *)
ASSUME CollectedIsAllowed ==
    LET Some == {Response :> n @@ <<"a">> :> k : n \in {2, 99}, k \in {1, 2}} \cup {<<"a">> :> 2}
        Written == Some \cup {Manifest :> n @@ f : n \in {3, 99}, f \in Some}
        Entries == {<<>>, <<[role |-> <<"a">>, media_type |-> "sarif"]>>,
                    <<[role |-> <<"a">>, media_type |-> "html"]>>,
                    <<[role |-> <<"/", "a">>, media_type |-> "sarif"]>>}
        inert == [m \in {"sarif", "html"} |-> m = "sarif"]
    IN \A ca \in IssuedPairs, f \in Written, d \in Entries, parses \in BOOLEAN :
          LET got == collect(Vector(ca[1], ca[2]), [parses |-> parses, entries |-> d], f, inert)
          IN /\ Allowed(ca[1], ca[2], got)
             /\ Manifest \in DOMAIN f /\ got # <<>> =>
                   /\ parses /\ f[Manifest] = 3
                   /\ d # <<>> => d[1] = [role |-> <<"a">>, media_type |-> "sarif"]
             /\ Manifest \notin DOMAIN f => Len(got) <= 1
             /\ Response \in DOMAIN f /\ f[Response] = 99 => got = <<>>

-----------------------------------------------------------------------------
Dir == [subtree_control : SUBSET {"memory", "pids"}, controllers : {{}, {"memory", "pids"}},
        writable : BOOLEAN, others : BOOLEAN]
Hierarchies == {<<>>} \cup {<<d>> : d \in Dir} \cup (Dir \X Dir)

(* Preparing the delegated cgroup at startup: a daemon alone in a writable *)
(* cgroup that has the controllers finds a parent for its workers          *)
(* afterwards, a usable parent is left as it is, and no directory above    *)
(* the daemon's own is touched.                                            *)
ASSUME PreparedIsFound ==
    \A path_dirs \in Hierarchies :
        LET after == prepare_delegated_subtree(path_dirs)
            n == Len(path_dirs)
        IN /\ find_delegated_parent(path_dirs) # 0 => after = path_dirs
           /\ \A i \in 1..(n - 1) : after[i] = path_dirs[i]
           /\ (n > 0 /\ path_dirs[n].writable /\ ~path_dirs[n].others /\ path_dirs[n].controllers # {})
                 => find_delegated_parent(after) # 0

(* `akson diagnose` reports a host as ready only if the launcher's own     *)
(* probe passes and a worker cgroup can be made.                           *)
ASSUME DiagnosisIsEnough ==
    \A userns \in {"absent", "0", "1"}, cg \in BOOLEAN, ctl \in SUBSET {"memory", "pids"},
       kernel \in SUBSET {"seccomp", "no_new_privs", "landlock"}, bwrap \in BOOLEAN,
       path_dirs \in {<<>>} \cup {<<d>> : d \in Dir} :
        LET host == [unprivileged_userns_clone |-> userns, apparmor_restrict |-> "absent",
                     max_user_namespaces |-> "absent", cgroup2 |-> cg, controllers |-> ctl,
                     kernel |-> kernel, bwrap |-> bwrap, path_dirs |-> path_dirs]
        IN all_required_available(diagnose(host)) =>
              ensure(detect(host), required) /\ find_delegated_parent(path_dirs) # 0

(* A worker runs only with every required feature, a filter for this       *)
(* architecture and inside its cgroup; and there is a host on which it does.*)
ASSUME LaunchIsConfined ==
    LET hosts == [unprivileged_userns_clone : {"0", "1"}, apparmor_restrict : {"0", "1"},
                  max_user_namespaces : {"0", "9"}, cgroup2 : BOOLEAN,
                  controllers : SUBSET {"memory", "pids"},
                  kernel : SUBSET {"seccomp", "no_new_privs"}, bwrap : BOOLEAN]
        leaves == [opens : BOOLEAN, joins : BOOLEAN]
        Ran(h, arch, c) == launch_confined(h, arch, c, TRUE) = "ok"
    IN /\ \E h \in hosts, c \in leaves : Ran(h, "x86_64", c)
       /\ \A h \in hosts, arch \in {"x86_64", "mips"}, c \in leaves :
             Ran(h, arch, c) => /\ required \subseteq detect(h)
                                /\ arch # "mips"
                                /\ c.opens /\ c.joins

(* Whatever other run is launching, a worker inherits its filter, and its  *)
(* end of the channel exactly when a processor was granted; no worker gets *)
(* the daemon's end of a channel or a handle on a cgroup.                  *)
ASSUME WorkerHasItsChannel ==
    \A p, q \in IssuedPairs, inv \in Invocations :
        LET own == LaunchFds("own", worker_spec(Vector(p[1], p[2]), inv, Host))
            other == LaunchFds("other", worker_spec(Vector(q[1], q[2]), inv, Host))
            got == {d \in Inherited(own \cup other) : d.of = "own"}
        IN /\ {d.fd : d \in got} = {"seccomp"} \cup
                 (IF p[2].processor = "p" THEN {"broker-worker"} ELSE {})
           /\ \A d \in Inherited(own \cup other) : d.fd \notin {"broker-daemon", "cgroup.procs"}

(* The native root shows nothing that bubblewrap's does not, and its       *)
(* namespaces are as many flags as the plan names.                         *)
ASSUME NativeRootIsSmaller ==
    \A p \in IssuedPairs, inv \in Invocations :
        LET spec == worker_spec(Vector(p[1], p[2]), inv, Host)
            native == View(setup_root(spec))
            bwrap == View(ArgvMounts(build_argv(spec, program(inv), worker_args(inv), "fd")))
            plan == build_plan(spec)
        IN /\ \A path \in DOMAIN native : path \in DOMAIN bwrap /\ native[path] = bwrap[path]
           /\ Cardinality(clone_flags(plan.unshare)) = Cardinality(plan.unshare)
           /\ enter_namespaces(plan.unshare, [unshare |-> TRUE, maps |-> {"gid_map"}]) = "uid_map"

(* A name that passes is one path component, and staging and collecting    *)
(* agree on the names.                                                     *)
ASSUME SlugsAreComponents ==
    \A name \in UNION {[1..n -> {"a", "7", "-", "/", "."}] : n \in 0..3} :
        /\ is_safe_id(name) = is_slug_role(name)
        /\ is_safe_id(name) => ToSet(name) \cap {"/", "."} = {} /\ name # ManifestName

(* Spelling a part of an artifact by numeric character references never    *)
(* changes the verdict of the scan.                                        *)
ASSUME SpellingDoesNotMatter ==
    LET Tokens == {"<script", "on", "letters", "=", "sp", "href", "//"}
    IN \A text \in UNION {[1..n -> Tokens] : n \in 1..3}, how \in [1..3 -> {"plain", "numeric"}] :
          check_inert("svg", [i \in DOMAIN text |-> [token |-> text[i], spelled |-> how[i]]], TRUE)
             = check_inert("svg", [i \in DOMAIN text |->
                                      [token |-> text[i], spelled |-> "plain"]], TRUE)
=============================================================================
