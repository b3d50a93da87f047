------------------------------- MODULE Broker -------------------------------
(***************************************************************************)
(* Processor calls (aksond broker, broker_channel; akson-broker; the       *)
(* adapter's LoopbackProxy).  A confined worker has no network: its agents *)
(* share one inherited socket, a thread of the run serves it, and the      *)
(* daemon makes the call.  The operator can make one too, on the control   *)
(* socket.                                                                 *)
(*                                                                         *)
(* A call is a durable sub-attempt, `prepared -> dispatching -> completed  *)
(* | failed | ambiguous`.  It is admitted in one locked section, prepared  *)
(* and marked dispatching in a second, made without the lock and marked in *)
(* a third; `lock` names the caller inside a section of several commits.   *)
(* A work order is named by its task.                                      *)
(***************************************************************************)
EXTENDS Attempts, Naturals, Sequences, FiniteSets

CONSTANTS
    Operators,      \* control-socket connections that may ask for a call
    Agents,         \* connections of a worker's agent to its LoopbackProxy
    Procs,          \* processor ids
    Granted,        \* the processor each work order's grant names
    Configs,        \* processor configurations [origin, path, local]
    Installed,      \* the configuration each processor has at the start
    Requests,       \* request bodies
    Addresses,      \* addresses an origin may resolve to
    Global,         \* the globally routable ones
    MaxOperations,  \* the operation budget of a work order
    MaxRequests,    \* lines one channel serves (1024)
    Huge,           \* a line over MAX_REQUEST_BYTES
    Unresolved,     \* an origin that does not resolve
    NoCall,         \* a caller with no call under way
    NoOne           \* nobody holds the store lock

Callers == Tasks \cup Operators
CallLine == [proc : Procs, req : Requests]
Line == CallLine \cup {Huge}

SubAttemptState == {"prepared", "dispatching", "completed", "failed", "ambiguous", "cancelled"}
TerminalCall == {"completed", "failed", "ambiguous", "cancelled"}

(* The digest binds what is dispatched: not the processor's handle, and    *)
(* not whether it is declared local.                                       *)
config_digest(cfg) == [origin |-> cfg.origin, path |-> cfg.path]
Digests == {config_digest(cfg) : cfg \in Configs}
Key == [task : Tasks, digest : Digests, req : Requests]

(* `policy` is the configuration the call was admitted under: its origin   *)
(* is the allowlist, and non-global addresses are allowed if it is local.  *)
Call == [pc : {"admitted", "prepared", "dispatching", "resolving", "connecting",
               "exchange", "marking", "answer"},
         task : Tasks, line : CallLine, policy : Configs, digest : Digests,
         event : {"Complete", "Fail", "MarkAmbiguous"}]

(* The daemon's end of a worker's socket.  The first line is the one being *)
(* served; a reply is named by the agent that sent the line.               *)
Channel == [open : BOOLEAN, lines : Seq([from : Agents, line : Line]),
            replies : Seq(Agents), served : 0..MaxRequests]

ASSUME BrokerAssumption ==
    /\ Granted \in [Tasks -> Procs]
    /\ Installed \in [Procs -> Configs]
    /\ Global \subseteq Addresses
    /\ Unresolved \notin Addresses
    /\ MaxOperations \in Nat
    /\ MaxRequests \in Nat \ {0}
    /\ Tasks \cap Operators = {}
    /\ NoOne \notin Callers
    /\ NoCall \notin Call
    /\ Huge \notin CallLine

VARIABLES
    configs,    \* the processors table
    calls,      \* the processor_calls table: the state under each key
    lock,       \* the caller inside a locked section
    callers,    \* the calls under way
    runs,       \* the worker of each order: "none", "running", "returned", "ended"
    chans,      \* the broker channel of each run
    waiting,    \* agents that wrote a line and wait for its reply
    sends       \* history: how often the request of a key left the host

callVars == <<calls, lock, callers, sends>>
runVars == <<runs, chans, waiting>>
vars == <<attemptVars, configs, callVars, runVars>>

TypeOK ==
    /\ AttemptsTypeOK
    /\ configs \in [Procs -> Configs]
    /\ calls \in [Key -> SubAttemptState \cup {"none"}]
    /\ lock \in Callers \cup {NoOne}
    /\ callers \in [Callers -> Call \cup {NoCall}]
    /\ runs \in [Tasks -> {"none", "running", "returned", "ended"}]
    /\ chans \in [Tasks -> Channel]
    /\ waiting \subseteq Tasks \X Agents
    /\ sends \in [Key -> 0..2]

Closed == [open |-> FALSE, lines |-> <<>>, replies |-> <<>>, served |-> 0]

Init ==
    /\ attempts = [t \in Tasks |-> "claimed"]
    /\ orders = Tasks
    /\ configs = Installed
    /\ calls = [k \in Key |-> "none"]
    /\ lock = NoOne
    /\ callers = [c \in Callers |-> NoCall]
    /\ runs = [t \in Tasks |-> "none"]
    /\ chans = [t \in Tasks |-> Closed]
    /\ waiting = {}
    /\ sends = [k \in Key |-> 0]

-----------------------------------------------------------------------------
(* The store's side of a call. *)

(* The event's effect on a sub-attempt; Cancel and RecoverAfterCrash have  *)
(* no caller in the daemon.                                                *)
next_call(s, e) ==
    CASE s = "prepared" /\ e = "Dispatch" -> "dispatching"
      [] s = "dispatching" /\ e = "Complete" -> "completed"
      [] s = "dispatching" /\ e = "Fail" -> "failed"
      [] s = "dispatching" /\ e = "MarkAmbiguous" -> "ambiguous"
      [] OTHER -> s

(* An invalid event is answered with an error and leaves the row alone. *)
advance_call(k, e) == calls' = [calls EXCEPT ![k] = next_call(@, e)]

(* Mutant: operations that failed are not counted. *)
Operations_Live(t) ==
    Cardinality({k \in Key : k.task = t /\ calls[k] \notin {"none", "failed"}})

Operations(t) == Cardinality({k \in Key : k.task = t /\ calls[k] # "none"})

(* Mutant: what a crash left dispatching is prepared again. *)
resolve_crashed_calls_Retry ==
    calls' = [k \in Key |-> IF calls[k] = "dispatching" THEN "prepared" ELSE calls[k]]

resolve_crashed_calls ==
    calls' = [k \in Key |-> IF calls[k] = "dispatching" THEN "ambiguous" ELSE calls[k]]

(* Upsert by the operator, also of a configuration in use. *)
put_processor(p, cfg) ==
    /\ lock = NoOne
    /\ configs' = [configs EXCEPT ![p] = cfg]
    /\ UNCHANGED <<attemptVars, callVars, runVars>>

-----------------------------------------------------------------------------
(* A call, from its caller's thread. *)

Under(c, pc) == callers[c] # NoCall /\ callers[c].pc = pc
CallKey(c) == [task |-> callers[c].task, digest |-> callers[c].digest, req |-> callers[c].line.req]
Goes(c, pc) == callers' = [callers EXCEPT ![c].pc = pc]
Ends(c, event) == callers' = [callers EXCEPT ![c].pc = "marking", ![c].event = event]

(* `run_processor_call`'s gate: the grant names this processor and the     *)
(* attempt is active.                                                      *)
Admitted(t, line) ==
    /\ line.proc = Granted[t]
    /\ attempts[t] \in {"claimed", "running"}

run_processor_call(c, t, line) ==
    /\ lock = NoOne
    /\ callers[c] = NoCall
    /\ callers' = [callers EXCEPT ![c] =
         [pc |-> IF Admitted(t, line) THEN "admitted" ELSE "answer",
          task |-> t, line |-> line, policy |-> configs[line.proc],
          digest |-> config_digest(configs[line.proc]), event |-> "Fail"]]

RequestProcessorCall(c, t, line) ==
    /\ run_processor_call(c, t, line)
    /\ UNCHANGED <<attemptVars, configs, calls, lock, sends, runVars>>

(* The configuration may have changed since the call was admitted. *)
check_origin(cfg, policy) == cfg.origin = policy.origin

(* Mutant: a call found dispatching is taken over. *)
prepare_call_TakesOver(c) ==
    /\ lock = NoOne
    /\ Under(c, "admitted")
    /\ LET cfg == configs[callers[c].line.proc]
           k == [CallKey(c) EXCEPT !.digest = config_digest(cfg)]
           to == IF ~check_origin(cfg, callers[c].policy) \/ calls[k] \in TerminalCall
                    \/ (calls[k] = "none" /\ Operations(callers[c].task) >= MaxOperations)
                 THEN "answer" ELSE "prepared"
       IN /\ callers' = [callers EXCEPT ![c].digest = k.digest, ![c].pc = to]
          /\ lock' = IF to = "prepared" THEN c ELSE NoOne
          /\ calls' = IF to = "prepared" THEN [calls EXCEPT ![k] = "prepared"] ELSE calls
    /\ UNCHANGED <<attemptVars, configs, sends, runVars>>

(* A key that is terminal is answered with its state, one that is          *)
(* dispatching with an error; a prepared one, which only a crash or a      *)
(* failing store call leaves, is dispatched.  A new one needs budget.      *)
prepare_call(c) ==
    /\ lock = NoOne
    /\ Under(c, "admitted")
    /\ LET cfg == configs[callers[c].line.proc]
           k == [CallKey(c) EXCEPT !.digest = config_digest(cfg)]
           ok == /\ check_origin(cfg, callers[c].policy)
                 /\ \/ calls[k] = "prepared"
                    \/ calls[k] = "none" /\ Operations(callers[c].task) < MaxOperations
       IN /\ callers' = [callers EXCEPT ![c].digest = k.digest,
                                        ![c].pc = IF ok THEN "prepared" ELSE "answer"]
          /\ lock' = IF ok THEN c ELSE NoOne
          /\ calls' = IF ok THEN [calls EXCEPT ![k] = "prepared"] ELSE calls
    /\ UNCHANGED <<attemptVars, configs, sends, runVars>>

(* Durable before the first byte leaves. *)
Dispatching(c) ==
    /\ lock = c
    /\ Under(c, "prepared")
    /\ advance_call(CallKey(c), "Dispatch")
    /\ Goes(c, "dispatching")
    /\ UNCHANGED <<attemptVars, configs, lock, sends, runVars>>

get_credential(c) ==
    /\ lock = c
    /\ Under(c, "dispatching")
    /\ lock' = NoOne
    /\ Goes(c, "resolving")
    /\ UNCHANGED <<attemptVars, configs, calls, sends, runVars>>

check_resolved_address(addr, policy) == addr \in Global \/ policy.local

Resolve(c, addr) ==
    /\ Under(c, "resolving")
    /\ IF addr # Unresolved /\ check_resolved_address(addr, callers[c].policy)
       THEN Goes(c, "connecting")
       ELSE Ends(c, "Fail")
    /\ UNCHANGED <<attemptVars, configs, calls, lock, sends, runVars>>

(* Until the handshake is done no byte has left: a clean failure. *)
ConnectFails(c) ==
    /\ Under(c, "connecting")
    /\ Ends(c, "Fail")
    /\ UNCHANGED <<attemptVars, configs, calls, lock, sends, runVars>>

(* From the first write on the request may have left. *)
SendRequest(c, left) ==
    /\ Under(c, "connecting")
    /\ sends' = IF left THEN [sends EXCEPT ![CallKey(c)] = IF @ = 2 THEN 2 ELSE @ + 1] ELSE sends
    /\ Goes(c, "exchange")
    /\ UNCHANGED <<attemptVars, configs, calls, lock, runVars>>

ResponseArrives(c) ==
    /\ Under(c, "exchange")
    /\ sends[CallKey(c)] > 0
    /\ Ends(c, "Complete")
    /\ UNCHANGED <<attemptVars, configs, calls, lock, sends, runVars>>

(* Mutant: no ceiling on the exchange. *)
ExchangeFails_Never(c) ==
    /\ FALSE
    /\ UNCHANGED vars

(* The ceiling of the exchange, a read or write error, or no HTTP          *)
(* response: uncertain.                                                    *)
ExchangeFails(c) ==
    /\ Under(c, "exchange")
    /\ Ends(c, "MarkAmbiguous")
    /\ UNCHANGED <<attemptVars, configs, calls, lock, sends, runVars>>

mark(c) ==
    /\ lock = NoOne
    /\ Under(c, "marking")
    /\ advance_call(CallKey(c), callers[c].event)
    /\ Goes(c, "answer")
    /\ UNCHANGED <<attemptVars, configs, lock, sends, runVars>>

AnswerOperator(c) ==
    /\ c \in Operators
    /\ Under(c, "answer")
    /\ callers' = [callers EXCEPT ![c] = NoCall]
    /\ UNCHANGED <<attemptVars, configs, calls, lock, sends, runVars>>

(* A store call fails inside a locked section, or the mark does: the       *)
(* caller is answered with an error and the row stays as it is.            *)
StoreFails(c) ==
    /\ lock \in {c, NoOne}
    /\ lock = c \/ Under(c, "marking")
    /\ lock' = NoOne
    /\ Goes(c, "answer")
    /\ UNCHANGED <<attemptVars, configs, calls, sends, runVars>>

-----------------------------------------------------------------------------
(* The worker and its channel. *)

(* Mutant: the worker is launched without the mark. *)
RunStart_Unmarked(t) ==
    /\ lock = NoOne
    /\ runs[t] = "none"
    /\ runs' = [runs EXCEPT ![t] = "running"]
    /\ chans' = [chans EXCEPT ![t].open = TRUE]
    /\ UNCHANGED <<attemptVars, configs, callVars, waiting>>

(* The attempt is marked Running, the worker launched, its channel served. *)
RunStart(t) ==
    /\ lock = NoOne
    /\ runs[t] = "none"
    /\ next(attempts[t], "Start") # {}
    /\ advance_attempt(t, "Start")
    /\ runs' = [runs EXCEPT ![t] = "running"]
    /\ chans' = [chans EXCEPT ![t].open = TRUE]
    /\ UNCHANGED <<configs, callVars, waiting>>

(* Mutant: the connection is locked for the write only. *)
forward_Unlocked(t, a, line) ==
    /\ runs[t] = "running" /\ chans[t].open
    /\ <<t, a>> \notin waiting
    /\ chans' = [chans EXCEPT ![t].lines = Append(@, [from |-> a, line |-> line])]
    /\ waiting' = waiting \cup {<<t, a>>}
    /\ UNCHANGED <<attemptVars, configs, callVars, runs>>

(* The proxy's mutex is held from the write to the reply. *)
forward(t, a, line) ==
    /\ runs[t] = "running" /\ chans[t].open
    /\ \A b \in Agents : <<t, b>> \notin waiting
    /\ chans' = [chans EXCEPT ![t].lines = Append(@, [from |-> a, line |-> line])]
    /\ waiting' = waiting \cup {<<t, a>>}
    /\ UNCHANGED <<attemptVars, configs, callVars, runs>>

(* The next reply, or the end of a channel the daemon closed. *)
ReadReply(t, a) ==
    /\ <<t, a>> \in waiting
    /\ \/ /\ chans[t].replies # <<>>
          /\ chans' = [chans EXCEPT ![t].replies = Tail(@)]
       \/ /\ chans[t].replies = <<>> /\ ~chans[t].open
          /\ UNCHANGED chans
    /\ waiting' = waiting \ {<<t, a>>}
    /\ UNCHANGED <<attemptVars, configs, callVars, runs>>

(* The worker exits or the wall clock kills its cgroup: its end closes,    *)
(* what it wrote stays to be read.                                         *)
WorkerReturns(t) ==
    /\ runs[t] = "running"
    /\ runs' = [runs EXCEPT ![t] = "returned"]
    /\ chans' = [chans EXCEPT ![t].replies = <<>>]
    /\ waiting' = {w \in waiting : w[1] # t}
    /\ UNCHANGED <<attemptVars, configs, callVars>>

ServeLine(t) ==
    /\ chans[t].open /\ chans[t].lines # <<>>
    /\ LET line == Head(chans[t].lines).line IN
         /\ line # Huge
         /\ run_processor_call(t, t, line)
    /\ UNCHANGED <<attemptVars, configs, calls, lock, sends, runVars>>

(* An oversized line is refused and ends the service. *)
RefuseHuge(t) ==
    /\ chans[t].open /\ chans[t].lines # <<>>
    /\ Head(chans[t].lines).line = Huge
    /\ chans' = [chans EXCEPT ![t].open = FALSE, ![t].lines = <<>>,
                   ![t].replies = IF runs[t] = "running"
                                  THEN Append(@, Head(chans[t].lines).from) ELSE @]
    /\ UNCHANGED <<attemptVars, configs, callVars, runs, waiting>>

(* The reply is written, unless the worker's end is closed; the service    *)
(* ends there, and after MaxRequests lines.                                *)
write_line(t) ==
    /\ Under(t, "answer")
    /\ callers' = [callers EXCEPT ![t] = NoCall]
    /\ LET ch == chans[t]
           more == runs[t] = "running" /\ ch.served + 1 < MaxRequests
       IN chans' = [chans EXCEPT ![t] =
            [open |-> more, lines |-> IF more THEN Tail(ch.lines) ELSE <<>>,
             replies |-> IF runs[t] = "running" THEN Append(ch.replies, Head(ch.lines).from)
                         ELSE <<>>,
             served |-> ch.served + 1]]
    /\ UNCHANGED <<attemptVars, configs, calls, lock, sends, runs, waiting>>

(* The worker's end is closed and everything it wrote is read; a reset     *)
(* socket loses the rest.                                                  *)
ChannelEnds(t) ==
    /\ runs[t] = "returned" /\ chans[t].open
    /\ callers[t] = NoCall
    /\ chans' = [chans EXCEPT ![t].open = FALSE, ![t].lines = <<>>]
    /\ UNCHANGED <<attemptVars, configs, callVars, runs, waiting>>

(* Mutant: the channel's thread is not joined. *)
RunRecords_Detached(t, ok) ==
    /\ lock = NoOne
    /\ runs[t] = "returned"
    /\ attempts' = [attempts EXCEPT ![t] = IF @ # "running" THEN @
                                           ELSE IF ok THEN "succeeded" ELSE "failed"]
    /\ runs' = [runs EXCEPT ![t] = "ended"]
    /\ UNCHANGED <<orders, configs, callVars, chans, waiting>>

(* The scope joins the channel's thread; then the result is recorded or    *)
(* the attempt marked Failed.                                              *)
RunRecords(t, ok) ==
    /\ lock = NoOne
    /\ runs[t] = "returned" /\ ~chans[t].open
    /\ attempts' = [attempts EXCEPT ![t] = IF @ # "running" THEN @
                                           ELSE IF ok THEN "succeeded" ELSE "failed"]
    /\ runs' = [runs EXCEPT ![t] = "ended"]
    /\ UNCHANGED <<orders, configs, callVars, chans, waiting>>

(* The operator completes the task by hand, also while a worker runs. *)
Fulfill(t) ==
    /\ lock = NoOne
    /\ attempts[t] \in {"claimed", "running"}
    /\ attempts' = [attempts EXCEPT ![t] = "succeeded"]
    /\ UNCHANGED <<orders, configs, callVars, runVars>>

(* The worker dies with the daemon; the restart resolves attempts and      *)
(* calls.                                                                  *)
Crash ==
    /\ resolve_crashed_attempts
    /\ resolve_crashed_calls
    /\ lock' = NoOne
    /\ callers' = [c \in Callers |-> NoCall]
    /\ runs' = [t \in Tasks |-> IF runs[t] = "none" THEN "none" ELSE "ended"]
    /\ chans' = [t \in Tasks |-> Closed]
    /\ waiting' = {}
    /\ UNCHANGED <<configs, sends>>

-----------------------------------------------------------------------------
CallStep(c) ==
    \/ prepare_call(c)
    \/ Dispatching(c)
    \/ get_credential(c)
    \/ \E addr \in Addresses \cup {Unresolved} : Resolve(c, addr)
    \/ ConnectFails(c)
    \/ \E left \in BOOLEAN : SendRequest(c, left)
    \/ ResponseArrives(c)
    \/ ExchangeFails(c)
    \/ mark(c)
    \/ AnswerOperator(c)
    \/ StoreFails(c)

RunStep(t) ==
    \/ ServeLine(t)
    \/ RefuseHuge(t)
    \/ write_line(t)
    \/ ChannelEnds(t)
    \/ \E ok \in BOOLEAN : RunRecords(t, ok)

Next ==
    \/ \E p \in Procs, cfg \in Configs : put_processor(p, cfg)
    \/ \E c \in Operators, t \in Tasks, line \in CallLine : RequestProcessorCall(c, t, line)
    \/ \E c \in Callers : CallStep(c)
    \/ \E t \in Tasks :
         \/ RunStart(t)
         \/ \E a \in Agents : ReadReply(t, a) \/ \E line \in Line : forward(t, a, line)
         \/ WorkerReturns(t)
         \/ RunStep(t)
         \/ Fulfill(t)
    \/ Crash

Spec == Init /\ [][Next]_vars

(* A thread goes on and gets the store lock in the end; the resolver       *)
(* answers, the connect, handshake and exchange have their ceilings, and   *)
(* the wall clock ends the worker.                                         *)
FairSpec ==
    /\ Spec
    /\ \A c \in Callers : SF_vars(CallStep(c))
    /\ \A t \in Tasks : SF_vars(RunStep(t)) /\ WF_vars(WorkerReturns(t))

-----------------------------------------------------------------------------
(* No request is disclosed twice: however callers repeat a call, share its *)
(* key, crash or meet a failing store, its bytes leave the host at most    *)
(* once ("never re-dispatches a call", dispatch_processor_call).           *)
SentOnce == \A k \in Key : sends[k] <= 1

(* The recorded state is honest: what is recorded as not sent, or as       *)
(* failed, never left the host, and what is recorded as completed did.     *)
HonestOutcome ==
    \A k \in Key :
        /\ calls[k] \in {"none", "prepared", "failed", "cancelled"} => sends[k] = 0
        /\ calls[k] = "completed" => sends[k] > 0

(* The work order's aggregate operation cap bounds the disclosures made    *)
(* under it, whoever asks and whatever became of each (prepare_call).      *)
WithinBudget ==
    \A t \in Tasks :
        Cardinality({k \in Key : k.task = t /\ (calls[k] # "none" \/ sends[k] > 0)})
          <= MaxOperations

(* A run is over only when no call of its worker is under way: what the    *)
(* worker asked for is decided before the attempt's outcome (the scope of  *)
(* run_worker).                                                            *)
RunOutlivesItsCalls == \A t \in Tasks : runs[t] \in {"none", "ended"} => callers[t] = NoCall

(* An agent reads the reply to its own line, however many share the        *)
(* channel (LoopbackProxy::forward).                                       *)
ReplyIsMine ==
    [][\A t \in Tasks, a \in Agents :
         <<t, a>> \in waiting /\ <<t, a>> \notin waiting' /\ chans'[t].replies # chans[t].replies
           /\ runs'[t] = "running"
           => Head(chans[t].replies) = a]_vars

(* A run with its channel and calls is a step in the life of a task, too,  *)
(* from the issued order on: whatever its calls come to, the worker starts *)
(* once and the outcome is recorded once.                                  *)
startedOf(t) == IF runs[t] = "none" THEN 0 ELSE 1
deliveredOf(t) == IF attempts[t] = "succeeded" THEN "result" ELSE "none"

Life == INSTANCE TaskLife WITH
    First <- "claimed",
    Undelivered <- "none",
    life <- attempts,
    ordered <- orders,
    started <- [t \in Tasks |-> startedOf(t)],
    delivered <- [t \in Tasks |-> deliveredOf(t)]

ImplementsTaskLife == Life!Spec

(* A launched run ends, also with a call in flight to a processor that     *)
(* never answers.                                                          *)
RunEnds == \A t \in Tasks : runs[t] = "running" ~> runs[t] = "ended"
=============================================================================
