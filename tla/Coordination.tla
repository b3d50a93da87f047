----------------------------- MODULE Coordination -----------------------------
(***************************************************************************)
(* The outbound coordination surface (ADR-0016): a driver stages bytes for *)
(* a labelled peer, the operator mints a one-shot consent receipt, and     *)
(* `dispatch` spends it and carries the bytes to the recipient, which      *)
(* deduplicates by dispatch receipt and acknowledges.                      *)
(*                                                                         *)
(* The store lock makes a locked section one step.  `dispatch` releases it *)
(* while it carries, so a call is cut into: the locked spend, the post,    *)
(* the wait, and the locked record of what happened.  Several calls, also  *)
(* under one execution key, run at once (the coord socket serves its       *)
(* connections concurrently); any of them may be cut short by a crash.     *)
(***************************************************************************)
EXTENDS Imports

CONSTANTS
    Stages,         \* staged contents: (payload, performer, task type) digests
    Performer,      \* the label each content names; NoLabel when it names none
    Receipts,       \* consent receipt ids
    ExecKeys,       \* execution keys a driver may present
    Carriages,      \* dispatch calls that may be under way at once
    MaxArrivals,    \* bound on arrival events of one dispatch at one recipient
    NoRow,          \* an absent consent or dispatch row
    NoCall,         \* a carriage slot with no dispatch call in it
    NoMsg           \* a carriage slot with no message on its connection

EgressState == {"pending", "sent", "failed"}
ConsentRow == [stage : Stages, uses : {0, 1}, shown : SUBSET Roots]
DispatchRow == [stage : Stages, receipt : Receipts, egress : EgressState]
Call == [pc : {"routed", "waiting", "acked", "failed"}, key : ExecKeys, root : Roots]
BodyType == [id : ExecKeys, stage : Stages, receipt : Receipts, recipient : Roots]
Msg == [at : {"sent", "admitting", "ok", "no"}, body : BodyType]

ASSUME CoordinationAssumption ==
    /\ Performer \in [Stages -> Labels \cup {NoLabel}]
    /\ MaxArrivals \in Nat \ {0}
    /\ NoRow \notin ConsentRow \cup DispatchRow
    /\ NoCall \notin Call
    /\ NoMsg \notin Msg

VARIABLES
    staged,       \* coord_staged.status, "none" before staging
    consents,     \* coord_consents; `shown` is the root the risk card printed
    dispatches,   \* coord_dispatches, keyed by execution key
    calls,        \* the sender's dispatch calls, between their locked sections
    wire,         \* the exchange each carriage slot has on the network
    inbox,        \* per recipient: the bodies its inbox_objects holds
    arrivals,     \* per recipient and dispatch: `dispatch_received` events
    carriedTo     \* history: the recipients a dispatch's bytes were written to

storeVars == <<staged, consents, dispatches>>
farVars == <<inbox, arrivals>>
vars == <<importVars, storeVars, calls, wire, farVars, carriedTo>>

TypeOK ==
    /\ ImportsTypeOK
    /\ staged \in [Stages -> {"none", "staged", "consented", "dispatched"}]
    /\ consents \in [Receipts -> ConsentRow \cup {NoRow}]
    /\ dispatches \in [ExecKeys -> DispatchRow \cup {NoRow}]
    /\ calls \in [Carriages -> Call \cup {NoCall}]
    /\ wire \in [Carriages -> Msg \cup {NoMsg}]
    /\ inbox \in [Roots -> SUBSET BodyType]
    /\ arrivals \in [Roots -> [ExecKeys -> 0..MaxArrivals]]
    /\ carriedTo \in [ExecKeys -> SUBSET Roots]

Init ==
    /\ ImportsInit
    /\ staged = [s \in Stages |-> "none"]
    /\ consents = [rc \in Receipts |-> NoRow]
    /\ dispatches = [k \in ExecKeys |-> NoRow]
    /\ calls = [c \in Carriages |-> NoCall]
    /\ wire = [c \in Carriages |-> NoMsg]
    /\ inbox = [r \in Roots |-> {}]
    /\ arrivals = [r \in Roots |-> [k \in ExecKeys |-> 0]]
    /\ carriedTo = [k \in ExecKeys |-> {}]

-----------------------------------------------------------------------------
(* The operator's peer commands, and introductions.  A commit whose epoch  *)
(* snapshot is stale changes nothing, so only the current one is a step.   *)

PeerAdd(r, l) ==
    /\ add_peer_import(r, l) \/ update_peer_import(r, l)
    /\ UNCHANGED <<storeVars, calls, wire, farVars, carriedTo>>

PeerImportRemove(r) ==
    /\ remove_relationship(r)
    /\ UNCHANGED <<storeVars, calls, wire, farVars, carriedTo>>

Introduced(r, changed) ==
    /\ commit_introduced_peer(r, imports[r].epoch, changed)
    /\ UNCHANGED <<storeVars, calls, wire, farVars, carriedTo>>

-----------------------------------------------------------------------------
(* Staging and consent. *)

stage(s) ==
    /\ Performer[s] # NoLabel => peer_import_by_label(Performer[s]) # {}
    /\ staged[s] = "none"
    /\ staged' = [staged EXCEPT ![s] = "staged"]
    /\ UNCHANGED <<importVars, consents, dispatches, calls, wire, farVars, carriedTo>>

unconsumed_consent(s) ==
    {rc \in Receipts : /\ consents[rc] # NoRow
                       /\ consents[rc].stage = s
                       /\ consents[rc].uses < 1}

coord_dispatch(s) ==
    {k \in ExecKeys : dispatches[k] # NoRow /\ dispatches[k].stage = s}

(* The root thumbprint the risk card prints: what the label names now. *)
risk_card(s) ==
    IF Performer[s] = NoLabel THEN {} ELSE peer_import_by_label(Performer[s])

(* Mutant: consent without consulting the dispatch ledger. *)
stage_consent_NoLedger(s, rc) ==
    /\ staged[s] # "none"
    /\ unconsumed_consent(s) = {}
    /\ consents[rc] = NoRow
    /\ consents' = [consents EXCEPT ![rc] =
                      [stage |-> s, uses |-> 0, shown |-> risk_card(s)]]
    /\ staged' = [staged EXCEPT ![s] = "consented"]
    /\ UNCHANGED <<importVars, dispatches, calls, wire, farVars, carriedTo>>

stage_consent(s, rc) ==
    /\ staged[s] # "none"
    /\ unconsumed_consent(s) = {}
    /\ coord_dispatch(s) = {}
    /\ consents[rc] = NoRow            \* receipt ids are fresh random names
    /\ consents' = [consents EXCEPT ![rc] =
                      [stage |-> s, uses |-> 0, shown |-> risk_card(s)]]
    /\ staged' = [staged EXCEPT ![s] = "consented"]
    /\ UNCHANGED <<importVars, dispatches, calls, wire, farVars, carriedTo>>

-----------------------------------------------------------------------------
(* Dispatch: route and spend under the lock, then carry without it. *)

(* The one active, pinned peer the staged label names now. *)
resolve_route(s, r) ==
    /\ Performer[s] # NoLabel
    /\ r \in peer_import_by_label(Performer[s])
    /\ peers[r] = "active"

(* Mutant: the compare-and-set does not ask for an unspent receipt. *)
dispatch_staged_NoCas(s, rc, k) ==
    /\ dispatches[k] = NoRow
    /\ consents[rc] # NoRow
    /\ consents[rc].stage = s
    /\ consents' = [consents EXCEPT ![rc].uses = @ + 1]
    /\ dispatches' = [dispatches EXCEPT ![k] =
                        [stage |-> s, receipt |-> rc, egress |-> "pending"]]
    /\ staged' = [staged EXCEPT ![s] = "dispatched"]

(* Mutant: the compare-and-set does not bind the receipt to its stage. *)
dispatch_staged_AnyStage(s, rc, k) ==
    /\ dispatches[k] = NoRow
    /\ consents[rc] # NoRow
    /\ consents[rc].uses < 1
    /\ consents' = [consents EXCEPT ![rc].uses = @ + 1]
    /\ dispatches' = [dispatches EXCEPT ![k] =
                        [stage |-> s, receipt |-> rc, egress |-> "pending"]]
    /\ staged' = [staged EXCEPT ![s] = "dispatched"]

(* The compare-and-set that spends a receipt and commits the dispatch. *)
dispatch_staged(s, rc, k) ==
    /\ dispatches[k] = NoRow
    /\ consents[rc] # NoRow
    /\ consents[rc].stage = s
    /\ consents[rc].uses < 1
    /\ consents' = [consents EXCEPT ![rc].uses = @ + 1]
    /\ dispatches' = [dispatches EXCEPT ![k] =
                        [stage |-> s, receipt |-> rc, egress |-> "pending"]]
    /\ staged' = [staged EXCEPT ![s] = "dispatched"]

(* Mutant: a failed carriage is taken for final. *)
egress_may_be_attempted_Pending(s, rc, k) ==
    /\ dispatches[k] # NoRow
    /\ dispatches[k].stage = s
    /\ dispatches[k].receipt = rc
    /\ dispatches[k].egress = "pending"
    /\ UNCHANGED storeVars

(* AlreadyDispatched, with bytes not known to have left. *)
egress_may_be_attempted(s, rc, k) ==
    /\ dispatches[k] # NoRow
    /\ dispatches[k].stage = s
    /\ dispatches[k].receipt = rc
    /\ dispatches[k].egress # "sent"
    /\ UNCHANGED storeVars

(* The locked section of a dispatch call that goes on to carry.  Every     *)
(* refusal (unroutable, consent spent or unknown, key conflict) and a      *)
(* retry of a dispatch already sent change nothing.  The slot must be free *)
(* on both ends of its last connection.                                    *)
dispatch(c, s, rc, k, r) ==
    /\ calls[c] = NoCall
    /\ wire[c] = NoMsg
    /\ staged[s] # "none"
    /\ resolve_route(s, r)
    /\ dispatch_staged(s, rc, k) \/ egress_may_be_attempted(s, rc, k)
    /\ calls' = [calls EXCEPT ![c] = [pc |-> "routed", key |-> k, root |-> r]]
    /\ UNCHANGED <<importVars, wire, farVars, carriedTo>>

(* Mutant: a serialisation whose member order differs from call to call. *)
message_body_Unstable(c) ==
    LET row == dispatches[calls[c].key]
    IN  [id        |-> calls[c].key,
         stage     |-> row.stage,
         receipt   |-> row.receipt,
         recipient |-> calls[c].root,
         order     |-> c]

(* The bytes of one carriage.  The message id is the dispatch receipt of   *)
(* the row, one per execution key; the envelope names the recipient root.  *)
message_body(c) ==
    LET row == dispatches[calls[c].key]
    IN  [id        |-> calls[c].key,
         stage     |-> row.stage,
         receipt   |-> row.receipt,
         recipient |-> calls[c].root]

(* Connected: the request is written to the pinned peer. *)
Post(c) ==
    /\ calls[c] # NoCall
    /\ calls[c].pc = "routed"
    /\ wire' = [wire EXCEPT ![c] = [at |-> "sent", body |-> message_body(c)]]
    /\ calls' = [calls EXCEPT ![c].pc = "waiting"]
    /\ carriedTo' = [carriedTo EXCEPT ![calls[c].key] = @ \cup {calls[c].root}]
    /\ UNCHANGED <<importVars, storeVars, farVars>>

(* Name resolution, TCP or TLS failed or timed out: nothing was written. *)
PostFails(c) ==
    /\ calls[c] # NoCall
    /\ calls[c].pc = "routed"
    /\ calls' = [calls EXCEPT ![c].pc = "failed"]
    /\ UNCHANGED <<importVars, storeVars, wire, farVars, carriedTo>>

(* Mutant: any answer of the peer counts as an acknowledgement. *)
AnswerArrives_AnyStatus(c) ==
    /\ calls[c] # NoCall
    /\ calls[c].pc = "waiting"
    /\ wire[c] # NoMsg
    /\ wire[c].at \in {"ok", "no"}
    /\ calls' = [calls EXCEPT ![c].pc = "acked"]
    /\ wire' = [wire EXCEPT ![c] = NoMsg]
    /\ UNCHANGED <<importVars, storeVars, farVars, carriedTo>>

(* A 200 that echoes the staged digest is an acknowledgement; any other    *)
(* answer is a failed carriage.                                            *)
AnswerArrives(c) ==
    /\ calls[c] # NoCall
    /\ calls[c].pc = "waiting"
    /\ wire[c] # NoMsg
    /\ wire[c].at \in {"ok", "no"}
    /\ calls' = [calls EXCEPT ![c].pc = IF wire[c].at = "ok" THEN "acked" ELSE "failed"]
    /\ wire' = [wire EXCEPT ![c] = NoMsg]
    /\ UNCHANGED <<importVars, storeVars, farVars, carriedTo>>

(* Mutant: an exchange without a ceiling. *)
Timeout_Never(c) ==
    /\ calls[c] # NoCall
    /\ calls[c].pc = "unbounded"
    /\ UNCHANGED vars

(* The exchange timed out or the connection broke.  What was written may   *)
(* still be under way.                                                     *)
Timeout(c) ==
    /\ calls[c] # NoCall
    /\ calls[c].pc = "waiting"
    /\ calls' = [calls EXCEPT ![c].pc = "failed"]
    /\ UNCHANGED <<importVars, storeVars, wire, farVars, carriedTo>>

(* Mutant: the last report wins. *)
record_egress_LastWins(k, state) ==
    dispatches' = [dispatches EXCEPT ![k].egress = state]

(* `UPDATE ... WHERE egress_state != 'sent'` *)
record_egress(k, state) ==
    dispatches' = [dispatches EXCEPT ![k].egress = IF @ = "sent" THEN @ ELSE state]

RecordCarriage(c) ==
    /\ calls[c] # NoCall
    /\ calls[c].pc \in {"acked", "failed"}
    /\ record_egress(calls[c].key, IF calls[c].pc = "acked" THEN "sent" ELSE "failed")
    /\ calls' = [calls EXCEPT ![c] = NoCall]
    /\ UNCHANGED <<importVars, staged, consents, wire, farVars, carriedTo>>

(* The trusted clock is uncertain: the call returns without a record. *)
RecordSkipped(c) ==
    /\ calls[c] # NoCall
    /\ calls[c].pc \in {"acked", "failed"}
    /\ calls' = [calls EXCEPT ![c] = NoCall]
    /\ UNCHANGED <<importVars, storeVars, wire, farVars, carriedTo>>

(* The daemon dies: its calls are gone, its store and the network are not. *)
Crash ==
    /\ \E c \in Carriages : calls[c] # NoCall
    /\ calls' = [c \in Carriages |-> NoCall]
    /\ UNCHANGED <<importVars, storeVars, wire, farVars, carriedTo>>

-----------------------------------------------------------------------------
(* The recipient.  One message is handled under its store lock at a time;  *)
(* an admission is two commits, the arrival event and the inbox record.    *)

Admitting(r) == \E c \in Carriages :
    wire[c] # NoMsg /\ wire[c].at = "admitting" /\ wire[c].body.recipient = r

(* admit: the idempotency lookup by message id. *)
PriorSighting(c) ==
    {b \in inbox[wire[c].body.recipient] : b.id = wire[c].body.id}

(* Mutant: the arrival is recorded before the idempotency lookup. *)
RecvFresh_NoLookup(c) ==
    /\ wire[c] # NoMsg
    /\ wire[c].at = "sent"
    /\ ~Admitting(wire[c].body.recipient)
    /\ arrivals[wire[c].body.recipient][wire[c].body.id] < MaxArrivals
    /\ arrivals' = [arrivals EXCEPT ![wire[c].body.recipient][wire[c].body.id] = @ + 1]
    /\ wire' = [wire EXCEPT ![c].at = "admitting"]
    /\ UNCHANGED <<importVars, storeVars, calls, inbox, carriedTo>>

RecvFresh(c) ==
    /\ wire[c] # NoMsg
    /\ wire[c].at = "sent"
    /\ ~Admitting(wire[c].body.recipient)
    /\ PriorSighting(c) = {}
    /\ arrivals[wire[c].body.recipient][wire[c].body.id] < MaxArrivals
    /\ arrivals' = [arrivals EXCEPT ![wire[c].body.recipient][wire[c].body.id] = @ + 1]
    /\ wire' = [wire EXCEPT ![c].at = "admitting"]
    /\ UNCHANGED <<importVars, storeVars, calls, inbox, carriedTo>>

(* receive_request, then the acknowledgement. *)
RecvCommit(c) ==
    /\ wire[c] # NoMsg
    /\ wire[c].at = "admitting"
    /\ inbox' = [inbox EXCEPT ![wire[c].body.recipient] = @ \cup {wire[c].body}]
    /\ wire' = [wire EXCEPT ![c].at = "ok"]
    /\ UNCHANGED <<importVars, storeVars, calls, arrivals, carriedTo>>

(* A duplicate replays the stored acknowledgement; a changed body under a  *)
(* known id is a conflict.                                                 *)
RecvAgain(c) ==
    /\ wire[c] # NoMsg
    /\ wire[c].at = "sent"
    /\ ~Admitting(wire[c].body.recipient)
    /\ PriorSighting(c) # {}
    /\ wire' = [wire EXCEPT ![c].at =
                  IF PriorSighting(c) = {wire[c].body} THEN "ok" ELSE "no"]
    /\ UNCHANGED <<importVars, storeVars, calls, farVars, carriedTo>>

(* The recipient does not hold the sender active, or has no trusted time.  *)
RecvRefuse(c) ==
    /\ wire[c] # NoMsg
    /\ wire[c].at = "sent"
    /\ ~Admitting(wire[c].body.recipient)
    /\ wire' = [wire EXCEPT ![c].at = "no"]
    /\ UNCHANGED <<importVars, storeVars, calls, farVars, carriedTo>>

(* A request or an answer is lost, or the recipient crashes while handling *)
(* it, between its two commits included (MaxArrivals - 1 times at most).   *)
Lose(c) ==
    /\ wire[c] # NoMsg
    /\ wire[c].at = "admitting" =>
         arrivals[wire[c].body.recipient][wire[c].body.id] < MaxArrivals
    /\ wire' = [wire EXCEPT ![c] = NoMsg]
    /\ UNCHANGED <<importVars, storeVars, calls, farVars, carriedTo>>

-----------------------------------------------------------------------------
Next ==
    \/ \E r \in Roots, l \in Labels : PeerAdd(r, l)
    \/ \E r \in Roots : PeerImportRemove(r)
    \/ \E r \in Roots, changed \in BOOLEAN : Introduced(r, changed)
    \/ \E s \in Stages : stage(s)
    \/ \E s \in Stages, rc \in Receipts : stage_consent(s, rc)
    \/ \E c \in Carriages, s \in Stages, rc \in Receipts, k \in ExecKeys, r \in Roots :
         dispatch(c, s, rc, k, r)
    \/ \E c \in Carriages : Post(c)
    \/ \E c \in Carriages : PostFails(c)
    \/ \E c \in Carriages : AnswerArrives(c)
    \/ \E c \in Carriages : Timeout(c)
    \/ \E c \in Carriages : RecordCarriage(c)
    \/ \E c \in Carriages : RecordSkipped(c)
    \/ Crash
    \/ \E c \in Carriages : RecvFresh(c)
    \/ \E c \in Carriages : RecvCommit(c)
    \/ \E c \in Carriages : RecvAgain(c)
    \/ \E c \in Carriages : RecvRefuse(c)
    \/ \E c \in Carriages : Lose(c)

Spec == Init /\ [][Next]_vars

(* Fairness.  A call under way always takes its next step: every network   *)
(* stage of post_a2a runs under a ceiling, and the lock is never held      *)
(* across the network.  A recipient handles what reaches it, and an        *)
(* exchange its caller gave up on does not linger for ever.                *)
CallFairness == \A c \in Carriages :
    /\ WF_vars(Post(c) \/ PostFails(c))
    /\ WF_vars(AnswerArrives(c) \/ Timeout(c))
    /\ WF_vars(RecordCarriage(c) \/ RecordSkipped(c))
    /\ WF_vars(RecvFresh(c) \/ RecvAgain(c) \/ RecvRefuse(c))
    /\ WF_vars(RecvCommit(c))
    /\ WF_vars(calls[c] = NoCall /\ Lose(c))

(* The driver's side of the recovery protocol: it keeps presenting an      *)
(* execution key whose dispatch is not known to have been acknowledged.    *)
Retry(k) ==
    /\ dispatches[k] # NoRow
    /\ \E c \in Carriages, r \in Roots :
         dispatch(c, dispatches[k].stage, dispatches[k].receipt, k, r)

FairSpec ==
    /\ Spec
    /\ CallFairness
    /\ \A k \in ExecKeys : WF_vars(Retry(k))

(* What interrupts a carriage. *)
Failure ==
    \/ Crash
    \/ \E c \in Carriages :
         \/ PostFails(c)
         \/ Timeout(c)
         \/ RecordSkipped(c)
         \/ RecvRefuse(c)
         \/ calls[c] # NoCall /\ Lose(c)

-----------------------------------------------------------------------------
(* Properties. *)

(* At most one dispatch ever exists for a staged content, whatever consents, *)
(* execution keys, retries and crashes come in whatever order: stage_consent *)
(* consults the dispatch ledger and dispatch_staged spends by compare-and-set. *)
OneDispatchPerStage ==
    \A k1, k2 \in ExecKeys :
        (/\ dispatches[k1] # NoRow
         /\ dispatches[k2] # NoRow
         /\ dispatches[k1].stage = dispatches[k2].stage) => k1 = k2

(* Every body on the network or in a recipient's inbox is backed by a committed *)
(* dispatch of exactly that content under exactly that receipt, and the receipt *)
(* was minted for that content and is spent: durable before effect (dispatch).  *)
Backed(b) ==
    /\ dispatches[b.id] # NoRow
    /\ dispatches[b.id].stage = b.stage
    /\ dispatches[b.id].receipt = b.receipt
    /\ consents[b.receipt] # NoRow
    /\ consents[b.receipt].stage = b.stage
    /\ consents[b.receipt].uses = 1

EveryByteIsConsented ==
    /\ \A c \in Carriages : wire[c] # NoMsg => Backed(wire[c].body)
    /\ \A r \in Roots : \A b \in inbox[r] : Backed(b)

(* `sent` is recorded only for bytes some recipient durably holds: carry       *)
(* requires a 200 that echoes the digest, and the recipient commits its inbox  *)
(* record before it answers.                                                   *)
SentMeansAdmitted ==
    \A k \in ExecKeys :
        (dispatches[k] # NoRow /\ dispatches[k].egress = "sent") =>
            \E r \in carriedTo[k] : \E b \in inbox[r] : b.id = k

(* A re-carried dispatch never meets a 409 at a recipient that already holds   *)
(* it: message_body yields the same bytes for the same dispatch and recipient. *)
RetryNeverConflicts ==
    \A c \in Carriages :
        wire[c] # NoMsg => PriorSighting(c) \subseteq {wire[c].body}

(* A late failure never un-sends a dispatch: record_egress leaves `sent`. *)
SentIsFinal ==
    [][\A k \in ExecKeys :
         (dispatches[k] # NoRow /\ dispatches[k].egress = "sent") =>
             dispatches'[k] = dispatches[k]]_vars

(* Once a recipient's inbox holds a dispatch, no later carriage of it appends  *)
(* another arrival event there (admit looks the message id up first).          *)
NoArrivalAfterRecord ==
    [][\A r \in Roots : \A b \in inbox[r] : arrivals'[r][b.id] = arrivals[r][b.id]]_vars

(* A dispatch call never hangs: whatever the peer does, it returns. *)
CallsReturn == \A c \in Carriages : calls[c] # NoCall ~> calls[c] = NoCall

(* Once failures stop, a committed dispatch is acknowledged, whatever crashes, *)
(* lost requests and lost answers came before, unless its label stops naming   *)
(* an active peer: a retry under the same execution key resumes the carriage   *)
(* (re_disclose) and the recipient answers a duplicate as it did the first.    *)
RetriedDispatchIsSent ==
    <>[][~Failure]_vars =>
        \A k \in ExecKeys :
            dispatches[k] # NoRow ~>
                (/\ dispatches[k] # NoRow
                 /\ \/ dispatches[k].egress = "sent"
                    \/ \A r \in Roots : ~resolve_route(dispatches[k].stage, r))

(* Refinement: the surface implements the disclosure promise. *)
phaseOf(s) ==
    IF \E k \in coord_dispatch(s) : dispatches[k].egress = "sent" THEN "acknowledged"
    ELSE IF staged[s] = "dispatched" THEN "spent" ELSE staged[s]

Promise == INSTANCE Disclosure WITH
    phase <- [s \in Stages |-> phaseOf(s)],
    disclosed <- [s \in Stages |-> UNION {carriedTo[k] : k \in coord_dispatch(s)}]

(* Every behaviour of the surface is a behaviour of Disclosure. *)
ImplementsDisclosure == Promise!Spec

(* When the consent card printed a root, the receipt minted with it is spent   *)
(* only on a disclosure to that root (stage_consent, risk_card, dispatch).     *)
CardNamesTheRecipient ==
    \A k \in ExecKeys : dispatches[k] # NoRow =>
        LET shown == consents[dispatches[k].receipt].shown
        IN  shown # {} => carriedTo[k] \subseteq shown

=============================================================================
