--------------------------- MODULE ExchangeProofs ---------------------------
(***************************************************************************)
(* What the exchange of a Task keeps for any messages, submissions and     *)
(* number of connections: an outcome is over exactly what the performer    *)
(* signed, the performer is told "delivered" only of an outcome on disk,   *)
(* a contract that lapsed opens no head and gets no work order, and a      *)
(* proposal answered with a Task left that Task whole.                     *)
(*                                                                         *)
(* The signed result of a Task never changes, so a delivery under way      *)
(* carries it however long it travels (Jobs); the handler's lock is held   *)
(* for a request that is still posted, at a time before the contract's end *)
(* (Handler); and no time acted on is past the trusted one (Clock).        *)
(***************************************************************************)
EXTENDS Exchange, FiniteSetTheorems, WellFoundedInduction, TLAPS

Domains ==
    /\ DOMAIN conns = Conns
    /\ DOMAIN heads = Tasks
    /\ DOMAIN results = Tasks
    /\ DOMAIN outputs = Tasks
    /\ DOMAIN sent_requests = Tasks
    /\ DOMAIN outcomes = Tasks
    /\ DOMAIN held = Tasks

Clock ==
    /\ wall \in Nat /\ floor \in Nat /\ latest \in Nat
    /\ latest <= floor

Connection(conn) ==
    \/ conn = Idle
    \/ /\ DOMAIN conn = {"kind", "body", "at", "up", "reply"}
       /\ conn.kind \in {"send", "resend", "result"}
       /\ conn.kind \in ToPerformer => conn.body \in Mail

Job(conn, signed, recorded) ==
    conn.kind = "result" =>
        /\ conn.body.task \in Tasks
        /\ signed[conn.body.task] # None
        /\ conn.body.envelope = signed[conn.body.task]
        /\ IsFiniteSet(conn.body.delivered)
        /\ conn.at = "answered" /\ conn.reply.status = 200 =>
              recorded[conn.body.task] = conn.body.envelope.payload

Jobs == \A k \in Conns : Connection(conns[k]) /\ Job(conns[k], results, outcomes)

Manifested(t, envelope) ==
    /\ envelope.payload.contract_digest = t
    /\ \E sub \in Submissions : envelope.payload.outputs = {Entry(o) : o \in sub}

Signed ==
    \A t \in Tasks :
        /\ results[t] # None => Manifested(t, results[t])
        /\ IsFiniteSet(outputs[t])

Handler ==
    lock # Free =>
        /\ DOMAIN lock = {"at", "conn", "message"}
        /\ lock.at # "free"
        /\ lock.conn \in Conns
        /\ lock.message \in Mail
        /\ conns[lock.conn].kind \in ToPerformer
        /\ conns[lock.conn].at = "posted"
        /\ lock.at = "submit" => latest < ContractOf[lock.message].expires_at

IInv == Domains /\ Clock /\ Jobs /\ Signed /\ AcceptedIsSigned /\ Handler

-----------------------------------------------------------------------------
(* The operators. *)

(* The trusted time is the later of two clocks. *)
LEMMA LaterFacts ==
    ASSUME NEW a \in Nat, NEW b \in Nat
    PROVE  Later(a, b) \in Nat /\ a <= Later(a, b) /\ b <= Later(a, b)
                /\ \A c \in Nat : a <= c /\ b <= c => Later(a, b) <= c
BY DEF Later

(* check_outputs: as many deliveries as entries, and one for each entry,   *)
(* leave no delivery that is not an entry.                                 *)
LEMMA MatchIsExact ==
    ASSUME NEW sub, NEW delivered, IsFiniteSet(delivered),
           OutputsMatch({Entry(o) : o \in sub}, delivered)
    PROVE  {Entry(o) : o \in delivered} = {Entry(o) : o \in sub}
<1> DEFINE E == {Entry(o) : o \in sub}
           D == {Entry(o) : o \in delivered}
           f == [o \in delivered |-> Entry(o)]
<1>1. E \subseteq D
  <2> SUFFICES ASSUME NEW o \in sub PROVE Entry(o) \in D
    OBVIOUS
  <2>1. PICK d \in delivered :
            /\ d.artifact_id = Entry(o).artifact_id
            /\ Len(d.bytes) = Entry(o).byte_length
            /\ sha256(d.bytes) = Entry(o).sha256
    BY Zenon DEF OutputsMatch
  <2>2. Entry(d) = Entry(o)
    BY <2>1 DEF Entry
  <2> QED
    BY <2>2
<1>2. f \in Surjection(delivered, D)
  BY DEF Surjection
<1> HIDE DEF f
<1>3. IsFiniteSet(D) /\ Cardinality(D) <= Cardinality(delivered)
  BY <1>2, FS_Surjection
<1>4. Cardinality(delivered) = Cardinality(E)
  BY DEF OutputsMatch
<1> HIDE DEF D, E
<1>5. IsFiniteSet(E) /\ Cardinality(E) <= Cardinality(D) /\ (Cardinality(D) = Cardinality(E) => D = E)
  BY <1>1, <1>3, FS_Subset
<1>6. Cardinality(D) \in Nat /\ Cardinality(E) \in Nat
  BY <1>3, <1>5, FS_CardinalityType
<1>7. D = E
  BY <1>3, <1>4, <1>5, <1>6
<1> QED
  BY <1>7 DEF D, E

(* One Task, one contract: what the head keeps is what the message carries. *)
LEMMA StoredIsCarried ==
    ASSUME NEW m \in Mail
    PROVE  /\ TaskOf[m] \in Tasks
           /\ Stored[TaskOf[m]] = ContractOf[m]
           /\ ContractOf[m].expires_at \in Int
<1>1. TaskOf[m] \in Tasks
  BY DEF Tasks
<1> DEFINE n == CHOOSE n \in Mail : TaskOf[n] = TaskOf[m]
<1>2. n \in Mail /\ TaskOf[n] = TaskOf[m]
  OBVIOUS
<1>3. Stored[TaskOf[m]] = ContractOf[n]
  BY <1>1 DEF Stored
<1> HIDE DEF n
<1> QED
  BY <1>1, <1>2, <1>3, ContractAssumption

(* receive_proposal ends with the validity window: a contract found valid  *)
(* has not ended at trusted time.                                          *)
LEMMA ValidIsCurrent ==
    ASSUME NEW m \in Mail, Valid(m), TrustedNow \in Nat
    PROVE  TrustedNow < ContractOf[m].expires_at
<1>1. validity(ContractOf[m], TrustedNow, Leeway) = "Valid"
  BY DEF Valid, receive_proposal, ContractOf
<1>2. ContractOf[m].expires_at \in Int
  BY ContractAssumption
<1> QED
  BY <1>1, <1>2 DEF validity

(* observe_time: the floor is the trusted time, and no time acted on is    *)
(* past it.                                                                *)
LEMMA ObserveStep ==
    ASSUME Clock, observe_time
    PROVE  Clock' /\ TrustedNow \in Nat /\ latest' <= TrustedNow
<1>1. TrustedNow \in Nat /\ wall <= TrustedNow /\ floor <= TrustedNow
  BY LaterFacts DEF Clock, TrustedNow
<1>2. latest <= TrustedNow
  BY <1>1 DEF Clock
<1>3. latest' \in Nat /\ latest' <= TrustedNow
  BY <1>1, <1>2, LaterFacts DEF Clock, observe_time
<1> QED
  BY <1>1, <1>3 DEF Clock, observe_time

-----------------------------------------------------------------------------
(* The connections. *)

(* The end of a request: its dialer reads the answer, or is gone. *)
LEMMA AnsweredKeeps ==
    ASSUME NEW conn, NEW signed, NEW recorded, NEW reply,
           Connection(conn), conn # Idle, Job(conn, signed, recorded),
           conn.kind = "result" /\ reply.status = 200 =>
               recorded[conn.body.task] = conn.body.envelope.payload
    PROVE  /\ Connection(Answered(conn, reply))
           /\ Job(Answered(conn, reply), signed, recorded)
<1>1. CASE conn.up
  <2> DEFINE new == [conn EXCEPT !.at = "answered", !.reply = reply]
  <2>1. Answered(conn, reply) = new
    BY <1>1 DEF Answered
  <2>2. /\ DOMAIN new = DOMAIN conn
        /\ DOMAIN conn = {"kind", "body", "at", "up", "reply"}
    BY DEF Connection
  <2>3. /\ new.kind = conn.kind /\ new.body = conn.body
        /\ new.reply = reply
    BY <2>2
  <2> HIDE DEF new
  <2> QED
    BY <2>1, <2>2, <2>3 DEF Connection, Job
<1>2. CASE ~conn.up
  BY <1>2 DEF Answered, Connection, Job, Idle
<1> QED
  BY <1>1, <1>2

(* One connection changes. *)
LEMMA OneConnection ==
    ASSUME Domains, Jobs, NEW k \in Conns, NEW new,
           conns' = [conns EXCEPT ![k] = new],
           Connection(new), Job(new, results, outcomes),
           results' = results, outcomes' = outcomes
    PROVE  Jobs'
BY DEF Domains, Jobs

(* The request a handler works on is posted, so what happens to another    *)
(* connection leaves the handler alone.                                    *)
LEMMA OtherConnection ==
    ASSUME Domains, Handler, NEW k \in Conns, NEW new,
           conns' = [conns EXCEPT ![k] = new],
           lock # Free => lock.conn # k,
           lock' = lock, latest' = latest
    PROVE  Handler'
BY DEF Domains, Handler

-----------------------------------------------------------------------------
(* What most steps leave alone. *)

Kept == UNCHANGED <<work, asked>>

(* What is signed, recorded and held stays as good as it was. *)
LEMMA KeptParts ==
    ASSUME Domains, Signed, AcceptedIsSigned, Kept, DOMAIN conns' = Conns, DOMAIN heads' = Tasks
    PROVE  Domains' /\ Signed' /\ AcceptedIsSigned'
<1>1. Domains'
  BY DEF Domains, Kept, work, asked
<1>2. Signed'
  BY DEF Signed, Kept, work
<1>3. AcceptedIsSigned'
  BY DEF AcceptedIsSigned, Kept, work, asked
<1> QED
  BY <1>1, <1>2, <1>3

(* A step of one connection that no handler works on. *)
LEMMA ConnectionStep ==
    ASSUME IInv, NEW k \in Conns, NEW new,
           conns' = [conns EXCEPT ![k] = new],
           Connection(new), Job(new, results, outcomes),
           lock # Free => lock.conn # k,
           UNCHANGED <<clock, heads, lock>>, Kept
    PROVE  IInv'
<1> USE DEF IInv
<1>1. DOMAIN conns' = Conns /\ DOMAIN heads' = Tasks
  BY DEF Domains
<1>2. Domains' /\ Signed' /\ AcceptedIsSigned'
  BY <1>1, KeptParts
<1>3. results' = results /\ outcomes' = outcomes
  BY DEF Kept, work, asked
<1>4. Jobs'
  BY <1>3, OneConnection, Zenon
<1>5. lock' = lock /\ latest' = latest
  BY DEF clock
<1>6. Handler'
  BY <1>5, OtherConnection, Zenon
<1>7. Clock'
  BY DEF Clock, clock
<1> QED
  BY <1>2, <1>4, <1>6, <1>7

(* A handler ends, and its answer goes out. *)
LEMMA AnswerStep ==
    ASSUME IInv, NEW k \in Conns, NEW reply,
           conns[k].kind \in ToPerformer,
           Answer(k, reply), Kept, Clock', DOMAIN heads' = Tasks
    PROVE  IInv'
<1> USE DEF IInv
<1> DEFINE new == Answered(conns[k], reply)
<1>1. DOMAIN conns' = Conns /\ conns' = [conns EXCEPT ![k] = new]
  BY DEF Domains, Answer
<1>2. Domains' /\ Signed' /\ AcceptedIsSigned'
  BY <1>1, KeptParts
<1>3. results' = results /\ outcomes' = outcomes
  BY DEF Kept, work, asked
<1>4. Connection(conns[k]) /\ conns[k] # Idle /\ Job(conns[k], results, outcomes)
    /\ conns[k].kind # "result"
  BY DEF Jobs, ToPerformer, Idle
<1>5. Connection(new) /\ Job(new, results, outcomes)
  BY <1>4, AnsweredKeeps
<1> HIDE DEF new
<1>6. Jobs'
  BY <1>1, <1>3, <1>5, OneConnection, Zenon
<1>7. Handler'
  BY DEF Answer, Handler
<1> QED
  BY <1>2, <1>6, <1>7

-----------------------------------------------------------------------------
(* The requester's and the delivering performer's calls. *)

(* A posted request is not the one a handler works on. *)
LEMMA IdleIsFree ==
    ASSUME Handler, NEW k \in Conns, lock # Free, lock.conn = k
    PROVE  conns[k] # Idle /\ conns[k].at = "posted" /\ conns[k].kind \in ToPerformer
BY DEF Handler, ToPerformer, Idle

(* run_send, and a repetition by another client. *)
LEMMA PostMessage ==
    ASSUME IInv, NEW k \in Conns, NEW kind \in ToPerformer, NEW m \in Mail,
           Post(k, kind, m), UNCHANGED <<clock, heads, lock>>, Kept
    PROVE  IInv'
<1> DEFINE new == [kind |-> kind, body |-> m, at |-> "posted", up |-> TRUE, reply |-> None]
<1>1. Connection(new)
  BY DEF Connection, ToPerformer
<1>2. Job(new, results, outcomes)
  BY DEF Job, ToPerformer
<1>3. conns' = [conns EXCEPT ![k] = new]
  BY DEF Post
<1>4. lock # Free => lock.conn # k
  BY IdleIsFree DEF IInv, Post
<1> HIDE DEF new
<1> QED
  BY <1>1, <1>2, <1>3, <1>4, ConnectionStep, Zenon

(* run_delivery: the job is the signed result and what is staged. *)
LEMMA DeliveryStep ==
    ASSUME IInv, NEW k \in Conns, NEW t \in Tasks, run_delivery(k, t)
    PROVE  IInv'
<1> DEFINE job == [task |-> t, envelope |-> results[t], delivered |-> outputs[t]]
           new == [kind |-> "result", body |-> job, at |-> "posted", up |-> TRUE, reply |-> None]
<1>1. Connection(new)
  BY DEF Connection, ToPerformer
<1>2. Job(new, results, outcomes)
  BY DEF Job, IInv, Signed, run_delivery
<1>3. conns' = [conns EXCEPT ![k] = new]
  BY DEF Post, run_delivery
<1>4. lock # Free => lock.conn # k
  BY IdleIsFree DEF IInv, Post, run_delivery
<1>5. UNCHANGED <<clock, heads, lock>> /\ Kept
  BY DEF run_delivery, Kept, tasks
<1> HIDE DEF new
<1> QED
  BY <1>1, <1>2, <1>3, <1>4, <1>5, ConnectionStep, Zenon

(* A connection ends. *)
LEMMA IdleStep ==
    ASSUME IInv, NEW k \in Conns, conns' = [conns EXCEPT ![k] = Idle],
           lock # Free => lock.conn # k,
           UNCHANGED <<clock, heads, lock>>, Kept
    PROVE  IInv'
<1>1. Connection(Idle) /\ Job(Idle, results, outcomes)
  BY DEF Connection, Job, Idle
<1> QED
  BY <1>1, ConnectionStep, Zenon

(* A caller that read its answer hangs up; an answered request has no      *)
(* handler.                                                                *)
LEMMA AnsweredIsFree ==
    ASSUME IInv, NEW k \in Conns, NEW kinds, At(k, kinds, "answered")
    PROVE  lock # Free => lock.conn # k
BY IdleIsFree DEF IInv, At

(* run_send records the request it got a Task for: a row stays. *)
LEMMA SendReturnsStep ==
    ASSUME IInv, NEW k \in Conns, SendReturns(k)
    PROVE  IInv'
<1> USE DEF IInv
<1>1. conns[k].body \in Mail
  BY DEF SendReturns, At, Jobs, Connection, ToPerformer, Idle
<1>2. TaskOf[conns[k].body] \in Tasks
  BY <1>1, Zenon DEF Tasks
<1>3. DOMAIN sent_requests' = Tasks
    /\ \A t \in Tasks : sent_requests[t] # None => sent_requests'[t] = sent_requests[t]
  BY <1>2, SMTT(30) DEF SendReturns, put_sent_request, Domains
<1>4. conns' = [conns EXCEPT ![k] = Idle] /\ lock' = lock /\ clock' = clock
    /\ heads' = heads /\ results' = results /\ outputs' = outputs
    /\ outcomes' = outcomes /\ held' = held
  BY Zenon DEF SendReturns, tasks, work
<1>5. lock # Free => lock.conn # k
  BY AnsweredIsFree DEF SendReturns
<1>6. Connection(Idle) /\ Job(Idle, results, outcomes)
  BY DEF Connection, Job, Idle
<1>7. Jobs'
  BY <1>4, <1>6, OneConnection, Zenon
<1>8. latest' = latest /\ Clock'
  BY <1>4 DEF Clock, clock
<1>9. Handler'
  BY <1>4, <1>5, <1>8, OtherConnection, Zenon
<1>10. Domains'
  BY <1>3, <1>4 DEF Domains
<1>11. Signed'
  BY <1>4 DEF Signed
<1>12. AcceptedIsSigned'
  BY <1>3, <1>4 DEF AcceptedIsSigned
<1> QED
  BY <1>7, <1>8, <1>9, <1>10, <1>11, <1>12, Zenon

-----------------------------------------------------------------------------
(* The requester's answer to a delivery. *)

(* Anything but a 200 promises nothing. *)
LEMMA RefusedResult ==
    ASSUME IInv, NEW k \in Conns, NEW reply, reply.status # 200,
           At(k, {"result"}, "posted"),
           conns' = [conns EXCEPT ![k] = Answered(@, reply)],
           UNCHANGED <<clock, heads, lock>>, Kept
    PROVE  IInv'
<1> DEFINE new == Answered(conns[k], reply)
<1>1. Connection(conns[k]) /\ conns[k] # Idle /\ Job(conns[k], results, outcomes)
  BY DEF IInv, Jobs, At, Idle
<1>2. Connection(new) /\ Job(new, results, outcomes)
  BY <1>1, AnsweredKeeps
<1>3. conns' = [conns EXCEPT ![k] = new]
  OBVIOUS
<1>4. lock # Free => lock.conn # k
  BY IdleIsFree DEF IInv, At, ToPerformer
<1> HIDE DEF new
<1> QED
  BY <1>2, <1>3, <1>4, ConnectionStep, Zenon

(* finalize: the checks bind the delivery to a recorded request and its    *)
(* bytes to the signed manifest; an outcome already there is of the same   *)
(* manifest, because a Task has one signed result.                         *)
LEMMA FinalizeStep ==
    ASSUME IInv, NEW k \in Conns, finalize_result(k), Finalizes(conns[k].body)
    PROVE  IInv'
<1> USE DEF IInv
<1> DEFINE job == conns[k].body
           t == job.task
           reply == Reply(200, t)
           new == Answered(conns[k], reply)
<1>1. /\ conns[k].kind = "result" /\ conns[k] # Idle
      /\ Connection(conns[k]) /\ Job(conns[k], results, outcomes)
  BY DEF finalize_result, At, Jobs, Idle
<1>2. t \in Tasks /\ results[t] # None /\ job.envelope = results[t] /\ IsFiniteSet(job.delivered)
  BY <1>1, Zenon DEF Job
<1>3. PICK sub \in Submissions :
          results[t].payload.contract_digest = t
          /\ results[t].payload.outputs = {Entry(o) : o \in sub}
  BY <1>2 DEF Signed, Manifested
<1> DEFINE manifest == results[t].payload
<1>4. sent_requests[t] # None
  BY <1>2, <1>3, Zenon DEF Finalizes, MatchesRequest
<1>5. {Entry(o) : o \in job.delivered} = manifest.outputs
  <2>1. OutputsMatch({Entry(o) : o \in sub}, job.delivered)
    BY <1>2, <1>3, Zenon DEF Finalizes
  <2> HIDE DEF job
  <2> QED
    BY <1>2, <1>3, <2>1, MatchIsExact, ZenonT(30)
<1>6. conns' = [conns EXCEPT ![k] = new] /\ lock' = lock /\ clock' = clock
    /\ heads' = heads /\ results' = results /\ outputs' = outputs /\ sent_requests' = sent_requests
  BY SMTT(30) DEF finalize_result, tasks, work
<1>7. IF outcomes[t] = None
      THEN /\ outcomes' = [outcomes EXCEPT ![t] = manifest]
           /\ held' = [held EXCEPT ![t] = job.delivered]
      ELSE outcomes' = outcomes /\ held' = held
  BY <1>2, <1>3, ZenonT(30) DEF finalize_result, record_outcome_with_outputs
<1>8. outcomes[t] # None => outcomes[t] = manifest
  BY <1>2, Zenon DEF AcceptedIsSigned
<1>9. /\ DOMAIN outcomes' = Tasks /\ DOMAIN held' = Tasks
      /\ outcomes'[t] = manifest
      /\ \A u \in Tasks : u # t => outcomes'[u] = outcomes[u] /\ held'[u] = held[u]
  BY <1>2, <1>7, <1>8, Zenon DEF Domains
<1>10. {Entry(o) : o \in held'[t]} = manifest.outputs \/ (outcomes[t] # None /\ held'[t] = held[t])
  BY <1>2, <1>5, <1>7, Zenon DEF Domains
<1>11. \A j \in Conns : Job(conns[j], results, outcomes')
  <2> SUFFICES ASSUME NEW j \in Conns, conns[j].kind = "result"
               PROVE  Job(conns[j], results, outcomes')
    BY Zenon DEF Job
  <2>1. Job(conns[j], results, outcomes)
    BY Zenon DEF Jobs
  <2>2. CASE conns[j].body.task = t
    BY <2>1, <2>2, <1>9, ZenonT(30) DEF Job
  <2>3. CASE conns[j].body.task # t
    BY <2>1, <2>3, <1>9, Zenon DEF Job
  <2> QED
    BY <2>2, <2>3, Zenon
<1>12. Connection(new) /\ Job(new, results, outcomes')
  <2>1. Job(conns[k], results, outcomes')
    BY <1>11
  <2>2. outcomes'[conns[k].body.task] = conns[k].body.envelope.payload
    BY <1>2, <1>9
  <2> QED
    BY <1>1, <2>1, <2>2, AnsweredKeeps
<1> HIDE DEF new
<1>13. Jobs'
  BY <1>6, <1>11, <1>12 DEF Jobs, Domains
<1>14. lock # Free => lock.conn # k
  BY <1>1, IdleIsFree DEF ToPerformer
<1>15. latest' = latest /\ Clock'
  BY <1>6 DEF Clock, clock
<1>16. Handler'
  BY <1>6, <1>14, <1>15, OtherConnection, Zenon
<1>17. Domains'
  BY <1>6, <1>9 DEF Domains
<1>18. Signed'
  BY <1>6 DEF Signed
<1>19. AcceptedIsSigned'
  <2> SUFFICES ASSUME NEW u \in Tasks, outcomes'[u] # None
               PROVE  /\ sent_requests[u] # None
                      /\ results[u] # None /\ results[u].payload = outcomes'[u]
                      /\ {Entry(o) : o \in held'[u]} = outcomes'[u].outputs
    BY <1>6 DEF AcceptedIsSigned
  <2>1. CASE u # t
    BY <2>1, <1>9 DEF AcceptedIsSigned
  <2>2. CASE u = t
    BY <2>2, <1>2, <1>4, <1>8, <1>9, <1>10, ZenonT(30) DEF AcceptedIsSigned
  <2> QED
    BY <2>1, <2>2
<1> QED
  BY <1>13, <1>15, <1>16, <1>17, <1>18, <1>19, Zenon

-----------------------------------------------------------------------------
(* The performer's handler. *)

(* dispatch_proposal: the contract found valid has not ended at any time   *)
(* the performer has acted on.                                             *)
LEMMA DispatchStep ==
    ASSUME IInv, NEW k \in Conns, dispatch_proposal(k)
    PROVE  IInv'
<1> USE DEF IInv
<1> DEFINE m == conns[k].body
<1>a. At(k, ToPerformer, "posted") /\ Connection(conns[k])
  BY Zenon DEF dispatch_proposal, Jobs
<1>1. conns[k].kind \in ToPerformer /\ conns[k].at = "posted" /\ m \in Mail
  BY <1>a DEF At, Connection, ToPerformer, Idle
<1>2. Clock' /\ TrustedNow \in Nat /\ latest' <= TrustedNow
  BY ObserveStep DEF dispatch_proposal
<1>3. Kept /\ heads' = heads /\ DOMAIN heads' = Tasks
  BY DEF dispatch_proposal, Kept, tasks, Domains
<1>4. CASE lock' # Free
  <2>1. /\ conns' = conns
        /\ lock' = [at |-> IF Valid(m) THEN "submit" ELSE "reject", conn |-> k, message |-> m]
    BY <1>4 DEF dispatch_proposal, Answer
  <2>2. Domains' /\ Signed' /\ AcceptedIsSigned'
    BY <1>3, <2>1, KeptParts DEF Domains
  <2>3. Jobs'
    BY <1>3, <2>1 DEF Jobs, Kept, work, asked
  <2>4. Valid(m) => latest' < ContractOf[m].expires_at
    <3> SUFFICES ASSUME Valid(m) PROVE latest' < ContractOf[m].expires_at
      OBVIOUS
    <3>1. TrustedNow < ContractOf[m].expires_at
      BY <1>1, <1>2, ValidIsCurrent
    <3>2. ContractOf[m].expires_at \in Int
      BY <1>1, ContractAssumption
    <3>3. latest' \in Nat
      BY <1>2 DEF Clock
    <3> HIDE DEF m
    <3> QED
      BY <1>2, <3>1, <3>2, <3>3
  <2>5. Handler'
    BY <1>1, <2>1, <2>4, Zenon DEF Handler
  <2> QED
    BY <1>2, <2>2, <2>3, <2>5
<1>5. CASE lock' = Free
  <2>1. PICK reply : Answer(k, reply)
    BY <1>5 DEF dispatch_proposal, Free
  <2> QED
    BY <1>1, <1>2, <1>3, <2>1, AnswerStep, Zenon
<1> QED
  BY <1>4, <1>5

(* The commits of the handler change no connection and end nothing. *)
LEMMA LockStep ==
    ASSUME IInv, NEW at, at \notin {"free", "submit"},
           lock # Free, lock' = [lock EXCEPT !.at = at] \/ lock' = lock,
           conns' = conns, clock' = clock, Kept, DOMAIN heads' = Tasks
    PROVE  IInv'
<1> USE DEF IInv
<1>1. Domains' /\ Signed' /\ AcceptedIsSigned'
  BY KeptParts DEF Domains
<1>2. Jobs'
  BY DEF Jobs, Kept, work, asked
<1>3. Clock' /\ latest' = latest
  BY DEF Clock, clock
<1>4. Handler'
  <2>1. CASE lock' = lock
    BY <2>1, <1>3 DEF Handler
  <2>2. CASE lock' = [lock EXCEPT !.at = at]
    <3>1. /\ DOMAIN lock' = {"at", "conn", "message"}
          /\ lock'.at = at /\ lock'.conn = lock.conn /\ lock'.message = lock.message
      BY <2>2 DEF Handler
    <3> QED
      BY <3>1 DEF Handler
  <2> QED
    BY <2>1, <2>2
<1> QED
  BY <1>1, <1>2, <1>3, <1>4

(* submit_revision, set_task_context, persist_worker_inputs and the two    *)
(* commits of the answer.                                                  *)
LEMMA CommitsStep ==
    ASSUME IInv, Commits
    PROVE  IInv'
<1>0. lock # Free
  BY DEF Commits, submit_revision, set_task_context, persist_worker_inputs, receive_request,
         reject, Handling, Free
<1>1. CASE submit_revision
  <2>1. lock' = [lock EXCEPT !.at = "context"] /\ conns' = conns /\ clock' = clock /\ Kept
      /\ DOMAIN heads' = Tasks
    BY <1>1 DEF submit_revision, Goes, Kept, IInv, Domains
  <2> QED
    BY <1>0, <2>1, LockStep
<1>2. CASE set_task_context
  <2>1. lock' = [lock EXCEPT !.at = "inputs"] /\ conns' = conns /\ clock' = clock /\ Kept
      /\ DOMAIN heads' = Tasks
    BY <1>2 DEF set_task_context, Goes, Kept, IInv, Domains
  <2> QED
    BY <1>0, <2>1, LockStep
<1>3. CASE persist_worker_inputs
  <2>1. (lock' = [lock EXCEPT !.at = "commit"] \/ lock' = lock) /\ conns' = conns /\ clock' = clock
      /\ Kept /\ DOMAIN heads' = Tasks
    BY <1>3 DEF persist_worker_inputs, Goes, Kept, IInv, Domains
  <2> QED
    BY <1>0, <2>1, LockStep
<1>4. CASE receive_request \/ reject
  <2>1. PICK reply : Answer(lock.conn, reply)
    BY <1>4, Zenon DEF receive_request, reject, Commit
  <2>2. lock.conn \in Conns /\ conns[lock.conn].kind \in ToPerformer
    BY <1>0, Zenon DEF IInv, Handler
  <2>3. Kept /\ clock' = clock /\ DOMAIN heads' = Tasks
    BY <1>4 DEF receive_request, reject, Commit, Kept, IInv, Domains
  <2>4. Clock'
    BY <2>3 DEF IInv, Clock, clock
  <2> QED
    BY <2>1, <2>2, <2>3, <2>4, AnswerStep, Zenon
<1> QED
  BY <1>1, <1>2, <1>3, <1>4, Zenon DEF Commits

(* A refusal before anything is read, and a store call that fails. *)
LEMMA RefusalStep ==
    ASSUME IInv, NEW k \in Conns, RefuseUnknown(k) \/ TimeUncertain(k)
    PROVE  IInv'
<1>1. PICK reply : Answer(k, reply)
  BY Zenon DEF RefuseUnknown, TimeUncertain
<1>2. conns[k].kind \in ToPerformer /\ Kept /\ clock' = clock /\ DOMAIN heads' = Tasks
  BY DEF RefuseUnknown, TimeUncertain, At, Kept, tasks, IInv, Domains
<1>3. Clock'
  BY <1>2 DEF IInv, Clock, clock
<1> QED
  BY <1>1, <1>2, <1>3, AnswerStep

(* A failing store call answers 500 and lets the lock go. *)
LEMMA StoreFailsStep ==
    ASSUME IInv, StoreFails
    PROVE  IInv'
<1>1. PICK reply : Answer(lock.conn, reply)
  BY Zenon DEF StoreFails
<1>2. lock.conn \in Conns /\ conns[lock.conn].kind \in ToPerformer
  BY Zenon DEF IInv, Handler, StoreFails
<1>3. Kept /\ clock' = clock /\ DOMAIN heads' = Tasks
  BY DEF StoreFails, Kept, tasks, IInv, Domains
<1>4. Clock'
  BY <1>3 DEF IInv, Clock, clock
<1> QED
  BY <1>1, <1>2, <1>3, <1>4, AnswerStep

-----------------------------------------------------------------------------
(* The performer accepts and completes, the clock, and pairing. *)

(* A step without the handler that leaves connections and rows alone. *)
LEMMA ClockStep ==
    ASSUME IInv, Clock', conns' = conns, lock' = lock, lock = Free \/ latest' = latest, Kept,
           DOMAIN heads' = Tasks
    PROVE  IInv'
<1> USE DEF IInv
<1>1. Domains' /\ Signed' /\ AcceptedIsSigned'
  BY KeptParts DEF Domains
<1>2. Jobs'
  BY DEF Jobs, Kept, work, asked
<1>3. Handler'
  BY DEF Handler
<1> QED
  BY <1>1, <1>2, <1>3

(* An approval changes a head, the orders and the clock only. *)
LEMMA ApproveStep ==
    ASSUME IInv, NEW t \in Tasks, NEW grants, approve_and_issue(t, grants)
    PROVE  IInv'
<1>1. Clock'
  BY ObserveStep DEF IInv, approve_and_issue
<1>2. conns' = conns /\ lock' = lock /\ lock = Free /\ Kept /\ DOMAIN heads' = Tasks
  BY DEF approve_and_issue, accept_contract, Kept, IInv, Domains
<1> QED
  BY <1>1, <1>2, ClockStep

(* Staging adds to what is there: finitely many outputs. *)
LEMMA StagedIsFinite ==
    ASSUME Signed, NEW t \in Tasks, NEW sub \in Submissions
    PROVE  IsFiniteSet(Staged(t, sub))
<1> DEFINE fresh == {o \in sub : ~\E old \in outputs[t] : old.artifact_id = o.artifact_id}
<1>1. IsFiniteSet(outputs[t]) /\ IsFiniteSet(sub)
  BY ExchangeAssumption DEF Signed
<1>2. fresh \subseteq sub
  OBVIOUS
<1> HIDE DEF fresh
<1>3. IsFiniteSet(fresh)
  BY <1>1, <1>2, FS_Subset
<1>4. IsFiniteSet(outputs[t] \cup fresh)
  BY <1>1, <1>3, FS_Union, Zenon
<1> QED
  BY <1>4 DEF Staged, fresh

(* submit_result signs once: the Task has no result, so no delivery and no *)
(* outcome speaks of it.  A submission cut short signs nothing.            *)
LEMMA SubmitStep ==
    ASSUME IInv, NEW t \in Tasks, NEW sub \in Submissions,
           submit_result(t, sub) \/ StagingFails(t, sub)
    PROVE  IInv'
<1> USE DEF IInv
<1> DEFINE envelope == sign(ResultManifestV1, Manifest(t, sub), Performer)
<1>1. Clock'
  BY ObserveStep, Zenon DEF submit_result, StagingFails
<1>2. /\ conns' = conns /\ lock' = lock /\ lock = Free /\ heads' = heads /\ results[t] = None
      /\ sent_requests' = sent_requests /\ outcomes' = outcomes /\ held' = held
      /\ outputs' = [outputs EXCEPT ![t] = Staged(t, sub)]
      /\ results' = [results EXCEPT ![t] = envelope] \/ results' = results
  BY DEF submit_result, StagingFails, tasks, asked
<1>3. Manifested(t, envelope)
  BY DEF sign, Manifest, Manifested
<1> HIDE DEF envelope
<1>4. /\ DOMAIN results' = Tasks
      /\ \A u \in Tasks : results[u] # None => results'[u] = results[u]
      /\ \A u \in Tasks : results'[u] = results[u] \/ (u = t /\ results'[u] = envelope)
  <2>0. DOMAIN results = Tasks /\ results[t] = None
    BY <1>2 DEF Domains
  <2>1. CASE results' = [results EXCEPT ![t] = envelope]
    BY <2>0, <2>1
  <2>2. CASE results' = results
    BY <2>0, <2>2, Zenon
  <2> QED
    BY <1>2, <2>1, <2>2, Zenon
<1>5. Domains'
  BY <1>2, <1>4, Zenon DEF Domains
<1>6. Signed'
  <2>1. \A u \in Tasks : IsFiniteSet(outputs'[u])
    BY <1>2, StagedIsFinite, Zenon DEF Signed, Domains
  <2>2. \A u \in Tasks : results'[u] # None => Manifested(u, results'[u])
    BY <1>3, <1>4, Zenon DEF Signed
  <2> QED
    BY <2>1, <2>2, Zenon DEF Signed, Manifested
<1>7. Jobs'
  <2> SUFFICES ASSUME NEW k \in Conns PROVE Job(conns[k], results', outcomes)
    BY <1>2 DEF Jobs
  <2>1. Job(conns[k], results, outcomes)
    BY DEF Jobs
  <2> QED
    BY <1>4, <2>1, Zenon DEF Job
<1>8. AcceptedIsSigned'
  BY <1>2, <1>4, ZenonT(30) DEF AcceptedIsSigned
<1>9. Handler'
  BY <1>2, Zenon DEF Handler
<1> QED
  BY <1>1, <1>5, <1>6, <1>7, <1>8, <1>9, Zenon

(* The wall clock runs or steps back; the floor stays. *)
LEMMA TimeStep ==
    ASSUME IInv, Tick \/ \E now \in 0..MaxTime : StepBack(now)
    PROVE  IInv'
<1>1. Clock'
  BY ExchangeAssumption, SMTT(30) DEF IInv, Clock, Tick, StepBack
<1>2. conns' = conns /\ lock' = lock /\ latest' = latest /\ Kept /\ DOMAIN heads' = Tasks
  BY Zenon DEF Tick, StepBack, Kept, tasks, IInv, Domains
<1> QED
  BY <1>1, <1>2, ClockStep

(* Removing and pairing touch the pins only. *)
LEMMA PairingStep ==
    ASSUME IInv, Pair \/ \E e \in {Requester, Performer} : Unpair(e)
    PROVE  IInv'
<1>1. clock' = clock /\ conns' = conns /\ lock' = lock /\ Kept /\ DOMAIN heads' = Tasks
  BY Zenon DEF Pair, Unpair, Kept, tasks, IInv, Domains
<1>2. Clock' /\ latest' = latest
  BY <1>1 DEF IInv, Clock, clock
<1> QED
  BY <1>1, <1>2, ClockStep

-----------------------------------------------------------------------------
(* The network and the crashes. *)

(* A caller that gives up changes neither what it asked nor its handler. *)
LEMMA GiveUpStep ==
    ASSUME IInv, NEW k \in Conns, GiveUp(k)
    PROVE  IInv'
<1> USE DEF IInv
<1> DEFINE new == [conns[k] EXCEPT !.up = FALSE]
<1>1. conns' = [conns EXCEPT ![k] = new] /\ lock' = lock /\ clock' = clock /\ Kept
    /\ DOMAIN conns' = Conns /\ DOMAIN heads' = Tasks
  BY DEF GiveUp, Kept, tasks, Domains
<1>2. /\ conns[k] # Idle /\ conns[k].at = "posted"
      /\ Connection(conns[k]) /\ Job(conns[k], results, outcomes)
  BY DEF GiveUp, Jobs
<1>3. /\ DOMAIN new = DOMAIN conns[k]
      /\ DOMAIN conns[k] = {"kind", "body", "at", "up", "reply"}
  BY <1>2 DEF Connection
<1>4. new.kind = conns[k].kind /\ new.body = conns[k].body /\ new.at = "posted"
  BY <1>2, <1>3, Zenon
<1> HIDE DEF new
<1>5. Connection(new) /\ Job(new, results, outcomes)
  BY <1>2, <1>3, <1>4, Zenon DEF Connection, Job
<1>6. results' = results /\ outcomes' = outcomes
  BY <1>1 DEF Kept, work, asked
<1>7. Jobs'
  BY <1>1, <1>5, <1>6, OneConnection, Zenon
<1>8. Domains' /\ Signed' /\ AcceptedIsSigned'
  BY <1>1, KeptParts
<1>9. Clock' /\ latest' = latest
  BY <1>1, Zenon DEF Clock, clock
<1>10. Handler'
  BY <1>1, <1>4, <1>9 DEF Handler, Domains
<1> QED
  BY <1>7, <1>8, <1>9, <1>10

(* A lost request or answer leaves its connection free for another. *)
LEMMA LoseStep ==
    ASSUME IInv, NEW k \in Conns, Lose(k)
    PROVE  IInv'
<1>1. lock # Free => lock.conn # k
  BY DEF Lose, IInv, Handler
<1>2. conns' = [conns EXCEPT ![k] = Idle] /\ UNCHANGED <<clock, heads, lock>> /\ Kept
  BY DEF Lose, Kept, tasks
<1> QED
  BY <1>1, <1>2, IdleStep, Zenon

(* A crash of the performer ends its handler; a crash of the requester     *)
(* leaves what it posted on the wire, the handled request included.        *)
LEMMA CrashStep ==
    ASSUME IInv, NEW e \in {Requester, Performer}, Crash(e)
    PROVE  IInv'
<1> USE DEF IInv
<1>1. /\ clock' = clock /\ Kept /\ DOMAIN conns' = Conns /\ DOMAIN heads' = Tasks
      /\ lock' = Free \/ (lock' = lock /\ e # Performer)
  BY DEF Crash, Kept, tasks, Domains
<1>2. Domains' /\ Signed' /\ AcceptedIsSigned'
  BY <1>1, KeptParts
<1>3. Clock' /\ latest' = latest /\ results' = results /\ outcomes' = outcomes
  BY <1>1 DEF Clock, clock, Kept, work, asked
<1>4. ASSUME NEW k \in Conns
      PROVE  /\ \/ conns'[k] = Idle
                \/ conns'[k] = conns[k]
                \/ conns[k].at = "posted" /\ conns'[k] = [conns[k] EXCEPT !.up = FALSE]
             /\ conns[k].kind \in ToPerformer /\ conns[k].at = "posted" /\ e # Performer =>
                   conns'[k] = [conns[k] EXCEPT !.up = FALSE]
  <2>1. CASE conns[k] = Idle
    BY <2>1 DEF Crash, Idle, ToPerformer
  <2>2. CASE conns[k] # Idle /\ DialerOf(conns[k].kind) = e
    BY <2>2 DEF Crash
  <2>3. CASE conns[k] # Idle /\ DialerOf(conns[k].kind) # e
    <3>1. conns'[k] = IF conns[k].at = "posted" THEN Idle ELSE conns[k]
      BY <2>3 DEF Crash
    <3>2. conns[k].kind \in ToPerformer => e = Performer
      BY <2>3 DEF DialerOf, ToPerformer
    <3> QED
      BY <3>1, <3>2
  <2> QED
    BY <2>1, <2>2, <2>3
<1>5. ASSUME NEW k \in Conns, conns[k].at = "posted", conns[k] # Idle
      PROVE  LET new == [conns[k] EXCEPT !.up = FALSE]
             IN  /\ DOMAIN new = {"kind", "body", "at", "up", "reply"}
                 /\ new.kind = conns[k].kind /\ new.body = conns[k].body /\ new.at = "posted"
  <2>1. DOMAIN conns[k] = {"kind", "body", "at", "up", "reply"}
    BY <1>5 DEF Jobs, Connection
  <2> QED
    BY <1>5, <2>1
<1>6. Jobs'
  <2> SUFFICES ASSUME NEW k \in Conns
               PROVE  Connection(conns'[k]) /\ Job(conns'[k], results, outcomes)
    BY <1>3 DEF Jobs
  <2>0. Connection(conns[k]) /\ Job(conns[k], results, outcomes)
    BY Zenon DEF Jobs
  <2>1. CASE conns'[k] = Idle
    BY <2>1 DEF Connection, Job, Idle
  <2>2. CASE conns'[k] = conns[k]
    BY <2>0, <2>2
  <2>3. CASE /\ conns[k] # Idle /\ conns[k].at = "posted"
             /\ conns'[k] = [conns[k] EXCEPT !.up = FALSE]
    <3> DEFINE new == [conns[k] EXCEPT !.up = FALSE]
    <3>1. /\ DOMAIN new = {"kind", "body", "at", "up", "reply"}
          /\ new.kind = conns[k].kind /\ new.body = conns[k].body /\ new.at = "posted"
      BY <2>3, <1>5
    <3>2. conns'[k] = new
      BY <2>3
    <3> HIDE DEF new
    <3> QED
      BY <2>0, <2>3, <3>1, <3>2 DEF Connection, Job
  <2>4. conns[k] = Idle => conns'[k] = Idle
    BY DEF Crash
  <2> QED
    BY <1>4, <2>1, <2>2, <2>3, <2>4, Zenon
<1>7. Handler'
  <2>1. CASE lock' = Free
    BY <2>1, Zenon DEF Handler
  <2>2. CASE lock' = lock /\ lock # Free /\ e # Performer
    <3>1. /\ lock.conn \in Conns /\ conns[lock.conn].kind \in ToPerformer
          /\ conns[lock.conn].at = "posted" /\ conns[lock.conn] # Idle
      BY <2>2 DEF Handler, ToPerformer, Idle
    <3>2. conns'[lock.conn] = [conns[lock.conn] EXCEPT !.up = FALSE]
      BY <2>2, <3>1, <1>4
    <3>3. conns'[lock.conn].kind \in ToPerformer /\ conns'[lock.conn].at = "posted"
      BY <3>1, <3>2, <1>5
    <3> QED
      BY <2>2, <3>3, <1>3, Zenon DEF Handler
  <2> QED
    BY <1>1, <2>1, <2>2
<1> QED
  BY <1>2, <1>3, <1>6, <1>7

-----------------------------------------------------------------------------
(* The whole. *)

(* Nothing is asked, signed or recorded at first. *)
LEMMA InitIInv == Init => IInv
<1> SUFFICES ASSUME Init PROVE IInv
  OBVIOUS
<1> USE DEF Init
<1>1. Domains
  BY DEF Domains
<1>2. Clock
  BY DEF Clock
<1>3. Jobs
  BY DEF Jobs, Connection, Job, Idle
<1>4. Signed
  BY FS_EmptySet DEF Signed
<1>5. AcceptedIsSigned
  BY Zenon DEF AcceptedIsSigned
<1>6. Handler
  BY DEF Handler
<1> QED
  BY <1>1, <1>2, <1>3, <1>4, <1>5, <1>6 DEF IInv

(* Every step of a connection. *)
LEMMA HandlesStep ==
    ASSUME IInv, NEW k \in Conns, Handles(k)
    PROVE  IInv'
<1>1. CASE SendReturns(k)
  BY <1>1, SendReturnsStep
<1>2. CASE ResendReturns(k)
  <2>1. lock # Free => lock.conn # k
    BY <1>2, AnsweredIsFree DEF ResendReturns
  <2>2. conns' = [conns EXCEPT ![k] = Idle] /\ UNCHANGED <<clock, heads, lock>> /\ Kept
    BY <1>2 DEF ResendReturns, Kept, tasks
  <2> QED
    BY <2>1, <2>2, IdleStep, Zenon
<1>3. CASE DeliveryReturns(k)
  <2>1. lock # Free => lock.conn # k
    BY <1>3, AnsweredIsFree DEF DeliveryReturns
  <2>2. conns' = [conns EXCEPT ![k] = Idle] /\ UNCHANGED <<clock, heads, lock>> /\ Kept
    BY <1>3 DEF DeliveryReturns, Kept, tasks
  <2> QED
    BY <2>1, <2>2, IdleStep, Zenon
<1>4. CASE RefuseUnknown(k) \/ TimeUncertain(k)
  BY <1>4, RefusalStep
<1>5. CASE dispatch_proposal(k)
  BY <1>5, DispatchStep
<1>6. CASE finalize_result(k) /\ Finalizes(conns[k].body)
  BY <1>6, FinalizeStep
<1>7. CASE (finalize_result(k) /\ ~Finalizes(conns[k].body)) \/ RefuseResult(k)
  <2>1. PICK reply : reply.status # 200 /\ conns' = [conns EXCEPT ![k] = Answered(@, reply)]
    <3>1. Reply(409, None).status # 200 /\ Reply(403, None).status # 200
      BY SMT DEF Reply
    <3>2. \/ conns' = [conns EXCEPT ![k] = Answered(@, Reply(409, None))]
          \/ conns' = [conns EXCEPT ![k] = Answered(@, Reply(403, None))]
      BY <1>7, ZenonT(30) DEF finalize_result, RefuseResult
    <3> QED
      BY <3>1, <3>2, ZenonT(30)
  <2>2. At(k, {"result"}, "posted") /\ UNCHANGED <<clock, heads, lock>> /\ Kept
    BY <1>7 DEF finalize_result, RefuseResult, Kept, tasks, asked
  <2> QED
    BY <2>1, <2>2, RefusedResult, ZenonT(30)
<1> QED
  BY <1>1, <1>2, <1>3, <1>4, <1>5, <1>6, <1>7 DEF Handles

(* Every step keeps the invariant. *)
LEMMA NextIInv ==
    ASSUME IInv, [Next]_vars
    PROVE  IInv'
<1>1. ASSUME NEW k \in Conns, Handles(k) PROVE IInv'
  BY <1>1, HandlesStep
<1>2. ASSUME NEW k \in Conns, Lose(k) PROVE IInv'
  BY <1>2, LoseStep
<1>3. ASSUME NEW k \in Conns, GiveUp(k) PROVE IInv'
  BY <1>3, GiveUpStep
<1>4. ASSUME NEW k \in Conns, FinalizeFails(k) PROVE IInv'
  <2> DEFINE reply == Reply(500, None)
  <2>1. reply.status # 200 /\ conns' = [conns EXCEPT ![k] = Answered(@, reply)]
    BY <1>4 DEF FinalizeFails, Reply
  <2>2. At(k, {"result"}, "posted") /\ UNCHANGED <<clock, heads, lock>> /\ Kept
    BY <1>4 DEF FinalizeFails, Kept, tasks
  <2> HIDE DEF reply
  <2> QED
    BY <2>1, <2>2, RefusedResult, Zenon
<1>5. ASSUME NEW k \in Conns, NEW s \in DOMAIN Specs, run_send(k, s) PROVE IInv'
  <2>1. s \in Mail /\ "send" \in ToPerformer
    BY DEF Mail, ToPerformer
  <2>2. Post(k, "send", s) /\ UNCHANGED <<clock, heads, lock>> /\ Kept
    BY <1>5 DEF run_send, Kept, tasks
  <2> QED
    BY <2>1, <2>2, PostMessage
<1>6. ASSUME NEW k \in Conns, NEW m \in Mail, Resend(k, m) PROVE IInv'
  <2>1. "resend" \in ToPerformer
    BY DEF ToPerformer
  <2>2. Post(k, "resend", m) /\ UNCHANGED <<clock, heads, lock>> /\ Kept
    BY <1>6 DEF Resend, Kept, tasks
  <2> QED
    BY <2>1, <2>2, PostMessage
<1>7. ASSUME NEW k \in Conns, NEW t \in Tasks, run_delivery(k, t) PROVE IInv'
  BY <1>7, DeliveryStep
<1>8. CASE Commits
  BY <1>8, CommitsStep
<1>9. ASSUME NEW t \in Tasks, NEW grants \in BOOLEAN, approve_and_issue(t, grants) PROVE IInv'
  BY <1>9, ApproveStep
<1>10. ASSUME NEW t \in Tasks, NEW sub \in Submissions,
              submit_result(t, sub) \/ StagingFails(t, sub)
       PROVE  IInv'
  BY <1>10, SubmitStep
<1>11. CASE Tick \/ \E now \in 0..MaxTime : StepBack(now)
  BY <1>11, TimeStep
<1>12. CASE StoreFails
  BY <1>12, StoreFailsStep
<1>13. CASE Pair \/ \E e \in {Requester, Performer} : Unpair(e)
  BY <1>13, PairingStep
<1>14. ASSUME NEW e \in {Requester, Performer}, Crash(e) PROVE IInv'
  BY <1>14, CrashStep
<1>15. CASE vars' = vars
  <2>1. clock' = clock /\ conns' = conns /\ lock' = lock /\ Kept /\ DOMAIN heads' = Tasks
    BY <1>15 DEF vars, Kept, tasks, IInv, Domains
  <2>2. Clock' /\ latest' = latest
    BY <2>1 DEF IInv, Clock, clock
  <2> QED
    BY <2>1, <2>2, ClockStep
<1> QED
  BY <1>1, <1>2, <1>3, <1>4, <1>5, <1>6, <1>7, <1>8, <1>9, <1>10, <1>11, <1>12, <1>13, <1>14,
     <1>15, Zenon DEF Next

(* The invariant holds in every reachable state of the exchange. *)
THEOREM Invariance == Spec => []IInv
<1>1. IInv /\ [Next]_vars => IInv'
  BY NextIInv
<1> QED
  BY InitIInv, <1>1, PTL DEF Spec

(* The requester's recorded outcome is over exactly the manifest the       *)
(* performer signed for that Task, of a request it recorded, and the bytes *)
(* it holds are exactly the ones the manifest names.                       *)
THEOREM OutcomesAreSigned == Spec => []AcceptedIsSigned
<1>1. IInv => AcceptedIsSigned
  BY Zenon DEF IInv
<1> QED
  BY Invariance, <1>1, PTL

(* The performer reads "delivered" only of an outcome on disk. *)
THEOREM DeliveriesAreAccepted == Spec => []DeliveredIsAccepted
<1>1. IInv => DeliveredIsAccepted
  BY DEF IInv, Jobs, Job, DeliveredIsAccepted, At
<1> QED
  BY Invariance, <1>1, PTL

(* Who opens or locks a head, issues an order or signs a result. *)
LEMMA WhoDecides ==
    ASSUME [Next]_vars
    PROVE  \/ submit_revision
           \/ \E t \in Tasks, grants \in BOOLEAN : approve_and_issue(t, grants)
           \/ \E t \in Tasks, sub \in Submissions : submit_result(t, sub)
           \/ heads' = heads /\ orders' = orders /\ results' = results
<1> SUFFICES ASSUME ~submit_revision,
                    ~\E t \in Tasks, grants \in BOOLEAN : approve_and_issue(t, grants),
                    ~\E t \in Tasks, sub \in Submissions : submit_result(t, sub)
             PROVE  heads' = heads /\ orders' = orders /\ results' = results
  BY Zenon
<1> DEFINE Same == heads' = heads /\ orders' = orders /\ results' = results
<1> USE DEF tasks, work
<1>1. ASSUME NEW k \in Conns, Handles(k) PROVE Same
  BY <1>1, ZenonT(30) DEF Handles, SendReturns, ResendReturns, DeliveryReturns, RefuseUnknown,
              TimeUncertain, dispatch_proposal, finalize_result, RefuseResult
<1>2. ASSUME NEW k \in Conns, Lose(k) \/ GiveUp(k) \/ FinalizeFails(k) PROVE Same
  BY <1>2, Zenon DEF Lose, GiveUp, FinalizeFails
<1>3. ASSUME NEW k \in Conns, NEW s, run_send(k, s) \/ Resend(k, s) \/ run_delivery(k, s)
      PROVE  Same
  BY <1>3, ZenonT(30) DEF run_send, Resend, run_delivery
<1>4. CASE Commits
  BY <1>4, ZenonT(30) DEF Commits, set_task_context, persist_worker_inputs, receive_request, reject,
              Commit
<1>5. ASSUME NEW u, NEW sub, StagingFails(u, sub) PROVE Same
  BY <1>5, Zenon DEF StagingFails
<1>6. CASE Tick \/ StoreFails \/ Pair \/ UNCHANGED vars
  BY <1>6, Zenon DEF Tick, StoreFails, Pair, vars
<1>7. ASSUME NEW x, StepBack(x) \/ Crash(x) \/ Unpair(x) PROVE Same
  BY <1>7, Zenon DEF StepBack, Crash, Unpair
<1>8. CASE Next
  <2>1. CASE \E k \in Conns : Handles(k) \/ Lose(k) \/ GiveUp(k) \/ FinalizeFails(k)
    BY <1>1, <1>2, <2>1, Zenon
  <2>2. CASE \/ \E k \in Conns, s \in DOMAIN Specs : run_send(k, s)
             \/ \E k \in Conns, m \in Mail : Resend(k, m)
             \/ \E k \in Conns, t \in Tasks : run_delivery(k, t)
    BY <1>3, <2>2, Zenon
  <2>3. CASE \E t \in Tasks, sub \in Submissions : submit_result(t, sub) \/ StagingFails(t, sub)
    BY <1>5, <2>3, Zenon
  <2>4. CASE \E now \in 0..MaxTime : StepBack(now)
    BY <1>7, <2>4, Zenon
  <2>5. CASE \E e \in {Requester, Performer} : Crash(e) \/ Unpair(e)
    BY <1>7, <2>5, Zenon
  <2> QED
    BY <1>4, <1>6, <1>8, <2>1, <2>2, <2>3, <2>4, <2>5, ZenonT(30) DEF Next
<1> QED
  BY <1>6, <1>8, Zenon

(* Every head has a state. *)
Stated == \A t \in Tasks : "state" \in DOMAIN heads[t]

(* Every step keeps a state in every head. *)
LEMMA NextStated ==
    ASSUME IInv, Stated, [Next]_vars
    PROVE  Stated'
<1> SUFFICES ASSUME NEW t \in Tasks PROVE "state" \in DOMAIN heads'[t]
  BY Zenon DEF Stated
<1>1. "state" \in DOMAIN heads[t]
  BY Zenon DEF Stated
<1>2. ASSUME NEW c, NEW digest PROVE "state" \in DOMAIN apply_revision(heads[t], c, digest)
  BY <1>1 DEF apply_revision, Open
<1>3. ASSUME NEW digest PROVE "state" \in DOMAIN accept_head(heads[t], digest)
  BY <1>1 DEF accept_head, Locked
<1>4. CASE submit_revision
  <2>1. PICK c, u : heads' = [heads EXCEPT ![u] = apply_revision(heads[u], c, u)]
    BY <1>4, Zenon DEF submit_revision
  <2> QED
    BY <1>1, <1>2, <2>1, Zenon DEF IInv, Domains
<1>5. ASSUME NEW u \in Tasks, NEW grants \in BOOLEAN, approve_and_issue(u, grants)
      PROVE  "state" \in DOMAIN heads'[t]
  <2>1. heads' = [heads EXCEPT ![u] = accept_head(heads[u], u)]
    BY <1>5, Zenon DEF approve_and_issue, accept_contract
  <2> QED
    BY <1>1, <1>3, <2>1, Zenon DEF IInv, Domains
<1>6. ASSUME NEW u, NEW sub, submit_result(u, sub) PROVE heads' = heads
  BY <1>6, Zenon DEF submit_result, tasks
<1> QED
  BY <1>1, <1>4, <1>5, <1>6, WhoDecides, Zenon

(* An approval opens no head. *)
LEMMA LockedIsNotOpen ==
    ASSUME NEW head, NEW digest, "state" \in DOMAIN head, accept_head(head, digest) # head
    PROVE  accept_head(head, digest).state # "Open"
<1>1. accept_head(head, digest) = Locked(head)
  BY DEF accept_head
<1>2. Locked(head).state = "Locked"
  BY DEF Locked
<1> QED
  BY <1>1, <1>2

(* No head opens and no order is issued once the performer acted past the  *)
(* contract's end: only the handler that found the contract valid opens    *)
(* it, while no other time is read, and issuing reads the time itself.     *)
LEMMA AuthorityStep ==
    ASSUME IInv, Stated, [Next]_vars, NEW t \in Tasks, Opens(t) \/ Issues(t)
    PROVE  latest' < Stored[t].expires_at
<1> USE DEF IInv
<1>1. CASE submit_revision
  <2>a. lock.at = "submit"
    BY <1>1, Zenon DEF submit_revision, Handling
  <2>0. lock.at = "submit" /\ lock # Free
    BY <2>a DEF Free
  <2>1. lock # Free /\ lock.at = "submit" /\ lock.message \in Mail
    BY <2>0, ZenonT(30) DEF Handler
  <2>2. latest < ContractOf[lock.message].expires_at /\ latest' = latest
    BY <1>1, <2>1, Zenon DEF submit_revision, Handler, clock
  <2>b. heads'[t] # heads[t]
    BY <1>1, Zenon DEF submit_revision, Opens, Issues
  <2>3. t = TaskOf[lock.message]
    BY <1>1, <2>b DEF submit_revision, Domains
  <2> QED
    BY <2>1, <2>2, <2>3, StoredIsCarried
<1>2. ASSUME NEW u \in Tasks, NEW grants \in BOOLEAN, approve_and_issue(u, grants)
      PROVE  latest' < Stored[t].expires_at
  <2>1. ~Opens(t)
    <3>1. heads' = [heads EXCEPT ![u] = accept_head(heads[u], u)]
      BY <1>2, Zenon DEF approve_and_issue, accept_contract
    <3>2. t # u => heads'[t] = heads[t]
      BY <3>1, Zenon DEF Domains
    <3>3. t = u => heads'[t] = accept_head(heads[t], t)
      BY <3>1, Zenon DEF Domains
    <3> QED
      BY <3>2, <3>3, LockedIsNotOpen, Zenon DEF Opens, Stated
  <2>2. t \in orders' /\ t \notin orders
    BY <2>1, Zenon DEF Issues
  <2>3. t = u /\ validity(Stored[t], TrustedNow, Leeway) = "Valid"
    BY <1>2, <2>2, ZenonT(30) DEF approve_and_issue, issue_for_accepted
  <2>4. TrustedNow \in Nat /\ latest' <= TrustedNow /\ latest' \in Nat
    BY <1>2, ObserveStep DEF approve_and_issue, Clock
  <2>5. PICK m \in Mail : t = TaskOf[m]
    BY DEF Tasks
  <2>6. Stored[t].expires_at \in Int
    BY <2>5, StoredIsCarried
  <2>7. TrustedNow < Stored[t].expires_at
    BY <2>3, <2>4, <2>6 DEF validity
  <2> QED
    BY <2>4, <2>6, <2>7, SMTT(30)
<1>3. ASSUME NEW u, NEW sub, submit_result(u, sub) PROVE FALSE
  BY <1>3, Zenon DEF submit_result, tasks, Opens, Issues
<1>4. ~(heads' = heads /\ orders' = orders)
  BY Zenon DEF Opens, Issues
<1> QED
  BY <1>1, <1>2, <1>3, <1>4, WhoDecides, Zenon

(* A contract that lapsed stays lapsed, though the wall clock steps back. *)
THEOREM LapsedStaysLapsed == Spec => NoRevival
<1>1. IInv /\ Stated /\ [Next]_vars =>
        [\A t \in Tasks : Opens(t) \/ Issues(t) => latest' < Stored[t].expires_at]_vars
  BY AuthorityStep
<1>2. Init => Stated
  BY DEF Init, Stated, Empty
<1>3. IInv /\ Stated /\ [Next]_vars => Stated'
  BY NextStated
<1> QED
  BY Invariance, <1>1, <1>2, <1>3, PTL DEF Spec, NoRevival

-----------------------------------------------------------------------------
(* The Task a proposal was answered with.  The handler makes it in three   *)
(* commits before the one that records the answer, so the invariant says   *)
(* how far it is at each (Progress), what an answer in the records stands  *)
(* for (Committed), and that no row has other bytes than its entry says    *)
(* (Rows), whichever message of the contract it came from.                 *)

Entries(m) == ContractOf[m].inputs
Bound(m) == bind_inputs(Entries(m), Inputs(Message[m].message_id, Message[m].parts))

TaskDomains ==
    /\ DOMAIN requests = MessageIds
    /\ DOMAIN contexts = Tasks
    /\ DOMAIN inputs = Tasks

Covered(m, r) ==
    \E i \in DOMAIN Entries(m) :
        r.id = Entries(m)[i].id /\ sha256(r.payload) = Entries(m)[i].sha256

Rows == \A m \in Mail : \A r \in inputs[TaskOf[m]] : Covered(m, r)

Supplied(m) == \A i \in Visible(m) : \E r \in inputs[TaskOf[m]] : r.id = Entries(m)[i].id

Progress ==
    lock # Free =>
        /\ lock.at \in {"submit", "context", "inputs", "commit", "reject"}
        /\ lock.at # "reject" => Bound(lock.message)
        /\ Plain(lock.message) =>
              /\ lock.at \in {"context", "inputs", "commit"} => heads[TaskOf[lock.message]] # Empty
              /\ lock.at \in {"inputs", "commit"} =>
                    contexts[TaskOf[lock.message]] = Message[lock.message].context_id
              /\ lock.at = "commit" => Supplied(lock.message)

Answers(row, m) == row # None /\ row.message = m /\ row.class = "task"

Committed ==
    \A m \in Mail :
        Answers(requests[Message[m].message_id], m) /\ Plain(m) =>
            /\ heads[TaskOf[m]] # Empty
            /\ contexts[TaskOf[m]] = Message[m].context_id
            /\ Supplied(m)

WInv == TaskDomains /\ Rows /\ Progress /\ Committed

(* A step that commits nothing about Tasks. *)
LEMMA QuietStep ==
    ASSUME WInv, tasks' = tasks, lock' = lock \/ lock' = Free
    PROVE  WInv'
<1> USE DEF WInv
<1>1. requests' = requests /\ heads' = heads /\ contexts' = contexts /\ inputs' = inputs
  BY DEF tasks
<1>2. TaskDomains' /\ Rows' /\ Committed'
  BY <1>1, Zenon DEF TaskDomains, Rows, Committed, Supplied
<1>3. Progress'
  BY <1>1, ZenonT(30) DEF Progress, Supplied
<1> QED
  BY <1>2, <1>3

(* bind_inputs: the Part at an entry's coordinates is the one checked      *)
(* against that entry.                                                     *)
LEMMA InputRowIsCovered ==
    ASSUME NEW m \in Mail, Bound(m), NEW i \in DOMAIN Entries(m)
    PROVE  /\ InputRow(m, Entries(m)[i]).id = Entries(m)[i].id
           /\ Covered(m, InputRow(m, Entries(m)[i]))
<1> DEFINE parts == Inputs(Message[m].message_id, Message[m].parts)
           part == CHOOSE p \in parts : Coords(p) = Coords(Entries(m)[i])
           row == InputRow(m, Entries(m)[i])
<1>1. part \in parts /\ Coords(part) = Coords(Entries(m)[i])
  BY Zenon DEF Bound, bind_inputs
<1>2. PICK j \in DOMAIN Entries(m) :
          Coords(Entries(m)[j]) = Coords(part) /\ check_part(Entries(m)[j], part)
  BY <1>1 DEF Bound, bind_inputs
<1>3. j = i
  BY <1>1, <1>2 DEF Bound, bind_inputs
<1>4. row.id = Entries(m)[i].id /\ row.payload = CanonicalBytes(part)
  BY DEF InputRow
<1>a. sha256(CanonicalBytes(part)) = Entries(m)[i].sha256
  BY <1>2, <1>3, ZenonT(30) DEF check_part
<1> HIDE DEF row, part
<1>5. sha256(row.payload) = Entries(m)[i].sha256
  BY <1>4, <1>a, Zenon
<1>6. Covered(m, row)
  BY <1>4, <1>5 DEF Covered
<1> QED
  BY <1>4, <1>6, Zenon DEF row

(* Messages of one Task carry one contract. *)
LEMMA SameEntries ==
    ASSUME NEW m \in Mail, NEW n \in Mail, TaskOf[m] = TaskOf[n]
    PROVE  ContractOf[m] = ContractOf[n]
BY ContractAssumption

(* A head, once there, stays: it is opened or locked, never cleared. *)
LEMMA HeadsStay ==
    ASSUME NEW head, head # Empty
    PROVE  /\ \A c, d : apply_revision(head, c, d) # Empty
           /\ \A d : accept_head(head, d) # Empty
<1>1. ASSUME NEW c, NEW d PROVE apply_revision(head, c, d) # Empty
  BY DEF apply_revision, Open, Empty
<1>2. ASSUME NEW d PROVE accept_head(head, d) # Empty
  <2>1. Locked(head) # Empty
    <3> SUFFICES ASSUME [head EXCEPT !.state = "Locked"] = Empty PROVE FALSE
      BY DEF Locked
    <3>1. "state" \in DOMAIN head
      BY DEF Empty
    <3>2. [head EXCEPT !.state = "Locked"].state = "Locked"
      BY <3>1
    <3> QED
      BY <3>2 DEF Empty
  <2> QED
    BY <2>1 DEF accept_head
<1> QED
  BY <1>1, <1>2

(* dispatch_proposal goes on with a proposal whose inputs are bound. *)
LEMMA DispatchWhole ==
    ASSUME IInv, WInv, NEW k \in Conns, dispatch_proposal(k)
    PROVE  WInv'
<1>0. tasks' = tasks
  BY DEF dispatch_proposal
<1>1. CASE lock' = Free
  BY <1>0, <1>1, QuietStep, SMTT(30)
<1>2. CASE lock' # Free
  <2> DEFINE m == conns[k].body
  <2>1. lock' = [at |-> IF Valid(m) THEN "submit" ELSE "reject", conn |-> k, message |-> m]
    BY <1>2 DEF dispatch_proposal, Answer
  <2>a. At(k, ToPerformer, "posted") /\ Connection(conns[k])
    BY Zenon DEF dispatch_proposal, IInv, Jobs
  <2>2. m \in Mail
    BY <2>a DEF At, Connection, ToPerformer, Idle
  <2>3. Valid(m) => Bound(m)
    BY <2>2, ZenonT(30) DEF Valid, receive_proposal, Bound, Entries, ContractOf
  <2>4. Progress'
    BY <2>1, <2>3, Zenon DEF Progress
  <2>5. requests' = requests /\ heads' = heads /\ contexts' = contexts /\ inputs' = inputs
    BY <1>0 DEF tasks
  <2> QED
    BY <2>4, <2>5, ZenonT(30) DEF WInv, TaskDomains, Rows, Committed, Supplied
<1> QED
  BY <1>1, <1>2

(* The handler moves on: what its lock says next. *)
LEMMA LockFields ==
    ASSUME Handler, lock # Free, NEW at, lock' = [lock EXCEPT !.at = at]
    PROVE  lock'.at = at /\ lock'.message = lock.message /\ lock.message \in Mail
BY DEF Handler

(* submit_revision opens the head of a first revision, or finds one. *)
LEMMA RevisionWhole ==
    ASSUME IInv, WInv, submit_revision
    PROVE  WInv'
<1> DEFINE m == lock.message
           t == TaskOf[m]
<1>1. lock # Free /\ lock.at = "submit" /\ Handler
  BY DEF submit_revision, Handling, Free, IInv
<1>2. lock'.at = "context" /\ lock'.message = m /\ m \in Mail
  BY <1>1, LockFields DEF submit_revision, Goes
<1>3. t \in Tasks
  BY <1>2 DEF Tasks
<1>4. /\ heads' = [heads EXCEPT ![t] = apply_revision(@, ContractOf[m], t)]
      /\ requests' = requests /\ contexts' = contexts /\ inputs' = inputs
  BY Zenon DEF submit_revision
<1>5. ASSUME NEW u \in Tasks, heads[u] # Empty PROVE heads'[u] # Empty
  BY <1>3, <1>4, <1>5, HeadsStay, Zenon DEF IInv, Domains
<1>6. Plain(m) => heads'[t] # Empty
  <2> SUFFICES ASSUME ContractOf[m].revision = 0, heads[t] = Empty PROVE heads'[t] # Empty
    BY <1>3, <1>5, Zenon DEF Plain
  <2>1. heads'[t] = Open(ContractOf[m].revision, t)
    BY <1>3, <1>4, Zenon DEF apply_revision, Advances, IInv, Domains
  <2> QED
    BY <2>1 DEF Open, Empty
<1>7. Bound(m)
  BY <1>1, Zenon DEF WInv, Progress
<1> HIDE DEF m
<1>8. Progress'
  BY <1>2, <1>4, <1>6, <1>7, Zenon DEF Progress
<1>9. TaskDomains' /\ Rows'
  BY <1>4, Zenon DEF WInv, TaskDomains, Rows
<1>10. Committed'
  <2>1. \A n \in Mail : TaskOf[n] \in Tasks
    BY Zenon DEF Tasks
  <2> QED
    BY <1>4, <1>5, <2>1, Zenon DEF WInv, Committed, Supplied
<1> QED
  BY <1>8, <1>9, <1>10, Zenon DEF WInv

(* set_task_context: another message of the same contract may have come    *)
(* first, with the same context.                                           *)
LEMMA ContextWhole ==
    ASSUME IInv, WInv, set_task_context
    PROVE  WInv'
<1> DEFINE m == lock.message
           t == TaskOf[m]
<1>1. lock # Free /\ lock.at = "context" /\ Handler
  BY DEF set_task_context, Handling, Free, IInv
<1>2. lock'.at = "inputs" /\ lock'.message = m /\ m \in Mail
  BY <1>1, LockFields DEF set_task_context, Goes
<1>3. t \in Tasks
  BY <1>2 DEF Tasks
<1>4. /\ contexts' = [contexts EXCEPT ![t] = IF heads[t] = Empty THEN @ ELSE Message[m].context_id]
      /\ requests' = requests /\ heads' = heads /\ inputs' = inputs
  BY Zenon DEF set_task_context
<1>5. Bound(m) /\ (Plain(m) => heads[t] # Empty)
  BY <1>1 DEF WInv, Progress
<1>6. heads[t] # Empty => contexts'[t] = Message[m].context_id
  BY <1>3, <1>4, Zenon DEF WInv, TaskDomains
<1>7. ASSUME NEW n \in Mail, Plain(n), contexts[TaskOf[n]] = Message[n].context_id
      PROVE  contexts'[TaskOf[n]] = Message[n].context_id
  <2>1. TaskOf[n] \in Tasks
    BY DEF Tasks
  <2>2. CASE TaskOf[n] # t
    BY <1>3, <1>4, <1>7, <2>1, <2>2, Zenon DEF WInv, TaskDomains
  <2>3. CASE TaskOf[n] = t
    <3>1. Message[m].context_id = Message[n].context_id
      BY <1>2, <1>7, <2>3, Zenon DEF Plain
    <3> QED
      BY <1>3, <1>4, <1>7, <2>3, <3>1, Zenon DEF WInv, TaskDomains
  <2> QED
    BY <2>2, <2>3
<1> HIDE DEF m
<1>8. Progress'
  BY <1>2, <1>4, <1>5, <1>6, Zenon DEF Progress
<1>9. TaskDomains' /\ Rows'
  BY <1>4, Zenon DEF WInv, TaskDomains, Rows
<1>10. Committed'
  BY <1>4, <1>7 DEF WInv, Committed, Supplied
<1> QED
  BY <1>8, <1>9, <1>10 DEF WInv

(* A set of naturals has a least element: the input to store next is the   *)
(* first one missing.                                                      *)
LEMMA LeastNatural ==
    ASSUME NEW T \in SUBSET Nat, T # {}
    PROVE  \E n \in T : \A k \in T : n <= k
<1> DEFINE R == StrictSubsetOrdering(Nat)
           F == FiniteSubsetsOf(Nat)
           I == {0..n : n \in T}
<1>1. IsWellFoundedOn(R, F)
  BY FS_StrictSubsetOrderingWellFounded
<1>2. I \subseteq F
  <2> SUFFICES ASSUME NEW n \in T PROVE 0..n \in F
    OBVIOUS
  <2>1. IsFiniteSet(0..n)
    BY FS_Interval
  <2>2. 0..n \in SUBSET Nat
    OBVIOUS
  <2> QED
    BY <2>1, <2>2, Zenon DEF FiniteSubsetsOf
<1>3. I # {}
  BY Zenon
<1> HIDE DEF R, F
<1>4. PICK i \in I : \A j \in I : <<j, i>> \notin R
  BY <1>1, <1>2, <1>3, WFMin, Zenon
<1>5. PICK n \in T : i = 0..n
  OBVIOUS
<1>6. ASSUME NEW k \in T, k < n PROVE FALSE
  <2>1. 0..k \subseteq 0..n /\ n \in 0..n /\ n \notin 0..k
    BY <1>6
  <2>2. <<0..k, 0..n>> \in R
    BY <2>1 DEF R, StrictSubsetOrdering
  <2> QED
    BY <1>4, <1>5, <2>2, Zenon
<1> QED
  BY <1>6

(* persist_worker_inputs: a row is added for the first missing entry, with *)
(* the bytes of the Part bound to it; none is missing when it goes on.     *)
LEMMA PersistWhole ==
    ASSUME IInv, WInv, persist_worker_inputs
    PROVE  WInv'
<1> DEFINE m == lock.message
           t == TaskOf[m]
<1>0. lock.at = "inputs" /\ Handler
  BY Zenon DEF persist_worker_inputs, Handling, IInv
<1>1. lock # Free /\ lock.at = "inputs" /\ Handler
  BY <1>0 DEF Free
<1>2. m \in Mail /\ t \in Tasks
  BY <1>1, Zenon DEF Handler, Tasks
<1>3. requests' = requests /\ heads' = heads /\ contexts' = contexts
  BY Zenon DEF persist_worker_inputs
<1>4. /\ Bound(m)
      /\ Plain(m) => heads[t] # Empty /\ contexts[t] = Message[m].context_id
  BY <1>1 DEF WInv, Progress
<1>5. CASE Missing(m) = {}
  <2>1. lock' = [lock EXCEPT !.at = "commit"] /\ inputs' = inputs
    BY <1>5 DEF persist_worker_inputs, Goes
  <2>2. lock'.at = "commit" /\ lock'.message = m
    BY <1>1, <2>1, LockFields, Zenon
  <2>3. Supplied(m)
    BY <1>5 DEF Missing, Supplied, Entries
  <2>4. \A n : Supplied(n) => Supplied(n)'
    BY <2>1, Zenon DEF Supplied
  <2>5. Progress'
    BY <1>3, <1>4, <2>2, <2>3, <2>4, Zenon DEF Progress
  <2> QED
    BY <1>3, <2>1, <2>5 DEF WInv, TaskDomains, Rows, Committed, Supplied
<1>6. CASE Missing(m) # {}
  <2> DEFINE next == CHOOSE i \in Missing(m) : \A j \in Missing(m) : i <= j
             row == InputRow(m, Entries(m)[next])
  <2>1. inputs' = [inputs EXCEPT ![t] = @ \cup {row}] /\ lock' = lock
    BY <1>6, Zenon DEF persist_worker_inputs, Entries
  <2>2. Missing(m) \in SUBSET Nat
    BY <1>2, ContractAssumption DEF Missing, Visible
  <2>3. next \in Missing(m)
    BY <1>6, <2>2, LeastNatural
  <2>4. next \in DOMAIN Entries(m)
    BY <2>3, ZenonT(30) DEF Missing, Visible, Entries
  <2> HIDE DEF next
  <2>5. Covered(m, row)
    BY <1>2, <1>4, <2>4, InputRowIsCovered, Zenon
  <2> HIDE DEF row, m
  <2>6. inputs'[t] = inputs[t] \cup {row}
        /\ \A u \in Tasks : u # t => inputs'[u] = inputs[u]
    BY <1>2, <2>1, Zenon DEF WInv, TaskDomains
  <2>7. \A n \in Mail : TaskOf[n] \in Tasks
    BY DEF Tasks
  <2>8. ASSUME NEW n \in Mail, NEW r \in inputs'[TaskOf[n]] PROVE Covered(n, r)
    <3>1. CASE r \in inputs[TaskOf[n]]
      BY <3>1, Zenon DEF WInv, Rows
    <3>2. CASE r \notin inputs[TaskOf[n]]
      <4>1. TaskOf[n] = t /\ r = row
        BY <2>6, <2>7, <2>8, <3>2, Zenon
      <4>2. ContractOf[m] = ContractOf[n]
        BY <1>2, <4>1, SameEntries, Zenon
      <4> QED
        BY <2>5, <4>1, <4>2 DEF Covered, Entries
    <3> QED
      BY <3>1, <3>2, Zenon
  <2>9. ASSUME NEW n \in Mail, Supplied(n) PROVE Supplied(n)'
    <3>1. inputs[TaskOf[n]] \subseteq inputs'[TaskOf[n]]
      BY <2>6, <2>7, Zenon
    <3> QED
      BY <2>9, <3>1, Zenon DEF Supplied
  <2>10. Progress'
    BY <1>1, <1>3, <2>1, Zenon DEF WInv, Progress
  <2>11. TaskDomains'
    BY <1>3, <2>1, Zenon DEF WInv, TaskDomains
  <2>12. Rows'
    BY <2>8, Zenon DEF Rows, Covered
  <2>13. Committed'
    BY <1>3, <2>9 DEF WInv, Committed
  <2> QED
    BY <2>10, <2>11, <2>12, <2>13 DEF WInv
<1> QED
  BY <1>5, <1>6

(* receive_request and the refusal record the answer, and let the lock go: *)
(* only a finished Task is answered with one.                              *)
LEMMA CommitWhole ==
    ASSUME IInv, WInv, receive_request \/ reject
    PROVE  WInv'
<1>1. PICK m : m = lock.message
  OBVIOUS
<1>2. lock # Free /\ Handler /\ lock.at \in {"commit", "reject"}
  BY SMTT(30) DEF receive_request, reject, Handling, Free, IInv
<1>3. m \in Mail /\ Message[m].message_id \in MessageIds
  BY <1>1, <1>2 DEF Handler, MessageIds
<1>4. PICK class :
          /\ requests' = [requests EXCEPT ![Message[m].message_id] =
                            [message |-> m, class |-> class]]
          /\ class = "task" => lock.at = "commit"
  <2>1. CASE receive_request
    BY <1>1, <2>1, Zenon DEF receive_request, Commit, Handling
  <2>2. CASE reject
    <3>1. requests' = [requests EXCEPT ![Message[m].message_id] =
                         [message |-> m, class |-> "rejected"]]
      BY <1>1, <2>2, Zenon DEF reject, Commit
    <3>2. "rejected" # "task"
      BY Zenon
    <3> QED
      BY <3>1, <3>2, Zenon
  <2> QED
    BY <2>1, <2>2, Zenon
<1>5. heads' = heads /\ contexts' = contexts /\ inputs' = inputs /\ lock' = Free
  BY Zenon DEF receive_request, reject, Commit, Answer
<1>6. TaskDomains' /\ Rows' /\ Progress'
  BY <1>4, <1>5, Zenon DEF WInv, TaskDomains, Rows, Progress
<1>7. ASSUME NEW n \in Mail, Answers(requests'[Message[n].message_id], n), Plain(n)
      PROVE  heads[TaskOf[n]] # Empty /\ contexts[TaskOf[n]] = Message[n].context_id /\ Supplied(n)
  <2>1. CASE Message[n].message_id # Message[m].message_id
    <3>1. requests'[Message[n].message_id] = requests[Message[n].message_id]
      BY <1>4, <2>1
    <3> QED
      BY <1>7, <3>1, Zenon DEF WInv, Committed
  <2>2. CASE Message[n].message_id = Message[m].message_id
    <3>1. requests'[Message[n].message_id] = [message |-> m, class |-> class]
      BY <1>3, <1>4, <2>2, Zenon DEF WInv, TaskDomains
    <3>2. n = m /\ class = "task"
      BY <1>7, <3>1, SMTT(30) DEF Answers
    <3> QED
      BY <1>1, <1>2, <1>4, <1>7, <3>2, ZenonT(30) DEF WInv, Progress
  <2> QED
    BY <2>1, <2>2, Zenon
<1>8. Committed'
  BY <1>5, <1>7 DEF Committed, Supplied
<1> QED
  BY <1>6, <1>8 DEF WInv

(* An approval changes a head and clears none. *)
LEMMA ApproveWhole ==
    ASSUME IInv, WInv, NEW t \in Tasks, NEW grants, approve_and_issue(t, grants)
    PROVE  WInv'
<1>1. /\ heads' = [heads EXCEPT ![t] = accept_head(@, t)]
      /\ requests' = requests /\ contexts' = contexts /\ inputs' = inputs /\ lock' = Free
  BY Zenon DEF approve_and_issue, accept_contract
<1>2. ASSUME NEW u \in Tasks, heads[u] # Empty PROVE heads'[u] # Empty
  BY <1>1, <1>2, HeadsStay DEF IInv, Domains
<1>3. TaskDomains' /\ Rows' /\ Progress'
  BY <1>1, Zenon DEF WInv, TaskDomains, Rows, Progress
<1>4. \A n \in Mail : TaskOf[n] \in Tasks
  BY DEF Tasks
<1>5. Committed'
  BY <1>1, <1>2, <1>4, Zenon DEF WInv, Committed, Supplied
<1> QED
  BY <1>3, <1>5, Zenon DEF WInv

(* At the first start there is no row and no handler. *)
LEMMA InitWInv == Init => WInv
<1> SUFFICES ASSUME Init PROVE WInv
  OBVIOUS
<1> USE DEF Init
<1>1. TaskDomains /\ Progress
  BY Zenon DEF TaskDomains, Progress
<1>2. \A m \in Mail : TaskOf[m] \in Tasks /\ Message[m].message_id \in MessageIds
  BY ZenonT(30) DEF Tasks, MessageIds
<1>3. Rows
  BY <1>2, Zenon DEF Rows
<1>4. Committed
  BY <1>2, Zenon DEF Committed, Answers
<1> QED
  BY <1>1, <1>3, <1>4 DEF WInv

(* Every step keeps what an answered Task stands for. *)
LEMMA NextWInv ==
    ASSUME IInv, WInv, [Next]_vars
    PROVE  WInv'
<1>1. ASSUME NEW k \in Conns, dispatch_proposal(k) PROVE WInv'
  BY <1>1, DispatchWhole
<1>2. ASSUME NEW k \in Conns, Handles(k), ~dispatch_proposal(k) PROVE WInv'
  <2>1. tasks' = tasks /\ (lock' = lock \/ lock' = Free)
    BY <1>2, Zenon DEF Handles, SendReturns, ResendReturns, DeliveryReturns, RefuseUnknown,
            TimeUncertain, finalize_result, RefuseResult, Answer
  <2> QED
    BY <2>1, QuietStep
<1>3. ASSUME NEW k \in Conns, Lose(k) \/ GiveUp(k) \/ FinalizeFails(k) PROVE WInv'
  BY <1>3, QuietStep DEF Lose, GiveUp, FinalizeFails
<1>4. ASSUME NEW k \in Conns, NEW m, run_send(k, m) \/ Resend(k, m) \/ run_delivery(k, m)
      PROVE  WInv'
  BY <1>4, QuietStep, Zenon DEF run_send, Resend, run_delivery
<1>5. CASE Commits
  BY <1>5, RevisionWhole, ContextWhole, PersistWhole, CommitWhole DEF Commits
<1>6. ASSUME NEW t \in Tasks, NEW grants \in BOOLEAN, approve_and_issue(t, grants) PROVE WInv'
  BY <1>6, ApproveWhole
<1>7. ASSUME NEW t \in Tasks, NEW sub \in Submissions,
             submit_result(t, sub) \/ StagingFails(t, sub)
      PROVE  WInv'
  BY <1>7, QuietStep, Zenon DEF submit_result, StagingFails
<1>8. CASE Tick \/ \E now \in 0..MaxTime : StepBack(now)
  BY <1>8, QuietStep DEF Tick, StepBack
<1>9. CASE StoreFails \/ Pair
  BY <1>9, QuietStep DEF StoreFails, Pair, Answer
<1>10. ASSUME NEW e \in {Requester, Performer}, Crash(e) \/ Unpair(e) PROVE WInv'
  <2>1. tasks' = tasks /\ (lock' = lock \/ lock' = Free)
    BY <1>10, Zenon DEF Crash, Unpair
  <2> QED
    BY <2>1, QuietStep
<1>11. CASE vars' = vars
  BY <1>11, QuietStep DEF vars
<1> QED
  BY <1>1, <1>2, <1>3, <1>4, <1>5, <1>6, <1>7, <1>8, <1>9, <1>10, <1>11, Zenon DEF Next

(* A later revision finds no head under its own Task, so it opens none,    *)
(* and what has no head is neither approved nor completed.                 *)
Unopened ==
    \A t \in Tasks :
        Stored[t].revision # 0 => heads[t] = Empty /\ t \notin orders /\ results[t] = None

(* Every step leaves such a Task alone. *)
LEMMA NextUnopened ==
    ASSUME IInv, Unopened, [Next]_vars
    PROVE  Unopened'
<1> SUFFICES ASSUME NEW t \in Tasks, Stored[t].revision # 0
             PROVE  heads'[t] = Empty /\ t \notin orders' /\ results'[t] = None
  BY Zenon DEF Unopened
<1>1. heads[t] = Empty /\ t \notin orders /\ results[t] = None
  BY Zenon DEF Unopened
<1>2. heads[t].state = "Empty"
  BY <1>1 DEF Empty
<1>3. "Empty" # "Open" /\ "Empty" # "Locked"
  BY Zenon
<1>4. CASE submit_revision
  <2> DEFINE m == lock.message
  <2>a. lock.at = "submit"
    BY <1>4, Zenon DEF submit_revision, Handling
  <2>b. lock # Free
    BY <2>a DEF Free
  <2>1. m \in Mail
    BY <2>b, Zenon DEF IInv, Handler
  <2>2. /\ heads' = [heads EXCEPT ![TaskOf[m]] = apply_revision(@, ContractOf[m], TaskOf[m])]
        /\ orders' = orders /\ results' = results
    BY <1>4, Zenon DEF submit_revision, work
  <2>3. CASE TaskOf[m] # t
    BY <1>1, <2>2, <2>3, Zenon DEF IInv, Domains
  <2>4. CASE TaskOf[m] = t
    <3>1. ContractOf[m].revision # 0
      BY <2>1, <2>4, StoredIsCarried, Zenon
    <3>2. apply_revision(heads[t], ContractOf[m], t) = heads[t]
      BY <1>2, <1>3, <3>1, Zenon DEF apply_revision, Advances
    <3> QED
      BY <1>1, <2>2, <2>4, <3>2, Zenon DEF IInv, Domains
  <2> QED
    BY <2>3, <2>4, Zenon
<1>5. ASSUME NEW u \in Tasks, NEW grants \in BOOLEAN, approve_and_issue(u, grants)
      PROVE  heads'[t] = Empty /\ t \notin orders' /\ results'[t] = None
  <2>1. heads[u].state = "Open"
    BY <1>5, Zenon DEF approve_and_issue, accept_contract
  <2>2. t # u
    BY <1>2, <1>3, <2>1, Zenon
  <2>3. heads'[t] = heads[t]
    BY <1>5, <2>2, Zenon DEF approve_and_issue, accept_contract, IInv, Domains
  <2>4. t \notin orders' /\ results' = results
    BY <1>1, <1>5, <2>2, ZenonT(30) DEF approve_and_issue, issue_for_accepted, work
  <2> QED
    BY <1>1, <2>3, <2>4, Zenon
<1>6. ASSUME NEW u \in Tasks, NEW sub \in Submissions, submit_result(u, sub)
      PROVE  heads'[t] = Empty /\ t \notin orders' /\ results'[t] = None
  <2>1. u # t
    BY <1>2, <1>3, <1>6, Zenon DEF submit_result
  <2>2. heads' = heads /\ orders' = orders
    BY <1>6, Zenon DEF submit_result, tasks
  <2>3. results'[t] = results[t]
    BY <1>6, <2>1, Zenon DEF submit_result, IInv, Domains
  <2> QED
    BY <1>1, <2>2, <2>3, Zenon
<1>7. CASE heads' = heads /\ orders' = orders /\ results' = results
  BY <1>1, <1>7, Zenon
<1> QED
  BY <1>4, <1>5, <1>6, <1>7, WhoDecides, Zenon

(* A proposal answered with a Task left that Task whole, for any messages: *)
(* every store call of the handler may fail, or the daemon die after it,   *)
(* and other messages of the same contract may come in between.  A Task    *)
(* that only a later revision names is never opened, ordered or completed. *)
THEOREM AnsweredIsWhole == Spec => []AnsweredTaskIsWhole
<1>1. Init => WInv
  BY InitWInv
<1>2. IInv /\ WInv /\ [Next]_vars => WInv'
  BY NextWInv
<1>4. Init => Unopened
  BY Zenon DEF Init, Unopened
<1>5. IInv /\ Unopened /\ [Next]_vars => Unopened'
  BY NextUnopened
<1>6. ASSUME Unopened, NEW m \in Mail, ContractOf[m].revision # 0
      PROVE  heads[TaskOf[m]] = Empty /\ TaskOf[m] \notin orders /\ results[TaskOf[m]] = None
  BY <1>6, StoredIsCarried, Zenon DEF Unopened
<1>3. WInv /\ Unopened => AnsweredTaskIsWhole
  <2> SUFFICES ASSUME WInv, NEW m \in Mail, Answers(requests[Message[m].message_id], m), Plain(m)
               PROVE  /\ heads[TaskOf[m]] # Empty
                      /\ contexts[TaskOf[m]] = Message[m].context_id
                      /\ \A i \in Visible(m) : \E r \in inputs[TaskOf[m]] :
                            /\ r.id = Entries(m)[i].id
                            /\ sha256(r.payload) = Entries(m)[i].sha256
    BY <1>6, ZenonT(30) DEF AnsweredTaskIsWhole, Answers, Entries
  <2>1. heads[TaskOf[m]] # Empty /\ contexts[TaskOf[m]] = Message[m].context_id /\ Supplied(m)
    BY ZenonT(30) DEF WInv, Committed
  <2>2. ASSUME NEW i \in Visible(m)
        PROVE  \E r \in inputs[TaskOf[m]] :
                  r.id = Entries(m)[i].id /\ sha256(r.payload) = Entries(m)[i].sha256
    <3>1. PICK r \in inputs[TaskOf[m]] : r.id = Entries(m)[i].id
      BY <2>1, Zenon DEF Supplied
    <3>2. PICK j \in DOMAIN Entries(m) :
              r.id = Entries(m)[j].id /\ sha256(r.payload) = Entries(m)[j].sha256
      BY Zenon DEF WInv, Rows, Covered
    <3>3. i \in DOMAIN Entries(m)
      BY Zenon DEF Visible, Entries
    <3>4. i = j
      BY <3>1, <3>2, <3>3, Zenon DEF Plain, Entries
    <3> QED
      BY <3>1, <3>2, <3>4, Zenon
  <2> QED
    BY <2>1, <2>2, Zenon
<1> QED
  BY Invariance, <1>1, <1>2, <1>3, <1>4, <1>5, PTL DEF Spec
=============================================================================
