-------------------------- MODULE ConfinementProofs --------------------------
(***************************************************************************)
(* A worker keeps to the approval it runs under, for any contract, any     *)
(* outward grants, any batch of outputs, any configured worker and host.   *)
(***************************************************************************)
EXTENDS ApprovedRun, FiniteSetTheorems, SequenceTheorems, WellFoundedInduction, TLAPS

(* What was asked, what was granted and what an issued order rests on. *)
LEMMA IssuedFacts ==
    ASSUME NEW ca \in IssuedPairs
    PROVE  /\ ca[1] \in Contracts /\ ca[2] \in Approvals
           /\ VectorOk(Vector(ca[1], ca[2]))
           /\ ca[2].processor # "none" => ca[2].processor \in Processors
           /\ ~(clamp_deadline(ca[1], Now) <= Now)
BY DEF IssuedPairs, Issued, IssueOutcome, Vector

(* The vector by its places: the components in it and their scopes. *)
LEMMA VectorFacts ==
    ASSUME NEW c, NEW a, ContractType(c)
    PROVE  LET v == Vector(c, a)
           IN /\ DOMAIN v = AutoPlaces(c)
                    \cup (IF a.processor = "none" THEN {} ELSE {ProcessorPlace(c)})
                    \cup (IF a.artifacts THEN {ArtifactPlace(c)} ELSE {})
              /\ \A i \in AutoPlaces(c) :
                    /\ i # ProcessorPlace(c) /\ i # ArtifactPlace(c)
                    /\ c.requested[i] = "Respond" =>
                          v[i] = RespondScope("t", c, clamp_deadline(c, Now))
                    /\ c.requested[i] # "Respond" => v[i] = ReadInputsScope(c, "d")
              /\ a.processor # "none" =>
                    v[ProcessorPlace(c)] = ProcessorUseScope(c, a.processor)
              /\ a.artifacts => v[ArtifactPlace(c)] = ArtifactExportScope("t", c)
<1> DEFINE n == Len(c.requested)
           v == Vector(c, a)
           D == AutoPlaces(c)
                    \cup (IF a.processor = "none" THEN {} ELSE {ProcessorPlace(c)})
                    \cup (IF a.artifacts THEN {ArtifactPlace(c)} ELSE {})
<1>1. n \in Nat /\ DOMAIN c.requested = 1..n
  BY DEF ContractType
<1>2. \A i \in AutoPlaces(c) : i \in 1..n
  BY <1>1 DEF AutoPlaces
<1>3. ProcessorPlace(c) = n + 1 /\ ArtifactPlace(c) = n + 2
  BY DEF ProcessorPlace, ArtifactPlace
<1>4. v = [i \in D |->
             IF i \in AutoPlaces(c)
             THEN AutoGrant("t", c, "d", clamp_deadline(c, Now), c.requested[i])
             ELSE IF i = ProcessorPlace(c) THEN ProcessorUseScope(c, a.processor)
             ELSE ArtifactExportScope("t", c)]
  BY DEF Vector, Grants
<1>5. \A i \in AutoPlaces(c) : i # ProcessorPlace(c) /\ i # ArtifactPlace(c)
  BY <1>1, <1>2, <1>3
<1>6. ProcessorPlace(c) \notin AutoPlaces(c) /\ ArtifactPlace(c) \notin AutoPlaces(c)
      /\ ArtifactPlace(c) # ProcessorPlace(c)
  BY <1>1, <1>3, <1>5
<1> HIDE DEF v
<1>7. DOMAIN v = D
  BY <1>4
<1>8. \A i \in AutoPlaces(c) :
          /\ c.requested[i] = "Respond" => v[i] = RespondScope("t", c, clamp_deadline(c, Now))
          /\ c.requested[i] # "Respond" => v[i] = ReadInputsScope(c, "d")
  BY <1>4 DEF AutoGrant
<1>9. a.processor # "none" => v[ProcessorPlace(c)] = ProcessorUseScope(c, a.processor)
  BY <1>4, <1>6
<1>10. a.artifacts => v[ArtifactPlace(c)] = ArtifactExportScope("t", c)
  BY <1>4, <1>6
<1> QED
  BY <1>5, <1>7, <1>8, <1>9, <1>10 DEF v

(* What an approval grants: the two harmless capabilities if they were     *)
(* asked for, the two outward ones if the owner granted them.              *)
LEMMA GrantFacts ==
    ASSUME NEW c, NEW a, ContractType(c)
    PROVE  LET v == Vector(c, a)
           IN /\ grants_component(v, "Respond") <=> "Respond" \in Requested(c)
              /\ grants_component(v, "ReadSuppliedInputs") <=>
                    "ReadSuppliedInputs" \in Requested(c)
              /\ grants_component(v, "ProcessorUse") <=> a.processor # "none"
              /\ grants_component(v, "ArtifactExport") <=> a.artifacts
              /\ grants_component(v, "Respond") =>
                    grant(v, "Respond") = RespondScope("t", c, clamp_deadline(c, Now))
              /\ grants_component(v, "ReadSuppliedInputs") =>
                    grant(v, "ReadSuppliedInputs") = ReadInputsScope(c, "d")
              /\ grants_component(v, "ProcessorUse") =>
                    grant(v, "ProcessorUse") = ProcessorUseScope(c, a.processor)
              /\ grants_component(v, "ArtifactExport") =>
                    grant(v, "ArtifactExport") = ArtifactExportScope("t", c)
<1> DEFINE v == Vector(c, a)
           respond == RespondScope("t", c, clamp_deadline(c, Now))
           reads == ReadInputsScope(c, "d")
           uses == ProcessorUseScope(c, a.processor)
           exports == ArtifactExportScope("t", c)
<1>1. /\ respond.component = "Respond" /\ reads.component = "ReadSuppliedInputs"
      /\ uses.component = "ProcessorUse" /\ exports.component = "ArtifactExport"
  BY DEF RespondScope, ReadInputsScope, ProcessorUseScope, ArtifactExportScope
<1>2. /\ \A i \in DOMAIN v : v[i] \in {respond, reads, uses, exports}
      /\ \A i \in AutoPlaces(c) : i \in DOMAIN v
      /\ \A i \in AutoPlaces(c) : c.requested[i] = "Respond" => v[i] = respond
      /\ \A i \in AutoPlaces(c) : c.requested[i] # "Respond" => v[i] = reads
      /\ \A i \in DOMAIN v : i \in AutoPlaces(c) \/ v[i] \in {uses, exports}
      /\ \A i \in DOMAIN v : v[i] = uses => a.processor # "none"
      /\ \A i \in DOMAIN v : v[i] = exports => a.artifacts
      /\ a.processor # "none" => ProcessorPlace(c) \in DOMAIN v /\ v[ProcessorPlace(c)] = uses
      /\ a.artifacts => ArtifactPlace(c) \in DOMAIN v /\ v[ArtifactPlace(c)] = exports
  <2> HIDE DEF v, respond, reads, uses, exports
  <2>1. /\ DOMAIN v = AutoPlaces(c)
                    \cup (IF a.processor = "none" THEN {} ELSE {ProcessorPlace(c)})
                    \cup (IF a.artifacts THEN {ArtifactPlace(c)} ELSE {})
        /\ \A i \in AutoPlaces(c) :
                    /\ i # ProcessorPlace(c) /\ i # ArtifactPlace(c)
                    /\ c.requested[i] = "Respond" => v[i] = respond
                    /\ c.requested[i] # "Respond" => v[i] = reads
        /\ a.processor # "none" => v[ProcessorPlace(c)] = uses
        /\ a.artifacts => v[ArtifactPlace(c)] = exports
    BY VectorFacts, Zenon DEF v, respond, reads, uses, exports
  <2> QED
    BY <1>1, <2>1
<1>3. \A i \in AutoPlaces(c) : c.requested[i] \in AutoGranted
  BY DEF AutoPlaces
<1>4. \A r \in AutoGranted : r \in Requested(c) <=> \E i \in AutoPlaces(c) : c.requested[i] = r
  BY DEF Requested, AutoPlaces
<1> HIDE DEF v, respond, reads, uses, exports
<1>5. ASSUME NEW i \in DOMAIN v
      PROVE  /\ v[i].component = "Respond" => v[i] = respond /\ "Respond" \in Requested(c)
             /\ v[i].component = "ReadSuppliedInputs" =>
                   v[i] = reads /\ "ReadSuppliedInputs" \in Requested(c)
             /\ v[i].component = "ProcessorUse" => v[i] = uses /\ a.processor # "none"
             /\ v[i].component = "ArtifactExport" => v[i] = exports /\ a.artifacts
  BY <1>1, <1>2, <1>3, <1>4 DEF AutoGranted
<1>6. /\ "Respond" \in Requested(c) => \E i \in DOMAIN v : v[i].component = "Respond"
      /\ "ReadSuppliedInputs" \in Requested(c) =>
            \E i \in DOMAIN v : v[i].component = "ReadSuppliedInputs"
      /\ a.processor # "none" => \E i \in DOMAIN v : v[i].component = "ProcessorUse"
      /\ a.artifacts => \E i \in DOMAIN v : v[i].component = "ArtifactExport"
  BY <1>1, <1>2, <1>4 DEF AutoGranted
<1>7. ASSUME NEW p, grants_component(v, p)
      PROVE  \E i \in DOMAIN v : v[i].component = p /\ grant(v, p) = v[i]
  BY <1>7, Zenon DEF grants_component, grant
<1>8. \A p : grants_component(v, p) <=> \E i \in DOMAIN v : v[i].component = p
  BY DEF grants_component
<1> QED
  BY <1>5, <1>6, <1>7, <1>8 DEF v, respond, reads, uses, exports

-----------------------------------------------------------------------------
(* The gate. *)

(* A set of naturals has a least element. *)
LEMMA LeastNatural ==
    ASSUME NEW T \in SUBSET Nat, T # {}
    PROVE  \E n \in T : \A k \in T : n <= k
<1> DEFINE R == StrictSubsetOrdering(Nat)
           F == FiniteSubsetsOf(Nat)
           I == {0..n : n \in T}
<1>1. IsWellFoundedOn(R, F)
  BY FS_StrictSubsetOrderingWellFounded
<1>2. I \subseteq F
  <2> SUFFICES ASSUME NEW n \in T PROVE 0..n \in F
    OBVIOUS
  <2>1. IsFiniteSet(0..n)
    BY FS_Interval
  <2>2. 0..n \in SUBSET Nat
    OBVIOUS
  <2> QED
    BY <2>1, <2>2, Zenon DEF FiniteSubsetsOf
<1>3. I # {}
  BY Zenon
<1> HIDE DEF R, F
<1>4. PICK i \in I : \A j \in I : <<j, i>> \notin R
  BY <1>1, <1>2, <1>3, WFMin, Zenon
<1>5. PICK n \in T : i = 0..n
  OBVIOUS
<1>6. ASSUME NEW k \in T, k < n PROVE FALSE
  <2>1. 0..k \subseteq 0..n /\ n \in 0..n /\ n \notin 0..k
    BY <1>6
  <2>2. <<0..k, 0..n>> \in R
    BY <2>1 DEF R, StrictSubsetOrdering
  <2> QED
    BY <1>4, <1>5, <2>2, Zenon
<1> QED
  BY <1>6

(* A set of places has a last one. *)
LEMMA LastPlace ==
    ASSUME NEW n \in Nat, NEW S \in SUBSET (1..n), S # {}
    PROVE  \E m \in S : \A i \in S : i <= m
<1> DEFINE T == {n - i : i \in S}
<1>1. T \in SUBSET Nat /\ T # {}
  <2>1. ASSUME NEW i \in S PROVE n - i \in Nat
    <3>1. i \in 1..n
      OBVIOUS
    <3> QED
      BY <3>1
  <2>2. PICK i : i \in S
    OBVIOUS
  <2> QED
    BY <2>1, <2>2
<1> HIDE DEF T
<1>2. PICK k \in T : \A j \in T : k <= j
  BY <1>1, LeastNatural
<1>3. PICK m \in S : k = n - m
  BY DEF T
<1>4. \A i \in S : n - i \in T
  BY DEF T
<1>5. \A i \in S : k <= n - i
  BY <1>2, <1>4
<1> QED
  BY <1>3, <1>5

(* gate_outputs counts as it goes: no output is one too many exactly when  *)
(* the whole batch is not.                                                 *)
LEMMA CountIsTotal ==
    ASSUME NEW batch, NEW n \in Nat, DOMAIN batch = 1..n, NEW channel, NEW max \in Nat
    PROVE  /\ IsFiniteSet(OnChannel(batch, channel))
           /\ \A i \in DOMAIN batch : Cardinality(SameChannel(batch, i)) \in Nat
           /\ (\A i \in OnChannel(batch, channel) : Cardinality(SameChannel(batch, i)) <= max)
                 <=> Cardinality(OnChannel(batch, channel)) <= max
<1> DEFINE all == OnChannel(batch, channel)
<1>1. IsFiniteSet(1..n)
  BY FS_Interval
<1>2. IsFiniteSet(all) /\ all \in SUBSET (1..n)
  BY <1>1, FS_Subset DEF OnChannel
<1>3. ASSUME NEW i \in DOMAIN batch
      PROVE  IsFiniteSet(SameChannel(batch, i)) /\ Cardinality(SameChannel(batch, i)) \in Nat
  <2>1. SameChannel(batch, i) \subseteq 1..n
    BY DEF SameChannel
  <2> QED
    BY <1>1, <2>1, FS_Subset, FS_CardinalityType
<1>4. Cardinality(all) \in Nat
  BY <1>2, FS_CardinalityType
<1>5. ASSUME NEW i \in all
      PROVE  SameChannel(batch, i) \subseteq all /\ Cardinality(SameChannel(batch, i)) <= Cardinality(all)
  <2>1. SameChannel(batch, i) \subseteq all
    BY DEF SameChannel, OnChannel
  <2> QED
    BY <1>2, <2>1, FS_Subset
<1>6. ASSUME Cardinality(all) <= max, NEW i \in all PROVE Cardinality(SameChannel(batch, i)) <= max
  <2>1. i \in DOMAIN batch
    BY DEF OnChannel
  <2> HIDE DEF all
  <2> QED
    BY <1>3, <1>4, <1>5, <1>6, <2>1
<1>7. ASSUME \A i \in all : Cardinality(SameChannel(batch, i)) <= max
      PROVE  Cardinality(all) <= max
  <2>1. CASE all = {}
    BY <2>1, FS_EmptySet
  <2>2. CASE all # {}
    <3> HIDE DEF all
    <3>1. PICK m \in all : \A i \in all : i <= m
      BY <1>2, <2>2, LastPlace, Zenon
    <3>2. SameChannel(batch, m) = all
      <4>1. all \subseteq SameChannel(batch, m)
        BY <3>1 DEF all, OnChannel, SameChannel
      <4> QED
        BY <1>5, <4>1
    <3> QED
      BY <1>7, <3>2
  <2> QED
    BY <2>1, <2>2
<1> QED
  BY <1>2, <1>3, <1>6, <1>7

(* What the gate asks of one output of a batch. *)
LEMMA GateOfOne ==
    ASSUME NEW c, NEW a, ContractType(c),
           NEW batch, NEW n \in Nat, DOMAIN batch = 1..n, NEW i \in DOMAIN batch, OutputType(batch[i])
    PROVE  LET out == batch[i]
               count == Cardinality(SameChannel(batch, i))
           IN GateReject(Vector(c, a), batch, i) = "ok" <=>
                /\ out.recipient = "request-origin"
                /\ out.bytes <= c.max_response_bytes
                /\ out.channel = "Response" => "Respond" \in Requested(c) /\ count <= 1
                /\ out.channel = "Artifact" =>
                      /\ a.artifacts
                      /\ \E d \in DOMAIN c.deliverables : c.deliverables[d] = out.media_type
                      /\ count <= Len(c.deliverables)
<1> DEFINE out == batch[i]
           v == Vector(c, a)
           count == Cardinality(SameChannel(batch, i))
<1>1. count \in Nat
  BY CountIsTotal
<1>2. out.bytes \in Nat /\ c.max_response_bytes \in Nat /\ Len(c.deliverables) \in Nat
      /\ DOMAIN c.deliverables = 1..Len(c.deliverables)
  BY DEF OutputType, ContractType
<1> HIDE DEF v, out, count
<1>3. CASE out.channel = "Response"
  <2>1. channel_component(out.channel) = "Respond"
    BY <1>3 DEF channel_component
  <2>2. CASE ~grants_component(v, "Respond")
    <3>1. GateReject(v, batch, i) # "ok"
      BY <2>1, <2>2 DEF GateReject, out
    <3> QED
      BY <1>3, <2>2, <3>1, GrantFacts, Zenon DEF v, out
  <2>3. CASE grants_component(v, "Respond")
    <3> DEFINE scope == grant(v, "Respond")
    <3>1. scope = RespondScope("t", c, clamp_deadline(c, Now)) /\ "Respond" \in Requested(c)
      BY <2>3, GrantFacts DEF v
    <3>2. /\ scope.recipient = "request-origin" /\ scope.max_responses = 1
          /\ scope.max_bytes = c.max_response_bytes
      BY <3>1 DEF RespondScope
    <3> HIDE DEF scope
    <3>3. GateReject(v, batch, i) = "ok" <=>
            /\ out.recipient = scope.recipient
            /\ ~(out.bytes > scope.max_bytes)
            /\ ~(count > scope.max_responses)
      BY <1>3, <2>1, <2>3, Zenon DEF GateReject, out, count, scope
    <3> QED
      BY <1>1, <1>2, <1>3, <3>1, <3>2, <3>3 DEF v, out, count
  <2> QED
    BY <2>2, <2>3
<1>4. CASE out.channel = "Artifact"
  <2>1. channel_component(out.channel) = "ArtifactExport"
    BY <1>4, Zenon DEF channel_component
  <2>2. CASE ~grants_component(v, "ArtifactExport")
    <3>1. GateReject(v, batch, i) # "ok"
      BY <2>1, <2>2, Zenon DEF GateReject, out
    <3> QED
      BY <1>4, <2>2, <3>1, GrantFacts, Zenon DEF v, out
  <2>3. CASE grants_component(v, "ArtifactExport")
    <3> DEFINE scope == grant(v, "ArtifactExport")
    <3>1. scope = ArtifactExportScope("t", c) /\ a.artifacts
      BY <2>3, GrantFacts, Zenon DEF v
    <3>2. /\ scope.recipient = "request-origin" /\ scope.media_types = c.deliverables
          /\ scope.max_count = IF c.deliverables = <<>> THEN 1 ELSE Len(c.deliverables)
          /\ scope.max_bytes = c.max_response_bytes
      BY <3>1 DEF ArtifactExportScope
    <3> HIDE DEF scope
    <3>3. GateReject(v, batch, i) = "ok" <=>
            /\ out.recipient = scope.recipient
            /\ \E d \in DOMAIN scope.media_types : scope.media_types[d] = out.media_type
            /\ ~(out.bytes > scope.max_bytes)
            /\ ~(count > scope.max_count)
      BY <1>4, <2>1, <2>3 DEF GateReject, out, count, scope
    <3>4. (\E d \in DOMAIN c.deliverables : c.deliverables[d] = out.media_type) =>
             c.deliverables # <<>>
      OBVIOUS
    <3> QED
      BY <1>1, <1>2, <1>4, <3>1, <3>2, <3>3, <3>4, SMTT(30) DEF v, out, count
  <2> QED
    BY <2>2, <2>3
<1> QED
  BY <1>3, <1>4 DEF OutputType, out

(* For every issued order and every batch a worker may hand over,          *)
(* gate_outputs lets the batch through exactly when the contract and the   *)
(* owner's decision allow it: the recipient, the size, the media type and  *)
(* the number of outputs per channel.                                      *)
THEOREM GateKeeps == GateIsApproval
<1> SUFFICES ASSUME NEW ca \in IssuedPairs, NEW batch \in Batches
             PROVE  gate_outputs(Vector(ca[1], ca[2]), batch) <=> Allowed(ca[1], ca[2], batch)
  BY DEF GateIsApproval
<1>1. PICK c, a : c = ca[1] /\ a = ca[2]
  OBVIOUS
<1>2. ContractType(c)
  BY <1>1, IssuedFacts, ApprovedAssumption
<1>3. PICK n \in Nat : DOMAIN batch = 1..n
  BY ApprovedAssumption
<1>4. \A i \in DOMAIN batch : OutputType(batch[i])
  BY ApprovedAssumption
<1>5. 1 \in Nat /\ Len(c.deliverables) \in Nat
  BY <1>2, Zenon DEF ContractType
<1> DEFINE count(i) == Cardinality(SameChannel(batch, i))
           part(i) == /\ batch[i].recipient = "request-origin"
                      /\ batch[i].bytes <= c.max_response_bytes
                      /\ batch[i].channel = "Response" => "Respond" \in Requested(c)
                      /\ batch[i].channel = "Artifact" =>
                            a.artifacts /\ \E d \in DOMAIN c.deliverables :
                                              c.deliverables[d] = batch[i].media_type
<1>6. \A i \in DOMAIN batch :
         GateReject(Vector(c, a), batch, i) = "ok" <=>
            /\ part(i)
            /\ batch[i].channel = "Response" => count(i) <= 1
            /\ batch[i].channel = "Artifact" => count(i) <= Len(c.deliverables)
  BY <1>2, <1>3, <1>4, GateOfOne, SMTT(30)
<1>7. (\A i \in OnChannel(batch, "Response") : count(i) <= 1)
         <=> Cardinality(OnChannel(batch, "Response")) <= 1
  BY <1>3, <1>5, CountIsTotal
<1>8. (\A i \in OnChannel(batch, "Artifact") : count(i) <= Len(c.deliverables))
         <=> Cardinality(OnChannel(batch, "Artifact")) <= Len(c.deliverables)
  BY <1>3, <1>5, CountIsTotal
<1>9. gate_outputs(Vector(c, a), batch) <=>
         \A i \in DOMAIN batch : GateReject(Vector(c, a), batch, i) = "ok"
  BY DEF gate_outputs
<1>10. Allowed(c, a, batch) <=>
         /\ \A i \in DOMAIN batch : part(i)
         /\ Cardinality(OnChannel(batch, "Response")) <= 1
         /\ Cardinality(OnChannel(batch, "Artifact")) <= Len(c.deliverables)
  BY DEF Allowed
<1>11. \A channel : \A i : i \in OnChannel(batch, channel) <=>
                              i \in DOMAIN batch /\ batch[i].channel = channel
  BY DEF OnChannel
<1> HIDE DEF count, part
<1> QED
  BY <1>1, <1>6, <1>7, <1>8, <1>9, <1>10, <1>11, Zenon

-----------------------------------------------------------------------------
(* The order. *)

(* clamp_deadline is the earliest of the three times. *)
LEMMA ClampIsLeast ==
    ASSUME NEW c, ContractType(c)
    PROVE  /\ clamp_deadline(c, Now) \in Int
           /\ clamp_deadline(c, Now) <= c.expires_at
           /\ clamp_deadline(c, Now) <= c.deadline
<1> DEFINE S == {c.expires_at, c.deadline, Now + MAX_ATTEMPT_SECS}
<1>1. c.expires_at \in Int /\ c.deadline \in Int /\ Now + MAX_ATTEMPT_SECS \in Int
  BY ApprovedAssumption DEF ContractType, MAX_ATTEMPT_SECS
<1>2. \E t \in S : \A u \in S : t <= u
  BY <1>1
<1>3. Earliest(S) \in S /\ \A u \in S : Earliest(S) <= u
  BY <1>2 DEF Earliest
<1> QED
  BY <1>1, <1>3 DEF clamp_deadline

(* Every issued order ends with its contract, the wall clock that          *)
(* run_worker takes from it is positive and ends with it too, no origin    *)
(* may cancel it, and verify_order accepts it as it is under its key only. *)
THEOREM OrderKeeps == OrderIsBounded
<1> SUFFICES ASSUME NEW ca \in IssuedPairs
             PROVE  LET order == WorkOrder("t", ca[1], "d", ca[2], Now)
                        later == [order EXCEPT !.deadline = @ + 1]
                    IN /\ Now + worker_wall_clock(order.deadline, Now) <= ca[1].expires_at
                       /\ Now + worker_wall_clock(order.deadline, Now) <= ca[1].deadline
                       /\ worker_wall_clock(order.deadline, Now) \in 1..WORKER_WALL_CLOCK_MAX
                       /\ ~remote_cancel_allowed(order, ca[1].requester)
                       /\ verify_order(seal(order, "k"), "k")
                       /\ ~verify_order(seal(order, "other"), "k")
                       /\ ~verify_order([seal(order, "k") EXCEPT !.order = later], "k")
  BY DEF OrderIsBounded
<1> DEFINE order == WorkOrder("t", ca[1], "d", ca[2], Now)
           later == [order EXCEPT !.deadline = @ + 1]
           end == clamp_deadline(ca[1], Now)
<1>1. ContractType(ca[1]) /\ Now \in Int
  BY IssuedFacts, ApprovedAssumption
<1>2. end \in Int /\ end <= ca[1].expires_at /\ end <= ca[1].deadline /\ ~(end <= Now)
  BY <1>1, IssuedFacts, ClampIsLeast
<1>3. ca[1].expires_at \in Int /\ ca[1].deadline \in Int
  BY <1>1 DEF ContractType
<1>4. order.deadline = end /\ order.remote_cancel = <<>> /\ "deadline" \in DOMAIN order
  BY DEF WorkOrder
<1> HIDE DEF end, order
<1>5. /\ worker_wall_clock(end, Now) \in 1..WORKER_WALL_CLOCK_MAX
      /\ Now + worker_wall_clock(end, Now) <= end
  BY <1>1, <1>2, SMTT(30) DEF worker_wall_clock, WORKER_WALL_CLOCK_MAX
<1>6. Now + worker_wall_clock(end, Now) \in Int
  BY <1>1, <1>5 DEF WORKER_WALL_CLOCK_MAX
<1>7. /\ Now + worker_wall_clock(end, Now) <= ca[1].expires_at
      /\ Now + worker_wall_clock(end, Now) <= ca[1].deadline
  BY <1>2, <1>3, <1>5, <1>6, SMTT(30)
<1>8. ~remote_cancel_allowed(order, ca[1].requester)
  BY <1>4 DEF remote_cancel_allowed
<1>9. verify_order(seal(order, "k"), "k")
  BY DEF verify_order, seal
<1>10. ~verify_order(seal(order, "other"), "k")
  <2>1. mac(order, "other") # mac(order, "k")
    <3>1. mac(order, "other").key = "other" /\ mac(order, "k").key = "k"
      BY DEF mac
    <3> QED
      BY <3>1
  <2> QED
    BY <2>1 DEF verify_order, seal
<1>11. ~verify_order([seal(order, "k") EXCEPT !.order = later], "k")
  <2>1. later.deadline # order.deadline
    BY <1>2, <1>4
  <2>2. order_digest(later) # order_digest(order)
    <3>1. order_digest(later).digest_of = later /\ order_digest(order).digest_of = order
      BY DEF order_digest
    <3> QED
      BY <2>1, <3>1, Zenon
  <2> HIDE DEF later
  <2> QED
    BY <2>2 DEF verify_order, seal
<1> QED
  BY <1>4, <1>5, <1>7, <1>8, <1>9, <1>10, <1>11, Zenon DEF order

-----------------------------------------------------------------------------
(* The view. *)

(* The boundary that from_capabilities takes from an approval. *)
LEMMA BoundaryFacts ==
    ASSUME NEW ca \in IssuedPairs
    PROVE  LET b == from_capabilities(Vector(ca[1], ca[2]))
           IN /\ b.reads_inputs <=> "ReadSuppliedInputs" \in Requested(ca[1])
              /\ b.reads_inputs => b.input_ids = InputIds(ca[1])
              /\ b.writes_output <=> "Respond" \in Requested(ca[1]) \/ ca[2].artifacts
              /\ b.processor = ca[2].processor
<1> DEFINE v == Vector(ca[1], ca[2])
<1>1. ContractType(ca[1])
  BY IssuedFacts, ApprovedAssumption, Zenon
<1>2. /\ grants_component(v, "Respond") <=> "Respond" \in Requested(ca[1])
      /\ grants_component(v, "ReadSuppliedInputs") <=> "ReadSuppliedInputs" \in Requested(ca[1])
      /\ grants_component(v, "ProcessorUse") <=> ca[2].processor # "none"
      /\ grants_component(v, "ArtifactExport") <=> ca[2].artifacts
      /\ grants_component(v, "ReadSuppliedInputs") =>
            grant(v, "ReadSuppliedInputs") = ReadInputsScope(ca[1], "d")
      /\ grants_component(v, "ProcessorUse") =>
            grant(v, "ProcessorUse") = ProcessorUseScope(ca[1], ca[2].processor)
  BY <1>1, GrantFacts
<1>3. /\ ReadInputsScope(ca[1], "d").input_ids = InputIds(ca[1])
      /\ ProcessorUseScope(ca[1], ca[2].processor).processor_id = ca[2].processor
  BY DEF ReadInputsScope, ProcessorUseScope
<1> HIDE DEF v
<1> QED
  BY <1>2, <1>3, ZenonT(30) DEF from_capabilities, v

(* All visible inputs are staged, or none. *)
LEMMA StagedKeeps ==
    ASSUME NEW ca \in IssuedPairs
    PROVE  StagedIsApproved(ca)
<1> DEFINE visible == VisibleInputs(ca[1])
           b == from_capabilities(Vector(ca[1], ca[2]))
           safe == /\ \A i \in DOMAIN visible : is_safe_id(visible[i].id)
                   /\ \A i, j \in DOMAIN visible : visible[i].id = visible[j].id => i = j
<1> SUFFICES ASSUME "ReadSuppliedInputs" \in Requested(ca[1])
             PROVE  {f[1] : f \in StagedFor(ca)} =
                       IF safe THEN Ids(visible) \cup {ManifestName} ELSE {}
  BY DEF StagedIsApproved
<1>1. b.input_ids = InputIds(ca[1])
  BY BoundaryFacts
<1>2. \A i \in DOMAIN visible : visible[i].id \in Range(b.input_ids)
  BY <1>1, Zenon DEF VisibleInputs, InputIds, Range
<1>3. visible = [i \in DOMAIN visible |-> visible[i]]
  BY DEF VisibleInputs
<1> HIDE DEF visible, b
<1>4. StageItems(b, visible) = visible
  BY <1>2, <1>3 DEF StageItems
<1>5. StagedFor(ca) = stage_inputs(visible)
  BY <1>4 DEF StagedFor, b, visible
<1>6. CASE safe
  <2>1. stage_inputs(visible) =
          {<<visible[i].id, visible[i].content>> : i \in DOMAIN visible}
             \cup {<<ManifestName, [i \in DOMAIN visible |-> visible[i].id]>>}
    BY <1>6 DEF stage_inputs
  <2> DEFINE named == {<<visible[i].id, visible[i].content>> : i \in DOMAIN visible}
             list == <<ManifestName, [i \in DOMAIN visible |-> visible[i].id]>>
  <2>2. list[1] = ManifestName
    OBVIOUS
  <2>3. {f[1] : f \in named} = Ids(visible)
    <3>1. ASSUME NEW f \in named PROVE f[1] \in Ids(visible)
      BY DEF Ids
    <3>2. ASSUME NEW i \in DOMAIN visible PROVE \E f \in named : f[1] = visible[i].id
      <4>1. <<visible[i].id, visible[i].content>> \in named
        OBVIOUS
      <4> QED
        BY <4>1, Zenon
    <3> HIDE DEF named
    <3> QED
      BY <3>1, <3>2 DEF Ids
  <2> HIDE DEF named, list, safe
  <2>4. {f[1] : f \in named \cup {list}} = {f[1] : f \in named} \cup {list[1]}
    OBVIOUS
  <2> QED
    BY <1>5, <1>6, <2>1, <2>2, <2>3, <2>4, SMTT(30) DEF named, list
<1>7. CASE ~safe
  BY <1>5, <1>7, Zenon DEF stage_inputs
<1> QED
  BY <1>6, <1>7, Zenon

(* What the run's program and the system directories are bound from. *)
LEMMA BindDirs ==
    ASSUME NEW inv
    PROVE  /\ bind_dirs(inv, Host) \in Seq(Host.directories \cup (Host.files \cap {bind_token(inv)}))
           /\ \A i \in DOMAIN bind_dirs(inv, Host) :
                 bind_dirs(inv, Host)[i] \notin {"run/inputs", "run/output"}
<1> DEFINE Six == {"/usr", "/bin", "/sbin", "/lib", "/lib64", "/etc/alternatives"}
           Dirs == Six \cap Host.directories
           token == bind_token(inv)
           Found == Dirs \cup (Host.files \cap {token})
           system == system_dirs(Host)
<1>1. ASSUME NEW dir \in Six PROVE Present(dir, Host) \in Seq(Dirs)
  <2> HIDE DEF Six
  <2>1. \A d \in Dirs : <<d>> \in Seq(Dirs)
    BY SMTT(30)
  <2>2. <<>> \in Seq(Dirs)
    BY SMTT(30)
  <2> QED
    BY <2>1, <2>2, ZenonT(30) DEF Present
<1>2. system \in Seq(Dirs)
  <2> HIDE DEF Dirs
  <2> QED
    BY <1>1 DEF system_dirs
<1>3. system \in Seq(Found)
  BY <1>2, SeqMonotonic
<1> HIDE DEF system, Dirs
<1>4. bind_dirs(inv, Host) \in Seq(Found)
  <2>1. CASE token \in Host.files
    BY <1>3, <2>1 DEF bind_dirs, system
  <2>2. CASE token \notin Host.files
    BY <1>3, <2>2 DEF bind_dirs, system
  <2> QED
    BY <2>1, <2>2
<1>5. \A d \in Found : d \notin {"run/inputs", "run/output"}
  BY ApprovedAssumption DEF Dirs
<1>6. Found \subseteq Host.directories \cup (Host.files \cap {token})
  BY DEF Dirs
<1>7. \A i \in DOMAIN bind_dirs(inv, Host) : bind_dirs(inv, Host)[i] \in Found
  <2> HIDE DEF Found
  <2> QED
    BY <1>4
<1> QED
  BY <1>4, <1>5, <1>6, <1>7, SeqMonotonic, SMTT(30)

(* The policy of a run: the read-only binds, of which the last is the       *)
(* staging directory if the run reads, and the writable ones.              *)
RunBinds(inv) == [i \in DOMAIN bind_dirs(inv, Host) |->
                    <<bind_dirs(inv, Host)[i], bind_dirs(inv, Host)[i]>>]
ReadBinds(ca, inv) ==
    IF "ReadSuppliedInputs" \in Requested(ca[1])
    THEN Append(RunBinds(inv), <<"run/inputs", "/inputs">>) ELSE RunBinds(inv)
WriteBinds(ca) ==
    IF "Respond" \in Requested(ca[1]) \/ ca[2].artifacts
    THEN <<<<"run/output", "/output">>>> ELSE <<>>
Env(ca) == IF ca[2].processor = "none" THEN <<>> ELSE <<"AKSON_BROKER_FD">>

(* A first bind or variable is the only one. *)
LEMMA AppendFirst ==
    ASSUME NEW x PROVE Append(<<>>, x) = <<x>>
<1>1. <<>> \in Seq({x}) /\ Len(<<>>) = 0
  OBVIOUS
<1>2. <<>> \o <<x>> = <<x>>
  OBVIOUS
<1> QED
  BY <1>1, <1>2, AppendIsConcat

(* worker_spec of an issued order is that policy. *)
LEMMA SpecFacts ==
    ASSUME NEW ca \in IssuedPairs, NEW inv
    PROVE  SpecOf(ca, inv) = [ro_binds |-> ReadBinds(ca, inv), rw_binds |-> WriteBinds(ca),
                              tmpfs |-> <<>>, chdir |-> "/", env |-> Env(ca),
                              allow_network |-> FALSE]
<1> DEFINE b == from_capabilities(Vector(ca[1], ca[2]))
           progs == bind_dirs(inv, Host)
           base == [clean_worker("/") EXCEPT !.ro_binds = [i \in DOMAIN progs |-> <<progs[i], progs[i]>>]]
           reading == IF b.reads_inputs THEN ro_bind(base, "run/inputs", "/inputs") ELSE base
           bound == IF b.writes_output THEN rw_bind(reading, "run/output", "/output") ELSE reading
           Shape(ro, rw, env) == [ro_binds |-> ro, rw_binds |-> rw, tmpfs |-> <<>>, chdir |-> "/",
                                  env |-> env, allow_network |-> FALSE]
<1>1. SpecOf(ca, inv) = IF b.processor # "none" THEN setenv(bound, "AKSON_BROKER_FD") ELSE bound
  BY Zenon DEF SpecOf, worker_spec, to_spec
<1>2. base = Shape(RunBinds(inv), <<>>, <<>>)
  <2>1. base = [clean_worker("/") EXCEPT !.ro_binds = RunBinds(inv)]
    BY Zenon DEF RunBinds
  <2> HIDE DEF base
  <2> QED
    BY <2>1, Zenon DEF clean_worker
<1> HIDE DEF base
<1>3. reading = Shape(ReadBinds(ca, inv), <<>>, <<>>)
  <2>1. b.reads_inputs <=> "ReadSuppliedInputs" \in Requested(ca[1])
    BY BoundaryFacts
  <2> HIDE DEF b
  <2>2. CASE b.reads_inputs
    BY <1>2, <2>1, <2>2, Zenon DEF ro_bind, ReadBinds
  <2>3. CASE ~b.reads_inputs
    BY <1>2, <2>1, <2>3, ZenonT(30) DEF ReadBinds
  <2> QED
    BY <2>2, <2>3, Zenon
<1> HIDE DEF reading
<1>4. bound = Shape(ReadBinds(ca, inv), WriteBinds(ca), <<>>)
  <2>1. b.writes_output <=> "Respond" \in Requested(ca[1]) \/ ca[2].artifacts
    BY BoundaryFacts
  <2> HIDE DEF b
  <2>2. CASE b.writes_output
    <3>1. Append(<<>>, <<"run/output", "/output">>) = <<<<"run/output", "/output">>>>
      BY AppendFirst
    <3>2. WriteBinds(ca) = <<<<"run/output", "/output">>>>
      BY <2>1, <2>2 DEF WriteBinds
    <3>3. bound = [reading EXCEPT !.rw_binds = Append(@, <<"run/output", "/output">>)]
      BY <2>2 DEF rw_bind
    <3> QED
      BY <1>3, <3>1, <3>2, <3>3, Zenon
  <2>3. CASE ~b.writes_output
    BY <1>3, <2>1, <2>3, Zenon DEF WriteBinds
  <2> QED
    BY <2>2, <2>3, Zenon
<1>5. b.processor = ca[2].processor
  BY BoundaryFacts
<1> HIDE DEF bound, b
<1>6. CASE b.processor = "none"
  BY <1>1, <1>4, <1>5, <1>6 DEF Env
<1>7. CASE b.processor # "none"
  <2>1. Append(<<>>, "AKSON_BROKER_FD") = <<"AKSON_BROKER_FD">>
    BY AppendFirst
  <2>2. Env(ca) = <<"AKSON_BROKER_FD">>
    BY <1>5, <1>7 DEF Env
  <2>3. SpecOf(ca, inv) = [bound EXCEPT !.env = Append(@, "AKSON_BROKER_FD")]
    BY <1>1, <1>7 DEF setenv
  <2> QED
    BY <1>4, <2>1, <2>2, <2>3, Zenon
<1> QED
  BY <1>6, <1>7

(* Where the parts of a concatenation are. *)
Joins(u, s, t) ==
    /\ Len(s) \in Nat /\ Len(t) \in Nat
    /\ Len(u) = Len(s) + Len(t)
    /\ DOMAIN u = 1..(Len(s) + Len(t))
    /\ \A i \in 1..Len(s) : u[i] = s[i]
    /\ \A i \in 1..Len(t) : u[Len(s) + i] = t[i]
    /\ \A k \in 1..(Len(s) + Len(t)) : k \in 1..Len(s) \/ \E i \in 1..Len(t) : k = Len(s) + i

(* A concatenation has the parts of the two in their order. *)
LEMMA Joined ==
    ASSUME NEW S, NEW s \in Seq(S), NEW t \in Seq(S)
    PROVE  s \o t \in Seq(S) /\ Joins(s \o t, s, t)
<1> DEFINE u == s \o t
<1>1. Len(s) \in Nat /\ Len(t) \in Nat
  OBVIOUS
<1>2. ASSUME NEW k \in 1..(Len(s) + Len(t)), k \notin 1..Len(s)
      PROVE  \E i \in 1..Len(t) : k = Len(s) + i
  <2>1. k - Len(s) \in 1..Len(t) /\ k = Len(s) + (k - Len(s))
    BY <1>1, <1>2
  <2> QED
    BY <2>1, Zenon
<1>3. /\ u \in Seq(S) /\ Len(u) = Len(s) + Len(t)
      /\ \A i \in 1..(Len(s) + Len(t)) : u[i] = IF i <= Len(s) THEN s[i] ELSE t[i - Len(s)]
  BY ConcatProperties
<1> HIDE DEF u
<1>4. DOMAIN u = 1..(Len(s) + Len(t))
  BY <1>3
<1>5. ASSUME NEW i \in 1..Len(s) PROVE u[i] = s[i]
  <2>1. i \in 1..(Len(s) + Len(t)) /\ i <= Len(s)
    BY <1>1
  <2> QED
    BY <1>3, <2>1, Zenon
<1>6. ASSUME NEW i \in 1..Len(t) PROVE u[Len(s) + i] = t[i]
  <2>1. Len(s) + i \in 1..(Len(s) + Len(t)) /\ ~(Len(s) + i <= Len(s)) /\ (Len(s) + i) - Len(s) = i
    BY <1>1
  <2> QED
    BY <1>3, <2>1, Zenon
<1>7. u \in Seq(S)
  BY <1>3
<1> QED
  BY <1>1, <1>2, <1>3, <1>4, <1>5, <1>6, <1>7, ZenonT(30) DEF Joins, u

(* What is bound, and where. *)
LEMMA BindFacts ==
    ASSUME NEW ca \in IssuedPairs, NEW inv
    PROVE  LET R == ReadBinds(ca, inv)
               Sources == Host.directories \cup (Host.files \cap {bind_token(inv)})
           IN /\ Len(R) \in Nat /\ DOMAIN R = 1..Len(R)
              /\ \A i \in 1..Len(R) : R[i][1] \in Sources \cup {"run/inputs"}
              /\ "ReadSuppliedInputs" \in Requested(ca[1]) =>
                    Len(R) # 0 /\ R[Len(R)] = <<"run/inputs", "/inputs">>
              /\ "ReadSuppliedInputs" \notin Requested(ca[1]) =>
                    \A i \in 1..Len(R) : R[i][1] # "run/inputs"
<1> DEFINE Sources == Host.directories \cup (Host.files \cap {bind_token(inv)})
           progs == bind_dirs(inv, Host)
           B == RunBinds(inv)
           last == <<"run/inputs", "/inputs">>
           S == {<<d, d>> : d \in Sources} \cup {last}
<1>1. progs \in Seq(Sources) /\ \A i \in DOMAIN progs : progs[i] \notin {"run/inputs", "run/output"}
  BY BindDirs
<1> HIDE DEF Sources, progs
<1>2. Len(progs) \in Nat /\ DOMAIN progs = 1..Len(progs) /\ \A i \in 1..Len(progs) : progs[i] \in Sources
  BY <1>1
<1>3. B = [i \in 1..Len(progs) |-> <<progs[i], progs[i]>>]
  BY <1>2 DEF RunBinds, progs
<1> HIDE DEF B
<1>4. \A i \in 1..Len(progs) : <<progs[i], progs[i]>> \in S
  BY <1>2
<1>5. last \in S
  OBVIOUS
<1> HIDE DEF S
<1>6. B \in Seq(S) /\ Len(B) = Len(progs) /\ DOMAIN B = 1..Len(progs)
  BY <1>2, <1>3, <1>4, IsASeq
<1>7. \A i \in 1..Len(B) : B[i] = <<progs[i], progs[i]>>
  BY <1>3, <1>6
<1>8. \A i \in 1..Len(B) : B[i][1] \in Sources /\ B[i][1] # "run/inputs"
  BY <1>1, <1>2, <1>6, <1>7
<1>9. CASE "ReadSuppliedInputs" \in Requested(ca[1])
  <2> DEFINE R == Append(B, last)
  <2>1. ReadBinds(ca, inv) = R
    BY <1>9 DEF ReadBinds, B
  <2>2. /\ R \in Seq(S) /\ Len(R) = Len(B) + 1
        /\ \A i \in 1..Len(B) : R[i] = B[i]
        /\ R[Len(B) + 1] = last
    BY <1>5, <1>6, AppendProperties
  <2> HIDE DEF R
  <2>3. Len(R) \in Nat /\ DOMAIN R = 1..Len(R) /\ Len(R) # 0 /\ R[Len(R)] = last
    BY <1>2, <1>6, <2>2, SMTT(30)
  <2>4. ASSUME NEW i \in 1..Len(R) PROVE R[i][1] \in Sources \cup {"run/inputs"}
    <3>1. CASE i \in 1..Len(B)
      BY <1>8, <2>2, <3>1, Zenon
    <3>2. CASE i = Len(B) + 1
      BY <2>2, <3>2, SMTT(30)
    <3> QED
      BY <1>2, <1>6, <2>2, <3>1, <3>2, SMTT(30)
  <2> QED
    BY <1>9, <2>1, <2>3, <2>4 DEF Sources
<1>10. CASE "ReadSuppliedInputs" \notin Requested(ca[1])
  <2>1. ReadBinds(ca, inv) = B
    BY <1>10, Zenon DEF ReadBinds, B
  <2> QED
    BY <1>2, <1>6, <1>8, <1>10, <2>1, Zenon DEF Sources
<1> QED
  BY <1>9, <1>10

(* A list of mounts in the launchers' order: /proc and /dev, the read-only *)
(* binds, the writable one.                                                *)
Listing(ca, inv, proc, dev, ro, rw) ==
    <<proc, dev>> \o Binds(ro, ReadBinds(ca, inv)) \o Binds(rw, WriteBinds(ca)) \o <<>>

Answers(ca) == "Respond" \in Requested(ca[1]) \/ ca[2].artifacts
MountCount(ca, inv) == 2 + Len(ReadBinds(ca, inv)) + (IF Answers(ca) THEN 1 ELSE 0)

(* Where each mount is in such a list. *)
Listed(s, ca, inv, proc, dev, ro, rw) ==
    LET R == ReadBinds(ca, inv)
        n == MountCount(ca, inv)
    IN /\ n \in Nat /\ Len(s) = n /\ DOMAIN s = 1..n
       /\ \E S : s \in Seq(S)
       /\ s[1] = proc /\ s[2] = dev
       /\ \A i \in 1..Len(R) : s[2 + i] = <<ro, R[i][1], R[i][2]>>
       /\ Answers(ca) => s[n] = <<rw, "run/output", "/output">>

(* The list has its mounts in these places. *)
LEMMA ListingFacts ==
    ASSUME NEW ca \in IssuedPairs, NEW inv, NEW proc, NEW dev, NEW ro, NEW rw
    PROVE  Listed(Listing(ca, inv, proc, dev, ro, rw), ca, inv, proc, dev, ro, rw)
<1> DEFINE R == ReadBinds(ca, inv)
           W == WriteBinds(ca)
           r == Len(R)
           out == <<rw, "run/output", "/output">>
           S == {proc, dev, out} \cup {<<ro, R[i][1], R[i][2]>> : i \in 1..r}
           two == <<proc, dev>>
           A == Binds(ro, R)
           B == Binds(rw, W)
<1>1. r \in Nat /\ DOMAIN R = 1..r
  BY BindFacts
<1>2. two \in Seq(S) /\ Len(two) = 2 /\ two[1] = proc /\ two[2] = dev
  <2>1. proc \in S /\ dev \in S
    OBVIOUS
  <2> HIDE DEF S
  <2> QED
    BY <2>1, SMTT(30)
<1> HIDE DEF R, r
<1>3. A = [i \in 1..r |-> <<ro, R[i][1], R[i][2]>>]
  BY <1>1 DEF Binds
<1>4. \A i \in 1..r : <<ro, R[i][1], R[i][2]>> \in S
  OBVIOUS
<1>5. Answers(ca) => B = <<out>>
  <2>1. ASSUME Answers(ca) PROVE W = <<<<"run/output", "/output">>>>
    BY <2>1 DEF WriteBinds, Answers
  <2>2. ASSUME W = <<<<"run/output", "/output">>>> PROVE B = <<out>>
    <3> HIDE DEF W
    <3>1. DOMAIN W = 1..1 /\ W[1] = <<"run/output", "/output">>
      BY <2>2
    <3>2. B = [i \in 1..1 |-> out]
      BY <3>1 DEF Binds
    <3> QED
      BY <3>2
  <2> QED
    BY <2>1, <2>2
<1>6. ~Answers(ca) => B = <<>>
  <2>1. ASSUME ~Answers(ca) PROVE W = <<>>
    BY <2>1 DEF WriteBinds, Answers
  <2> HIDE DEF W
  <2> QED
    BY <2>1 DEF Binds
<1>7. out \in S
  OBVIOUS
<1> HIDE DEF S, out, A, B, two, W
<1>8. A \in Seq(S) /\ Len(A) = r /\ \A i \in 1..r : A[i] = <<ro, R[i][1], R[i][2]>>
  BY <1>1, <1>3, <1>4, IsASeq, SMTT(30)
<1>9. B \in Seq(S) /\ Len(B) = IF Answers(ca) THEN 1 ELSE 0
  <2>1. CASE Answers(ca)
    <3>1. <<out>> \in Seq(S) /\ Len(<<out>>) = 1
      BY <1>7
    <3>2. B = <<out>>
      BY <1>5, <2>1
    <3> QED
      BY <2>1, <3>1, <3>2, ZenonT(30)
  <2>2. CASE ~Answers(ca)
    BY <1>6, <2>2
  <2> QED
    BY <2>1, <2>2
<1>10. Answers(ca) => B[1] = out
  BY <1>5
<1> DEFINE s1 == two \o A
           s2 == s1 \o B
<1>11. /\ s1 \in Seq(S) /\ Len(s1) = 2 + r
       /\ s1[1] = proc /\ s1[2] = dev
       /\ \A i \in 1..r : s1[2 + i] = A[i]
  <2>1. /\ s1 \in Seq(S) /\ Len(s1) = Len(two) + Len(A)
        /\ \A i \in 1..Len(two) : s1[i] = two[i]
        /\ \A i \in 1..Len(A) : s1[Len(two) + i] = A[i]
    <3>1. two \in Seq(S) /\ A \in Seq(S)
      BY <1>2, <1>8
    <3>2. s1 \in Seq(S) /\ Joins(s1, two, A)
      BY <3>1, Joined
    <3> HIDE DEF s1
    <3> QED
      BY <3>2, Zenon DEF Joins
  <2>2. Len(two) = 2 /\ Len(A) = r
    BY <1>2, <1>8
  <2> HIDE DEF s1
  <2>3. /\ s1 \in Seq(S) /\ Len(s1) = 2 + r
        /\ \A i \in 1..2 : s1[i] = two[i]
        /\ \A i \in 1..r : s1[2 + i] = A[i]
    BY <2>1, <2>2, ZenonT(30)
  <2>4. s1[1] = two[1] /\ s1[2] = two[2]
    BY <2>3
  <2> QED
    BY <1>2, <2>3, <2>4, ZenonT(30)
<1> HIDE DEF s1
<1>12. /\ s2 \in Seq(S) /\ Len(s2) = 2 + r + Len(B) /\ DOMAIN s2 = 1..(2 + r + Len(B))
       /\ \A i \in 1..(2 + r) : s2[i] = s1[i]
       /\ \A i \in 1..Len(B) : s2[2 + r + i] = B[i]
  <2>1. /\ s2 \in Seq(S) /\ Len(s2) = Len(s1) + Len(B) /\ DOMAIN s2 = 1..(Len(s1) + Len(B))
        /\ \A i \in 1..Len(s1) : s2[i] = s1[i]
        /\ \A i \in 1..Len(B) : s2[Len(s1) + i] = B[i]
    <3>1. s1 \in Seq(S) /\ B \in Seq(S)
      BY <1>9, <1>11
    <3>2. s2 \in Seq(S) /\ Joins(s2, s1, B)
      BY <3>1, Joined, SMTT(30)
    <3> HIDE DEF s2
    <3> QED
      BY <3>2, Zenon DEF Joins
  <2>2. Len(s1) = 2 + r
    BY <1>11
  <2> HIDE DEF s2
  <2> QED
    BY <2>1, <2>2, Zenon
<1> HIDE DEF s2
<1>13. s2 \o <<>> = s2
  BY <1>12, ConcatEmptySeq
<1>14. Listing(ca, inv, proc, dev, ro, rw) = s2
  BY <1>13 DEF Listing, s2, s1, two, A, B, R, W
<1>15. MountCount(ca, inv) = 2 + r + Len(B)
  BY <1>9, SMTT(30) DEF MountCount, r, R
<1>16. s2[1] = proc /\ s2[2] = dev /\ \A i \in 1..r : s2[2 + i] = <<ro, R[i][1], R[i][2]>>
  <2>1. 1 \in 1..(2 + r) /\ 2 \in 1..(2 + r) /\ \A i \in 1..r : 2 + i \in 1..(2 + r)
    BY <1>1
  <2> QED
    BY <1>8, <1>11, <1>12, <2>1, SMTT(30)
<1>17. Answers(ca) => s2[2 + r + Len(B)] = out
  BY <1>9, <1>10, <1>12, SMTT(30)
<1>18. 2 + r + Len(B) \in Nat
  BY <1>1, <1>9, SMTT(30)
<1> QED
  BY <1>12, <1>14, <1>15, <1>16, <1>17, <1>18, SMTT(30) DEF Listed, r, R, out

(* The last place of a set is the one View chooses. *)
LEMMA LastIsChosen ==
    ASSUME NEW S \in SUBSET Int, NEW m \in S, \A j \in S : j <= m
    PROVE  (CHOOSE i \in S : \A j \in S : j <= i) = m
<1> DEFINE chosen == CHOOSE i \in S : \A j \in S : j <= i
<1>1. chosen \in S /\ \A j \in S : j <= chosen
  BY Zenon
<1> HIDE DEF chosen
<1>2. chosen <= m /\ m <= chosen /\ chosen \in Int /\ m \in Int
  BY <1>1
<1>3. chosen = m
  BY <1>2
<1> QED
  BY <1>3 DEF chosen

(* A path shows the last of its mounts. *)
LEMMA ViewTop ==
    ASSUME NEW g, DOMAIN g \in SUBSET Int, NEW m \in DOMAIN g,
           \A j \in DOMAIN g : g[j][3] = g[m][3] => j <= m
    PROVE  g[m][3] \in DOMAIN View(g) /\ View(g)[g[m][3]] = [kind |-> g[m][1], host |-> g[m][2]]
<1> DEFINE p == g[m][3]
           at == {i \in DOMAIN g : g[i][3] = p}
<1>1. at \in SUBSET Int /\ m \in at /\ \A j \in at : j <= m
  OBVIOUS
<1>2. p \in {g[i][3] : i \in DOMAIN g}
  OBVIOUS
<1>3. View(g)[p] = LET top == g[CHOOSE i \in at : \A j \in at : j <= i]
                   IN [kind |-> top[1], host |-> top[2]]
  <2> HIDE DEF p
  <2> QED
    BY <1>2 DEF View
<1>4. p \in DOMAIN View(g)
  <2> HIDE DEF p
  <2> QED
    BY <1>2 DEF View
<1> HIDE DEF at, p
<1>5. (CHOOSE i \in at : \A j \in at : j <= i) = m
  BY <1>1, LastIsChosen, Zenon
<1> QED
  BY <1>3, <1>4, <1>5, ZenonT(30) DEF p

(* Every path of a list of mounts has a last one. *)
LEMMA HasTop ==
    ASSUME NEW g, NEW n \in Nat, DOMAIN g = 1..n, NEW p \in DOMAIN View(g)
    PROVE  \E m \in 1..n :
              /\ g[m][3] = p
              /\ \A j \in 1..n : g[j][3] = p => j <= m
              /\ View(g)[p] = [kind |-> g[m][1], host |-> g[m][2]]
<1> DEFINE at == {i \in 1..n : g[i][3] = p}
<1>1. \E i \in 1..n : g[i][3] = p
  BY DEF View
<1>2. at \in SUBSET (1..n) /\ at # {}
  BY <1>1
<1>3. PICK m \in at : \A i \in at : i <= m
  <2> HIDE DEF at
  <2> QED
    BY <1>2, LastPlace, ZenonT(30)
<1>4. m \in 1..n /\ g[m][3] = p /\ \A j \in 1..n : g[j][3] = p => j <= m
  BY <1>3
<1>5. DOMAIN g \in SUBSET Int /\ m \in DOMAIN g /\ \A j \in DOMAIN g : g[j][3] = g[m][3] => j <= m
  BY <1>4, SMTT(30)
<1>6. View(g)[g[m][3]] = [kind |-> g[m][1], host |-> g[m][2]]
  <2> HIDE DEF at
  <2> QED
    BY <1>5, ViewTop
<1> QED
  BY <1>4, <1>6, Zenon

(* `f` has the mounts of `g`, `k` places later. *)
Moved(f, g, n, k) ==
    /\ n \in Nat /\ k \in Nat /\ DOMAIN g = 1..n
    /\ \A i \in 1..n : k + i \in DOMAIN f /\ f[k + i] = g[i]
    /\ \A j \in DOMAIN f : \E i \in 1..n : j = k + i

(* Options that are no mounts move the mounts and change no view. *)
LEMMA ViewShift ==
    ASSUME NEW f, NEW g, NEW n, NEW k, Moved(f, g, n, k)
    PROVE  View(f) = View(g)
<1> USE DEF Moved
<1>1. DOMAIN View(f) = {f[i][3] : i \in DOMAIN f} /\ DOMAIN View(g) = {g[i][3] : i \in DOMAIN g}
  BY DEF View
<1>2. DOMAIN View(f) = DOMAIN View(g)
  <2>1. ASSUME NEW i \in DOMAIN f PROVE \E j \in DOMAIN g : f[i][3] = g[j][3]
    <3>1. PICK j \in 1..n : i = k + j
      BY Zenon
    <3>2. j \in DOMAIN g /\ f[i] = g[j]
      BY <3>1
    <3> QED
      BY <3>2, Zenon
  <2>2. ASSUME NEW j \in DOMAIN g PROVE \E i \in DOMAIN f : f[i][3] = g[j][3]
    <3>1. k + j \in DOMAIN f /\ f[k + j] = g[j]
      OBVIOUS
    <3> QED
      BY <3>1
  <2>3. /\ \A p : p \in DOMAIN View(f) <=> \E i \in DOMAIN f : p = f[i][3]
        /\ \A p : p \in DOMAIN View(g) <=> \E i \in DOMAIN g : p = g[i][3]
    BY <1>1, Zenon
  <2>4. \A p : p \in DOMAIN View(f) <=> p \in DOMAIN View(g)
    <3>1. ASSUME NEW p \in DOMAIN View(f) PROVE p \in DOMAIN View(g)
      <4>1. PICK i \in DOMAIN f : p = f[i][3]
        BY <2>3, Zenon
      <4>2. PICK j \in DOMAIN g : f[i][3] = g[j][3]
        BY <2>1, Zenon
      <4> QED
        BY <2>3, <4>1, <4>2, ZenonT(30)
    <3>2. ASSUME NEW p \in DOMAIN View(g) PROVE p \in DOMAIN View(f)
      <4>1. PICK j \in DOMAIN g : p = g[j][3]
        BY <2>3, Zenon
      <4>2. PICK i \in DOMAIN f : f[i][3] = g[j][3]
        BY <2>2, ZenonT(30)
      <4> QED
        BY <2>3, <4>1, <4>2, ZenonT(30)
    <3> QED
      BY <3>1, <3>2
  <2> QED
    BY <2>4, Zenon
<1>3. ASSUME NEW p \in DOMAIN View(g) PROVE View(f)[p] = View(g)[p]
  <2>1. PICK m \in 1..n : /\ g[m][3] = p
                          /\ \A j \in 1..n : g[j][3] = p => j <= m
                          /\ View(g)[p] = [kind |-> g[m][1], host |-> g[m][2]]
    <3>1. n \in Nat /\ DOMAIN g = 1..n
      BY Zenon
    <3> HIDE DEF Moved
    <3> QED
      BY <3>1, HasTop, ZenonT(30)
  <2>2. k + m \in DOMAIN f /\ f[k + m] = g[m] /\ f[k + m][3] = p
    BY <2>1
  <2>3. DOMAIN f \in SUBSET Int
    OBVIOUS
  <2>4. ASSUME NEW j \in DOMAIN f, f[j][3] = p PROVE j <= k + m
    <3>1. PICK i \in 1..n : j = k + i
      OBVIOUS
    <3>2. g[i][3] = p
      BY <2>4, <3>1, Zenon
    <3>3. i <= m
      BY <2>1, <3>2, Zenon
    <3> QED
      BY <3>1, <3>3
  <2>5. View(f)[f[k + m][3]] = [kind |-> f[k + m][1], host |-> f[k + m][2]]
    <3>1. \A j \in DOMAIN f : f[j][3] = f[k + m][3] => j <= k + m
      BY <2>2, <2>4, SMTT(30)
    <3> QED
      BY <2>2, <2>3, <3>1, ViewTop, Zenon
  <2> QED
    BY <2>1, <2>2, <2>5, Zenon
<1>4. /\ View(f) = [p \in DOMAIN View(f) |-> View(f)[p]]
      /\ View(g) = [p \in DOMAIN View(g) |-> View(g)[p]]
  BY Zenon DEF View
<1> QED
  BY <1>2, <1>3, <1>4, Zenon

(* The lists that the two launchers mount. *)
LEMMA LaunchLists ==
    ASSUME NEW ca \in IssuedPairs, NEW inv
    PROVE  /\ build_plan(SpecOf(ca, inv)).mounts =
                 Listing(ca, inv, <<"proc", "none", "/proc">>, <<"dev", "none", "/dev">>, "ro", "rw")
           /\ MountOptions(SpecOf(ca, inv)) =
                 Listing(ca, inv, <<"--proc", "none", "/proc">>, <<"--dev", "none", "/dev">>,
                         "--ro-bind", "--bind")
<1> DEFINE spec == SpecOf(ca, inv)
<1>1. /\ spec.ro_binds = ReadBinds(ca, inv) /\ spec.rw_binds = WriteBinds(ca)
      /\ spec.tmpfs = <<>>
  BY SpecFacts
<1> HIDE DEF spec
<1>2. Tmpfs(spec.tmpfs) = <<>> /\ [i \in DOMAIN spec.tmpfs |-> <<"--tmpfs", "none", spec.tmpfs[i]>>] = <<>>
  BY <1>1 DEF Tmpfs
<1>3. build_plan(spec).mounts =
         <<<<"proc", "none", "/proc">>, <<"dev", "none", "/dev">>>>
             \o Binds("ro", spec.ro_binds) \o Binds("rw", spec.rw_binds) \o Tmpfs(spec.tmpfs)
  BY DEF build_plan
<1>4. MountOptions(spec) =
         <<<<"--proc", "none", "/proc">>, <<"--dev", "none", "/dev">>>>
             \o Binds("--ro-bind", spec.ro_binds) \o Binds("--bind", spec.rw_binds)
             \o [i \in DOMAIN spec.tmpfs |-> <<"--tmpfs", "none", spec.tmpfs[i]>>]
  BY DEF MountOptions
<1> QED
  BY <1>1, <1>2, <1>3, <1>4, ZenonT(30) DEF Listing, spec

(* Options that isolate are no mounts and share no network. *)
LEMMA IsolationFacts ==
    ASSUME NEW ca \in IssuedPairs, NEW inv
    PROVE  LET s == IsolationOptions(SpecOf(ca, inv))
           IN /\ \E S : s \in Seq(S)
              /\ \A i \in DOMAIN s : s[i][1] \notin DOMAIN MountKinds \cup {"--share-net"}
<1> DEFINE spec == SpecOf(ca, inv)
           O == {<<"--unshare-all">>, <<"--die-with-parent">>, <<"--new-session">>,
                 <<"--cap-drop", "ALL">>, <<"--clearenv">>, <<"--setenv", "AKSON_BROKER_FD">>}
           first == <<<<"--unshare-all">>>>
           four == <<<<"--die-with-parent">>, <<"--new-session">>, <<"--cap-drop", "ALL">>,
                     <<"--clearenv">>>>
           envs == [i \in DOMAIN Env(ca) |-> <<"--setenv", Env(ca)[i]>>]
<1>1. spec.env = Env(ca) /\ spec.allow_network = FALSE
  BY SpecFacts
<1>2. \A e \in O : e[1] \notin DOMAIN MountKinds \cup {"--share-net"}
  BY DEF MountKinds
<1>3. first \in Seq(O) /\ four \in Seq(O)
  OBVIOUS
<1>4. envs \in Seq(O)
  <2> DEFINE e == <<"--setenv", "AKSON_BROKER_FD">>
  <2>1. e \in O
    OBVIOUS
  <2> HIDE DEF O
  <2>2. CASE ca[2].processor = "none"
    <3>1. envs = <<>>
      BY <2>2 DEF Env
    <3> QED
      BY <3>1
  <2>3. CASE ca[2].processor # "none"
    <3>1. Env(ca) = <<"AKSON_BROKER_FD">>
      BY <2>3 DEF Env
    <3>2. envs = [i \in 1..1 |-> e]
      BY <3>1
    <3>3. envs = <<e>>
      BY <3>2
    <3> QED
      BY <2>1, <3>3
  <2> QED
    BY <2>2, <2>3
<1> HIDE DEF spec, O, first, four, envs
<1>5. IsolationOptions(spec) = first \o <<>> \o four \o envs
  BY <1>1, Zenon DEF IsolationOptions, first, four, envs
<1>6. first \o <<>> \in Seq(O)
  BY <1>3
<1>7. first \o <<>> \o four \in Seq(O)
  BY <1>3, <1>6
<1>8. IsolationOptions(spec) \in Seq(O)
  BY <1>4, <1>5, <1>7
<1>9. \A i \in DOMAIN IsolationOptions(spec) : IsolationOptions(spec)[i] \in O
  BY <1>8
<1> QED
  BY <1>2, <1>8, <1>9, Zenon DEF spec

(* The bubblewrap arguments: the options, the mounts, the command. *)
LEMMA ArgvFacts ==
    ASSUME NEW ca \in IssuedPairs, NEW inv
    PROVE  LET argv == ArgvOf(ca, inv)
               M == MountOptions(SpecOf(ca, inv))
           IN \E k \in Nat :
                /\ \A i \in 1..Len(M) : k + i \in DOMAIN argv /\ argv[k + i] = M[i]
                /\ \A j \in DOMAIN argv :
                      \/ \E i \in 1..Len(M) : j = k + i
                      \/ argv[j][1] \notin DOMAIN MountKinds \cup {"--share-net"}
<1> DEFINE spec == SpecOf(ca, inv)
           argv == ArgvOf(ca, inv)
           N == DOMAIN MountKinds \cup {"--share-net"}
           I == IsolationOptions(spec)
           M == MountOptions(spec)
           a == <<"--seccomp", worker_seccomp(inv)>>
           b == <<"--chdir", spec.chdir>>
           d == <<"--", program(inv), worker_args(inv)>>
           C == <<a, b, d>>
<1>1. argv = I \o M \o C
  BY DEF ArgvOf, build_argv
<1>2. PICK SI : I \in Seq(SI)
  BY IsolationFacts
<1>3. \A i \in DOMAIN I : I[i][1] \notin N
  BY IsolationFacts
<1>4. PICK SM : M \in Seq(SM)
  <2> DEFINE L == Listing(ca, inv, <<"--proc", "none", "/proc">>, <<"--dev", "none", "/dev">>,
                          "--ro-bind", "--bind")
  <2>1. PICK S : L \in Seq(S)
    BY ListingFacts, ZenonT(30) DEF Listed
  <2>2. M = L
    BY LaunchLists, Zenon
  <2> QED
    BY <2>1, <2>2, Zenon
<1>5. a[1] \notin N /\ b[1] \notin N /\ d[1] \notin N
  BY DEF MountKinds
<1> DEFINE S == SI \cup SM \cup {a, b, d}
<1>6. a \in S /\ b \in S /\ d \in S
  OBVIOUS
<1>7. I \in Seq(S) /\ M \in Seq(S)
  <2>1. SI \subseteq S /\ SM \subseteq S
    OBVIOUS
  <2> HIDE DEF S, I, M
  <2> QED
    BY <1>2, <1>4, <2>1, SeqMonotonic, SMTT(30)
<1> HIDE DEF S, I, M, N, a, b, d, argv, spec
<1>8. C \in Seq(S) /\ Len(C) = 3 /\ C[1] = a /\ C[2] = b /\ C[3] = d
  BY <1>6
<1>9. \A i \in 1..Len(C) : C[i][1] \notin N
  <2>1. \A i \in 1..Len(C) : C[i] \in {a, b, d}
    BY <1>8
  <2> HIDE DEF C
  <2> QED
    BY <1>5, <2>1
<1> HIDE DEF C
<1> DEFINE IM == I \o M
<1>10. /\ IM \in Seq(S) /\ Len(IM) = Len(I) + Len(M) /\ Len(I) \in Nat /\ Len(M) \in Nat
       /\ \A i \in 1..Len(I) : IM[i] = I[i]
       /\ \A i \in 1..Len(M) : IM[Len(I) + i] = M[i]
       /\ \A k \in 1..(Len(I) + Len(M)) : k \in 1..Len(I) \/ \E i \in 1..Len(M) : k = Len(I) + i
  <2>1. IM \in Seq(S) /\ Joins(IM, I, M)
    BY <1>7, Joined
  <2> HIDE DEF IM
  <2> QED
    BY <2>1, Zenon DEF Joins
<1> HIDE DEF IM
<1>11. /\ argv = IM \o C
       /\ DOMAIN argv = 1..(Len(IM) + Len(C))
       /\ \A i \in 1..Len(IM) : argv[i] = IM[i]
       /\ \A i \in 1..Len(C) : argv[Len(IM) + i] = C[i]
       /\ \A k \in 1..(Len(IM) + Len(C)) : k \in 1..Len(IM) \/ \E i \in 1..Len(C) : k = Len(IM) + i
  <2>1. argv = IM \o C
    BY <1>1 DEF IM
  <2>2. IM \in Seq(S) /\ C \in Seq(S)
    BY <1>8, <1>10
  <2>3. Joins(argv, IM, C)
    BY <2>1, <2>2, Joined, Zenon
  <2> QED
    BY <2>1, <2>3, ZenonT(30) DEF Joins
<1>12. ASSUME NEW i \in 1..Len(M) PROVE Len(I) + i \in DOMAIN argv /\ argv[Len(I) + i] = M[i]
  <2>1. Len(I) + i \in 1..Len(IM) /\ Len(I) + i \in 1..(Len(IM) + Len(C))
    BY <1>8, <1>10, SMTT(30)
  <2> QED
    BY <1>10, <1>11, <2>1, Zenon
<1>13. ASSUME NEW j \in DOMAIN argv
       PROVE  (\E i \in 1..Len(M) : j = Len(I) + i) \/ argv[j][1] \notin N
  <2>1. CASE j \in 1..Len(I)
    <3>1. j \in 1..Len(IM) /\ argv[j] = I[j] /\ j \in DOMAIN I
      <4>1. j \in 1..Len(IM)
        BY <1>10, <2>1
      <4>2. j \in DOMAIN I
        BY <1>7, <2>1, SMTT(30)
      <4> QED
        BY <1>10, <1>11, <2>1, <4>1, <4>2, SMTT(30)
    <3> QED
      BY <1>3, <3>1, Zenon
  <2>2. CASE \E i \in 1..Len(C) : j = Len(IM) + i
    BY <1>9, <1>11, <2>2, SMTT(30)
  <2> QED
    BY <1>10, <1>11, <2>1, <2>2, Zenon
<1>14. Len(I) \in Nat
  BY <1>10
<1> QED
  BY <1>12, <1>13, <1>14, Zenon DEF argv, M, N, spec

(* The plan of a run by its places. *)
LEMMA PlanFacts ==
    ASSUME NEW ca \in IssuedPairs, NEW inv
    PROVE  LET P == build_plan(SpecOf(ca, inv)).mounts
               M == MountOptions(SpecOf(ca, inv))
               R == ReadBinds(ca, inv)
               n == MountCount(ca, inv)
           IN /\ n \in Nat /\ DOMAIN P = 1..n /\ Len(M) = n
              /\ P[1] = <<"proc", "none", "/proc">> /\ P[2] = <<"dev", "none", "/dev">>
              /\ \A i \in 1..Len(R) : P[2 + i] = <<"ro", R[i][1], R[i][2]>>
              /\ Answers(ca) => P[n] = <<"rw", "run/output", "/output">>
              /\ \A i \in 1..n : /\ M[i][1] \in DOMAIN MountKinds
                                 /\ <<MountKinds[M[i][1]], M[i][2], M[i][3]>> = P[i]
<1> DEFINE P == build_plan(SpecOf(ca, inv)).mounts
           M == MountOptions(SpecOf(ca, inv))
           R == ReadBinds(ca, inv)
           n == MountCount(ca, inv)
           r == Len(R)
<1>1. /\ n \in Nat /\ DOMAIN P = 1..n
      /\ P[1] = <<"proc", "none", "/proc">> /\ P[2] = <<"dev", "none", "/dev">>
      /\ \A i \in 1..r : P[2 + i] = <<"ro", R[i][1], R[i][2]>>
      /\ Answers(ca) => P[n] = <<"rw", "run/output", "/output">>
  <2>1. Listed(P, ca, inv, <<"proc", "none", "/proc">>, <<"dev", "none", "/dev">>, "ro", "rw")
    BY LaunchLists, ListingFacts, Zenon
  <2> HIDE DEF P
  <2> QED
    BY <2>1, Zenon DEF Listed
<1>2. /\ Len(M) = n
      /\ M[1] = <<"--proc", "none", "/proc">> /\ M[2] = <<"--dev", "none", "/dev">>
      /\ \A i \in 1..r : M[2 + i] = <<"--ro-bind", R[i][1], R[i][2]>>
      /\ Answers(ca) => M[n] = <<"--bind", "run/output", "/output">>
  <2>1. Listed(M, ca, inv, <<"--proc", "none", "/proc">>, <<"--dev", "none", "/dev">>,
               "--ro-bind", "--bind")
    BY LaunchLists, ListingFacts, ZenonT(30)
  <2> HIDE DEF M
  <2> QED
    BY <2>1, Zenon DEF Listed
<1>3. r \in Nat /\ n = 2 + r + (IF Answers(ca) THEN 1 ELSE 0)
  BY BindFacts DEF MountCount
<1>4. /\ {"--proc", "--dev", "--ro-bind", "--bind"} \subseteq DOMAIN MountKinds
      /\ MountKinds["--proc"] = "proc" /\ MountKinds["--dev"] = "dev"
      /\ MountKinds["--ro-bind"] = "ro" /\ MountKinds["--bind"] = "rw"
  BY Zenon DEF MountKinds
<1> HIDE DEF P, M, R, n, r
<1>5. ASSUME NEW i \in 1..n
      PROVE  /\ M[i][1] \in DOMAIN MountKinds
             /\ <<MountKinds[M[i][1]], M[i][2], M[i][3]>> = P[i]
  <2>1. ASSUME NEW o \in {"--proc", "--dev", "--ro-bind", "--bind"}, NEW h, NEW p,
               M[i] = <<o, h, p>>, P[i] = <<MountKinds[o], h, p>>
        PROVE  /\ M[i][1] \in DOMAIN MountKinds
               /\ <<MountKinds[M[i][1]], M[i][2], M[i][3]>> = P[i]
    <3>1. M[i][1] = o /\ M[i][2] = h /\ M[i][3] = p
      BY <2>1, SMTT(30)
    <3> QED
      BY <1>4, <2>1, <3>1, ZenonT(30)
  <2>2. CASE i = 1
    <3>1. M[i] = <<"--proc", "none", "/proc">> /\ P[i] = <<MountKinds["--proc"], "none", "/proc">>
      BY <1>1, <1>2, <1>4, <2>2, ZenonT(30)
    <3> QED
      BY <2>1, <3>1
  <2>3. CASE i = 2
    <3>1. M[i] = <<"--dev", "none", "/dev">> /\ P[i] = <<MountKinds["--dev"], "none", "/dev">>
      BY <1>1, <1>2, <1>4, <2>3, ZenonT(30)
    <3> QED
      BY <2>1, <3>1
  <2>4. CASE \E j \in 1..r : i = 2 + j
    <3>1. PICK j \in 1..r : i = 2 + j
      BY <2>4
    <3>2. /\ M[i] = <<"--ro-bind", R[j][1], R[j][2]>>
          /\ P[i] = <<MountKinds["--ro-bind"], R[j][1], R[j][2]>>
      BY <1>1, <1>2, <1>4, <3>1, ZenonT(30)
    <3> QED
      BY <2>1, <3>2
  <2>5. CASE Answers(ca) /\ i = n
    <3>1. /\ M[i] = <<"--bind", "run/output", "/output">>
          /\ P[i] = <<MountKinds["--bind"], "run/output", "/output">>
      BY <1>1, <1>2, <1>4, <2>5, ZenonT(30)
    <3> QED
      BY <2>1, <3>1
  <2>6. i = 1 \/ i = 2 \/ (\E j \in 1..r : i = 2 + j) \/ (Answers(ca) /\ i = n)
    <3>1. n \in Nat /\ (i = 1 \/ i = 2 \/ i - 2 \in 1..r \/ (Answers(ca) /\ i = n))
      <4>1. n \in Nat
        BY <1>1
      <4> QED
        BY <1>3, <4>1, SMTT(30)
    <3>2. i = 2 + (i - 2)
      BY <3>1
    <3> QED
      BY <3>1, <3>2, ZenonT(30)
  <2> QED
    BY <2>2, <2>3, <2>4, <2>5, <2>6, SMTT(30)
<1> QED
  BY <1>1, <1>2, <1>5, ZenonT(30) DEF P, M, R, n, r

(* The two launchers show the same. *)
LEMMA LaunchersAgree ==
    ASSUME NEW ca \in IssuedPairs, NEW inv
    PROVE  ViewOf(ca, inv) = View(build_plan(SpecOf(ca, inv)).mounts)
<1> DEFINE argv == ArgvOf(ca, inv)
           P == build_plan(SpecOf(ca, inv)).mounts
           M == MountOptions(SpecOf(ca, inv))
           n == MountCount(ca, inv)
           f == ArgvMounts(argv)
<1>1. PICK k \in Nat :
        /\ \A i \in 1..Len(M) : k + i \in DOMAIN argv /\ argv[k + i] = M[i]
        /\ \A j \in DOMAIN argv :
              \/ \E i \in 1..Len(M) : j = k + i
              \/ argv[j][1] \notin DOMAIN MountKinds \cup {"--share-net"}
  BY ArgvFacts, Zenon
<1>2. /\ n \in Nat /\ DOMAIN P = 1..n /\ Len(M) = n
      /\ \A i \in 1..n : /\ M[i][1] \in DOMAIN MountKinds
                         /\ <<MountKinds[M[i][1]], M[i][2], M[i][3]>> = P[i]
  BY PlanFacts, ZenonT(30)
<1> HIDE DEF argv, P, M, n
<1>3. /\ DOMAIN f = {j \in DOMAIN argv : argv[j][1] \in DOMAIN MountKinds}
      /\ \A j \in DOMAIN f : f[j] = <<MountKinds[argv[j][1]], argv[j][2], argv[j][3]>>
  BY DEF ArgvMounts
<1> HIDE DEF f
<1>4. ASSUME NEW i \in 1..n PROVE k + i \in DOMAIN f /\ f[k + i] = P[i]
  <2>1. k + i \in DOMAIN argv /\ argv[k + i] = M[i]
    BY <1>1, <1>2
  <2> QED
    BY <1>2, <1>3, <2>1, ZenonT(30)
<1>5. \A j \in DOMAIN f : \E i \in 1..n : j = k + i
  BY <1>1, <1>2, <1>3, ZenonT(30)
<1>6. View(f) = View(P)
  <2>1. n \in Nat /\ DOMAIN P = 1..n
    BY <1>2
  <2>2. \A i \in 1..n : k + i \in DOMAIN f /\ f[k + i] = P[i]
    BY <1>4
  <2>3. k \in Nat
    OBVIOUS
  <2> QED
    <3>1. Moved(f, P, n, k)
      BY <1>5, <2>1, <2>2, <2>3, ZenonT(30) DEF Moved
    <3> QED
      BY <3>1, ViewShift, ZenonT(30)
<1> QED
  BY <1>6 DEF ViewOf, f, argv, P

(* The places of the plan, one by one. *)
LEMMA PlanPlaces ==
    ASSUME NEW ca \in IssuedPairs, NEW inv, NEW i \in 1..MountCount(ca, inv)
    PROVE  LET P == build_plan(SpecOf(ca, inv)).mounts
               R == ReadBinds(ca, inv)
           IN \/ P[i] \in {<<"proc", "none", "/proc">>, <<"dev", "none", "/dev">>} /\ i <= 2
              \/ \E j \in 1..Len(R) : i = 2 + j /\ P[i] = <<"ro", R[j][1], R[j][2]>>
              \/ /\ Answers(ca) /\ i = MountCount(ca, inv)
                 /\ P[i] = <<"rw", "run/output", "/output">>
<1> DEFINE P == build_plan(SpecOf(ca, inv)).mounts
           R == ReadBinds(ca, inv)
           n == MountCount(ca, inv)
           r == Len(R)
<1>1. n \in Nat /\ r \in Nat /\ n = 2 + r + (IF Answers(ca) THEN 1 ELSE 0)
  BY BindFacts, PlanFacts, Zenon DEF MountCount
<1>2. /\ P[1] = <<"proc", "none", "/proc">> /\ P[2] = <<"dev", "none", "/dev">>
      /\ \A j \in 1..r : P[2 + j] = <<"ro", R[j][1], R[j][2]>>
      /\ Answers(ca) => P[n] = <<"rw", "run/output", "/output">>
  BY PlanFacts, ZenonT(30)
<1> HIDE DEF P, R, n, r
<1>3. i \in 1..n
  BY DEF n
<1>4. i = 1 \/ i = 2 \/ i - 2 \in 1..r \/ (Answers(ca) /\ i = n)
  BY <1>1, <1>3
<1>5. CASE i = 1 \/ i = 2
  <2>1. P[i] \in {<<"proc", "none", "/proc">>, <<"dev", "none", "/dev">>}
    BY <1>2, <1>5, ZenonT(30)
  <2>2. i <= 2
    BY <1>5
  <2> QED
    BY <2>1, <2>2, Zenon DEF P
<1>6. CASE i - 2 \in 1..r
  <2>1. i = 2 + (i - 2)
    BY <1>3
  <2> QED
    BY <1>2, <1>6, <2>1, ZenonT(30) DEF P, R, r
<1>7. CASE Answers(ca) /\ i = n
  BY <1>2, <1>7, ZenonT(30) DEF P, n
<1> QED
  BY <1>4, <1>5, <1>6, <1>7, ZenonT(30)

(* The mounts are those of the approval. *)
LEMMA MountsKeep ==
    ASSUME NEW ca \in IssuedPairs, NEW inv
    PROVE  MountsAreApproved(ca, inv)
<1> DEFINE spec == SpecOf(ca, inv)
           view == ViewOf(ca, inv)
           P == build_plan(spec).mounts
           R == ReadBinds(ca, inv)
           n == MountCount(ca, inv)
           r == Len(R)
           reads == "ReadSuppliedInputs" \in Requested(ca[1])
           Sources == Host.directories \cup (Host.files \cap {bind_token(inv)})
           Hosts == {"none", "run/inputs", "run/output"} \cup Sources
<1>1. view = View(P)
  BY LaunchersAgree
<1>2. n \in Nat /\ r \in Nat /\ n = 2 + r + (IF Answers(ca) THEN 1 ELSE 0) /\ DOMAIN P = 1..n
  BY BindFacts, PlanFacts, ZenonT(30) DEF MountCount
<1>3. /\ \A j \in 1..r : P[2 + j] = <<"ro", R[j][1], R[j][2]>>
      /\ Answers(ca) => P[n] = <<"rw", "run/output", "/output">>
  BY PlanFacts, ZenonT(30)
<1>4. /\ \A j \in 1..r : R[j][1] \in Sources \cup {"run/inputs"}
      /\ reads => r # 0 /\ R[r] = <<"run/inputs", "/inputs">>
      /\ ~reads => \A j \in 1..r : R[j][1] # "run/inputs"
  BY BindFacts, Zenon
<1>5. \A i \in 1..n : \/ P[i] \in {<<"proc", "none", "/proc">>, <<"dev", "none", "/dev">>} /\ i <= 2
                      \/ \E j \in 1..r : i = 2 + j /\ P[i] = <<"ro", R[j][1], R[j][2]>>
                      \/ Answers(ca) /\ i = n /\ P[i] = <<"rw", "run/output", "/output">>
  BY PlanPlaces, ZenonT(30)
<1>6. \A q \in DOMAIN view : \E m \in 1..n :
         /\ P[m][3] = q
         /\ \A j \in 1..n : P[j][3] = q => j <= m
         /\ view[q] = [kind |-> P[m][1], host |-> P[m][2]]
  <2> HIDE DEF view, P, n
  <2>1. ASSUME NEW q \in DOMAIN View(P)
        PROVE  \E m \in 1..n : /\ P[m][3] = q
                               /\ \A j \in 1..n : P[j][3] = q => j <= m
                               /\ View(P)[q] = [kind |-> P[m][1], host |-> P[m][2]]
    BY <1>2, HasTop, ZenonT(30)
  <2> QED
    BY <1>1, <2>1, ZenonT(30)
<1>7. \A m \in 1..n : (\A j \in 1..n : P[j][3] = P[m][3] => j <= m) =>
         /\ P[m][3] \in DOMAIN view
         /\ view[P[m][3]] = [kind |-> P[m][1], host |-> P[m][2]]
  <2> HIDE DEF view, P, n
  <2>1. DOMAIN P \in SUBSET Int
    BY <1>2, SMTT(30)
  <2> QED
    BY <1>1, <1>2, <2>1, ViewTop, Zenon
<1> HIDE DEF view, P, R, n, r, reads, Sources
<1>8. ASSUME NEW i \in 1..n
      PROVE  /\ P[i][2] \in Hosts
             /\ P[i][1] = "rw" <=> Answers(ca) /\ i = n
             /\ P[i][2] = "run/inputs" => reads
  <2>1. CASE P[i] \in {<<"proc", "none", "/proc">>, <<"dev", "none", "/dev">>} /\ i <= 2
    <3>1. ~(Answers(ca) /\ i = n)
      <4>1. i <= 2
        BY <2>1
      <4>2. Answers(ca) => n = 2 + r + 1
        BY <1>2
      <4>3. r \in Nat
        BY <1>2
      <4> QED
        BY <4>1, <4>2, <4>3, SMTT(30)
    <3>2. P[i][1] \in {"proc", "dev"} /\ P[i][2] = "none"
      <4>1. CASE P[i] = <<"proc", "none", "/proc">>
        BY <4>1
      <4>2. CASE P[i] = <<"dev", "none", "/dev">>
        BY <4>2
      <4> QED
        BY <2>1, <4>1, <4>2, ZenonT(30)
    <3> QED
      BY <3>1, <3>2, Zenon
  <2>2. CASE \E j \in 1..r : i = 2 + j /\ P[i] = <<"ro", R[j][1], R[j][2]>>
    <3>1. PICK j \in 1..r : i = 2 + j /\ P[i] = <<"ro", R[j][1], R[j][2]>>
      BY <2>2
    <3>2. ~(Answers(ca) /\ i = n)
      BY <1>2, <3>1
    <3>3. P[i][1] = "ro" /\ P[i][2] = R[j][1]
      BY <3>1
    <3> QED
      BY <1>4, <3>2, <3>3, Zenon
  <2>3. CASE Answers(ca) /\ i = n /\ P[i] = <<"rw", "run/output", "/output">>
    BY <2>3
  <2> QED
    BY <1>5, <2>1, <2>2, <2>3, Zenon
<1>9. {view[q].host : q \in DOMAIN view} \subseteq Hosts
  <2> SUFFICES ASSUME NEW q \in DOMAIN view PROVE view[q].host \in Hosts
    OBVIOUS
  <2>1. PICK m \in 1..n : view[q] = [kind |-> P[m][1], host |-> P[m][2]]
    BY <1>6, Zenon
  <2>2. view[q].host = P[m][2]
    BY <2>1
  <2> QED
    BY <1>8, <2>2, Zenon
<1>10. Shows(view, "/inputs", "run/inputs") <=> reads
  <2>1. ASSUME Shows(view, "/inputs", "run/inputs") PROVE reads
    <3>1. "/inputs" \in DOMAIN view /\ view["/inputs"].host = "run/inputs"
      BY <2>1, Zenon DEF Shows
    <3>2. PICK m \in 1..n : view["/inputs"] = [kind |-> P[m][1], host |-> P[m][2]]
      BY <1>6, <3>1, Zenon
    <3>3. P[m][2] = "run/inputs"
      BY <3>1, <3>2
    <3> QED
      BY <1>8, <3>3
  <2>2. ASSUME reads PROVE Shows(view, "/inputs", "run/inputs")
    <3>1. r \in 1..r /\ 2 + r \in 1..n
      BY <1>2, <1>4, <2>2, SMTT(30)
    <3>2. R[r] = <<"run/inputs", "/inputs">> /\ P[2 + r] = <<"ro", R[r][1], R[r][2]>>
      BY <1>3, <1>4, <2>2, <3>1, Zenon
    <3>3. P[2 + r][2] = "run/inputs" /\ P[2 + r][3] = "/inputs"
      BY <3>2
    <3>4. ASSUME NEW j \in 1..n, P[j][3] = "/inputs" PROVE j <= 2 + r
      <4>1. CASE j <= 2
        BY <1>2, <4>1
      <4>2. CASE \E i \in 1..r : j = 2 + i
        BY <1>2, <4>2
      <4>3. CASE P[j] = <<"rw", "run/output", "/output">>
        BY <3>4, <4>3
      <4> QED
        BY <1>5, <4>1, <4>2, <4>3, Zenon
    <3>5. "/inputs" \in DOMAIN view /\ view["/inputs"] = [kind |-> P[2 + r][1], host |-> P[2 + r][2]]
      BY <1>7, <3>1, <3>3, <3>4, ZenonT(30)
    <3> QED
      BY <3>3, <3>5, SMTT(30) DEF Shows
  <2> QED
    BY <2>1, <2>2, Zenon
<1>11. Answers(ca) => /\ "/output" \in DOMAIN view
                      /\ view["/output"] = [kind |-> "rw", host |-> "run/output"]
  <2> SUFFICES ASSUME Answers(ca)
               PROVE  /\ "/output" \in DOMAIN view
                      /\ view["/output"] = [kind |-> "rw", host |-> "run/output"]
    OBVIOUS
  <2>1. n \in 1..n /\ \A j \in 1..n : j <= n
    BY <1>2
  <2>2. P[n][1] = "rw" /\ P[n][2] = "run/output" /\ P[n][3] = "/output"
    BY <1>3
  <2> QED
    BY <1>7, <2>1, <2>2, ZenonT(30)
<1>12. Writable(view) = IF Answers(ca) THEN {"/output"} ELSE {}
  <2>1. ASSUME NEW q \in Writable(view) PROVE Answers(ca) /\ q = "/output"
    <3>1. q \in DOMAIN view /\ view[q].kind = "rw"
      BY DEF Writable
    <3>2. PICK m \in 1..n : P[m][3] = q /\ view[q] = [kind |-> P[m][1], host |-> P[m][2]]
      BY <1>6, <3>1, Zenon
    <3>3. P[m][1] = "rw"
      BY <3>1, <3>2
    <3>4. Answers(ca) /\ m = n
      BY <1>8, <3>3, Zenon
    <3> QED
      BY <1>3, <3>2, <3>4, SMTT(30)
  <2>2. Answers(ca) => "/output" \in Writable(view)
    BY <1>11 DEF Writable
  <2> QED
    BY <2>1, <2>2, Zenon
<1>13. Answers(ca) => Shows(view, "/output", "run/output")
  BY <1>11 DEF Shows
<1>14. ASSUME NEW q PROVE "write" \in landlock_apply(landlock_profile(spec), q) <=> q \in Writable(view)
  <2>1. spec.tmpfs = <<>> /\ spec.rw_binds = WriteBinds(ca)
    BY SpecFacts
  <2> HIDE DEF spec
  <2>2. landlock_profile(spec).read_write =
           Range(spec.tmpfs) \cup {spec.rw_binds[i][2] : i \in DOMAIN spec.rw_binds}
    BY DEF landlock_profile
  <2>3. Range(spec.tmpfs) = {}
    BY <2>1 DEF Range
  <2>4. {WriteBinds(ca)[i][2] : i \in DOMAIN WriteBinds(ca)} = IF Answers(ca) THEN {"/output"} ELSE {}
    <3>1. CASE Answers(ca)
      <4>1. WriteBinds(ca) = <<<<"run/output", "/output">>>>
        BY <3>1 DEF Answers, WriteBinds
      <4>2. DOMAIN WriteBinds(ca) = {1} /\ WriteBinds(ca)[1][2] = "/output"
        BY <4>1
      <4> QED
        BY <3>1, <4>2, Zenon
    <3>2. CASE ~Answers(ca)
      <4>1. WriteBinds(ca) = <<>>
        BY <3>2, Zenon DEF Answers, WriteBinds
      <4> QED
        BY <3>2, <4>1, SMTT(30)
    <3> QED
      BY <3>1, <3>2, Zenon
  <2>5. landlock_profile(spec).read_write = Writable(view)
    BY <1>12, <2>1, <2>2, <2>3, <2>4, Zenon
  <2> QED
    BY <2>5, Zenon DEF landlock_apply
<1> QED
  BY <1>1, <1>9, <1>10, <1>12, <1>13, <1>14
, ZenonT(30) DEF MountsAreApproved, Answers, view, P, reads, Sources

(* What the worker can reach is what the approval names. *)
LEMMA ReachKeeps ==
    ASSUME NEW ca \in IssuedPairs, NEW inv \in Invocations
    PROVE  ReachIsApproved(ca, inv)
<1> DEFINE spec == SpecOf(ca, inv)
           argv == ArgvOf(ca, inv)
           M == MountOptions(spec)
           filter == compile(worker_seccomp(inv))
<1>1. spec.env = Env(ca) /\ spec.allow_network = FALSE
  BY SpecFacts, SMTT(30)
<1>2. Range(spec.env) = IF ca[2].processor = "none" THEN {} ELSE {"AKSON_BROKER_FD"}
  <2>1. CASE ca[2].processor = "none"
    <3>1. Env(ca) = <<>>
      BY <2>1, Zenon DEF Env
    <3> QED
      BY <1>1, <2>1, <3>1, SMTT(30) DEF Range
  <2>2. CASE ca[2].processor # "none"
    <3>1. Env(ca) = <<"AKSON_BROKER_FD">>
      BY <2>2 DEF Env
    <3>2. DOMAIN Env(ca) = {1} /\ Env(ca)[1] = "AKSON_BROKER_FD"
      BY <3>1
    <3> QED
      BY <1>1, <2>2, <3>2, Zenon DEF Range
  <2> QED
    BY <2>1, <2>2, Zenon
<1>3. "Net" \in build_plan(spec).unshare
  <2> HIDE DEF spec
  <2>1. build_plan(spec).unshare = {"User", "Mount", "Pid", "Ipc", "Uts", "Cgroup"}
                                      \cup (IF spec.allow_network THEN {} ELSE {"Net"})
    BY DEF build_plan
  <2> QED
    BY <1>1, <2>1, Zenon
<1>4. ~HasOption(argv, "--share-net")
  <2>1. PICK k \in Nat :
          /\ \A i \in 1..Len(M) : k + i \in DOMAIN argv /\ argv[k + i] = M[i]
          /\ \A j \in DOMAIN argv :
                \/ \E i \in 1..Len(M) : j = k + i
                \/ argv[j][1] \notin DOMAIN MountKinds \cup {"--share-net"}
    BY ArgvFacts, Zenon
  <2>2. \A i \in 1..Len(M) : M[i][1] \in DOMAIN MountKinds
    BY PlanFacts, Zenon
  <2>3. "--share-net" \notin DOMAIN MountKinds
    BY Zenon DEF MountKinds
  <2> HIDE DEF spec, argv, M
  <2>4. ASSUME NEW j \in DOMAIN argv PROVE argv[j][1] # "--share-net"
    BY <2>1, <2>2, <2>3, SMTT(30)
  <2> QED
    BY <2>4 DEF HasOption
<1>5. /\ worker_seccomp(inv).deny = "kill"
      /\ worker_seccomp(inv).allow = IF inv.kind = "Shell"
                                     THEN common_worker_syscalls \cup ProcessCreation
                                     ELSE common_worker_syscalls
  BY DEF worker_seccomp, clean_worker_baseline, adapter_worker_baseline, deny_all_except
<1>6. \A s \in SocketFamily : s \notin common_worker_syscalls \cup ProcessCreation /\ s \in Syscalls
  BY DEF SocketFamily, common_worker_syscalls, ProcessCreation, Syscalls
<1>7. \A s \in ProcessCreation : s \notin common_worker_syscalls /\ s \in Syscalls
  BY DEF common_worker_syscalls, ProcessCreation, Syscalls
<1>8. \A s \in Syscalls : s \notin worker_seccomp(inv).allow => filter[s] = "kill"
  BY <1>5, Zenon DEF compile
<1>9. /\ \A s \in SocketFamily : filter[s] = "kill"
      /\ inv.kind = "Adapter" => \A s \in ProcessCreation : filter[s] = "kill"
  <2> HIDE DEF filter
  <2>1. \A s \in SocketFamily : s \notin worker_seccomp(inv).allow
    BY <1>5, <1>6, Zenon
  <2>2. inv.kind = "Adapter" => \A s \in ProcessCreation : s \notin worker_seccomp(inv).allow
    BY <1>5, <1>7, Zenon
  <2> QED
    BY <1>6, <1>7, <1>8, <2>1, <2>2, Zenon
<1> HIDE DEF spec, argv, filter
<1> QED
  BY <1>2, <1>3, <1>4, <1>9, Zenon DEF ReachIsApproved, spec, argv, filter

(* For every issued order, configured worker and host: the mounts that     *)
(* build_argv and build_plan describe are the same and those of the        *)
(* approval, stage_inputs writes all visible inputs or none, and neither   *)
(* the environment, the namespaces nor the syscall filter opens more.      *)
THEOREM ViewKeeps == ViewIsApproval
BY StagedKeeps, MountsKeep, ReachKeeps, Zenon DEF ViewIsApproval

(* A worker keeps to the approval it runs under, once its task has an       *)
(* order, whatever contract the owner accepted with whichever outward      *)
(* grants, whatever the worker hands over and on any host.                 *)
THEOREM KeepsToApproval == Spec => []WorkerKeepsToApproval
<1>1. WorkerKeepsToApproval
  BY OrderKeeps, GateKeeps, ViewKeeps DEF WorkerKeepsToApproval
<1> QED
  BY <1>1, PTL
=============================================================================
