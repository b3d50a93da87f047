----------------------------- MODULE GateProofs -----------------------------
(***************************************************************************)
(* What the listener, the pinned handshake and the state database decide,  *)
(* for every input: ListenerChecks and LedgerChecks evaluate the same      *)
(* facts on bounded ones.                                                  *)
(***************************************************************************)
EXTENDS Listener, Tables, Tls, Profile, FiniteSetTheorems, TLAPS

-----------------------------------------------------------------------------
(* The request records (receive_request, demote_to_tombstone).  A store is  *)
(* the record of the tables the gates read; what is in them is open.       *)

IsStore(store) ==
    store = [keys |-> store.keys, status |-> store.status, inbox |-> store.inbox,
             tombstones |-> store.tombstones, key |-> store.key]

Recorded(store, peer, id) == <<peer, id>> \in DOMAIN store.inbox \cup DOMAIN store.tombstones

(* A store with another inbox, and with other tombstones as well. *)
PutInbox(store, i) == [store EXCEPT !.inbox = i]
PutBoth(store, d, i) == [store EXCEPT !.tombstones = d, !.inbox = i]

(* Replacing a table leaves the others. *)
LEMMA StoreFields ==
    ASSUME NEW store, IsStore(store), NEW i, NEW d
    PROVE  /\ IsStore(PutInbox(store, i))
           /\ PutInbox(store, i).inbox = i
           /\ PutInbox(store, i).tombstones = store.tombstones
           /\ PutInbox(store, i).key = store.key
           /\ PutBoth(store, d, i).inbox = i
           /\ PutBoth(store, d, i).tombstones = d
           /\ PutBoth(store, d, i).key = store.key
<1>1. PICK k, s, n, t, c : store = [keys |-> k, status |-> s, inbox |-> n, tombstones |-> t, key |-> c]
  BY DEF IsStore
<1>2. PutInbox(store, i) = [keys |-> k, status |-> s, inbox |-> i, tombstones |-> t, key |-> c]
  BY <1>1 DEF PutInbox
<1>3. PutBoth(store, d, i) = [keys |-> k, status |-> s, inbox |-> i, tombstones |-> d, key |-> c]
  <2> DEFINE half == [store EXCEPT !.tombstones = d]
  <2>1. half = [keys |-> k, status |-> s, inbox |-> n, tombstones |-> d, key |-> c]
    BY <1>1
  <2> HIDE DEF half
  <2>2. [half EXCEPT !.inbox = i]
          = [keys |-> k, status |-> s, inbox |-> i, tombstones |-> d, key |-> c]
    BY <2>1
  <2>3. QED
    BY <2>2, Zenon DEF half, PutBoth
<1>4. QED
  BY <1>1, <1>2, <1>3 DEF IsStore

(* A request is fresh exactly when there is no record of it. *)
LEMMA FreshHasNoRecord ==
    ASSUME NEW store, NEW covered
    PROVE  peek(store, covered) = "Fresh" <=> ~Recorded(store, covered.peer, covered.message_id)
<1> DEFINE k == <<covered.peer, covered.message_id>>
           prior == prior_response(store, covered.peer, covered.message_id)
<1>1. CASE Recorded(store, covered.peer, covered.message_id)
  <2>1. \E row : prior = <<row>>
    BY <1>1 DEF Recorded, prior_response
  <2>2. prior # <<>>
    BY <2>1
  <2>3. QED
    BY <1>1, <2>2 DEF peek, decide
<1>2. CASE ~Recorded(store, covered.peer, covered.message_id)
  <2>1. prior = <<>>
    BY <1>2 DEF Recorded, prior_response
  <2>2. QED
    BY <1>2, <2>1 DEF peek
<1>3. QED
  BY <1>1, <1>2

(* The commitment is the covered values', with the extensions as a set. *)
LEMMA CommitmentIsInjective ==
    ASSUME NEW one, NEW two, NEW key
    PROVE  commitment(one, key) = commitment(two, key) <=> normalized(one) = normalized(two)
<1>1. \A a, b : [mac_of |-> a, key |-> key] = [mac_of |-> b, key |-> key] => a = b
  <2>1. \A a : [mac_of |-> a, key |-> key].mac_of = a
    OBVIOUS
  <2>2. QED
    BY ONLY <2>1, Zenon
<1>2. QED
  BY <1>1, Zenon DEF commitment

(* The record a first request leaves, also as a tombstone. *)
LEMMA RecordOfRequest ==
    ASSUME NEW store, IsStore(store), NEW covered, peek(store, covered) = "Fresh", NEW class,
           NEW kept,
           LET s == receive_request(store, covered, class)
           IN kept \in {s, demote_to_tombstone(s, covered.peer, covered.message_id)}
    PROVE  /\ Recorded(kept, covered.peer, covered.message_id)
           /\ kept.key = store.key
           /\ prior_response(kept, covered.peer, covered.message_id)
                = <<[commitment |-> commitment(covered, store.key), class |-> class, opens |-> TRUE]>>
<1> DEFINE k == <<covered.peer, covered.message_id>>
           row == [commitment |-> commitment(covered, store.key), class |-> class, opens |-> TRUE]
           s == receive_request(store, covered, class)
           i == With(store.inbox, k, row)
<1>1. s = PutInbox(store, i)
  BY DEF receive_request, PutInbox
<1> HIDE DEF row, s, k
<1>0. k \in DOMAIN i /\ i[k] = row
  BY DEF With
<1> HIDE DEF i
<1>2. IsStore(s) /\ s.inbox = i /\ s.tombstones = store.tombstones /\ s.key = store.key
  BY <1>1, StoreFields
<1>3. k \in DOMAIN s.inbox /\ s.inbox[k] = row
  BY <1>0, <1>2, Zenon
<1>4. CASE kept = s
  BY <1>2, <1>3, <1>4 DEF Recorded, prior_response, k, row
<1>5. CASE kept = demote_to_tombstone(s, covered.peer, covered.message_id)
  <2>1. kept = [s EXCEPT !.tombstones = With(s.tombstones, k, row), !.inbox = Without(s.inbox, k)]
    BY <1>3, <1>5, Zenon DEF demote_to_tombstone, k
  <2> DEFINE left == Without(s.inbox, k)
             dead == With(s.tombstones, k, row)
  <2>0. k \notin DOMAIN left /\ k \in DOMAIN dead /\ dead[k] = row
    BY DEF With, Without
  <2> HIDE DEF left, dead
  <2>2. kept.inbox = left /\ kept.tombstones = dead /\ kept.key = s.key
    <3>1. kept = PutBoth(s, dead, left)
      BY <2>1, Zenon DEF left, dead, PutBoth
    <3>2. QED
      BY <1>2, <3>1, StoreFields
  <2>3. k \notin DOMAIN kept.inbox /\ k \in DOMAIN kept.tombstones /\ kept.tombstones[k] = row
    BY <2>0, <2>2, Zenon
  <2>4. QED
    BY <1>2, <2>2, <2>3, Zenon DEF Recorded, prior_response, k, row
<1>6. QED
  BY <1>4, <1>5, Zenon DEF s

(* A message that comes again has no second effect, also when its record    *)
(* is a tombstone by then: nothing more is written, whatever the handlers   *)
(* say of it now, and it passes for the same request exactly when all the   *)
(* covered values agree, the extensions as a set (receive_request, peek).   *)
THEOREM ReplayHasNoEffect ==
    ASSUME NEW store, IsStore(store), NEW covered, peek(store, covered) = "Fresh", NEW class,
           NEW kept,
           LET s == receive_request(store, covered, class)
           IN kept \in {s, demote_to_tombstone(s, covered.peer, covered.message_id)},
           NEW again, again.peer = covered.peer, again.message_id = covered.message_id,
           NEW other
    PROVE  /\ receive_request(kept, again, other) = kept
           /\ peek(kept, again)
                = IF normalized(again) = normalized(covered) THEN "Duplicate" ELSE "Conflict"
<1> DEFINE row == [commitment |-> commitment(covered, store.key), class |-> class, opens |-> TRUE]
<1>0. /\ Recorded(kept, covered.peer, covered.message_id)
      /\ prior_response(kept, covered.peer, covered.message_id) = <<row>> /\ kept.key = store.key
  BY RecordOfRequest
<1>1. /\ Recorded(kept, again.peer, again.message_id)
      /\ prior_response(kept, again.peer, again.message_id) = <<row>> /\ kept.key = store.key
  BY <1>0, Zenon
<1>2. peek(kept, again) # "Fresh"
  BY <1>1, FreshHasNoRecord
<1>3. receive_request(kept, again, other) = kept
  BY <1>2 DEF receive_request
<1>4. <<row>> # <<>> /\ <<row>>[1] = row
  OBVIOUS
<1>5. row.commitment = commitment(covered, store.key) /\ row.opens
  OBVIOUS
<1> HIDE DEF row
<1>6. peek(kept, again) = decide(commitment(again, store.key), row)
  BY <1>1, <1>4, Zenon DEF peek
<1>7. commitment(covered, store.key) = commitment(again, store.key)
        <=> normalized(again) = normalized(covered)
  BY CommitmentIsInjective
<1>8. QED
  BY <1>3, <1>5, <1>6, <1>7 DEF decide

(* No request touches the record of another, or its own when there is one:  *)
(* whatever arrives and whatever the handlers say of it, the answer of      *)
(* every message answered before stays (handle_receive as a whole).         *)
THEOREM RecordsAreKept ==
    ASSUME NEW store, IsStore(store), NEW required, NEW req, NEW peer, NEW result_key, NEW outcome,
           NEW p, NEW id, Recorded(store, p, id)
    PROVE  LET after == handle_receive(store, required, req, peer, result_key, outcome).store
           IN /\ prior_response(after, p, id) = prior_response(store, p, id)
              /\ <<p, id>> = <<peer, req.message.id>> => after = store
<1> DEFINE covered == CoveredValues(req, peer)
           done == handle_receive(store, required, req, peer, result_key, outcome)
<1>1. covered.peer = peer /\ covered.message_id = req.message.id
  BY DEF CoveredValues
<1>2. done.store = store \/ \E class : done.store = receive_request(store, covered, class)
  BY DEF handle_receive, handle_coord_dispatch, dispatch_proposal, handle_result
<1>3. ASSUME NEW class
      PROVE  LET after == receive_request(store, covered, class)
             IN /\ prior_response(after, p, id) = prior_response(store, p, id)
                /\ <<p, id>> = <<peer, req.message.id>> => after = store
  <2> DEFINE k == <<covered.peer, covered.message_id>>
             row == [commitment |-> commitment(covered, store.key), class |-> class, opens |-> TRUE]
             i == With(store.inbox, k, row)
             after == receive_request(store, covered, class)
  <2>1. CASE peek(store, covered) # "Fresh"
    BY <2>1 DEF receive_request
  <2>2. CASE peek(store, covered) = "Fresh"
    <3>1. ~Recorded(store, covered.peer, covered.message_id)
      BY <2>2, FreshHasNoRecord
    <3>2. after = PutInbox(store, i)
      BY <2>2 DEF receive_request, PutInbox
    <3>4. <<p, id>> # k
      BY <3>1, Zenon DEF Recorded
    <3> HIDE DEF k, row, after
    <3> DEFINE q == <<p, id>>
    <3>a. q # k
      BY <3>4
    <3> HIDE DEF q
    <3>b. /\ q \in DOMAIN i <=> q \in DOMAIN store.inbox
          /\ q \in DOMAIN store.inbox => i[q] = store.inbox[q]
      BY <3>a DEF With
    <3> HIDE DEF i
    <3>3. after.inbox = i /\ after.tombstones = store.tombstones
      BY <3>2, StoreFields
    <3>5. /\ <<p, id>> \in DOMAIN after.inbox <=> <<p, id>> \in DOMAIN store.inbox
          /\ <<p, id>> \in DOMAIN store.inbox => after.inbox[<<p, id>>] = store.inbox[<<p, id>>]
      BY <3>3, <3>b, Zenon DEF q
    <3>6. prior_response(after, p, id) = prior_response(store, p, id)
      BY <3>3, <3>5, Zenon DEF prior_response
    <3>7. QED
      BY <1>1, <3>4, <3>6, Zenon DEF after, k
  <2>3. QED
    BY <2>1, <2>2, Zenon
<1> HIDE DEF done, covered
<1>4. QED
  BY <1>2, <1>3, Zenon DEF done
-----------------------------------------------------------------------------
(* The limiter of the anonymous routes (intro_rate_admit). *)

IsLimit(limit) ==
    limit.window \in Nat \ {0} /\ limit.per_window \in Nat \ {0} /\ limit.tracked \in Nat \ {0}

IsTable(limit, table) ==
    /\ IsFiniteSet(DOMAIN table) /\ Cardinality(DOMAIN table) <= limit.tracked
    /\ \A b \in DOMAIN table : table[b] \in [count : Nat, start : Int]

Open(limit, table, b, now) == b \in DOMAIN table /\ now - table[b].start < limit.window

(* Pruning keeps every open window, and makes room where it drops one. *)
LEMMA PrunedTable ==
    ASSUME NEW limit, IsLimit(limit), NEW table, IsTable(limit, table), NEW now \in Int
    PROVE  LET kept == Pruned(limit, table, now)
           IN /\ DOMAIN kept \subseteq DOMAIN table
              /\ \A b \in DOMAIN kept : kept[b] = table[b]
              /\ \A b : Open(limit, table, b, now) => b \in DOMAIN kept
              /\ IsTable(limit, kept)
              /\ DOMAIN kept # DOMAIN table => Cardinality(DOMAIN kept) < limit.tracked
              /\ \/ Cardinality(DOMAIN table) < limit.tracked /\ DOMAIN kept = DOMAIN table
                 \/ \A b \in DOMAIN kept : Open(limit, table, b, now)
<1> DEFINE kept == Pruned(limit, table, now)
<1>1. CASE Cardinality(DOMAIN table) < limit.tracked
  <2>1. kept = table
    BY <1>1 DEF Pruned
  <2>2. QED
    BY <1>1, <2>1, Zenon DEF Open
<1>2. CASE ~(Cardinality(DOMAIN table) < limit.tracked)
  <2> DEFINE D == {b \in DOMAIN table : now - table[b].start < limit.window}
  <2>1. kept = [b \in D |-> table[b]]
    BY <1>2 DEF Pruned
  <2>2. DOMAIN kept = D /\ \A b \in D : kept[b] = table[b]
    BY <2>1
  <2>3. D \subseteq DOMAIN table /\ \A b : b \in D <=> Open(limit, table, b, now)
    BY DEF Open
  <2> HIDE DEF D, kept
  <2>4. IsFiniteSet(D) /\ Cardinality(D) <= Cardinality(DOMAIN table)
        /\ (D # DOMAIN table => Cardinality(D) < Cardinality(DOMAIN table))
    <3>1. IsFiniteSet(DOMAIN table)
      BY DEF IsTable
    <3>2. IsFiniteSet(D) /\ Cardinality(D) <= Cardinality(DOMAIN table)
          /\ (Cardinality(D) = Cardinality(DOMAIN table) => D = DOMAIN table)
      BY <2>3, <3>1, FS_Subset
    <3>3. Cardinality(D) \in Nat /\ Cardinality(DOMAIN table) \in Nat
      BY <3>1, <3>2, FS_CardinalityType
    <3>4. QED
      BY <3>2, <3>3
  <2>5. Cardinality(D) \in Nat /\ Cardinality(DOMAIN table) \in Nat /\ limit.tracked \in Nat
    BY <2>4, FS_CardinalityType DEF IsTable, IsLimit
  <2>6. Cardinality(D) <= limit.tracked /\ (D # DOMAIN table => Cardinality(D) < limit.tracked)
    BY <2>4, <2>5 DEF IsTable
  <2>7. \A b \in D : kept[b] \in [count : Nat, start : Int]
    BY <2>2, <2>3, Zenon DEF IsTable
  <2>8. IsTable(limit, kept)
    BY <2>2, <2>4, <2>6, <2>7, Zenon DEF IsTable
  <2>9. QED
    BY <2>2, <2>3, <2>6, <2>8, Zenon DEF kept
<1>3. QED
  BY <1>1, <1>2

(* The limiter keeps its bounds at every arrival, whoever came before and   *)
(* at whatever pace: it never tracks more buckets than its cap; a bucket    *)
(* inside its open window keeps its count and what is left of its budget,   *)
(* however many others arrive; a bucket whose window has lapsed, and a new  *)
(* one while there is room, is admitted.                                    *)
THEOREM LimiterKeepsItsBounds ==
    ASSUME NEW limit, IsLimit(limit), NEW table, IsTable(limit, table), NEW now \in Int, NEW source
    PROVE  LET step == intro_rate_admit(limit, table, source, now)
               bucket == rate_bucket(source)
           IN /\ IsTable(limit, step.table)
              /\ \A b : b # bucket /\ Open(limit, table, b, now) =>
                    b \in DOMAIN step.table /\ step.table[b] = table[b]
              /\ Open(limit, table, bucket, now) =>
                    /\ step.admit <=> table[bucket].count < limit.per_window
                    /\ bucket \in DOMAIN step.table
                    /\ step.table[bucket] = [table[bucket] EXCEPT !.count = @ + 1]
              /\ bucket \in DOMAIN table /\ ~Open(limit, table, bucket, now) => step.admit
              /\ bucket \notin DOMAIN table /\ Cardinality(DOMAIN table) < limit.tracked => step.admit
<1> DEFINE bucket == rate_bucket(source)
           kept == Pruned(limit, table, now)
           old == IF bucket \in DOMAIN kept THEN kept[bucket] ELSE [count |-> 0, start |-> now]
           entry == IF now - old.start >= limit.window THEN [count |-> 1, start |-> now]
                    ELSE [old EXCEPT !.count = @ + 1]
           full == Cardinality(DOMAIN kept) >= limit.tracked /\ bucket \notin DOMAIN kept
           grown == [b \in DOMAIN kept \cup {bucket} |-> IF b = bucket THEN entry ELSE kept[b]]
           step == intro_rate_admit(limit, table, source, now)
<1>1. step = IF full THEN [table |-> kept, admit |-> FALSE]
             ELSE [table |-> grown, admit |-> entry.count <= limit.per_window]
  BY Zenon DEF intro_rate_admit
<1>2. /\ full => step.table = kept /\ step.admit = FALSE
      /\ ~full => step.table = grown /\ step.admit = (entry.count <= limit.per_window)
  <2> HIDE DEF full, kept, grown, entry, step
  <2>1. QED
    BY <1>1, Zenon
<1> HIDE DEF step, bucket
<1>3. /\ DOMAIN kept \subseteq DOMAIN table
      /\ \A b \in DOMAIN kept : kept[b] = table[b]
      /\ \A b : Open(limit, table, b, now) => b \in DOMAIN kept
      /\ IsTable(limit, kept)
      /\ DOMAIN kept # DOMAIN table => Cardinality(DOMAIN kept) < limit.tracked
      /\ \/ Cardinality(DOMAIN table) < limit.tracked /\ DOMAIN kept = DOMAIN table
         \/ \A b \in DOMAIN kept : Open(limit, table, b, now)
  BY PrunedTable, Zenon
<1> HIDE DEF kept
<1>4. old \in [count : Nat, start : Int]
  BY <1>3 DEF IsTable
<1>5. limit.window \in Nat \ {0} /\ limit.per_window \in Nat \ {0} /\ limit.tracked \in Nat \ {0}
  BY DEF IsLimit
<1>6. entry \in [count : Nat, start : Int]
  <2> HIDE DEF old
  <2>1. QED
    BY <1>4, <1>5
<1>7. DOMAIN grown = DOMAIN kept \cup {bucket} /\ grown[bucket] = entry
      /\ \A b \in DOMAIN kept : b # bucket => grown[b] = kept[b]
  <2> HIDE DEF entry
  <2>1. QED
    OBVIOUS
<1>8. /\ IsFiniteSet(DOMAIN kept) /\ Cardinality(DOMAIN kept) \in Nat
      /\ Cardinality(DOMAIN kept) <= limit.tracked
  BY <1>3, FS_CardinalityType DEF IsTable
<1>9. ~full => IsTable(limit, grown)
  <2> HIDE DEF entry, grown
  <2> SUFFICES ASSUME ~full PROVE IsTable(limit, grown)
    OBVIOUS
  <2>1. \A b \in DOMAIN grown : grown[b] \in [count : Nat, start : Int]
    BY <1>3, <1>6, <1>7, Zenon DEF IsTable
  <2>2. IsFiniteSet(DOMAIN kept \cup {bucket})
        /\ Cardinality(DOMAIN kept \cup {bucket})
             = IF bucket \in DOMAIN kept THEN Cardinality(DOMAIN kept) ELSE Cardinality(DOMAIN kept) + 1
    BY <1>8, FS_AddElement
  <2>3. Cardinality(DOMAIN kept \cup {bucket}) <= limit.tracked
    BY <1>5, <1>8, <2>2
  <2>4. QED
    BY <1>7, <2>1, <2>2, <2>3, Zenon DEF IsTable
<1>10. IsTable(limit, step.table)
  <2> HIDE DEF full, grown, entry
  <2>1. QED
    BY <1>2, <1>3, <1>9, Zenon
<1>11. ASSUME NEW b, b # bucket, Open(limit, table, b, now)
       PROVE  b \in DOMAIN step.table /\ step.table[b] = table[b]
  <2> HIDE DEF full, grown, entry
  <2>1. b \in DOMAIN kept /\ kept[b] = table[b]
    BY <1>3, <1>11, Zenon
  <2>2. QED
    BY <1>2, <1>7, <1>11, <2>1, Zenon
<1>12. ASSUME Open(limit, table, bucket, now)
       PROVE  /\ step.admit <=> table[bucket].count < limit.per_window
              /\ bucket \in DOMAIN step.table
              /\ step.table[bucket] = [table[bucket] EXCEPT !.count = @ + 1]
  <2>1. bucket \in DOMAIN kept /\ old = table[bucket] /\ ~full
    BY <1>3, <1>12, Zenon
  <2>2. now - old.start < limit.window
    BY <1>12, <2>1, Zenon DEF Open
  <2> HIDE DEF old, full, grown
  <2>3. entry = [old EXCEPT !.count = @ + 1]
    BY <1>4, <1>5, <2>2
  <2>4. entry.count = old.count + 1
    BY <1>4, <2>3
  <2> HIDE DEF entry
  <2>5. step.admit = (old.count + 1 <= limit.per_window)
    BY <1>2, <2>1, <2>4, Zenon
  <2>a. (old.count + 1 <= limit.per_window) <=> old.count < limit.per_window
    BY <1>4, <1>5
  <2>6. step.admit <=> old.count < limit.per_window
    BY <2>5, <2>a, Zenon
  <2>7. bucket \in DOMAIN step.table /\ step.table[bucket] = entry
    BY <1>2, <1>7, <2>1, Zenon
  <2>8. QED
    BY <2>1, <2>3, <2>6, <2>7, Zenon
<1>13. ASSUME \/ bucket \in DOMAIN table /\ ~Open(limit, table, bucket, now)
              \/ bucket \notin DOMAIN table /\ Cardinality(DOMAIN table) < limit.tracked
       PROVE  step.admit
  <2>1. ~full
    <3>1. CASE bucket \in DOMAIN kept
      BY <3>1
    <3>2. CASE bucket \notin DOMAIN kept
      <4>1. Cardinality(DOMAIN kept) < limit.tracked
        BY <1>3, <1>13, <3>2
      <4>2. QED
        BY <1>5, <1>8, <4>1
    <3>3. QED
      BY <3>1, <3>2
  <2>2. entry.count = 1
    <3>1. CASE bucket \in DOMAIN kept
      <4>1. old = table[bucket] /\ ~(now - old.start < limit.window)
        BY <1>3, <1>13, <3>1, Zenon DEF Open
      <4> HIDE DEF old
      <4>2. QED
        BY <1>4, <1>5, <4>1
    <3>2. CASE bucket \notin DOMAIN kept
      <4>1. old = [count |-> 0, start |-> now]
        BY <3>2
      <4> HIDE DEF old
      <4>2. QED
        BY <1>4, <1>5, <4>1
    <3>3. QED
      BY <3>1, <3>2
  <2> HIDE DEF entry, full, grown
  <2>3. entry.count <= limit.per_window
    BY <1>5, <2>2
  <2>4. QED
    BY <1>2, <2>1, <2>3, Zenon
<1>14. QED
  BY <1>10, <1>11, <1>12, <1>13, Zenon DEF step, bucket

-----------------------------------------------------------------------------
(* One request on a connection (handle). *)

(* The root behind a certificate, active in this store. *)
ActivePeer(store, fp) ==
    /\ <<fp, "contract-proposal">> \in DOMAIN store.keys
    /\ LET root == store.keys[<<fp, "contract-proposal">>].root
       IN root \in DOMAIN store.status /\ store.status[root] = "Active"

(* A certificate resolves only to the root that owns its key row, and only  *)
(* while that root is active.                                               *)
LEMMA ResolvedIsActive ==
    ASSUME NEW store, NEW fp, resolve(store, fp) # <<>>
    PROVE  /\ ActivePeer(store, fp)
           /\ resolve(store, fp)[1].peer_id = store.keys[<<fp, "contract-proposal">>].root
<1> DEFINE k == <<fp, "contract-proposal">>
           row == store.keys[k]
<1>1. k \in DOMAIN store.keys
  BY Zenon DEF resolve, peer_key
<1>2. peer_key(store, fp, "contract-proposal") = <<row>>
  BY <1>1, Zenon DEF peer_key
<1>3. <<row>>[1] = row
  OBVIOUS
<1> HIDE DEF row
<1>4. /\ row.root \in DOMAIN store.status /\ store.status[row.root] = "Active"
      /\ resolve(store, fp) = <<[peer_id |-> row.root, proposal_key |-> row.key]>>
  BY <1>2, <1>3, Zenon DEF resolve
<1>5. <<[peer_id |-> row.root, proposal_key |-> row.key]>>[1].peer_id = row.root
  OBVIOUS
<1>6. QED
  BY <1>1, <1>4, <1>5, Zenon DEF ActivePeer, row

(* Only a request of an active peer gets past the first gate of respond. *)
LEMMA RespondNeedsPeer ==
    ASSUME NEW store, NEW required, NEW http, NEW certain, NEW outcome,
           respond(store, required, http, certain, outcome).status = 200
    PROVE  http.fp # <<>> /\ ActivePeer(store, http.fp[1])
<1> DEFINE peer == IF http.fp = <<>> THEN <<>> ELSE resolve(store, http.fp[1])
<1>1. ASSUME peer = <<>> PROVE FALSE
  <2>1. respond(store, required, http, certain, outcome) = [status |-> 403, store |-> store]
    BY <1>1, Zenon DEF respond
  <2>2. QED
    BY <2>1
<1>2. http.fp # <<>> /\ resolve(store, http.fp[1]) # <<>>
  BY <1>1, Zenon
<1> HIDE DEF peer
<1>3. PICK fp : fp = http.fp[1]
  BY SMT
<1>4. resolve(store, fp) # <<>>
  BY <1>2, <1>3, Zenon
<1>5. ActivePeer(store, fp)
  BY <1>4, ResolvedIsActive, Zenon
<1>6. QED
  BY <1>2, <1>3, <1>5, Zenon

(* Without a certificate that an active root presented when the request     *)
(* began, a client is read nothing but an introduction, and gets nothing    *)
(* but that and the public card; a peer that was removed while its body was *)
(* on the way is refused all the same.  Nobody is read past the cap of the  *)
(* route, and every refusal of a stranger closes (handle).                  *)
THEOREM OnlyTheCardIsPublic ==
    ASSUME NEW before, NEW after, NEW required, NEW http, NEW rate_ok \in BOOLEAN,
           NEW intro \in BOOLEAN, NEW certain \in BOOLEAN, NEW answer, NEW outcome,
           http.arrives \in Nat, http.length \in Nat, http.arrives <= http.length,
           answer.status = 403 => answer.close
    PROVE  LET out == handle(before, after, required, http, rate_ok, intro, certain, answer, outcome)
               paired == http.fp # <<>> /\ ActivePeer(before, http.fp[1])
           IN /\ out.read <= IF is_intro(http.path) THEN MAX_INTRODUCTION_BODY ELSE MAX_RECEIVE_BODY
              /\ out.read > 0 => (is_intro(http.path) /\ rate_ok) \/ paired
              /\ out.status = 200 =>
                    \/ http.method = "GET" /\ http.path = "card" /\ intro /\ rate_ok
                    \/ is_intro(http.path) /\ intro /\ rate_ok /\ http.fp # <<>>
                    \/ paired /\ ActivePeer(after, http.fp[1])
              /\ out.status = 403 => out.close
<1> DEFINE cap == IF is_intro(http.path) THEN MAX_INTRODUCTION_BODY ELSE MAX_RECEIVE_BODY
           body == BodyRead(http, cap)
           responded == respond(after, required, http, certain, outcome)
           introduced == respond_intro(intro, http, answer)
           known == http.fp # <<>> /\ peer_known(before, http.fp[1])
           out == handle(before, after, required, http, rate_ok, intro, certain, answer, outcome)
<1>1. cap \in Nat
  BY DEF MAX_INTRODUCTION_BODY, MAX_RECEIVE_BODY
<1>2. /\ body.read \in Nat /\ body.read <= cap
      /\ body.status \in {200, 408, 413}
  <2> HIDE DEF cap
  <2>1. CASE http.arrives > cap
    BY <1>1, <2>1 DEF BodyRead
  <2>2. CASE ~(http.arrives > cap) /\ http.arrives < http.length
    BY <1>1, <2>2 DEF BodyRead
  <2>3. CASE ~(http.arrives > cap) /\ ~(http.arrives < http.length)
    BY <1>1, <2>3 DEF BodyRead
  <2>4. QED
    BY <2>1, <2>2, <2>3
<1> DEFINE paired == http.fp # <<>> /\ ActivePeer(before, http.fp[1])
           still == http.fp # <<>> /\ ActivePeer(after, http.fp[1])
           shown == http.fp # <<>>
<1>3. known => paired
  BY ResolvedIsActive, Zenon DEF peer_known
<1>4. responded.status = 200 => still
  BY RespondNeedsPeer
<1>5. /\ introduced.status = 200 => intro /\ shown
      /\ introduced.status = 403 => introduced.close
  <2>1. CASE intro /\ http.method = "POST" /\ http.fp # <<>>
    BY <2>1, Zenon DEF respond_intro
  <2>2. CASE ~(intro /\ http.method = "POST" /\ http.fp # <<>>)
    <3>1. introduced = [status |-> 403, close |-> TRUE]
      BY <2>2, Zenon DEF respond_intro
    <3>2. QED
      BY <3>1
  <2>3. QED
    BY <2>1, <2>2
<1> DEFINE card == http.method = "GET" /\ http.path = "card"
           isIntro == is_intro(http.path)
           Fine == /\ out.read <= cap
                   /\ out.read > 0 => (isIntro /\ rate_ok) \/ paired
                   /\ out.status = 200 => \/ card /\ intro /\ rate_ok
                                          \/ isIntro /\ intro /\ rate_ok /\ shown
                                          \/ paired /\ still
                   /\ out.status = 403 => out.close
<1>6. Fine =>
              /\ out.read <= IF is_intro(http.path) THEN MAX_INTRODUCTION_BODY ELSE MAX_RECEIVE_BODY
              /\ out.read > 0 => (is_intro(http.path) /\ rate_ok) \/ paired
              /\ out.status = 200 =>
                    \/ http.method = "GET" /\ http.path = "card" /\ intro /\ rate_ok
                    \/ is_intro(http.path) /\ intro /\ rate_ok /\ http.fp # <<>>
                    \/ paired /\ ActivePeer(after, http.fp[1])
              /\ out.status = 403 => out.close
  <2> HIDE DEF out
  <2>1. QED
    BY Zenon
<1> HIDE DEF body, responded, introduced, known, isIntro, card
<1>7. /\ card => out = Closing(IF rate_ok THEN public_card(intro) ELSE 403)
      /\ ~card /\ ((isIntro /\ ~rate_ok) \/ (~isIntro /\ ~known)) => out = Closing(403)
      /\ ~card /\ (isIntro => rate_ok) /\ (~isIntro => known) =>
           /\ body.status # 200 =>
                out = [status |-> body.status, close |-> FALSE, read |-> body.read]
           /\ body.status = 200 /\ isIntro =>
                out = [status |-> introduced.status, close |-> introduced.close, read |-> body.read]
           /\ body.status = 200 /\ ~isIntro =>
                out = [status |-> responded.status, close |-> responded.status = 403,
                       read |-> body.read]
  <2>1. out = IF card THEN Closing(IF rate_ok THEN public_card(intro) ELSE 403)
              ELSE IF isIntro /\ ~rate_ok THEN Closing(403)
              ELSE IF ~isIntro /\ ~known THEN Closing(403)
              ELSE IF body.status # 200
                   THEN [status |-> body.status, close |-> FALSE, read |-> body.read]
              ELSE IF isIntro
                   THEN [status |-> introduced.status, close |-> introduced.close, read |-> body.read]
              ELSE [status |-> responded.status, close |-> responded.status = 403, read |-> body.read]
    BY Zenon DEF handle, cap, body, responded, introduced, known, card, isIntro
  <2> HIDE DEF out
  <2>2. QED
    BY <2>1
<1> HIDE DEF cap, out, paired, still, shown
<1>8. CASE card
  <2>1. out.status = (IF rate_ok THEN public_card(intro) ELSE 403) /\ out.close /\ out.read = 0
    BY <1>7, <1>8 DEF Closing
  <2>2. out.status = 200 => rate_ok /\ intro
    BY <2>1 DEF public_card
  <2>3. out.read <= cap /\ ~(out.read > 0)
    BY <1>1, <2>1
  <2>4. Fine
    BY <1>8, <2>1, <2>2, <2>3, Zenon
  <2>5. QED
    BY <1>6, <2>4, Zenon DEF out, paired
<1>9. CASE ~card /\ ((isIntro /\ ~rate_ok) \/ (~isIntro /\ ~known))
  <2>1. out = Closing(403)
    BY <1>7, <1>9, Zenon
  <2>2. out.status # 200 /\ out.close /\ out.read = 0
    BY <2>1 DEF Closing
  <2>3. out.read <= cap /\ ~(out.read > 0)
    BY <1>1, <2>2
  <2>4. Fine
    BY <2>2, <2>3, Zenon
  <2>5. QED
    BY <1>6, <2>4, Zenon DEF out, paired
<1>10. CASE ~card /\ (isIntro => rate_ok) /\ (~isIntro => known)
  <2>1. CASE body.status # 200
    <3>1. out = [status |-> body.status, close |-> FALSE, read |-> body.read]
      BY <1>7, <1>10, <2>1, Zenon
    <3>2. out.read = body.read /\ out.status # 200 /\ out.status # 403
      BY <1>2, <2>1, <3>1
    <3>3. Fine
      BY <1>2, <1>3, <1>10, <3>2, Zenon
    <3>4. QED
      BY <1>6, <3>3, Zenon DEF out, paired
  <2>2. CASE body.status = 200 /\ isIntro
    <3>1. out = [status |-> introduced.status, close |-> introduced.close, read |-> body.read]
      BY <1>7, <1>10, <2>2, Zenon
    <3>2. out.read = body.read /\ out.status = introduced.status /\ out.close = introduced.close
      BY <3>1
    <3>a. out.read <= cap
      BY <1>2, <3>2, Zenon
    <3>b. out.status = 200 => intro /\ shown
      BY <1>5, <3>2, Zenon
    <3>c. out.status = 403 => out.close
      BY <1>5, <3>2, Zenon
    <3>3. Fine
      BY <1>10, <2>2, <3>a, <3>b, <3>c, Zenon
    <3>4. QED
      BY <1>6, <3>3, Zenon DEF out, paired
  <2>3. CASE body.status = 200 /\ ~isIntro
    <3>1. out = [status |-> responded.status, close |-> responded.status = 403, read |-> body.read]
      BY <1>7, <1>10, <2>3, Zenon
    <3>2. out.read = body.read /\ out.status = responded.status
      BY <3>1
    <3>d. out.close = (responded.status = 403)
      BY <3>1
    <3>a. out.read <= cap
      BY <1>2, <3>2, Zenon
    <3>b. out.status = 200 => still
      BY <1>4, <3>2, Zenon
    <3>c. ASSUME out.status = 403 PROVE out.close
      <4>1. (responded.status = 403) = TRUE
        BY <3>2, <3>c, Zenon
      <4>2. out.close = TRUE
        BY <3>d, <4>1, Zenon
      <4>3. QED
        BY <4>2, Zenon
    <3>3. Fine
      BY <1>3, <1>10, <2>3, <3>a, <3>b, <3>c, Zenon
    <3>4. QED
      BY <1>6, <3>3, Zenon DEF out, paired
  <2>4. QED
    BY <2>1, <2>2, <2>3, Zenon
<1>11. QED
  BY <1>8, <1>9, <1>10, Zenon

-----------------------------------------------------------------------------
(* The pinned handshake (tls.rs) and the profile (akson-a2a). *)

(* A certificate is current when it parses and the time is in its window. *)
IsCert(cert) == cert.parses \in BOOLEAN /\ cert.not_before \in Int /\ cert.not_after \in Int
Current(cert, now) == cert.parses /\ cert.not_before <= now /\ now <= cert.not_after

(* The clock check of every verifier. *)
LEMMA CertTime ==
    ASSUME NEW cert, IsCert(cert), NEW now \in Int
    PROVE  check_cert_time(cert, now) = "ok" <=> Current(cert, now)
<1> DEFINE v == check_cert_time_validity(cert, now)
<1>1. v \in {"Unparseable", "NotYetValid", "Expired", "ok"}
  BY Zenon DEF check_cert_time_validity
<1>2. v = "ok" <=> Current(cert, now)
  BY DEF check_cert_time_validity, Current, IsCert
<1> HIDE DEF v
<1>3. check_cert_time(cert, now) = "ok" <=> v = "ok"
  BY <1>1 DEF check_cert_time, v
<1>4. QED
  BY <1>2, <1>3

(* What one pinned side makes of the other, in the version both speak. *)
LEMMA PinnedAccepts ==
    ASSUME NEW config, NEW pin, config.expected = Fingerprint("cert-sha256", pin),
           config.verifier \in {"PinnedServer", "PinnedClient"},
           NEW cert, IsCert(cert), NEW key, NEW now \in Int, NEW session,
           NEW side, side.cert = cert, side.key = key
    PROVE  Accepts(config, now, side, "1.3", session)
             <=> pin = cert /\ key = cert.key /\ Current(cert, now)
<1>1. check(config.expected, cert) <=> pin = cert
  BY DEF check, matches, Fingerprint
<1>2. Verdict(config, cert, now) = "ok" <=> pin = cert /\ check_cert_time(cert, now) = "ok"
  <2>1. CASE config.verifier = "PinnedServer"
    BY <1>1, <2>1 DEF Verdict, PinnedServerVerifier
  <2>2. CASE config.verifier = "PinnedClient"
    BY <1>1, <2>2 DEF Verdict, PinnedClientVerifier
  <2>3. QED
    BY <2>1, <2>2
<1>3. verify_tls13(session, cert, Signature(key, session)) <=> key = cert.key
  BY DEF verify_tls13, Signature
<1>4. Accepts(config, now, side, "1.3", session)
        <=> Verdict(config, cert, now) = "ok" /\ verify_tls13(session, cert, Signature(key, session))
  BY Zenon DEF Accepts
<1>5. QED
  BY <1>2, <1>3, <1>4, CertTime, Zenon

(* The configuration that comes of the TLS key. *)
LEMMA Presented ==
    ASSUME NEW k, NEW cert, NEW verifier, NEW pin
    PROVE  LET c == Presenting(PurposeKey("tls-endpoint", k), cert, verifier, pin)[1]
           IN /\ c.versions = {"1.3"} /\ c.verifier = verifier /\ c.expected = pin
              /\ c.presents # <<>>
              /\ c.presents[1].cert = cert /\ c.presents[1].key = k
<1> DEFINE key == PurposeKey("tls-endpoint", k)
           c == Config(<<[cert |-> cert, key |-> k]>>, verifier, pin)
<1>1. key.purpose = "tls-endpoint" /\ key.key = k
  BY DEF PurposeKey
<1>2. private_key(key) = <<k>>
  BY <1>1 DEF private_key, sign_with
<1>3. <<k>> # <<>> /\ <<c>>[1] = c
  OBVIOUS
<1>4. Presenting(key, cert, verifier, pin) = <<c>>
  BY <1>1, <1>2, <1>3, Zenon DEF Presenting
<1>5. /\ c.versions = {"1.3"} /\ c.verifier = verifier /\ c.expected = pin
      /\ c.presents = <<[cert |-> cert, key |-> k]>>
  BY DEF Config
<1>6. /\ <<[cert |-> cert, key |-> k]>> # <<>>
      /\ <<[cert |-> cert, key |-> k]>>[1].cert = cert
      /\ <<[cert |-> cert, key |-> k]>>[1].key = k
  OBVIOUS
<1> HIDE DEF c, key
<1>7. QED
  BY <1>3, <1>4, <1>5, <1>6, Zenon DEF key

(* A pinned connection comes up exactly when each side presents the very    *)
(* certificate the other pinned, holds its key, and the certificate is      *)
(* current by the other side's clock; a renewed certificate over the same   *)
(* key is a stranger (client_config, server_config).                        *)
THEOREM PinnedHandshakeIsMutual ==
    ASSUME NEW mine, IsCert(mine), NEW yours, IsCert(yours), NEW my_pin, NEW your_pin,
           NEW k, NEW l, NEW now \in Int, NEW then \in Int, NEW session
    PROVE  LET client == client_config(PurposeKey("tls-endpoint", k), mine,
                                       Fingerprint("cert-sha256", my_pin))[1]
               server == server_config(PurposeKey("tls-endpoint", l), yours,
                                       Fingerprint("cert-sha256", your_pin))[1]
           IN handshake(client, server, now, then, session)
                <=> /\ my_pin = yours /\ l = yours.key /\ Current(yours, now)
                    /\ your_pin = mine /\ k = mine.key /\ Current(mine, then)
<1> DEFINE client == client_config(PurposeKey("tls-endpoint", k), mine,
                                   Fingerprint("cert-sha256", my_pin))[1]
           server == server_config(PurposeKey("tls-endpoint", l), yours,
                                   Fingerprint("cert-sha256", your_pin))[1]
<1>0. /\ client = Presenting(PurposeKey("tls-endpoint", k), mine, "PinnedServer",
                           Fingerprint("cert-sha256", my_pin))[1]
      /\ server = Presenting(PurposeKey("tls-endpoint", l), yours, "PinnedClient",
                              Fingerprint("cert-sha256", your_pin))[1]
  BY Zenon DEF client_config, server_config
<1> HIDE DEF client, server
<1>1. /\ client.versions = {"1.3"} /\ client.verifier = "PinnedServer"
      /\ client.expected = Fingerprint("cert-sha256", my_pin)
      /\ client.presents # <<>>
      /\ client.presents[1].cert = mine /\ client.presents[1].key = k
  BY <1>0, Presented
<1>2. /\ server.versions = {"1.3"} /\ server.verifier = "PinnedClient"
      /\ server.expected = Fingerprint("cert-sha256", your_pin)
      /\ server.presents[1].cert = yours /\ server.presents[1].key = l
  BY <1>0, Presented
<1>3. handshake(client, server, now, then, session)
        <=> /\ Accepts(client, now, server.presents[1], "1.3", session)
            /\ Accepts(server, then, client.presents[1], "1.3", session)
  BY <1>1, <1>2, Zenon DEF handshake
<1>4. Accepts(client, now, server.presents[1], "1.3", session)
        <=> my_pin = yours /\ l = yours.key /\ Current(yours, now)
  BY <1>1, <1>2, PinnedAccepts
<1>5. Accepts(server, then, client.presents[1], "1.3", session)
        <=> your_pin = mine /\ k = mine.key /\ Current(mine, then)
  BY <1>1, <1>2, PinnedAccepts
<1>6. QED
  BY <1>3, <1>4, <1>5, Zenon DEF client, server

(* A card that passes offers no alternative that a client without mutual    *)
(* TLS could take, and offers one (validate_agent_card).                    *)
THEOREM CardForcesMutualTls ==
    ASSUME NEW card, NEW required, validate_agent_card(card, required) = {}
    PROVE  /\ card.requirements # {}
           /\ \A req \in card.requirements : \A can :
                 req \subseteq can => can \cap MtlsSchemes(card) # {}
<1>1. MtlsMandatory(card)
  BY Zenon DEF validate_agent_card
<1>2. QED
  BY <1>1 DEF MtlsMandatory

(* A negotiation that succeeds echoes the whole required set and nothing    *)
(* the endpoint does not support; one that fails says each extension that   *)
(* is missing or too much (negotiate_extensions).                           *)
THEOREM NegotiationHasNoDowngrade ==
    ASSUME NEW supported, NEW required, NEW activated
    PROVE  LET out == negotiate_extensions(supported, required, activated)
           IN /\ out.violations = {} <=> required \subseteq activated /\ activated \subseteq supported
              /\ out.violations = {} => required \subseteq out.echo /\ out.echo \subseteq supported
              /\ out.violations # {} => out.echo = {}
<1> DEFINE missing == {<<"ExtensionNotActivated", uri>> : uri \in required \ activated}
           unsupported == {<<"ExtensionNotSupported", uri>> : uri \in activated \ supported}
           out == negotiate_extensions(supported, required, activated)
<1>1. missing \cup unsupported = {} <=> required \subseteq activated /\ activated \subseteq supported
  BY Zenon
<1> HIDE DEF missing, unsupported
<1>2. out = [violations |-> missing \cup unsupported,
             echo |-> IF missing \cup unsupported = {} THEN activated ELSE {}]
  BY Zenon DEF negotiate_extensions, missing, unsupported
<1>3. /\ out.violations = missing \cup unsupported
      /\ out.echo = IF missing \cup unsupported = {} THEN activated ELSE {}
  <2> DEFINE m == missing \cup unsupported
             e == IF m = {} THEN activated ELSE {}
  <2> HIDE DEF m, e
  <2>1. out = [violations |-> m, echo |-> e]
    BY <1>2, Zenon DEF m, e
  <2>2. out.violations = m /\ out.echo = e
    BY <2>1
  <2>3. QED
    BY <2>2, Zenon DEF m, e
<1> HIDE DEF out
<1>4. QED
  BY <1>1, <1>3, Zenon DEF out

-----------------------------------------------------------------------------
(* The rows of the state database (module Tables). *)

(* A sealed value opens under its own key and column, and under nothing     *)
(* else; a blob opens only as the box it carries, sealed under the key, the *)
(* column and the nonce it is opened with: moved to another column, given   *)
(* another nonce or cut short, it is an error and never other plaintext     *)
(* (open_with).                                                             *)
THEOREM SealedOpensOnlyAsItself ==
    /\ \A key, other, column, moved, text, nonce :
          open_with(other, moved, seal_with(key, column, text, nonce))
            = IF other = key /\ moved = column THEN Ok(text) ELSE Err("Auth")
    /\ \A key, column, sealed, text :
          open_with(key, column, sealed) = Ok(text) =>
            /\ Len(sealed) = 3 /\ sealed[1] = VERSION
            /\ sealed[3].key = key /\ sealed[3].aad = column /\ sealed[3].nonce = sealed[2]
            /\ sealed[3].msg = text
<1>1. ASSUME NEW key, NEW other, NEW column, NEW moved, NEW text, NEW nonce
      PROVE  open_with(other, moved, seal_with(key, column, text, nonce))
               = IF other = key /\ moved = column THEN Ok(text) ELSE Err("Auth")
  <2> DEFINE box == [key |-> key, nonce |-> nonce, aad |-> column, msg |-> text]
             sealed == seal_with(key, column, text, nonce)
  <2>1. sealed = <<1, nonce, box>>
    BY DEF seal_with, VERSION
  <2>2. box.key = key /\ box.nonce = nonce /\ box.aad = column /\ box.msg = text
    OBVIOUS
  <2> HIDE DEF box, sealed
  <2>3. sealed # <<>> /\ sealed[1] = 1 /\ sealed[2] = nonce /\ sealed[3] = box /\ Len(sealed) = 3
    BY <2>1
  <2>4. ~(3 < 2)
    OBVIOUS
  <2>5. open_with(other, moved, sealed)
          = IF box.key = other /\ box.nonce = nonce /\ box.aad = moved THEN Ok(box.msg)
            ELSE Err("Auth")
    BY <2>3, <2>4, Zenon DEF open_with, VERSION
  <2>6. QED
    BY <2>2, <2>5, Zenon DEF sealed
<1>2. ASSUME NEW key, NEW column, NEW sealed, NEW text, open_with(key, column, sealed) = Ok(text)
      PROVE  /\ Len(sealed) = 3 /\ sealed[1] = VERSION
             /\ sealed[3].key = key /\ sealed[3].aad = column /\ sealed[3].nonce = sealed[2]
             /\ sealed[3].msg = text
  <2>1. \A e : Err(e) # Ok(text)
    BY DEF Ok, Err
  <2>2. \A m : Ok(m) = Ok(text) => m = text
    BY DEF Ok
  <2>3. QED
    BY <1>2, <2>1, <2>2, Zenon DEF open_with
<1>3. QED
  BY <1>1, <1>2

TablesOf(h, k, r, i) == [peers |-> h, peer_keys |-> k, auto_approve |-> r, imports |-> i]
Judged(tables, h, k, r) ==
    [tables EXCEPT !.peer_keys = k, !.peers = h, !.auto_approve = r]
JudgedPeers(tables, h, r) == [tables EXCEPT !.peers = h, !.auto_approve = r]

(* A migration that replaces the rows of some tables leaves the others. *)
LEMMA TablesReplaced ==
    ASSUME NEW h, NEW k, NEW r, NEW i, NEW h1, NEW k1, NEW r1
    PROVE  /\ Judged(TablesOf(h, k, r, i), h1, k1, r1) = TablesOf(h1, k1, r1, i)
           /\ JudgedPeers(TablesOf(h, k, r, i), h1, r1) = TablesOf(h1, k, r1, i)
<1> DEFINE t == TablesOf(h, k, r, i)
           a == [t EXCEPT !.peer_keys = k1]
           b == [a EXCEPT !.peers = h1]
           c == [t EXCEPT !.peers = h1]
<1>1. a = TablesOf(h, k1, r, i) /\ c = TablesOf(h1, k, r, i)
  BY DEF TablesOf
<1> HIDE DEF a, c
<1>2. b = TablesOf(h1, k1, r, i) /\ [c EXCEPT !.auto_approve = r1] = TablesOf(h1, k, r1, i)
  BY <1>1 DEF TablesOf
<1> HIDE DEF b
<1>3. [b EXCEPT !.auto_approve = r1] = TablesOf(h1, k1, r1, i)
  BY <1>2 DEF TablesOf
<1>4. QED
  BY <1>2, <1>3, Zenon DEF Judged, JudgedPeers, a, b, c

(* The cutover to roots goes through exactly where no two names of one root *)
(* are left among the peers or among the policies.  Where it does, peers    *)
(* and standing policies stay exactly where a live import backs their root, *)
(* one per root, and a verification key stays wherever it names a root      *)
(* (V18, V19, V20).                                                         *)
THEOREM CutoverKeepsTheBacked ==
    ASSUME NEW held, NEW keys, NEW rules, NEW imported, \A i \in imported : i.root # NoRoot
    PROVE  LET live == {i.root : i \in {j \in imported : ~j.tombstoned}}
               Rooted(rows) == {x \in rows : x.root # NoRoot}
               Live(rows) == {x \in rows : x.root \in live}
               moved == V19(V18(TablesOf(held, keys, rules, imported)))
           IN /\ moved.ok <=> KeyedByRoot(Rooted(held)) /\ KeyedByRoot(Rooted(rules))
              /\ moved.ok => /\ V20(moved.value) = TablesOf(Live(held), Rooted(keys),
                                                            Live(rules), imported)
                             /\ KeyedByRoot(Live(held)) /\ KeyedByRoot(Live(rules))
<1> DEFINE live == {i.root : i \in {j \in imported : ~j.tombstoned}}
           Rooted(rows) == {x \in rows : x.root # NoRoot}
           Live(rows) == {x \in rows : x.root \in live}
           Apart(h, r) == KeyedByRoot(Rooted(h)) /\ KeyedByRoot(Rooted(r))
           moved == V19(V18(TablesOf(held, keys, rules, imported)))
<1>2. ASSUME NEW h, NEW k, NEW r
      PROVE  /\ V18(TablesOf(h, k, r, imported))
                  = TablesOf(Rooted(h), Rooted(k), Rooted(r), imported)
             /\ V19(TablesOf(h, k, r, imported))
                  = IF Apart(h, r) THEN Ok(TablesOf(Rooted(h), k, Rooted(r), imported))
                    ELSE Err("Constraint")
             /\ V20(TablesOf(h, k, r, imported))
                  = TablesOf(Live(h), Rooted(k), Live(r), imported)
  <2> DEFINE t == TablesOf(h, k, r, imported)
  <2>0. t.peers = h /\ t.peer_keys = k /\ t.auto_approve = r /\ t.imports = imported
    BY DEF TablesOf
  <2> HIDE DEF t
  <2>1. V18(t) = Judged(t, Rooted(h), Rooted(k), Rooted(r))
    BY <2>0, Zenon DEF V18, Judged
  <2>2. V19(t) = IF Apart(h, r) THEN Ok(JudgedPeers(t, Rooted(h), Rooted(r)))
                 ELSE Err("Constraint")
    BY <2>0, Zenon DEF V19, JudgedPeers
  <2>3. V20(t) = Judged(t, Live(h), Rooted(k), Live(r))
    BY <2>0, Zenon DEF V20, Judged
  <2> HIDE DEF Rooted, Live, Apart
  <2>4. Judged(t, Rooted(h), Rooted(k), Rooted(r)) = TablesOf(Rooted(h), Rooted(k), Rooted(r), imported)
    BY TablesReplaced DEF t
  <2>5. JudgedPeers(t, Rooted(h), Rooted(r)) = TablesOf(Rooted(h), k, Rooted(r), imported)
    BY TablesReplaced DEF t
  <2>6. Judged(t, Live(h), Rooted(k), Live(r)) = TablesOf(Live(h), Rooted(k), Live(r), imported)
    BY TablesReplaced DEF t
  <2>7. QED
    BY <2>1, <2>2, <2>3, <2>4, <2>5, <2>6, Zenon DEF t
<1>3. NoRoot \notin live
  OBVIOUS
<1>4. \A rows : Rooted(Rooted(rows)) = Rooted(rows) /\ Live(Rooted(rows)) = Live(rows)
  <2> HIDE DEF live
  <2>1. QED
    BY <1>3
<1>5. Apart(Rooted(held), Rooted(rules)) <=> Apart(held, rules)
  BY <1>4, Zenon DEF Apart
<1>6. Apart(held, rules) => KeyedByRoot(Live(held)) /\ KeyedByRoot(Live(rules))
  <2>1. \A rows : \A x \in Live(rows) : x \in Rooted(rows)
    BY <1>3
  <2> HIDE DEF Rooted, Live
  <2>2. QED
    BY <2>1, Zenon DEF KeyedByRoot, Apart
<1> HIDE DEF Rooted, Live, Apart
<1>7. /\ moved = IF Apart(held, rules)
                 THEN Ok(TablesOf(Rooted(held), Rooted(keys), Rooted(rules), imported))
                 ELSE Err("Constraint")
      /\ V20(TablesOf(Rooted(held), Rooted(keys), Rooted(rules), imported))
          = TablesOf(Live(held), Rooted(keys), Live(rules), imported)
  <2>1. V18(TablesOf(held, keys, rules, imported))
          = TablesOf(Rooted(held), Rooted(keys), Rooted(rules), imported)
    BY <1>2
  <2>2. V19(TablesOf(Rooted(held), Rooted(keys), Rooted(rules), imported))
          = IF Apart(held, rules)
            THEN Ok(TablesOf(Rooted(held), Rooted(keys), Rooted(rules), imported))
            ELSE Err("Constraint")
    <3> DEFINE H == Rooted(held)
               K == Rooted(keys)
               R == Rooted(rules)
    <3>1. Rooted(H) = H /\ Rooted(R) = R
      BY <1>4, Zenon
    <3> HIDE DEF H, K, R
    <3>2. V19(TablesOf(H, K, R, imported))
            = IF Apart(H, R) THEN Ok(TablesOf(Rooted(H), K, Rooted(R), imported))
              ELSE Err("Constraint")
      BY <1>2, Zenon
    <3>3. QED
      BY <1>5, <3>1, <3>2, Zenon DEF H, K, R
  <2>3. V20(TablesOf(Rooted(held), Rooted(keys), Rooted(rules), imported))
          = TablesOf(Live(held), Rooted(keys), Live(rules), imported)
    BY <1>2, <1>4
  <2>4. QED
    BY <2>1, <2>2, <2>3, Zenon
<1>8. \A t : Ok(t).ok /\ Ok(t).value = t /\ ~Err("Constraint").ok
  BY DEF Ok, Err
<1> HIDE DEF moved
<1>9. /\ moved.ok <=> Apart(held, rules)
      /\ moved.ok => V20(moved.value) = TablesOf(Live(held), Rooted(keys), Live(rules), imported)
  BY <1>7, <1>8, Zenon
<1>10. QED
  BY <1>6, <1>9, Zenon DEF Rooted, Live, Apart, moved

IsPeer(p) ==
    p = [root |-> p.root, agent_id |-> p.agent_id, record |-> p.record,
         created_generation |-> p.created_generation, status |-> p.status]

(* Storing a peer again renames it and renews its record, and never         *)
(* reopens, downgrades or re-dates the relationship, nor touches another;   *)
(* there is never a second one of the same root (put_peer_status).          *)
THEOREM StoringAgainKeepsTheStatus ==
    ASSUME NEW peers, \A p \in peers : IsPeer(p) /\ p.root # NoRoot, KeyedByRoot(peers),
           NEW root, root # NoRoot, NEW name, NEW record, NEW generation, NEW status
    PROVE  LET done == put_peer_status(peers, root, name, record, generation, status)
               after == done.value
           IN /\ done.ok /\ KeyedByRoot(after) /\ \A p \in after : IsPeer(p) /\ p.root # NoRoot
              /\ {p \in after : p.root # root} = {p \in peers : p.root # root}
              /\ \E p \in after :
                    /\ p.root = root /\ p.agent_id = name /\ p.record = record
                    /\ \/ \E q \in peers : /\ q.root = root /\ p.status = q.status
                                            /\ p.created_generation = q.created_generation
                       \/ /\ \A q \in peers : q.root # root
                          /\ p.status = status /\ p.created_generation = generation
<1> DEFINE done == put_peer_status(peers, root, name, record, generation, status)
           after == done.value
           fresh == [root |-> root, agent_id |-> name, record |-> record,
                     created_generation |-> generation, status |-> status]
           Renewed(p) == [p EXCEPT !.agent_id = name, !.record = record]
<1>0. \A x : Ok(x).value = x /\ Ok(x).ok
  BY DEF Ok
<1>1. CASE OfRoot(peers, root) = {}
  <2>1. done.ok /\ after = peers \cup {fresh}
    BY <1>0, <1>1, Zenon DEF put_peer_status
  <2>2. /\ fresh.root = root /\ fresh.agent_id = name /\ fresh.record = record
        /\ fresh.status = status /\ fresh.created_generation = generation
    OBVIOUS
  <2>3. IsPeer(fresh)
    BY DEF IsPeer
  <2>4. \A q \in peers : q.root # root
    BY <1>1 DEF OfRoot
  <2> HIDE DEF fresh, after, done
  <2>5. KeyedByRoot(after) /\ (\A p \in after : IsPeer(p) /\ p.root # NoRoot)
    BY <2>1, <2>2, <2>3, <2>4, Zenon DEF KeyedByRoot
  <2>6. {p \in after : p.root # root} = {p \in peers : p.root # root}
    BY <2>1, <2>2
  <2>7. QED
    BY <2>1, <2>2, <2>4, <2>5, <2>6, Zenon DEF after, done
<1>2. CASE OfRoot(peers, root) # {}
  <2>1. done.ok /\ after = {IF p.root = root THEN Renewed(p) ELSE p : p \in peers}
    BY <1>0, <1>2, Zenon DEF put_peer_status
  <2>2. PICK old \in peers : old.root = root
    BY <1>2 DEF OfRoot
  <2>3. \A p \in peers : p.root = root => p = old
    BY <2>2, Zenon DEF KeyedByRoot
  <2> DEFINE new == Renewed(old)
  <2>4. /\ new.root = root /\ new.agent_id = name /\ new.record = record
        /\ new.status = old.status /\ new.created_generation = old.created_generation
        /\ IsPeer(new)
    <3>1. PICK a, b, c, d : old = [root |-> root, agent_id |-> a, record |-> b,
                                  created_generation |-> c, status |-> d]
      BY <2>2 DEF IsPeer
    <3> DEFINE half == [old EXCEPT !.agent_id = name]
    <3>2. half = [root |-> root, agent_id |-> name, record |-> b,
                  created_generation |-> c, status |-> d]
      BY <3>1
    <3> HIDE DEF half
    <3>3. [half EXCEPT !.record = record]
            = [root |-> root, agent_id |-> name, record |-> record,
               created_generation |-> c, status |-> d]
      BY <3>2
    <3>4. new = [root |-> root, agent_id |-> name, record |-> record,
                 created_generation |-> c, status |-> d]
      BY <3>3, Zenon DEF half
    <3> HIDE DEF new
    <3>5. QED
      BY <3>1, <3>4 DEF IsPeer
  <2> HIDE DEF new, after, done
  <2>5. \A x : x \in after <=> x = new \/ (x \in peers /\ x.root # root)
    <3>1. \A p \in peers : (IF p.root = root THEN Renewed(p) ELSE p)
                          = IF p.root = root THEN new ELSE p
      BY <2>3, Zenon DEF new
    <3> HIDE DEF Renewed
    <3>2. after = {IF p.root = root THEN new ELSE p : p \in peers}
      BY <2>1, <3>1, Zenon
    <3>3. QED
      BY <2>2, <3>2, Zenon
  <2>6. KeyedByRoot(after) /\ (\A p \in after : IsPeer(p) /\ p.root # NoRoot)
    BY <2>4, <2>5, Zenon DEF KeyedByRoot
  <2>7. {p \in after : p.root # root} = {p \in peers : p.root # root}
    BY <2>4, <2>5, Zenon
  <2>8. QED
    BY <2>1, <2>2, <2>4, <2>5, <2>6, <2>7, Zenon DEF after, done
<1>3. QED
  BY <1>1, <1>2

(* A decision by name is made about the only bearer of that name, or about  *)
(* nobody (sole_peer_named).                                                *)
THEOREM DecisionsByNameAreOfOne ==
    ASSUME NEW peers, IsFiniteSet(peers), \A p \in peers : p.root \in Int, NEW name
    PROVE  /\ \A p : Named(peers, name) = {p} => sole_peer_named(peers, name) = {p}
           /\ (~\E p : Named(peers, name) = {p}) => sole_peer_named(peers, name) = {}
<1> DEFINE N == Named(peers, name)
<1>1. IsFiniteSet(N) /\ N \subseteq peers
  BY FS_Subset DEF Named
<1> HIDE DEF N
<1>2. Cardinality(N) = 1 <=> \E p : N = {p}
  BY <1>1, FS_Singleton, Zenon
<1>3. ASSUME NEW p, N = {p} PROVE get_peer(peers, name) = {p}
  <2>1. p.root <= p.root
    BY <1>1, <1>3
  <2>2. QED
    BY <1>3, <2>1, Zenon DEF get_peer, N
<1>4. QED
  BY <1>2, <1>3, Zenon DEF sole_peer_named, N

DbOf(p, k, r, u) == [peers |-> p, peer_keys |-> k, auto_approve |-> r, audit |-> u]
Dropped(db, p) == [db EXCEPT !.peers = p]
DroppedAll(db, k, r, u) == [db EXCEPT !.peer_keys = k, !.auto_approve = r, !.audit = u]

(* The tables after a removal. *)
LEMMA DbReplaced ==
    ASSUME NEW p, NEW k, NEW r, NEW u, NEW p1, NEW k1, NEW r1, NEW u1
    PROVE  /\ Dropped(DbOf(p, k, r, u), p1) = DbOf(p1, k, r, u)
           /\ DroppedAll(DbOf(p, k, r, u), k1, r1, u1) = DbOf(p, k1, r1, u1)
<1> DEFINE d == DbOf(p, k, r, u)
           a == [d EXCEPT !.peer_keys = k1]
           b == [a EXCEPT !.auto_approve = r1]
<1>1. a = DbOf(p, k1, r, u) /\ Dropped(d, p1) = DbOf(p1, k, r, u)
  BY DEF DbOf, Dropped
<1> HIDE DEF a
<1>2. b = DbOf(p, k1, r1, u)
  BY <1>1 DEF DbOf
<1> HIDE DEF b
<1>3. [b EXCEPT !.audit = u1] = DbOf(p, k1, r1, u1)
  BY <1>2 DEF DbOf
<1>4. QED
  BY <1>1, <1>3, Zenon DEF DroppedAll, a, b

(* Removing the only bearer of a name takes its keys and its policy along,  *)
(* with one audit record, and leaves everyone else's alone.  Several        *)
(* bearers are all deleted, without a record, while the keys and policies   *)
(* stay, and the answer is that there was no such peer (remove_peer).       *)
THEOREM RemovalByNameIsOfOne ==
    ASSUME NEW peers, IsFiniteSet(peers), NEW keys, NEW rules, NEW log, NEW name
    PROVE  LET done == remove_peer(DbOf(peers, keys, rules, log), name)
               bearers == Named(peers, name)
               Others(rows) == {x \in rows : x.agent_id # name}
           IN /\ done.removed <=> \E p : bearers = {p}
              /\ done.db = IF \E p : bearers = {p}
                           THEN DbOf(peers \ bearers, Others(keys), Others(rules),
                                     Append(log, <<"peer.removed", name>>))
                           ELSE DbOf(peers \ bearers, keys, rules, log)
<1> DEFINE done == remove_peer(DbOf(peers, keys, rules, log), name)
           bearers == Named(peers, name)
           Others(rows) == {x \in rows : x.agent_id # name}
           one == Cardinality(bearers) = 1
           db == DbOf(peers, keys, rules, log)
           rest == Dropped(db, peers \ bearers)
           entry == Append(log, <<"peer.removed", name>>)
<1>1. IsFiniteSet(bearers)
  BY FS_Subset DEF Named
<1> HIDE DEF bearers
<1>2. one <=> \E p : bearers = {p}
  BY <1>1, FS_Singleton, Zenon
<1>3. db.peers = peers /\ db.peer_keys = keys /\ db.auto_approve = rules /\ db.audit = log
  BY DEF DbOf
<1>4. rest = DbOf(peers \ bearers, keys, rules, log)
  BY DbReplaced
<1>5. rest.peer_keys = keys /\ rest.auto_approve = rules /\ rest.audit = log
  BY <1>4 DEF DbOf
<1>6. DroppedAll(rest, Others(keys), Others(rules), entry)
        = DbOf(peers \ bearers, Others(keys), Others(rules), entry)
  <2> HIDE DEF Others, entry, rest
  <2>1. QED
    BY <1>4, DbReplaced
<1> HIDE DEF db
<1>7. done = [removed |-> one,
              db |-> IF ~one THEN rest ELSE DroppedAll(rest, Others(keys), Others(rules), entry)]
  BY <1>3, <1>5, Zenon DEF remove_peer, db, bearers, Dropped, DroppedAll
<1> HIDE DEF rest, Others, entry, one
<1>8. done.removed = one
      /\ done.db = IF ~one THEN rest ELSE DroppedAll(rest, Others(keys), Others(rules), entry)
  <2> HIDE DEF done
  <2> DEFINE to == IF ~one THEN rest ELSE DroppedAll(rest, Others(keys), Others(rules), entry)
  <2> HIDE DEF to
  <2>1. done = [removed |-> one, db |-> to]
    BY <1>7, Zenon DEF to
  <2>2. done.removed = one /\ done.db = to
    BY <2>1, Zenon
  <2>3. QED
    BY <2>2, Zenon DEF to
<1> HIDE DEF done
<1>9. done.removed <=> \E p : bearers = {p}
  BY <1>2, <1>8, Zenon
<1>10. done.db = IF \E p : bearers = {p}
                 THEN DbOf(peers \ bearers, Others(keys), Others(rules), entry)
                 ELSE DbOf(peers \ bearers, keys, rules, log)
  <2>1. CASE one
    BY <1>2, <1>6, <1>8, <2>1, Zenon
  <2>2. CASE ~one
    BY <1>2, <1>4, <1>8, <2>2, Zenon
  <2>3. QED
    BY <2>1, <2>2, Zenon
<1>11. QED
  BY <1>9, <1>10, Zenon DEF done, db, bearers, Others, entry

(* A set of naturals has a least element. *)
LEMMA LeastNatural ==
    ASSUME NEW T \in SUBSET Nat, T # {}
    PROVE  \E n \in T : \A k \in T : n <= k
<1> DEFINE R == StrictSubsetOrdering(Nat)
           F == FiniteSubsetsOf(Nat)
           I == {0..n : n \in T}
<1>1. IsWellFoundedOn(R, F)
  BY FS_StrictSubsetOrderingWellFounded
<1>2. I \subseteq F
  <2> SUFFICES ASSUME NEW n \in T PROVE 0..n \in F
    OBVIOUS
  <2>1. IsFiniteSet(0..n)
    BY FS_Interval
  <2>2. 0..n \in SUBSET Nat
    OBVIOUS
  <2> QED
    BY <2>1, <2>2, Zenon DEF FiniteSubsetsOf
<1>3. I # {}
  BY Zenon
<1> HIDE DEF R, F
<1>4. PICK i \in I : \A j \in I : <<j, i>> \notin R
  BY <1>1, <1>2, <1>3, WFMin, Zenon
<1>5. PICK n \in T : i = 0..n
  OBVIOUS
<1>6. ASSUME NEW k \in T, k < n PROVE FALSE
  <2>1. 0..k \subseteq 0..n /\ n \in 0..n /\ n \notin 0..k
    BY <1>6
  <2>2. <<0..k, 0..n>> \in R
    BY <2>1 DEF R, StrictSubsetOrdering
  <2> QED
    BY <1>4, <1>5, <2>2, Zenon
<1> QED
  BY <1>6

-----------------------------------------------------------------------------
(* The audit log (append, record_hash). *)

(* A hash is of one row: the tuple of what it covers. *)
LEMMA HashIsOfOneRow ==
    ASSUME NEW a, a = RowOf(a.seq, a.ts, a.event, a.detail, a.prev_hash),
           NEW b, b = RowOf(b.seq, b.ts, b.event, b.detail, b.prev_hash)
    PROVE  /\ a.hash = b.hash => a = b
           /\ a.hash # GENESIS
<1>1. a.hash = record_hash(a.prev_hash, a.seq, a.ts, a.event, a.detail)
      /\ b.hash = record_hash(b.prev_hash, b.seq, b.ts, b.event, b.detail)
  BY DEF RowOf
<1>2. a.hash = b.hash => /\ a.prev_hash = b.prev_hash /\ a.seq = b.seq /\ a.ts = b.ts
                         /\ a.event = b.event /\ a.detail = b.detail
  BY <1>1 DEF record_hash
<1>3. a.hash = b.hash => a = b
  BY <1>2, Zenon
<1>4. a.hash # GENESIS
  BY <1>1 DEF record_hash, GENESIS
<1>5. QED
  BY <1>3, <1>4

(* The head commits to the whole log: two logs that verify and end in the   *)
(* same hash are the same log, so an edit, a removal, an exchange or a cut  *)
(* anywhere shows to whoever kept the last hash (head, verify_chain).       *)
THEOREM HeadCommitsToTheLog ==
    ASSUME NEW a, Chained(a), NEW b, Chained(b), head(a) = head(b)
    PROVE  a = b
<1> DEFINE m == Len(a)
           n == Len(b)
           Differ == {j \in Nat : j < m /\ j < n /\ a[m - j] # b[n - j]}
<1>1. m \in Nat /\ n \in Nat
  BY DEF Chained
<1>2. \A i \in 1..m : /\ a[i] = RowOf(a[i].seq, a[i].ts, a[i].event, a[i].detail, a[i].prev_hash)
                      /\ a[i].prev_hash = IF i = 1 THEN GENESIS ELSE a[i - 1].hash
  BY Zenon DEF Chained
<1>3. \A i \in 1..n : /\ b[i] = RowOf(b[i].seq, b[i].ts, b[i].event, b[i].detail, b[i].prev_hash)
                      /\ b[i].prev_hash = IF i = 1 THEN GENESIS ELSE b[i - 1].hash
  BY Zenon DEF Chained
<1>4. \A i \in 1..m, j \in 1..n : a[i].hash = b[j].hash => a[i] = b[j]
  BY <1>2, <1>3, HashIsOfOneRow, Zenon
<1>5. (\A i \in 1..m : a[i].hash # GENESIS) /\ (\A j \in 1..n : b[j].hash # GENESIS)
  BY <1>2, <1>3, HashIsOfOneRow, Zenon
<1>6. (m = 0 <=> a = <<>>) /\ (n = 0 <=> b = <<>>)
  BY DEF Chained
<1>7. (m > 0 => head(a) = a[m].hash) /\ (n > 0 => head(b) = b[n].hash)
      /\ (m = 0 => head(a) = GENESIS) /\ (n = 0 => head(b) = GENESIS)
  BY <1>1, <1>6 DEF head
<1>8. m = 0 <=> n = 0
  BY <1>1, <1>5, <1>7
<1>9. Differ = {}
  <2> SUFFICES ASSUME Differ # {} PROVE FALSE
    OBVIOUS
  <2>1. PICK j \in Differ : \A k \in Differ : j <= k
    BY LeastNatural, Zenon
  <2>2. j \in Nat /\ j < m /\ j < n /\ a[m - j] # b[n - j]
    OBVIOUS
  <2>3. m - j \in 1..m /\ n - j \in 1..n
    BY <1>1, <2>2
  <2>4. CASE j = 0
    <3>1. a[m].hash = b[n].hash
      BY <1>1, <1>7, <2>2, <2>4
    <3>2. a[m] = b[n]
      BY <1>1, <1>4, <2>2, <2>4, <3>1
    <3>3. QED
      BY <1>1, <2>2, <2>4, <3>2
  <2>5. CASE j # 0
    <3>1. j - 1 \in Nat /\ j - 1 < j /\ j - 1 \notin Differ
      BY <2>1, <2>2, <2>5
    <3>2. a[m - (j - 1)] = b[n - (j - 1)]
      BY <1>1, <2>2, <3>1
    <3> DEFINE x == m - (j - 1)
               y == n - (j - 1)
    <3>3. x \in 1..m /\ y \in 1..n /\ x # 1 /\ y # 1 /\ x - 1 = m - j /\ y - 1 = n - j
      BY <1>1, <2>2, <2>5
    <3> HIDE DEF x, y
    <3>4. a[x].prev_hash = a[x - 1].hash
      BY <1>2, <3>3, Zenon
    <3>5. b[y].prev_hash = b[y - 1].hash
      BY <1>3, <3>3, Zenon
    <3>6. a[x] = b[y]
      BY <3>2, Zenon DEF x, y
    <3>7. a[m - j].hash = b[n - j].hash
      BY <3>3, <3>4, <3>5, <3>6, ZenonT(30)
    <3>8. QED
      BY <1>4, <2>2, <2>3, <3>7, Zenon
  <2>6. QED
    BY <2>4, <2>5
<1>10. m = n
  <2>1. ASSUME NEW k \in Nat, m = n + k, k # 0, n # 0 PROVE FALSE
    <3>1. m - (n - 1) = k + 1 /\ n - (n - 1) = 1 /\ n - 1 \in Nat /\ n - 1 < m /\ n - 1 < n
      BY <1>1, <2>1
    <3>2. a[k + 1] = b[1]
      BY <1>9, <3>1
    <3>3. k + 1 \in 1..m /\ k + 1 # 1 /\ (k + 1) - 1 = k /\ k \in 1..m /\ 1 \in 1..n
      BY <1>1, <2>1
    <3>4. a[k + 1].prev_hash = a[(k + 1) - 1].hash
      BY <1>2, <3>3, Zenon
    <3>5. b[1].prev_hash = GENESIS
      BY <1>3, <3>3, Zenon
    <3>6. QED
      BY <1>5, <3>2, <3>3, <3>4, <3>5, Zenon
  <2>2. ASSUME NEW k \in Nat, n = m + k, k # 0, m # 0 PROVE FALSE
    <3>1. n - (m - 1) = k + 1 /\ m - (m - 1) = 1 /\ m - 1 \in Nat /\ m - 1 < m /\ m - 1 < n
      BY <1>1, <2>2
    <3>2. a[1] = b[k + 1]
      BY <1>9, <3>1
    <3>3. k + 1 \in 1..n /\ k + 1 # 1 /\ (k + 1) - 1 = k /\ k \in 1..n /\ 1 \in 1..m
      BY <1>1, <2>2
    <3>4. b[k + 1].prev_hash = b[(k + 1) - 1].hash
      BY <1>3, <3>3, Zenon
    <3>5. a[1].prev_hash = GENESIS
      BY <1>2, <3>3, Zenon
    <3>6. QED
      BY <1>5, <3>2, <3>3, <3>4, <3>5, Zenon
  <2>3. CASE m = 0 \/ n = 0
    BY <1>8, <2>3
  <2>4. CASE m # 0 /\ n # 0 /\ m # n
    <3>1. \/ m - n \in Nat /\ m = n + (m - n) /\ m - n # 0
          \/ n - m \in Nat /\ n = m + (n - m) /\ n - m # 0
      BY <1>1, <2>4
    <3>2. QED
      BY <2>1, <2>2, <2>4, <3>1, Zenon
  <2>5. QED
    BY <2>3, <2>4
<1>11. \A i \in 1..m : a[i] = b[i]
  <2> SUFFICES ASSUME NEW i \in 1..m PROVE a[i] = b[i]
    OBVIOUS
  <2>1. m - i \in Nat /\ m - i < m /\ m - (m - i) = i
    BY <1>1
  <2>2. QED
    BY <1>9, <1>10, <2>1
<1>12. a \in Seq({a[i] : i \in DOMAIN a}) /\ b \in Seq({b[i] : i \in DOMAIN b})
  BY DEF Chained
<1>13. a = [i \in 1..m |-> a[i]] /\ b = [i \in 1..n |-> b[i]]
  BY <1>12
<1>14. QED
  BY <1>10, <1>11, <1>13

(* Every log that was only appended to verifies. *)
THEOREM AppendKeepsTheChain ==
    /\ Chained(<<>>)
    /\ \A rows, ts, event, detail :
          Chained(rows) => Chained(append(rows, ts, event, detail))
<1>1. Chained(<<>>)
  BY DEF Chained
<1>2. ASSUME NEW rows, NEW ts, NEW event, NEW detail, Chained(rows)
      PROVE  Chained(append(rows, ts, event, detail))
  <2> DEFINE seq == IF rows = <<>> THEN 1 ELSE rows[Len(rows)].seq + 1
             row == RowOf(seq, ts, event, detail, head(rows))
             more == append(rows, ts, event, detail)
             n == Len(rows)
  <2>1. more = Append(rows, row)
    BY Zenon DEF append, RowOf
  <2>2. /\ row.prev_hash = head(rows)
        /\ row = RowOf(row.seq, row.ts, row.event, row.detail, row.prev_hash)
    <3> DEFINE prev == head(rows)
               h == record_hash(prev, seq, ts, event, detail)
    <3>1. row = [seq |-> seq, ts |-> ts, event |-> event, detail |-> detail, prev_hash |-> prev,
                 hash |-> h]
      BY Zenon DEF RowOf
    <3> HIDE DEF seq, prev, h, row
    <3>2. row.seq = seq /\ row.ts = ts /\ row.event = event /\ row.detail = detail
          /\ row.prev_hash = prev
      BY <3>1
    <3>3. QED
      BY <3>2, Zenon DEF prev, row
  <2> HIDE DEF row, more
  <2>3. rows \in Seq({rows[i] : i \in DOMAIN rows}) /\ n \in Nat
    BY <1>2 DEF Chained
  <2>4. /\ Len(more) = n + 1 /\ more[n + 1] = row
        /\ \A i \in 1..n : more[i] = rows[i]
        /\ more \in Seq({rows[i] : i \in DOMAIN rows} \cup {row})
    BY <2>1, <2>3
  <2>5. more \in Seq({more[i] : i \in DOMAIN more})
    <3>1. DOMAIN more = 1..Len(more) /\ more = [i \in 1..Len(more) |-> more[i]]
      BY <2>4
    <3> DEFINE Rows == {more[j] : j \in DOMAIN more}
    <3>2. \A i \in 1..Len(more) : more[i] \in Rows
      BY <3>1
    <3> HIDE DEF Rows
    <3>3. more \in Seq(Rows)
      BY <2>3, <2>4, <3>1, <3>2, SMTT(30)
    <3>4. QED
      BY <3>3 DEF Rows
  <2>6. head(rows) = IF n + 1 = 1 THEN GENESIS ELSE rows[n].hash
    BY <2>3 DEF head
  <2>7. ASSUME NEW i \in 1..Len(more)
        PROVE  /\ more[i] = RowOf(more[i].seq, more[i].ts, more[i].event, more[i].detail,
                                  more[i].prev_hash)
               /\ more[i].prev_hash = IF i = 1 THEN GENESIS ELSE more[i - 1].hash
    <3>1. CASE i \in 1..n
      <4>1. more[i] = rows[i] /\ (i # 1 => more[i - 1] = rows[i - 1])
        BY <2>3, <2>4, <3>1
      <4>2. /\ rows[i] = RowOf(rows[i].seq, rows[i].ts, rows[i].event, rows[i].detail,
                               rows[i].prev_hash)
            /\ rows[i].prev_hash = IF i = 1 THEN GENESIS ELSE rows[i - 1].hash
        BY <1>2, <3>1, Zenon DEF Chained
      <4>3. QED
        BY <4>1, <4>2, Zenon
    <3>2. CASE i = n + 1
      <4>1. more[i] = row /\ (i # 1 => i - 1 = n /\ more[n] = rows[n])
        BY <2>3, <2>4, <3>2
      <4>2. QED
        BY <2>2, <2>6, <3>2, <4>1, Zenon
    <3>3. QED
      BY <2>3, <2>4, <3>1, <3>2
  <2>8. QED
    BY <2>5, <2>7, Zenon DEF Chained, more
<1>3. QED
  BY <1>1, <1>2
=============================================================================
