---------------------------- MODULE LedgerChecks ----------------------------
(***************************************************************************)
(* What the state database keeps through crashes, restores and renamings,  *)
(* over bounded inputs.                                                    *)
(***************************************************************************)
EXTENDS Integers, Sequences, FiniteSets

LOCAL INSTANCE SequencesExt
LOCAL INSTANCE FiniteSetsExt
LOCAL INSTANCE Ledger

(* A sealed value opens under its own key and column and under nothing     *)
(* else: moved to another column, cut short, given another version byte or *)
(* another nonce, it is an error and never other plaintext.                *)
ASSUME SealedOpensOnlyAsItself ==
    \A key, other \in 1..2, column, moved \in {"a", "b"}, nonce, n2 \in 1..2 :
        LET sealed == seal_with(key, column, "text", nonce)
        IN /\ open_with(other, moved, sealed)
                = IF other = key /\ moved = column THEN Ok("text") ELSE Err("Auth")
           /\ \A n \in 0..2 : ~open_with(key, column, UpTo(sealed, n)).ok
           /\ open_with(key, column, [sealed EXCEPT ![1] = 2]) = Err("Version")
           /\ open_with(key, column, [sealed EXCEPT ![2] = n2]).ok <=> n2 = nonce

-----------------------------------------------------------------------------
LOCAL MIGRATIONS == [i \in 1..23 |-> i]
LOCAL Built(version, tables, failed) ==
    [applied |-> UpTo(MIGRATIONS, version), user_version |-> version, tables |-> tables,
     failed |-> failed]

(* Before V19 the peers and the policies are keyed by the name. *)
LOCAL Keys == {[root |-> r] : r \in 0..2}
LOCAL Rows == {[agent_id |-> n, root |-> r] : n \in {"a", "b"}, r \in 0..2}
LOCAL ByName == {t \in SUBSET Rows : \A p, q \in t : p.agent_id = q.agent_id => p = q}
LOCAL Rooted(rows) == {r \in rows : r.root # NoRoot}
LOCAL Filled(held, keys, rules, table) ==
    [peers |-> held, peer_keys |-> keys, auto_approve |-> rules, imports |-> table]

(* From every version, and however often the open dies between two steps,  *)
(* each migration runs once, in order: the schema never ends where a step  *)
(* would run into its own tables.                                          *)
ASSUME MigrationsRunOnce ==
    \A from \in {0, 1, 7, 18, 22, 23}, one, two \in {0, 1, 5, 22, 23} :
        LET none == Filled({}, {}, {}, {})
            died == open_and_migrate(open_and_migrate(Built(from, none, FALSE), MIGRATIONS, one),
                                     MIGRATIONS, two)
            whole == open_and_migrate(died, MIGRATIONS, 23)
        IN /\ whole = Built(23, none, FALSE)
           /\ open_and_migrate(whole, MIGRATIONS, 23) = whole

(* Two names of one root in the older tables stop the open at the cutover: *)
(* version 18 is on disk, with its deletions and nothing of V19, and every *)
(* later open ends there again.  Any other content goes through.           *)
ASSUME FailedCutoverStaysAt18 ==
    \A held, rules \in ByName, from \in 17..18, crash \in {0, 1, 23} :
        LET table == {[root |-> 1, tombstoned |-> FALSE]}
            died == open_and_migrate(Built(from, Filled(held, {}, rules, table), FALSE),
                                     MIGRATIONS, crash)
            next == open_and_migrate(died, MIGRATIONS, 23)
            twice == ~KeyedByRoot(Rooted(held)) \/ ~KeyedByRoot(Rooted(rules))
            left == IF from = 17 THEN Filled(Rooted(held), {}, Rooted(rules), table)
                    ELSE Filled(held, {}, rules, table)
        IN /\ next.failed <=> twice
           /\ twice => next = Built(18, left, TRUE)
           /\ ~twice => next.user_version = 23
           /\ open_and_migrate(next, MIGRATIONS, 23) = next

LOCAL ImportRows == [root : 1..2, tombstoned : BOOLEAN]
LOCAL ImportTables == {t \in SUBSET ImportRows : \A i, j \in t : i.root = j.root => i = j}

(* The cutover to roots leaves peers and standing policies exactly where a *)
(* live import backs their root.  A verification key is kept wherever it   *)
(* names a root, also one whose import is gone: it is the peer row, not    *)
(* the key, that then says no.  It is refused exactly where two names are  *)
(* of one root, among the peers or among the policies.                     *)
ASSUME CutoverKeepsTheBacked ==
    \A held, rules \in ByName, keys \in SUBSET Keys, table \in ImportTables :
        LET moved == V19(V18(Filled(held, keys, rules, table)))
            live == {i.root : i \in {j \in table : ~j.tombstoned}}
        IN IF \E rows \in {held, rules} : \E p, q \in rows :
                 p.agent_id # q.agent_id /\ p.root = q.root /\ p.root # NoRoot
           THEN ~moved.ok
           ELSE /\ moved.ok
                /\ V20(moved.value) = Filled({p \in held : p.root \in live}, Rooted(keys),
                                              {a \in rules : a.root \in live}, table)

-----------------------------------------------------------------------------
LOCAL Fresh(n) == [dek |-> <<"dek", n>>, key |-> <<"commitment", n>>, nonce |-> n]
LOCAL Checkpoints ==
    [state_generation : 0..1, trusted_time : {0, 5, 9}, rollback_detectable : BOOLEAN]
LOCAL Nothing == [k \in {} |-> 0]
LOCAL Opened(meta, checkpoint, n) == from_conn(meta, "kek", checkpoint, Fresh(n), "wal", 99)

(* The first open may die after any of its commits.  The next one still    *)
(* opens, with the data key that is on disk if there is one, and every     *)
(* open after it finds the same two keys: nothing sealed is ever orphaned. *)
(* An open that died before it adopted the checkpoint's generation comes   *)
(* up in recovery, or with detection unavailable, never as normal.         *)
ASSUME FirstOpenSurvivesCrash ==
    \A checkpoint \in Checkpoints, crash \in 0..5 :
        LET died == from_conn(Nothing, "kek", checkpoint, Fresh(1), "wal", crash)
            next == Opened(died.meta, checkpoint, 2)
            later == Opened(next.meta, checkpoint, 3)
        IN /\ next.store.ok /\ later.store.ok
           /\ next.store.value.dek = Fresh(IF crash = 0 THEN 2 ELSE 1).dek
           /\ later.store.value = next.store.value
           /\ next.store.value.recovery =
                IF ~checkpoint.rollback_detectable THEN "RollbackDetectionUnavailable"
                ELSE IF crash = 1 /\ checkpoint.state_generation # 0 THEN "Recovery"
                ELSE "Normal"

(* Against an anchor that can be trusted, a restored snapshot of another   *)
(* generation disables automatic authority, and no restore lowers the time *)
(* floor below the anchor, whatever the generation says; an anchor that    *)
(* cannot be trusted moves neither.  An emptied database is a first open   *)
(* and takes the anchor's generation for its own.                          *)
ASSUME RestoredSnapshotIsNoticed ==
    \A checkpoint \in Checkpoints, generation \in 0..1, time \in {0, 5, 7} :
        LET snapshot == meta_set(meta_set(Opened(Nothing, checkpoint, 1).meta,
                                          <<STATE_GENERATION, generation>>),
                                 <<TRUSTED_TIME, time>>)
            open == Opened(snapshot, checkpoint, 2)
            verdict == open.store.value.recovery
        IN /\ automatic_authority_enabled(verdict)
                <=> (checkpoint.rollback_detectable => generation = checkpoint.state_generation)
           /\ open.meta[TRUSTED_TIME] =
                IF checkpoint.rollback_detectable THEN Max({time, checkpoint.trusted_time})
                ELSE time
           /\ open.meta[STATE_GENERATION] = generation
           /\ automatic_authority_enabled(Opened(Nothing, checkpoint, 2).store.value.recovery)

(* With another key-encryption key, or without the write-ahead log, there  *)
(* is no store and nothing on disk has changed.                            *)
ASSUME WrongKeyWritesNothing ==
    \A checkpoint \in Checkpoints, crash \in 1..5 :
        LET disk == from_conn(Nothing, "kek", checkpoint, Fresh(1), "wal", crash).meta
            wrong == from_conn(disk, "other", checkpoint, Fresh(2), "wal", 99)
            journal == from_conn(disk, "kek", checkpoint, Fresh(2), "delete", 99)
        IN /\ wrong.store = Err("Auth") /\ wrong.meta = disk
           /\ journal.store = Err("Corrupt") /\ journal.meta = disk

-----------------------------------------------------------------------------
LOCAL Entries == {"x", "y"}
LOCAL Logs == UNION {[1..n -> Entries] : n \in 0..3}
LOCAL Logged(entries) ==
    FoldLeftDomain(LAMBDA rows, i : append(rows, i, entries[i], "detail"), <<>>, entries)

(* Every log that was only appended to verifies, whole.  A row edited,     *)
(* taken out before the end or exchanged with another breaks the chain at  *)
(* the first row it touches.  Rows dropped at the end do not: what is left *)
(* is a log that was only appended to, and only its length tells.          *)
ASSUME AuditShowsEdits ==
    \A entries \in Logs :
        LET rows == Logged(entries)
            n == Len(rows)
        IN /\ verify_chain(rows) = Ok(n)
           /\ \A i \in 1..n :
                /\ verify_chain([rows EXCEPT ![i].detail = "edited"]) = Err(i)
                /\ verify_chain([rows EXCEPT ![i].ts = 0]) = Err(i)
                /\ i < n => verify_chain(RemoveAt(rows, i)) = Err(i + 1)
                /\ verify_chain(UpTo(rows, i)) = Ok(i)
                /\ \A j \in (i + 1)..n : ~verify_chain(
                       [rows EXCEPT ![i] = rows[j], ![j] = rows[i]]).ok

(* The walk accepts exactly the logs whose rows chain, whatever was done to *)
(* them: rows written with any predecessor, hash and seq.                   *)
ASSUME WalkAcceptsTheChained ==
    \A entries \in Logs :
        LET rows == Logged(entries)
            n == Len(rows)
            Touched == {rows} \cup {RemoveAt(rows, i) : i \in 1..n}
                       \cup {[rows EXCEPT ![i].detail = "edited"] : i \in 1..n}
                       \cup {[rows EXCEPT ![i] = rows[j]] : i, j \in 1..n}
                       \cup {[rows EXCEPT ![i].hash = rows[j].prev_hash] : i, j \in 1..n}
                       \cup {[rows EXCEPT ![i] = RowOf(s, 0, "z", "new", rows[j].prev_hash)]
                               : i, j \in 1..n, s \in 1..2}
        IN \A log \in Touched : verify_chain(log).ok <=> Chained(log)

-----------------------------------------------------------------------------
LOCAL Statuses == {"active", "suspended"}
LOCAL PeerRow(root, name, status) ==
    [root |-> root, agent_id |-> name, record |-> name, created_generation |-> 0,
     status |-> status]
LOCAL PeerTables ==
    {t \in SUBSET {PeerRow(r, n, s) : r \in 1..2, n \in {"a", "b"}, s \in Statuses}
        : \A p, q \in t : p.root = q.root => p = q}

(* A decision by name is made about the only peer of that name or about    *)
(* none; the shadowing query sees every other bearer of a name.            *)
ASSUME NamesAreNeverGuessed ==
    \A table \in PeerTables, name \in {"a", "b"} :
        LET bearers == {p \in table : p.agent_id = name}
        IN /\ sole_peer_named(table, name) = IF Cardinality(bearers) = 1 THEN bearers ELSE {}
           /\ Cardinality(get_peer(table, name)) = Min({1, Cardinality(bearers)})
           /\ peer_status(table, name) = {p.status : p \in get_peer(table, name)}
           /\ \A root \in 1..2 :
                /\ peer_named_with_other_root(table, name, root)
                     <=> bearers \ get_peer_by_root(table, root) # {}
                /\ Cardinality(peer_status_by_root(table, root)) <= 1

(* Storing a peer again renames it and renews its record, and never        *)
(* reopens, downgrades or re-dates the relationship; without a root it is  *)
(* refused.                                                                *)
ASSUME StoringAgainKeepsTheStatus ==
    \A table \in PeerTables, root \in 1..2, name \in {"a", "b"}, status \in Statuses :
        LET after == put_peer_status(table, root, name, "new", 1, status).value
        IN /\ ~put_peer_status(table, NoRoot, name, "new", 1, status).ok
           /\ {p \in after : p.root # root} = {p \in table : p.root # root}
           /\ \E p \in after :
                /\ p.root = root /\ p.agent_id = name /\ p.record = "new"
                /\ IF \E q \in table : q.root = root
                   THEN \E q \in table : /\ q.root = root /\ p.status = q.status
                                         /\ p.created_generation = q.created_generation
                   ELSE p.status = status /\ p.created_generation = 1
           /\ Cardinality(after) = Cardinality({p.root : p \in table} \cup {root})

LOCAL KeyRow(fingerprint, name) ==
    [fingerprint |-> fingerprint, purpose |-> "contract", agent_id |-> name]
LOCAL Dbs ==
    {[peers |-> t, peer_keys |-> {KeyRow(p.root, p.agent_id) : p \in t},
      auto_approve |-> {[agent_id |-> p.agent_id] : p \in t}, audit |-> <<>>] : t \in PeerTables}

(* Removing the only bearer of a name takes its keys and its policy along, *)
(* with one audit record, and leaves the others alone.  Two bearers of the *)
(* name are both deleted, without a record, while their keys and policies  *)
(* stay, and the answer is that there was no such peer.                    *)
ASSUME RemovalByNameIsOfOne ==
    \A db \in Dbs, name \in {"a", "b"} :
        LET bearers == {p \in db.peers : p.agent_id = name}
            done == remove_peer(db, name)
            after == done.db
        IN /\ done.removed <=> Cardinality(bearers) = 1
           /\ after.peers = db.peers \ bearers
           /\ peer_tls_fingerprints(after.peer_keys, name)
                = IF Cardinality(bearers) = 1 THEN {}
                  ELSE peer_tls_fingerprints(db.peer_keys, name)
           /\ \A other \in {"a", "b"} \ {name} :
                 {a \in after.auto_approve : a.agent_id = other}
                   = {a \in db.auto_approve : a.agent_id = other}
           /\ Len(after.audit) = IF Cardinality(bearers) = 1 THEN 1 ELSE 0

(* A certificate resolves to one key per purpose: the last one stored. *)
ASSUME OneKeyPerCertificate ==
    \A db \in Dbs, fingerprint \in 1..2, name \in {"a", "b"} :
        LET after == put_peer_key(db, KeyRow(fingerprint, name))
        IN /\ {k \in after.peer_keys : k.fingerprint = fingerprint} = {KeyRow(fingerprint, name)}
           /\ {k \in after.peer_keys : k.fingerprint # fingerprint}
                = {k \in db.peer_keys : k.fingerprint # fingerprint}

-----------------------------------------------------------------------------
LOCAL Words == UNION {[1..n -> {"x", NewLine, CarriageReturn}] : n \in 0..2}
LOCAL Plain(word) == word # <<>> /\ NewLine \notin ToSet(word) /\ Last(word) # CarriageReturn

(* A policy reads back as it was set when its types are plain lines and    *)
(* its ceiling fits the signed column.  A ceiling beyond it reads as 0,    *)
(* which approves nothing; a type with a newline reads as two.             *)
ASSUME PolicyReadsBack ==
    /\ \A one, two \in Words, ceiling \in 0..15 :
        LET back == auto_approve_for_root(put_auto_approve(<<one, two>>, ceiling, 4))
        IN /\ Plain(one) /\ Plain(two) => back.task_types = <<one, two>>
           /\ back.max_response_bytes = IF ceiling < 8 THEN ceiling ELSE 0
    /\ auto_approve_for_root(put_auto_approve(<< <<"x", NewLine, "y">> >>, 0, 4)).task_types
          = << <<"x">>, <<"y">> >>

-----------------------------------------------------------------------------
LOCAL Feed(n) == FoldLeft(append_event_in, <<>>, [i \in 1..n |-> <<"event", i>>])

(* A driver that resumes from each reply's cursor, or from the cursor of   *)
(* any event of a page, sees every event once and in order, whatever limit *)
(* it asks for and whatever was appended meanwhile; a limit of 0 is 1, so  *)
(* it always gets on.                                                      *)
ASSUME FeedIsReadOnce ==
    \A n, more \in 0..4, limit, next \in {<<>>, <<0>>, <<1>>, <<2>>, <<300>>} :
        LET one == events_read(Feed(n), <<>>, limit).value
            two == events_read(Feed(n + more), <<one.next_cursor>>, next).value
            seen == one.events \o two.events
        IN /\ \A i \in DOMAIN seen : seen[i].kind = <<"event", i>>
           /\ \A i \in DOMAIN one.events :
                 LET rest == events_read(Feed(n), <<one.events[i].cursor>>, <<>>).value.events
                 IN \A k \in DOMAIN rest : rest[k].kind = <<"event", i + k>>
           /\ one.has_more <=> Len(one.events) < n
           /\ two.has_more <=> Len(seen) < n + more
           /\ n > 0 => one.events # <<>>
           /\ n + more > Len(one.events) => two.events # <<>>

(* A cursor of another feed or a negative position is refused; one beyond  *)
(* the end waits there.                                                    *)
ASSUME CursorsAreTheFeeds ==
    \A n \in 0..2, position \in {-1, 0, 2, 7} :
        LET read == events_read(Feed(n), <<encode_cursor(position)>>, <<>>)
        IN /\ read.ok <=> position >= 0
           /\ position >= n => /\ read.value.events = <<>>
                               /\ read.value.next_cursor = encode_cursor(position)
                               /\ ~read.value.has_more
           /\ ~events_read(Feed(n), <<[domain |-> "other", position |-> 0]>>, <<>>).ok
=============================================================================
