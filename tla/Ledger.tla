------------------------------- MODULE Ledger -------------------------------
(***************************************************************************)
(* The state database as a whole (akson-store), over the rows of module    *)
(* Tables: the stepwise schema migrations, opening against an external     *)
(* checkpoint, the walk over the audit log, the standing policies and the  *)
(* event feed the coordination driver reads with a cursor.                 *)
(***************************************************************************)
EXTENDS Tables
LOCAL INSTANCE SequencesExt
LOCAL INSTANCE FiniteSetsExt

(* At most n elements of s: what was done before a crash, a limited query. *)
UpTo(s, n) == SubSeq(s, 1, Min({n, Len(s)}))

-----------------------------------------------------------------------------
(* Migrations: one transaction each, so a crash falls between two of them. *)
(* `applied` is the order in which their statements ran; a table or column *)
(* that is already there makes the step, and with it the open, fail.  A    *)
(* row older than the root column is one that holds its default, NoRoot.   *)

Statements(target, tables) ==
    CASE target = 18 -> Ok(V18(tables))
      [] target = 19 -> V19(tables)
      [] target = 20 -> Ok(V20(tables))
      [] OTHER -> Ok(tables)

(* A step that fails is rolled back and ends the open. *)
Migrated(schema, target) ==
    LET done == Statements(target, schema.tables)
    IN IF schema.failed THEN schema
       ELSE IF ~done.ok THEN [schema EXCEPT !.failed = TRUE]
       ELSE [schema EXCEPT !.applied = Append(@, target), !.user_version = target,
                           !.tables = done.value]

(* The open that dies after `crash` steps; `version` is read once. *)
open_and_migrate(schema, migrations, crash) ==
    FoldLeft(Migrated, [schema EXCEPT !.failed = FALSE],
             UpTo(SelectSeq(migrations, LAMBDA target : schema.user_version < target), crash))

-----------------------------------------------------------------------------
(* Opening.  `meta` holds the rows written so far; every write is its own   *)
(* commit, so the open may die after any of them.                          *)

meta_get(meta, key, default) == IF key \in DOMAIN meta THEN meta[key] ELSE default
meta_set(meta, write) ==
    [k \in DOMAIN meta \cup {write[1]} |-> IF k = write[1] THEN write[2] ELSE meta[k]]

WRAPPED_DEK == "wrapped_dek"
STATE_GENERATION == "state_generation"
TRUSTED_TIME == "trusted_time"
COMMITMENT_KEY == "commitment_key"

(* The fresh key material of one open. *)
OpenedDek(meta, kek, fresh) ==
    IF WRAPPED_DEK \in DOMAIN meta THEN unwrap(kek, meta[WRAPPED_DEK]) ELSE Ok(fresh.dek)

(* What an open writes: the wrapped data key with the checkpoint's         *)
(* generation and time at the first one, a commitment key where there is   *)
(* none, and the checkpoint's time where it is ahead and can be trusted.   *)
OpenWrites(meta, kek, checkpoint, fresh) ==
    LET first == IF WRAPPED_DEK \in DOMAIN meta THEN <<>>
                 ELSE << <<WRAPPED_DEK, wrap(fresh.dek, kek, fresh.nonce)>>,
                         <<STATE_GENERATION, checkpoint.state_generation>>,
                         <<TRUSTED_TIME, checkpoint.trusted_time>> >>
        dek == OpenedDek(meta, kek, fresh).value
        commitment == IF COMMITMENT_KEY \in DOMAIN meta THEN <<>>
                      ELSE << <<COMMITMENT_KEY,
                                seal_with(dek, COMMITMENT_KEY, fresh.key, fresh.nonce)>> >>
        stored == IF first # <<>> THEN checkpoint.trusted_time ELSE meta_get(meta, TRUSTED_TIME, 0)
        floor == IF checkpoint.rollback_detectable /\ checkpoint.trusted_time > stored
                 THEN << <<TRUSTED_TIME, checkpoint.trusted_time>> >> ELSE <<>>
    IN first \o commitment \o floor

recovery(meta, checkpoint) ==
    IF ~checkpoint.rollback_detectable THEN "RollbackDetectionUnavailable"
    ELSE IF meta_get(meta, STATE_GENERATION, 0) # checkpoint.state_generation THEN "Recovery"
    ELSE "Normal"

automatic_authority_enabled(verdict) == verdict # "Recovery"

(* from_conn as a whole: the rows on disk after `crash` writes, and the     *)
(* store when it got to the end.  Keys that do not open write nothing.     *)
from_conn(meta, kek, checkpoint, fresh, journal_mode, crash) ==
    IF journal_mode \notin {"wal", "memory"} THEN [meta |-> meta, store |-> Err("Corrupt")]
    ELSE LET dek == OpenedDek(meta, kek, fresh)
         IN IF ~dek.ok THEN [meta |-> meta, store |-> dek]
            ELSE LET sealed == COMMITMENT_KEY \in DOMAIN meta
                     key == IF sealed
                            THEN open_with(dek.value, COMMITMENT_KEY, meta[COMMITMENT_KEY])
                            ELSE Ok(fresh.key)
                     writes == OpenWrites(meta, kek, checkpoint, fresh)
                     disk == FoldLeft(meta_set, meta, UpTo(writes, crash))
                 IN IF ~key.ok THEN [meta |-> meta, store |-> key]
                    ELSE IF crash < Len(writes) THEN [meta |-> disk, store |-> Err("Crashed")]
                    ELSE [meta |-> disk,
                          store |-> Ok([dek |-> dek.value, commitment_key |-> key.value,
                                        recovery |-> recovery(disk, checkpoint)])]

-----------------------------------------------------------------------------
(* The walk: each row is judged against the hash computed for the one      *)
(* before it, never against a stored one.                                  *)
Linked(walk, row) ==
    LET expected == record_hash(walk.prev, row.seq, row.ts, row.event, row.detail)
    IN IF walk.broken # 0 THEN walk
       ELSE IF row.prev_hash # walk.prev \/ row.hash # expected
       THEN [walk EXCEPT !.broken = row.seq]
       ELSE [walk EXCEPT !.prev = expected, !.count = @ + 1]

verify_chain(rows) ==
    LET walk == FoldLeft(Linked, [prev |-> GENESIS, count |-> 0, broken |-> 0], rows)
    IN IF walk.broken # 0 THEN Err(walk.broken) ELSE Ok(walk.count)

-----------------------------------------------------------------------------
(* Standing policies: the task types are one text column, a line each, and *)
(* the ceiling is kept in a signed column of the same width.               *)

NewLine == "\n"
CarriageReturn == "\r"

join(types) ==
    FoldLeftDomain(LAMBDA text, i : text \o (IF i = 1 THEN <<>> ELSE <<NewLine>>) \o types[i],
                   <<>>, types)

TrimmedCr(line) ==
    IF line # <<>> /\ Last(line) = CarriageReturn THEN Front(line) ELSE line

(* Breaks at every newline, a trailing one ends the last line; a carriage  *)
(* return before a newline belongs to the break.                           *)
lines(text) ==
    LET cut == FoldLeft(LAMBDA acc, c :
                   IF c = NewLine THEN [done |-> Append(acc.done, TrimmedCr(acc.line)), line |-> <<>>]
                   ELSE [acc EXCEPT !.line = Append(@, c)],
                   [done |-> <<>>, line |-> <<>>], text)
    IN IF cut.line = <<>> THEN cut.done ELSE Append(cut.done, cut.line)

Signed(n, width) == IF n >= 2^(width - 1) THEN n - 2^width ELSE n

put_auto_approve(types, ceiling, width) ==
    [task_types |-> join(types), max_response_bytes |-> Signed(ceiling, width)]

auto_approve_for_root(row) ==
    [task_types |-> SelectSeq(lines(row.task_types), LAMBDA type : type # <<>>),
     max_response_bytes |-> Max({row.max_response_bytes, 0})]

-----------------------------------------------------------------------------
(* The event feed. *)

append_event_in(events, kind) ==
    Append(events, [seq |-> IF events = <<>> THEN 1 ELSE Last(events).seq + 1, kind |-> kind])

read_coord_events(events, after_seq, limit) ==
    UpTo(SelectSeq(events, LAMBDA e : e.seq > after_seq), limit)

coord_events_head(events) == IF events = <<>> THEN 0 ELSE Last(events).seq

DEFAULT_EVENT_LIMIT == 64
MAX_EVENT_LIMIT == 256
CURSOR_DOMAIN == "akson-coord-events-v1:"

encode_cursor(seq) == [domain |-> CURSOR_DOMAIN, position |-> seq]

decode_cursor(cursor) ==
    IF cursor.domain # CURSOR_DOMAIN \/ cursor.position < 0 THEN Err("bad-cursor")
    ELSE Ok(cursor.position)

(* `cursor` and `limit` are sequences of at most one element. *)
events_read(events, cursor, limit) ==
    LET after == IF cursor = <<>> THEN Ok(0) ELSE decode_cursor(cursor[1])
        asked == IF limit = <<>> THEN DEFAULT_EVENT_LIMIT ELSE limit[1]
        page == read_coord_events(events, after.value, Max({1, Min({asked, MAX_EVENT_LIMIT})}))
        last == IF page = <<>> THEN after.value ELSE Last(page).seq
    IN IF ~after.ok THEN after
       ELSE Ok([events |-> [i \in DOMAIN page |-> [cursor |-> encode_cursor(page[i].seq),
                                                   kind |-> page[i].kind]],
                next_cursor |-> encode_cursor(last),
                has_more |-> last < coord_events_head(events)])
=============================================================================
