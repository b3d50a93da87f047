------------------------------- MODULE Tables -------------------------------
(***************************************************************************)
(* The rows of the state database (akson-store): sealed columns, the       *)
(* relationship tables keyed by root with the migrations that judged them, *)
(* and the hash-linked audit log.                                          *)
(*                                                                         *)
(* A key, a column, a name and a root are values of small sets; a hash is  *)
(* the tuple of what it covers; a sealed blob is the sequence version,     *)
(* nonce, box, cut short where bytes are missing.                          *)
(***************************************************************************)
EXTENDS Integers, Sequences, FiniteSets

Ok(value) == [ok |-> TRUE, value |-> value]
Err(error) == [ok |-> FALSE, error |-> error]

-----------------------------------------------------------------------------
(* Envelope encryption. *)

VERSION == 1
DEK_CONTEXT == "akson.dek.v1"

seal_with(key, context, plaintext, nonce) ==
    <<VERSION, nonce, [key |-> key, nonce |-> nonce, aad |-> context, msg |-> plaintext]>>

open_with(key, context, sealed) ==
    IF sealed = <<>> THEN Err("Malformed")
    ELSE IF sealed[1] # VERSION THEN Err("Version")
    ELSE IF Len(sealed) < 2 THEN Err("Malformed")
    ELSE IF /\ Len(sealed) = 3
            /\ sealed[3].key = key
            /\ sealed[3].nonce = sealed[2]
            /\ sealed[3].aad = context
    THEN Ok(sealed[3].msg)
    ELSE Err("Auth")

wrap(dek, kek, nonce) == seal_with(kek, DEK_CONTEXT, dek, nonce)
unwrap(kek, wrapped) == open_with(kek, DEK_CONTEXT, wrapped)

-----------------------------------------------------------------------------
(* The three migrations that judge rows: rows without a root go, then peer *)
(* state whose root no live import backs.  Roots are numbered, 0 is "".    *)
(* V19 copies the peers and the policies from tables keyed by the name     *)
(* into tables keyed by the root, and two names of one root stop the copy. *)
NoRoot == 0
KeyedByRoot(rows) == \A p, q \in rows : p.root = q.root => p = q
V18(tables) ==
    [tables EXCEPT !.peer_keys = {k \in @ : k.root # NoRoot},
                   !.peers = {p \in @ : p.root # NoRoot},
                   !.auto_approve = {a \in @ : a.root # NoRoot}]
V19(tables) ==
    LET peers == {p \in tables.peers : p.root # NoRoot}
        policies == {a \in tables.auto_approve : a.root # NoRoot}
    IN IF KeyedByRoot(peers) /\ KeyedByRoot(policies)
       THEN Ok([tables EXCEPT !.peers = peers, !.auto_approve = policies])
       ELSE Err("Constraint")
V20(tables) ==
    LET live == {i.root : i \in {j \in tables.imports : ~j.tombstoned}}
    IN [tables EXCEPT !.peer_keys = {k \in @ : k.root # NoRoot},
                      !.peers = {p \in @ : p.root \in live},
                      !.auto_approve = {a \in @ : a.root \in live}]

-----------------------------------------------------------------------------
(* The audit log: rows in the order of their seq. *)

GENESIS == <<>>

record_hash(prev, seq, ts, event, detail) == <<prev, seq, ts, event, detail>>

head(rows) == IF rows = <<>> THEN GENESIS ELSE rows[Len(rows)].hash

append(rows, ts, event, detail) ==
    LET seq == IF rows = <<>> THEN 1 ELSE rows[Len(rows)].seq + 1
    IN Append(rows, [seq |-> seq, ts |-> ts, event |-> event, detail |-> detail,
                     prev_hash |-> head(rows),
                     hash |-> record_hash(head(rows), seq, ts, event, detail)])

(* What verify_chain accepts, row by row: each row names the one before and *)
(* carries the hash of what it holds.                                       *)
RowOf(seq, ts, event, detail, prev) ==
    [seq |-> seq, ts |-> ts, event |-> event, detail |-> detail, prev_hash |-> prev,
     hash |-> record_hash(prev, seq, ts, event, detail)]

Chained(rows) ==
    /\ rows \in Seq({rows[i] : i \in DOMAIN rows})
    /\ \A i \in 1..Len(rows) :
          /\ rows[i] = RowOf(rows[i].seq, rows[i].ts, rows[i].event, rows[i].detail,
                             rows[i].prev_hash)
          /\ rows[i].prev_hash = IF i = 1 THEN GENESIS ELSE rows[i - 1].hash

-----------------------------------------------------------------------------
(* Relationships, keyed by root; a name is only a label several may bear.  *)

Named(peers, agent_id) == {p \in peers : p.agent_id = agent_id}
OfRoot(peers, root) == {p \in peers : p.root = root}

put_peer_status(peers, root, agent_id, record, generation, status) ==
    IF root = NoRoot THEN Err("Corrupt")
    ELSE IF OfRoot(peers, root) = {}
    THEN Ok(peers \cup {[root |-> root, agent_id |-> agent_id, record |-> record,
                         created_generation |-> generation, status |-> status]})
    ELSE Ok({IF p.root = root THEN [p EXCEPT !.agent_id = agent_id, !.record = record] ELSE p
             : p \in peers})

(* The first of that name in the order of the roots, and the one of a root. *)
get_peer(peers, agent_id) ==
    {p \in Named(peers, agent_id) : \A q \in Named(peers, agent_id) : p.root <= q.root}
peer_status(peers, agent_id) == {p.status : p \in get_peer(peers, agent_id)}
get_peer_by_root(peers, root) == OfRoot(peers, root)
peer_status_by_root(peers, root) == {p.status : p \in OfRoot(peers, root)}

sole_peer_named(peers, agent_id) ==
    IF Cardinality(Named(peers, agent_id)) # 1 THEN {} ELSE get_peer(peers, agent_id)

peer_named_with_other_root(peers, agent_id, root) ==
    \E p \in peers : p.agent_id = agent_id /\ p.root # root

(* Removal by name.  What hangs on the peer goes, and is audited, only     *)
(* where the name deleted exactly one row.                                 *)
remove_peer(db, agent_id) ==
    LET one == Cardinality(Named(db.peers, agent_id)) = 1
        rest == [db EXCEPT !.peers = @ \ Named(@, agent_id)]
    IN [removed |-> one,
        db |-> IF ~one THEN rest
               ELSE [rest EXCEPT
                       !.peer_keys = {k \in @ : k.agent_id # agent_id},
                       !.auto_approve = {a \in @ : a.agent_id # agent_id},
                       !.audit = Append(@, <<"peer.removed", agent_id>>)]]

(* One row per certificate and purpose; a new key for them replaces it. *)
put_peer_key(db, row) ==
    [db EXCEPT
       !.peer_keys =
          {k \in @ : <<k.fingerprint, k.purpose>> # <<row.fingerprint, row.purpose>>} \cup {row},
       !.audit = Append(@, <<"peer.key_persisted", row.agent_id>>)]

peer_tls_fingerprints(peer_keys, agent_id) ==
    {k.fingerprint : k \in {j \in peer_keys : j.agent_id = agent_id}}
=============================================================================
