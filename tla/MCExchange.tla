----------------------------- MODULE MCExchange -----------------------------
EXTENDS Exchange, EvidenceChecks

CONSTANTS q, p, c1, c2, a1, a2

Text(id, text) == [id |-> id, media_type |-> "text/plain", text |-> text]

(* One send with two inputs. *)
MCSpecs ==
    [s1 |-> [inputs |-> <<Text("i1", <<1>>), Text("i2", <<2, 2>>)>>,
             context |-> "k1", created_at |-> 0, deadline |-> 2]]

(* A proposal of another client: its contract, its context and its Parts.  *)
Proposal(id, name, revision, predecessor, entries, parts, expires) ==
    [message_id |-> id, context_id |-> "kf",
     parts |-> <<[media_type |-> DSSE_ENVELOPE_MEDIA_TYPE, kind |-> "data",
                  value |-> sign_proposal(
                     [canonical |-> TRUE,
                      contract |->
                        [contract_id |-> name, revision |-> revision,
                         predecessor_digest |-> predecessor,
                         requester |-> Requester, performer |-> Performer,
                         inputs |-> entries, created_at |-> 0, expires_at |-> expires]],
                     Requester)]>> \o parts]

TextPart(text) == [media_type |-> "text/plain", kind |-> "text", value |-> text]
DataPart(doc) == [media_type |-> "json", kind |-> "data",
                  value |-> [document |-> doc, spelling |-> "indented"]]

(* A follow-up revision of the send, with a data input the worker does not *)
(* see; and a message that reuses the id of the send for a contract whose  *)
(* one input is not what its entry says.                                   *)
MCForeign ==
    [f1 |-> Proposal("f1", "f1", 1, "s1",
              <<InputEntry("i1", "f1", 1, "data", "json", "jcs", <<3>>, FALSE)>>,
              <<DataPart(<<3>>)>>, 2),
     x1 |-> Proposal("s1", "x1", 0, NoDigest,
              <<InputEntry("i1", "s1", 1, "text", "text/plain", "utf8-exact", <<1>>, TRUE)>>,
              <<TextPart(<<2>>)>>, 2)]

Output(a, bytes) == [artifact_id |-> a, bytes |-> bytes]
MCSubmissions == {{Output(a1, <<1>>)}, {Output(a1, <<2>>), Output(a2, <<1>>)}}
=============================================================================
