----------------------------- MODULE MCExecution -----------------------------
EXTENDS ConfinementChecks, TLC

CONSTANTS t1, c1, c2, resp, art, x, y

-----------------------------------------------------------------------------
(* Proposals: requests in several orders, one of them with a duplicate (a  *)
(* contract's schema allows it), inputs of which one is hidden or shares   *)
(* its id, no deliverable to two, deadlines before and after the time.     *)

Input(id, visible) == [id |-> id, worker_visible |-> visible, content |-> id]

Requests ==
    {<<>>, <<"Respond">>, <<"Respond", "Respond">>, <<"ReadSuppliedInputs", "Respond">>,
     <<"Respond", "ProcessorUse">>, <<"ArtifactExport", "ReadSuppliedInputs">>,
     <<"ProcessorUse", "ArtifactExport">>,
     <<"Respond", "ArtifactExport", "ProcessorUse", "ReadSuppliedInputs">>}

MCContracts ==
    {[message_id |-> "m", requester |-> "peer", requested |-> r, deliverables |-> d,
      inputs |-> <<Input(<<"a">>, TRUE), second>>,
      max_response_bytes |-> 2, max_cost_microusd |-> 0, created_at |-> 0,
      expires_at |-> 50, deadline |-> due, evidence_slots |-> <<>>] :
        r \in Requests, d \in {<<>>, <<"sarif">>, <<"sarif", "json">>}, due \in {3, 20},
        second \in {Input(<<"7", "-">>, FALSE), Input(<<"7", "-">>, TRUE), Input(<<"a">>, TRUE)}}

MCApprovals == [processor : {"none", "p", "unconfigured"}, artifacts : BOOLEAN]

Output == [channel : {"Response", "Artifact"}, recipient : {"request-origin", "other"},
           media_type : {"sarif", "json", "text/plain"}, bytes : {2, 3}]
MCBatches == {<<>>} \cup {<<o>> : o \in Output} \cup (Output \X Output)

MCHost == [directories |-> {"/usr", "/lib"}, files |-> {"/opt/w", "review"},
           paths |-> {"/opt/w"}]
Configs == {[worker_exec |-> e, worker_command |-> w] :
               e \in {<<>>, <<"/opt/w", "-v">>}, w \in {<<>>, <<"review", "-x">>, <<"/opt/w">>}}
MCInvocations == {Invocation(config) : config \in Configs} \ {[kind |-> "None", words |-> <<>>]}
=============================================================================
