---------------------------- MODULE BrokerProofs ----------------------------
(***************************************************************************)
(* Proofs about Broker, for every set of tasks, callers, agents, processor *)
(* configurations and requests, and every budget: first the calls (what    *)
(* each step of a caller keeps of the rows, the lock and the budget), then *)
(* the channels and the whole, then what Broker makes of TaskLife.         *)
(***************************************************************************)
EXTENDS Broker, FiniteSetTheorems, TLAPS

(* A channel's queue: empty, or a first line and the rest. *)
LEMMA NoLines ==
    ASSUME NEW S
    PROVE  /\ <<>> \in Seq(S) /\ Len(<<>>) = 0
           /\ \A q \in Seq(S) : q # <<>> => Len(q) \in Nat \ {0}
  BY SMTT(30)

LEMMA QueueParts ==
    ASSUME NEW S, NEW q \in Seq(S), q # <<>>
    PROVE  /\ Head(q) \in S /\ Tail(q) \in Seq(S)
           /\ Len(Tail(q)) = Len(q) - 1
           /\ \A i \in 1..Len(Tail(q)) : Tail(q)[i] = q[i + 1]
  BY SMTT(30)

-----------------------------------------------------------------------------
(* The calls. *)

(* The phases of a call that has its key to itself: from the mark before    *)
(* the first byte to the mark after the last.                              *)
Owns == {"dispatching", "resolving", "connecting", "exchange", "marking"}
Locked == {"prepared", "dispatching"}

KeyOf(call) == [task |-> call.task, digest |-> call.digest, req |-> call.line.req]

(* What a phase means for the row of the call's key and for what has left. *)
RowOk(call, row, sent) ==
    /\ call.pc = "prepared" => row = "prepared"
    /\ call.pc \in Owns => row = "dispatching"
    /\ call.pc \in {"dispatching", "resolving", "connecting"} => sent = 0
    /\ call.pc = "marking" /\ call.event = "Fail" => sent = 0
    /\ call.pc = "marking" /\ call.event = "Complete" => sent > 0

(* What a row says of the sends under its key. *)
Honest(row, sent) ==
    /\ sent <= 1
    /\ row \in {"none", "prepared", "failed", "cancelled"} => sent = 0
    /\ row = "completed" => sent > 0

CallTypes ==
    /\ configs \in [Procs -> Configs]
    /\ calls \in [Key -> SubAttemptState \cup {"none"}]
    /\ lock \in Callers \cup {NoOne}
    /\ callers \in [Callers -> Call \cup {NoCall}]
    /\ sends \in [Key -> 0..2]

(* The callers in a locked section hold the lock, their rows are what their *)
(* phase says, no two share a key between the marks, and rows are honest.   *)
KeyInv ==
    /\ \A c \in Callers : callers[c] # NoCall =>
          RowOk(callers[c], calls[KeyOf(callers[c])], sends[KeyOf(callers[c])])
    /\ \A c, d \in Callers :
          callers[c] # NoCall /\ callers[c].pc \in Owns /\ callers[d] # NoCall
            /\ callers[d].pc \in Owns /\ KeyOf(callers[c]) = KeyOf(callers[d]) => c = d
    /\ \A c \in Callers : callers[c] # NoCall /\ callers[c].pc \in Locked => lock = c
    /\ \A k \in Key : Honest(calls[k], sends[k])

(* Who holds the lock is in a locked section. *)
HolderInv == lock # NoOne => callers[lock] # NoCall /\ callers[lock].pc \in Locked

(* The keys used under an order, which the budget counts. *)
Used(t) == {k \in Key : k.task = t /\ calls[k] # "none"}
BudgetInv == \A t \in Tasks : IsFiniteSet(Used(t)) /\ Cardinality(Used(t)) <= MaxOperations

-----------------------------------------------------------------------------
(* Calls. *)

PC == {"admitted", "prepared", "dispatching", "resolving", "connecting", "exchange", "marking",
       "answer"}

(* The parts of a call, and its key. *)
LEMMA CallParts ==
    ASSUME NEW call \in Call
    PROVE  /\ call.pc \in PC /\ call.task \in Tasks /\ call.line \in CallLine
           /\ call.policy \in Configs /\ call.digest \in Digests
           /\ call.event \in {"Complete", "Fail", "MarkAmbiguous"}
           /\ KeyOf(call) \in Key /\ KeyOf(call).task = call.task
           /\ call # NoCall
  BY BrokerAssumption DEF Call, PC, CallLine, KeyOf, Key

(* A call that goes on to another phase keeps its parts (Goes). *)
LEMMA Gone ==
    ASSUME NEW call \in Call, NEW p \in PC
    PROVE  LET new == [call EXCEPT !.pc = p]
           IN  /\ new \in Call
               /\ new.pc = p /\ new.event = call.event /\ new.line = call.line
               /\ new.task = call.task /\ new.digest = call.digest
               /\ KeyOf(new) = KeyOf(call)
<1> DEFINE new == [call EXCEPT !.pc = p]
<1>1. new \in Call
  BY DEF Call, PC
<1>2. /\ new.pc = p /\ new.event = call.event /\ new.line = call.line
      /\ new.task = call.task /\ new.digest = call.digest
  BY DEF Call
<1>3. KeyOf(new) = KeyOf(call)
  BY <1>2 DEF KeyOf
<1>4. QED
  BY <1>1, <1>2, <1>3

(* One that ends with an event goes to be marked (Ends). *)
LEMMA Ended ==
    ASSUME NEW call \in Call, NEW e \in {"Complete", "Fail", "MarkAmbiguous"}
    PROVE  LET new == [call EXCEPT !.pc = "marking", !.event = e]
           IN  /\ new \in Call
               /\ new.pc = "marking" /\ new.event = e /\ new.line = call.line
               /\ new.task = call.task /\ new.digest = call.digest
               /\ KeyOf(new) = KeyOf(call)
<1> DEFINE new == [call EXCEPT !.pc = "marking", !.event = e]
<1>1. new \in Call
  BY Zenon DEF Call
<1>2. /\ new.pc = "marking" /\ new.event = e /\ new.line = call.line
      /\ new.task = call.task /\ new.digest = call.digest
  BY DEF Call
<1>3. KeyOf(new) = KeyOf(call)
  BY <1>2 DEF KeyOf
<1>4. QED
  BY <1>1, <1>2, <1>3

-----------------------------------------------------------------------------
(* Every step of a call moves one caller and touches at most the row of one  *)
(* key.  Nobody else may be at that key unless the row is left alone.       *)
AtKey(k) == {d \in Callers : /\ callers[d] # NoCall
                             /\ callers[d].pc \in Owns \cup {"prepared"}
                             /\ KeyOf(callers[d]) = k}

LEMMA MovesOne ==
    ASSUME CallTypes, KeyInv, NEW c \in Callers, NEW new \in Call \cup {NoCall},
           NEW k \in Key, NEW row \in SubAttemptState \cup {"none"}, NEW n \in 0..2,
           callers' = [callers EXCEPT ![c] = new],
           calls' = [calls EXCEPT ![k] = row],
           sends' = [sends EXCEPT ![k] = n],
           AtKey(k) \subseteq {c} \/ (row = calls[k] /\ n = sends[k]),
           Honest(row, n),
           new # NoCall => RowOk(new, calls'[KeyOf(new)], sends'[KeyOf(new)]),
           new # NoCall /\ new.pc \in Owns => AtKey(KeyOf(new)) \subseteq {c},
           \A d \in Callers \ {c} : lock = d => lock' = d,
           new # NoCall /\ new.pc \in Locked => lock' = c
    PROVE  KeyInv'
<1>1. \A d \in Callers : callers'[d] = IF d = c THEN new ELSE callers[d]
  BY DEF CallTypes
<1>2. \A j \in Key : calls'[j] = IF j = k THEN row ELSE calls[j]
  BY DEF CallTypes
<1>3. \A j \in Key : sends'[j] = IF j = k THEN n ELSE sends[j]
  BY DEF CallTypes
<1>4. ASSUME NEW d \in Callers, callers'[d] # NoCall
      PROVE  RowOk(callers'[d], calls'[KeyOf(callers'[d])], sends'[KeyOf(callers'[d])])
  <2>1. CASE d = c
    BY <1>1, <1>4, <2>1
  <2>2. CASE d # c
    <3>1. callers'[d] = callers[d] /\ callers[d] \in Call
      BY <1>1, <1>4, <2>2 DEF CallTypes
    <3>2. PICK j \in Key : j = KeyOf(callers[d])
      BY <3>1, CallParts
    <3>3. RowOk(callers[d], calls[j], sends[j])
      BY <1>4, <3>1, <3>2 DEF KeyInv
    <3>4. CASE j # k \/ (row = calls[k] /\ n = sends[k])
      BY <1>2, <1>3, <3>1, <3>2, <3>3, <3>4
    <3>5. CASE j = k /\ AtKey(k) \subseteq {c}
      <4>1. callers[d].pc \notin Owns \cup {"prepared"}
        BY <1>4, <2>2, <3>1, <3>2, <3>5, Zenon DEF AtKey
      <4>2. QED
        BY <3>1, <4>1 DEF RowOk, Owns
    <3>6. QED
      BY <3>4, <3>5
  <2>3. QED
    BY <2>1, <2>2
<1>5. ASSUME NEW d \in Callers, NEW e \in Callers,
             callers'[d] # NoCall, callers'[d].pc \in Owns,
             callers'[e] # NoCall, callers'[e].pc \in Owns,
             KeyOf(callers'[d]) = KeyOf(callers'[e])
      PROVE  d = e
  <2>1. CASE d # c /\ e # c
    BY <1>1, <1>5, <2>1 DEF KeyInv
  <2>2. CASE d = c /\ e # c
    <3>1. e \in AtKey(KeyOf(new)) /\ new # NoCall /\ new.pc \in Owns
      BY <1>1, <1>5, <2>2 DEF AtKey
    <3>2. QED
      BY <2>2, <3>1
  <2>3. CASE d # c /\ e = c
    <3>1. d \in AtKey(KeyOf(new)) /\ new # NoCall /\ new.pc \in Owns
      BY <1>1, <1>5, <2>3 DEF AtKey
    <3>2. QED
      BY <2>3, <3>1
  <2>4. QED
    BY <2>1, <2>2, <2>3
<1>6. ASSUME NEW d \in Callers, callers'[d] # NoCall, callers'[d].pc \in Locked
      PROVE  lock' = d
  <2>1. CASE d = c
    BY <1>1, <1>6, <2>1
  <2>2. CASE d # c
    BY <1>1, <1>6, <2>2 DEF KeyInv
  <2>3. QED
    BY <2>1, <2>2
<1>7. \A j \in Key : Honest(calls'[j], sends'[j])
  BY <1>2, <1>3 DEF KeyInv
<1>8. QED
  BY <1>4, <1>5, <1>6, <1>7 DEF KeyInv

(* A step of a call that leaves the rows alone. *)
LEMMA MovesOnly ==
    ASSUME CallTypes, KeyInv, NEW c \in Callers, NEW new \in Call \cup {NoCall},
           callers' = [callers EXCEPT ![c] = new], calls' = calls, sends' = sends,
           new # NoCall => RowOk(new, calls[KeyOf(new)], sends[KeyOf(new)]),
           new # NoCall /\ new.pc \in Owns => AtKey(KeyOf(new)) \subseteq {c},
           \A d \in Callers \ {c} : lock = d => lock' = d,
           new # NoCall /\ new.pc \in Locked => lock' = c
    PROVE  KeyInv'
<1>1. CASE Key = {}
  <2>1. Call = {}
    BY <1>1, CallParts
  <2>2. callers' = callers /\ \A d \in Callers : callers[d] = NoCall
    BY <2>1 DEF CallTypes
  <2>3. QED
    BY <1>1, <2>2 DEF KeyInv
<1>2. CASE Key # {}
  <2>1. PICK k \in Key : TRUE
    BY <1>2
  <2>2. PICK row \in SubAttemptState \cup {"none"} : row = calls[k]
    BY DEF CallTypes
  <2>3. PICK n \in 0..2 : n = sends[k]
    BY DEF CallTypes
  <2>4. calls' = [calls EXCEPT ![k] = row] /\ sends' = [sends EXCEPT ![k] = n]
    BY <2>2, <2>3 DEF CallTypes
  <2>5. Honest(row, n)
    BY <2>2, <2>3 DEF KeyInv
  <2>6. row = calls[k] /\ n = sends[k]
    BY <2>2, <2>3
  <2>7. new # NoCall => RowOk(new, calls'[KeyOf(new)], sends'[KeyOf(new)])
    OBVIOUS
  <2>8. QED
    BY <2>4, <2>5, <2>6, <2>7, MovesOne, Zenon
<1>3. QED
  BY <1>1, <1>2

(* A caller that owns its key, or prepared it, is alone there. *)
LEMMA Alone ==
    ASSUME CallTypes, KeyInv, NEW c \in Callers, callers[c] # NoCall,
           callers[c].pc \in Owns \cup {"prepared"}
    PROVE  AtKey(KeyOf(callers[c])) \subseteq {c}
<1> SUFFICES ASSUME NEW d \in AtKey(KeyOf(callers[c])) PROVE d = c
  OBVIOUS
<1>1. d \in Callers /\ callers[d] # NoCall /\ callers[d].pc \in Owns \cup {"prepared"}
      /\ KeyOf(callers[d]) = KeyOf(callers[c])
  BY DEF AtKey
<1>2. /\ RowOk(callers[c], calls[KeyOf(callers[c])], sends[KeyOf(callers[c])])
      /\ RowOk(callers[d], calls[KeyOf(callers[c])], sends[KeyOf(callers[c])])
  BY <1>1 DEF KeyInv
<1>3. CASE callers[c].pc \in Owns
  <2>1. callers[d].pc \in Owns
    BY <1>1, <1>2, <1>3 DEF RowOk
  <2>2. QED
    BY <1>1, <1>3, <2>1 DEF KeyInv
<1>4. CASE callers[c].pc = "prepared"
  <2>1. callers[d].pc = "prepared"
    BY <1>1, <1>2, <1>4 DEF RowOk
  <2>2. lock = c /\ lock = d
    BY <1>1, <1>4, <2>1 DEF KeyInv, Locked
  <2>3. QED
    BY <2>2
<1>5. QED
  BY <1>3, <1>4

(* What a step of a call keeps: the types, the rows, the lock's holder, and  *)
(* the keys in use.                                                         *)
CallGood == CallTypes' /\ KeyInv' /\ HolderInv' /\ \A t \in Tasks : Used(t)' = Used(t)

(* A call that leaves the rows and the locked sections alone: it moves on   *)
(* between the marks, is answered, or begins.                              *)
LEMMA Unlocked ==
    ASSUME CallTypes, KeyInv, HolderInv, NEW c \in Callers, NEW new \in Call \cup {NoCall},
           callers' = [callers EXCEPT ![c] = new], calls' = calls, sends' = sends, lock' = lock,
           configs' = configs,
           callers[c] = NoCall \/ callers[c].pc \notin Locked,
           \/ new = NoCall \/ new.pc \in {"admitted", "answer"}
           \/ /\ callers[c] # NoCall /\ callers[c].pc \in Owns /\ new.pc \in Owns \ Locked
              /\ KeyOf(new) = KeyOf(callers[c])
              /\ RowOk(new, calls[KeyOf(new)], sends[KeyOf(new)])
    PROVE  CallGood
<1>1. CallTypes'
  BY DEF CallTypes
<1>2. new # NoCall => RowOk(new, calls[KeyOf(new)], sends[KeyOf(new)])
  BY DEF RowOk, Owns
<1>3. new # NoCall /\ new.pc \in Owns => AtKey(KeyOf(new)) \subseteq {c}
  BY Alone DEF Owns
<1>4. new # NoCall => new.pc \notin Locked
  BY DEF Locked
<1>5. KeyInv'
  BY <1>2, <1>3, <1>4, MovesOnly, Zenon
<1>6. HolderInv'
  BY DEF HolderInv, CallTypes
<1>7. QED
  BY <1>1, <1>5, <1>6 DEF CallGood, Used

(* The steps between the locked sections: resolving, connecting, the         *)
(* exchange, and the answer to an operator.                                 *)
LEMMA NetworkStep ==
    ASSUME CallTypes, KeyInv, HolderInv, NEW c \in Callers,
           \/ \E addr \in Addresses \cup {Unresolved} : Resolve(c, addr)
           \/ ConnectFails(c) \/ ResponseArrives(c) \/ ExchangeFails(c) \/ AnswerOperator(c)
    PROVE  CallGood
<1> PICK old \in Call : old = callers[c]
  BY DEF CallTypes, Resolve, ConnectFails, ResponseArrives, ExchangeFails, AnswerOperator, Under
<1>1. calls' = calls /\ sends' = sends /\ lock' = lock /\ configs' = configs
  BY DEF Resolve, ConnectFails, ResponseArrives, ExchangeFails, AnswerOperator
<1>2. old # NoCall /\ RowOk(old, calls[KeyOf(old)], sends[KeyOf(old)])
  BY CallParts DEF KeyInv
<1>3. ASSUME NEW e \in {"Complete", "Fail", "MarkAmbiguous"}, Ends(c, e),
             old.pc \in {"resolving", "connecting", "exchange"},
             e = "Fail" => sends[KeyOf(old)] = 0, e = "Complete" => sends[KeyOf(old)] > 0
      PROVE  CallGood
  <2> PICK new : new = [old EXCEPT !.pc = "marking", !.event = e]
    OBVIOUS
  <2>1. /\ new \in Call /\ new.pc = "marking" /\ new.event = e /\ KeyOf(new) = KeyOf(old)
    BY Ended, ZenonT(30)
  <2>2. callers' = [callers EXCEPT ![c] = new]
    BY <1>3, Zenon DEF Ends
  <2>3. RowOk(new, calls[KeyOf(new)], sends[KeyOf(new)])
    BY <1>2, <1>3, <2>1 DEF RowOk, Owns
  <2>4. old.pc \in Owns /\ old.pc \notin Locked /\ new.pc \in Owns \ Locked
    BY <1>3, <2>1 DEF Owns, Locked
  <2>5. QED
    BY <1>1, <1>2, <2>1, <2>2, <2>3, <2>4, Unlocked, Zenon
<1>4. ASSUME Goes(c, "connecting"), old.pc = "resolving" PROVE CallGood
  <2> PICK new : new = [old EXCEPT !.pc = "connecting"]
    BY Zenon
  <2>1. /\ new \in Call /\ new.pc = "connecting" /\ KeyOf(new) = KeyOf(old)
    BY Gone, Zenon DEF PC
  <2>2. callers' = [callers EXCEPT ![c] = new]
    BY <1>4 DEF Goes
  <2>3. RowOk(new, calls[KeyOf(new)], sends[KeyOf(new)])
    BY <1>2, <1>4, <2>1 DEF RowOk, Owns
  <2>4. old.pc \in Owns /\ old.pc \notin Locked /\ new.pc \in Owns \ Locked
    BY <1>4, <2>1 DEF Owns, Locked
  <2>5. QED
    BY <1>1, <1>2, <2>1, <2>2, <2>3, <2>4, Unlocked, Zenon
<1>5. CASE AnswerOperator(c)
  <2>1. callers' = [callers EXCEPT ![c] = NoCall] /\ old.pc \notin Locked
    BY <1>5 DEF AnswerOperator, Under, Locked
  <2>2. QED
    BY <1>1, <2>1, Unlocked, Zenon
<1>6. sends[KeyOf(old)] = 0 \/ old.pc \notin {"resolving", "connecting"}
  BY <1>2 DEF RowOk
<1>7. KeyOf(old) = CallKey(c)
  BY DEF KeyOf, CallKey
<1>8. CASE \E addr \in Addresses \cup {Unresolved} : Resolve(c, addr)
  BY <1>3, <1>4, <1>6, <1>8 DEF Resolve, Under
<1>9. CASE ConnectFails(c)
  BY <1>3, <1>6, <1>9 DEF ConnectFails, Under
<1>10. CASE ResponseArrives(c)
  BY <1>3, <1>7, <1>10 DEF ResponseArrives, Under
<1>11. CASE ExchangeFails(c)
  BY <1>3, <1>11 DEF ExchangeFails, Under
<1>12. QED
  BY <1>5, <1>8, <1>9, <1>10, <1>11

(* Keys in use stay in use: a row that exists is never deleted, and only a   *)
(* prepared call makes one.                                                 *)
LEMMA UsedKept ==
    ASSUME CallTypes, NEW k \in Key, NEW row, row # "none", calls[k] # "none",
           calls' = [calls EXCEPT ![k] = row]
    PROVE  \A t \in Tasks : Used(t)' = Used(t)
  BY DEF Used, CallTypes

(* The mark before the first byte (Dispatching), and the end of the locked   *)
(* section (get_credential).                                                *)
LEMMA DispatchStep ==
    ASSUME CallTypes, KeyInv, HolderInv, NEW c \in Callers, Dispatching(c) \/ get_credential(c)
    PROVE  CallGood
<1> PICK old \in Call : old = callers[c]
  BY DEF CallTypes, Dispatching, get_credential, Under
<1> PICK k \in Key : k = KeyOf(old)
  BY CallParts, Zenon
<1>1. old # NoCall /\ RowOk(old, calls[k], sends[k]) /\ k = CallKey(c)
  BY CallParts DEF KeyInv, KeyOf, CallKey
<1>2. lock = c /\ \A d \in Callers \ {c} : lock # d
  BY DEF Dispatching, get_credential
<1>3. NoOne \notin Callers
  BY BrokerAssumption
<1>4. CASE Dispatching(c)
  <2> PICK new : new = [old EXCEPT !.pc = "dispatching"]
    BY Zenon
  <2>1. new \in Call /\ new.pc = "dispatching" /\ KeyOf(new) = k
    BY Gone, Zenon DEF PC
  <2>2. /\ callers' = [callers EXCEPT ![c] = new] /\ sends' = sends /\ lock' = lock
        /\ configs' = configs /\ old.pc = "prepared"
    BY <1>4 DEF Dispatching, Goes, Under
  <2>3. calls[k] = "prepared"
    BY <1>1, <2>2 DEF RowOk
  <2>4. sends[k] = 0
    BY <2>3 DEF KeyInv, Honest
  <2>5. calls' = [calls EXCEPT ![k] = "dispatching"]
    <3>1. next_call(calls[k], "Dispatch") = "dispatching"
      BY <2>3 DEF next_call
    <3>2. calls' = [calls EXCEPT ![k] = next_call(calls[k], "Dispatch")]
      BY <1>1, <1>4 DEF Dispatching, advance_call
    <3>3. QED
      BY <3>1, <3>2, Zenon
  <2>6. sends' = [sends EXCEPT ![k] = 0]
    BY <2>2, <2>4 DEF CallTypes
  <2>7. AtKey(k) \subseteq {c}
    BY <1>1, <2>2, Alone, Zenon
  <2>8. Honest("dispatching", 0) /\ "dispatching" \in SubAttemptState \cup {"none"} /\ 0 \in 0..2
    BY DEF Honest, SubAttemptState
  <2>9. RowOk(new, calls'[KeyOf(new)], sends'[KeyOf(new)])
    BY <2>1, <2>5, <2>6 DEF RowOk, CallTypes
  <2>10. KeyInv'
    <3>1. \A d \in Callers \ {c} : lock = d => lock' = d
      BY <2>2
    <3>2. new # NoCall /\ new.pc \in Locked => lock' = c
      BY <1>2, <2>2
    <3>3. QED
      BY <2>1, <2>2, <2>5, <2>6, <2>7, <2>8, <2>9, <3>1, <3>2, MovesOne, Zenon
  <2>11. CallTypes'
    BY <2>1, <2>2, <2>5, <2>6 DEF CallTypes, SubAttemptState
  <2>12. HolderInv'
    BY <1>2, <2>1, <2>2, CallParts DEF HolderInv, CallTypes, Locked
  <2>13. \A t \in Tasks : Used(t)' = Used(t)
    BY <2>3, <2>5, UsedKept, Zenon
  <2>14. QED
    BY <2>10, <2>11, <2>12, <2>13 DEF CallGood
<1>5. CASE get_credential(c)
  <2> PICK new : new = [old EXCEPT !.pc = "resolving"]
    BY Zenon
  <2>1. new \in Call /\ new.pc = "resolving" /\ KeyOf(new) = k
    BY Gone, Zenon DEF PC
  <2>2. /\ callers' = [callers EXCEPT ![c] = new] /\ sends' = sends /\ lock' = NoOne
        /\ configs' = configs /\ calls' = calls /\ old.pc = "dispatching"
    BY <1>5 DEF get_credential, Goes, Under
  <2>3. RowOk(new, calls[KeyOf(new)], sends[KeyOf(new)])
    BY <1>1, <2>1, <2>2 DEF RowOk, Owns
  <2>4. AtKey(k) \subseteq {c}
    BY <1>1, <2>2, Alone, Zenon DEF Owns
  <2>5. new.pc \notin Locked
    BY <2>1 DEF Locked
  <2>6. KeyInv'
    BY <1>2, <2>1, <2>2, <2>3, <2>4, <2>5, MovesOnly, Zenon
  <2>7. CallTypes' /\ HolderInv'
    BY <2>1, <2>2 DEF CallTypes, HolderInv
  <2>8. QED
    BY <2>2, <2>6, <2>7 DEF CallGood, Used
<1>6. QED
  BY <1>4, <1>5

(* The request leaves, or does not (SendRequest). *)
LEMMA SendStep ==
    ASSUME CallTypes, KeyInv, HolderInv, NEW c \in Callers, NEW left \in BOOLEAN,
           SendRequest(c, left)
    PROVE  CallGood
<1> PICK old \in Call : old = callers[c]
  BY DEF CallTypes, SendRequest, Under
<1> PICK k \in Key : k = KeyOf(old)
  BY CallParts
<1>1. /\ old # NoCall /\ RowOk(old, calls[k], sends[k]) /\ k = CallKey(c)
      /\ old.pc = "connecting"
  BY CallParts, Zenon DEF KeyInv, KeyOf, CallKey, SendRequest, Under
<1> PICK new : new = [old EXCEPT !.pc = "exchange"]
  BY Zenon
<1>2. new \in Call /\ new.pc = "exchange" /\ KeyOf(new) = k
  BY Gone, Zenon DEF PC
<1>3. /\ callers' = [callers EXCEPT ![c] = new] /\ lock' = lock /\ configs' = configs
      /\ calls' = calls
  BY DEF SendRequest, Goes
<1>4. sends[k] = 0 /\ calls[k] = "dispatching"
  BY <1>1 DEF RowOk, Owns
<1>5. PICK n \in 0..1 : sends' = [sends EXCEPT ![k] = n]
  <2>1. CASE left
    <3>1. sends' = [sends EXCEPT ![k] = 1]
      BY <1>1, <1>4, <2>1 DEF SendRequest, CallTypes
    <3>2. QED
      BY <3>1
  <2>2. CASE ~left
    <3>1. sends' = [sends EXCEPT ![k] = 0]
      BY <1>4, <2>2 DEF SendRequest, CallTypes
    <3>2. QED
      BY <3>1
  <2>3. QED
    BY <2>1, <2>2
<1>6. n \in 0..2
  BY <1>5
<1>7. calls' = [calls EXCEPT ![k] = "dispatching"] /\ "dispatching" \in SubAttemptState \cup {"none"}
  BY <1>3, <1>4 DEF CallTypes, SubAttemptState
<1>8. AtKey(k) \subseteq {c}
  BY <1>1, Alone, Zenon DEF Owns
<1>9. Honest("dispatching", n)
  BY <1>5 DEF Honest
<1>10. RowOk(new, calls'[KeyOf(new)], sends'[KeyOf(new)])
  BY <1>2, <1>3, <1>4 DEF RowOk
<1>11. new.pc \notin Locked /\ old.pc \notin Locked
  BY <1>1, <1>2 DEF Locked
<1>12. KeyInv'
  BY <1>2, <1>3, <1>5, <1>6, <1>7, <1>8, <1>9, <1>10, <1>11, MovesOne, Zenon
<1>13. CallTypes'
  BY <1>2, <1>3, <1>5, <1>6 DEF CallTypes
<1>14. HolderInv'
  BY <1>1, <1>3, <1>11 DEF HolderInv, CallTypes
<1>15. QED
  BY <1>3, <1>12, <1>13, <1>14 DEF CallGood, Used

(* The mark after the last byte (mark): the row gets the outcome of the call *)
(* that owns it.                                                            *)
LEMMA MarkStep ==
    ASSUME CallTypes, KeyInv, HolderInv, NEW c \in Callers, mark(c)
    PROVE  CallGood
<1> PICK old \in Call : old = callers[c]
  BY DEF CallTypes, mark, Under
<1> PICK k \in Key : k = KeyOf(old)
  BY CallParts, Zenon
<1>1. /\ old # NoCall /\ RowOk(old, calls[k], sends[k]) /\ k = CallKey(c)
      /\ old.pc = "marking" /\ lock = NoOne /\ lock' = NoOne
  BY CallParts DEF KeyInv, KeyOf, CallKey, mark, Under
<1> PICK new : new = [old EXCEPT !.pc = "answer"]
  BY Zenon
<1>2. new \in Call /\ new.pc = "answer" /\ KeyOf(new) = k
  BY Gone, Zenon DEF PC
<1>3. callers' = [callers EXCEPT ![c] = new] /\ sends' = sends /\ configs' = configs
  BY DEF mark, Goes
<1> PICK n \in 0..2 : n = sends[k]
  BY DEF CallTypes
<1>4. calls[k] = "dispatching" /\ n <= 1
  BY <1>1 DEF RowOk, Owns, KeyInv, Honest
<1> PICK row : row = next_call("dispatching", old.event)
  OBVIOUS
<1>5. \/ old.event = "Complete" /\ row = "completed"
      \/ old.event = "Fail" /\ row = "failed"
      \/ old.event = "MarkAmbiguous" /\ row = "ambiguous"
  BY CallParts DEF next_call
<1>6. row \in SubAttemptState \cup {"none"} /\ row # "none"
  BY <1>5 DEF SubAttemptState
<1>7. calls' = [calls EXCEPT ![k] = row]
  <2>1. calls' = [calls EXCEPT ![k] = next_call(calls[k], old.event)]
    BY <1>1 DEF mark, advance_call
  <2>2. QED
    BY <1>4, <2>1
<1>8. Honest(row, n)
  BY <1>1, <1>4, <1>5 DEF Honest, RowOk
<1>9. sends' = [sends EXCEPT ![k] = n]
  BY <1>3 DEF CallTypes
<1>10. AtKey(k) \subseteq {c}
  BY <1>1, Alone, Zenon DEF Owns
<1>11. RowOk(new, calls'[KeyOf(new)], sends'[KeyOf(new)])
  BY <1>2 DEF RowOk, Owns
<1>12. new.pc \notin Locked /\ new.pc \notin Owns
  BY <1>2 DEF Locked, Owns
<1>13. NoOne \notin Callers
  BY BrokerAssumption
<1>14. KeyInv'
  <2>1. new \in Call \cup {NoCall}
    BY <1>2
  <2>2. new # NoCall => RowOk(new, calls'[KeyOf(new)], sends'[KeyOf(new)])
    BY <1>11
  <2>3. new # NoCall /\ new.pc \in Owns => AtKey(KeyOf(new)) \subseteq {c}
    BY <1>12
  <2>4. \A d \in Callers \ {c} : lock = d => lock' = d
    BY <1>1, <1>13
  <2>5. new # NoCall /\ new.pc \in Locked => lock' = c
    BY <1>12
  <2>6. callers' = [callers EXCEPT ![c] = new]
    BY <1>3
  <2>7. row \in SubAttemptState \cup {"none"}
    BY <1>6
  <2>8. QED
    BY <1>7, <1>8, <1>9, <1>10, <2>1, <2>2, <2>3, <2>4, <2>5, <2>6, <2>7, MovesOne, ZenonT(30)
<1>15. CallTypes' /\ HolderInv'
  BY <1>1, <1>2, <1>3, <1>6, <1>7 DEF CallTypes, HolderInv
<1>16. \A t \in Tasks : Used(t)' = Used(t)
  BY <1>4, <1>6, <1>7, UsedKept, Zenon
<1>17. QED
  BY <1>14, <1>15, <1>16 DEF CallGood

(* A failing store call leaves the row as it is and lets go of the lock. *)
LEMMA StoreFailsStep ==
    ASSUME CallTypes, KeyInv, HolderInv, NEW c \in Callers, StoreFails(c)
    PROVE  CallGood
<1>1. NoOne \notin Callers
  BY BrokerAssumption
<1>2. callers[c] # NoCall
  BY <1>1 DEF StoreFails, HolderInv, Under
<1> PICK old \in Call : old = callers[c]
  BY <1>2 DEF CallTypes
<1> PICK new : new = [old EXCEPT !.pc = "answer"]
  BY Zenon
<1>3. new \in Call /\ new.pc = "answer"
  BY Gone, Zenon DEF PC
<1>4. /\ callers' = [callers EXCEPT ![c] = new] /\ sends' = sends /\ configs' = configs
      /\ calls' = calls /\ lock' = NoOne /\ lock \in {c, NoOne}
  BY DEF StoreFails, Goes
<1>5. RowOk(new, calls[KeyOf(new)], sends[KeyOf(new)]) /\ new.pc \notin Owns \cup Locked
  BY <1>3 DEF RowOk, Owns, Locked
<1>6. \A d \in Callers \ {c} : lock # d
  BY <1>1, <1>4
<1>7. KeyInv'
  BY <1>3, <1>4, <1>5, <1>6, MovesOnly, Zenon
<1>8. CallTypes' /\ HolderInv'
  BY <1>3, <1>4 DEF CallTypes, HolderInv
<1>9. QED
  BY <1>4, <1>7, <1>8 DEF CallGood, Used

(* A call begins, admitted or refused (run_processor_call). *)
LEMMA BeginStep ==
    ASSUME CallTypes, KeyInv, HolderInv, NEW c \in Callers, NEW t \in Tasks, NEW line \in CallLine,
           run_processor_call(c, t, line),
           UNCHANGED <<configs, calls, lock, sends>>
    PROVE  CallGood /\ callers'[c] # NoCall /\ callers'[c].line = line
           /\ \A d \in Callers \ {c} : callers'[d] = callers[d]
<1>1. configs[line.proc] \in Configs
  BY DEF CallTypes, CallLine
<1> PICK cfg \in Configs : cfg = configs[line.proc]
  BY <1>1
<1>2. config_digest(cfg) \in Digests
  BY DEF Digests
<1> PICK dig \in Digests : dig = config_digest(cfg)
  BY <1>2
<1> PICK p \in {"admitted", "answer"} : p = IF Admitted(t, line) THEN "admitted" ELSE "answer"
  OBVIOUS
<1> DEFINE new == [pc |-> p, task |-> t, line |-> line, policy |-> cfg, digest |-> dig,
                   event |-> "Fail"]
<1>3. new \in Call
  BY DEF Call
<1>4. new.pc \in {"admitted", "answer"} /\ new.line = line
  OBVIOUS
<1>5. callers' = [callers EXCEPT ![c] = new] /\ callers[c] = NoCall
  BY DEF run_processor_call
<1> HIDE DEF new
<1>6. CallGood
  BY <1>3, <1>4, <1>5, Unlocked, ZenonT(30)
<1>7. QED
  BY <1>3, <1>4, <1>5, <1>6, CallParts DEF CallTypes

(* Below a bound there is room for one more. *)
LEMMA OneMore ==
    ASSUME NEW n \in Nat, NEW max \in Nat, n < max, NEW c, NEW b \in BOOLEAN,
           c = IF b THEN n ELSE n + 1
    PROVE  c <= max
  BY SMT

(* The section that prepares a call (prepare_call): a key that is new takes  *)
(* one operation of the budget.                                             *)
LEMMA PrepareStep ==
    ASSUME CallTypes, KeyInv, HolderInv, BudgetInv, NEW c \in Callers, prepare_call(c)
    PROVE  CallTypes' /\ KeyInv' /\ HolderInv' /\ BudgetInv'
<1> PICK old \in Call : old = callers[c]
  BY DEF CallTypes, prepare_call, Under
<1>1. /\ old.pc = "admitted" /\ lock = NoOne /\ NoOne \notin Callers
      /\ sends' = sends /\ configs' = configs
  BY BrokerAssumption DEF prepare_call, Under
<1>2. old.line.proc \in Procs /\ old.line.req \in Requests /\ old.task \in Tasks
  BY CallParts DEF CallLine
<1> PICK cfg \in Configs : cfg = configs[old.line.proc]
  BY <1>2 DEF CallTypes
<1> PICK dig \in Digests : dig = config_digest(cfg)
  BY DEF Digests
<1> PICK k \in Key : k = [task |-> old.task, digest |-> dig, req |-> old.line.req]
  BY <1>2, Zenon DEF Key
<1>3. k = [CallKey(c) EXCEPT !.digest = config_digest(cfg)] /\ k.task = old.task /\ k.digest = dig
  BY DEF CallKey
<1> DEFINE ok == /\ check_origin(cfg, old.policy)
                 /\ \/ calls[k] = "prepared"
                    \/ calls[k] = "none" /\ Operations(old.task) < MaxOperations
           new == [old EXCEPT !.digest = dig, !.pc = IF ok THEN "prepared" ELSE "answer"]
<1>4. /\ callers' = [callers EXCEPT ![c] = new]
      /\ lock' = IF ok THEN c ELSE NoOne
      /\ calls' = IF ok THEN [calls EXCEPT ![k] = "prepared"] ELSE calls
  BY <1>3, ZenonT(30) DEF prepare_call
<1> HIDE DEF ok
<1>5. new \in Call
  BY Zenon DEF Call
<1>6. /\ new.pc = IF ok THEN "prepared" ELSE "answer"
      /\ new.task = old.task /\ new.digest = dig /\ new.line = old.line
  BY DEF Call
<1>7. KeyOf(new) = k
  BY <1>6 DEF KeyOf
<1> HIDE DEF new
<1>8. new # NoCall /\ new \in Call \cup {NoCall}
  BY <1>5, CallParts
<1>9. \A d \in Callers \ {c} : lock = d => lock' = d
  BY <1>1
<1>10. CASE ~ok
  <2>1. CallGood
    <3>1. new.pc = "answer" /\ lock' = lock /\ calls' = calls
      BY <1>1, <1>4, <1>6, <1>10, Zenon
    <3>2. callers[c].pc \notin Locked
      BY <1>1, Zenon DEF Locked
    <3>3. QED
      BY <1>1, <1>4, <1>8, <3>1, <3>2, Unlocked, ZenonT(30)
  <2>2. QED
    BY <2>1 DEF CallGood, BudgetInv
<1>11. CASE ok
  <2>1. calls' = [calls EXCEPT ![k] = "prepared"] /\ lock' = c /\ new.pc = "prepared"
    BY <1>4, <1>6, <1>11, Zenon
  <2>2. calls[k] \in {"none", "prepared"} /\ (calls[k] = "none" => Operations(k.task) < MaxOperations)
    BY <1>3, <1>11, Zenon DEF ok
  <2>3. sends[k] = 0
    BY <2>2 DEF KeyInv, Honest, CallTypes
  <2>4. sends' = [sends EXCEPT ![k] = 0]
    BY <1>1, <2>3, Zenon DEF CallTypes
  <2>5. AtKey(k) \subseteq {c}
    <3>1. SUFFICES ASSUME NEW d \in AtKey(k) PROVE FALSE
      BY Zenon
    <3>2. /\ d \in Callers /\ callers[d] # NoCall /\ callers[d].pc \in Owns \cup {"prepared"}
          /\ KeyOf(callers[d]) = k
      BY <3>1, Zenon DEF AtKey
    <3>3. callers[d].pc # "prepared"
      BY <1>1, <3>2, Zenon DEF KeyInv, Locked
    <3>4. calls[k] = "dispatching"
      BY <3>2, <3>3, Zenon DEF KeyInv, RowOk
    <3>5. QED
      BY <2>2, <3>4
  <2>6. Honest("prepared", 0) /\ "prepared" \in SubAttemptState \cup {"none"} /\ 0 \in 0..2
    BY SMTT(30) DEF Honest, SubAttemptState
  <2>7. new # NoCall => RowOk(new, calls'[KeyOf(new)], sends'[KeyOf(new)])
    BY <1>7, <2>1, <2>4, SMTT(30) DEF RowOk, Owns, CallTypes
  <2>8. new # NoCall /\ new.pc \in Owns => AtKey(KeyOf(new)) \subseteq {c}
    BY <1>7, <2>5, Zenon
  <2>9. KeyInv'
    BY <1>4, <1>8, <1>9, <2>1, <2>4, <2>5, <2>6, <2>7, <2>8, MovesOne, ZenonT(30)
  <2>10. CallTypes' /\ HolderInv'
    BY <1>1, <1>4, <1>8, <2>1, <2>6, SMTT(30) DEF CallTypes, HolderInv, Locked
  <2>11. BudgetInv'
    <3>1. SUFFICES ASSUME NEW t \in Tasks
                   PROVE  IsFiniteSet(Used(t)') /\ Cardinality(Used(t)') <= MaxOperations
      BY Zenon DEF BudgetInv
    <3>2. IsFiniteSet(Used(t)) /\ Cardinality(Used(t)) <= MaxOperations
      BY Zenon DEF BudgetInv
    <3>3. Used(t)' = IF k.task = t THEN Used(t) \cup {k} ELSE Used(t)
      BY <2>1, Zenon DEF Used, CallTypes
    <3>4. calls[k] # "none" => Used(t)' = Used(t)
      BY <3>3, Zenon DEF Used
    <3>5. CASE calls[k] = "none" /\ k.task = t
      <4>1. Cardinality(Used(t)) < MaxOperations
        BY <2>2, <3>5, Zenon DEF Operations, Used
      <4>2. /\ IsFiniteSet(Used(t) \cup {k})
            /\ Cardinality(Used(t) \cup {k}) = IF k \in Used(t) THEN Cardinality(Used(t))
                                                ELSE Cardinality(Used(t)) + 1
        BY <3>2, FS_AddElement, Zenon
      <4>3. Cardinality(Used(t)) \in Nat
        BY <3>2, FS_CardinalityType, Zenon
      <4>4. Used(t)' = Used(t) \cup {k}
        BY <3>3, <3>5, Zenon
      <4>5. MaxOperations \in Nat
        BY BrokerAssumption, Zenon
      <4>6. Cardinality(Used(t) \cup {k}) <= MaxOperations
        BY <4>1, <4>2, <4>3, <4>5, OneMore, Zenon
      <4>7. QED
        BY <4>2, <4>4, <4>6, Zenon
    <3>6. QED
      BY <3>2, <3>3, <3>4, <3>5, Zenon
  <2>12. QED
    BY <2>9, <2>10, <2>11, Zenon
<1>12. QED
  BY <1>10, <1>11

(* A restart marks what was dispatching ambiguous (resolve_crashed_calls). *)
LEMMA CrashStep ==
    ASSUME CallTypes, KeyInv, BudgetInv, Crash
    PROVE  CallTypes' /\ KeyInv' /\ HolderInv' /\ BudgetInv'
<1>1. /\ calls' = [k \in Key |-> IF calls[k] = "dispatching" THEN "ambiguous" ELSE calls[k]]
      /\ sends' = sends /\ configs' = configs /\ lock' = NoOne
      /\ callers' = [c \in Callers |-> NoCall]
  BY DEF Crash, resolve_crashed_calls
<1>2. CallTypes'
  BY <1>1 DEF CallTypes, SubAttemptState
<1>3. KeyInv' /\ HolderInv'
  BY <1>1, Zenon DEF KeyInv, HolderInv, Honest
<1>4. \A t \in Tasks : Used(t)' = Used(t)
  BY <1>1 DEF Used
<1>5. QED
  BY <1>2, <1>3, <1>4 DEF BudgetInv

(* Between its marks a call keeps its line, and no step of a call begins     *)
(* another one.                                                             *)
LEMMA LineKept ==
    ASSUME CallTypes, HolderInv, NEW c \in Callers, CallStep(c)
    PROVE  /\ runVars' = runVars /\ attemptVars' = attemptVars
           /\ \A t \in Callers : callers'[t] # NoCall =>
                 callers[t] # NoCall /\ callers'[t].line = callers[t].line
<1>1. NoOne \notin Callers
  BY BrokerAssumption
<1>2. callers[c] \in Call /\ callers[c] # NoCall
  <2>1. callers[c] # NoCall
    BY <1>1, Zenon DEF CallStep, prepare_call, Dispatching, get_credential, Resolve, ConnectFails, SendRequest,
       ResponseArrives, ExchangeFails, mark, AnswerOperator, StoreFails, Under, HolderInv
  <2>2. QED
    BY <2>1, Zenon DEF CallTypes
<1>3. runVars' = runVars /\ attemptVars' = attemptVars
  BY Zenon DEF CallStep, prepare_call, Dispatching, get_credential, Resolve, ConnectFails, SendRequest,
     ResponseArrives, ExchangeFails, mark, AnswerOperator, StoreFails, runVars, attemptVars
<1>4. \/ \E p : Goes(c, p)
      \/ \E e : Ends(c, e)
      \/ \E dig, p : callers' = [callers EXCEPT ![c].digest = dig, ![c].pc = p]
      \/ callers' = [callers EXCEPT ![c] = NoCall]
  BY SMTT(30) DEF CallStep, prepare_call, Dispatching, get_credential, Resolve, ConnectFails, SendRequest,
     ResponseArrives, ExchangeFails, mark, AnswerOperator, StoreFails
<1>5. \A t \in Callers \ {c} : callers'[t] = callers[t]
  BY <1>4, Zenon DEF Goes, Ends, CallTypes
<1>6. callers'[c] = NoCall \/ callers'[c].line = callers[c].line
  <2>1. CASE \E p : Goes(c, p)
    <3>1. PICK p : callers' = [callers EXCEPT ![c].pc = p]
      BY <2>1, Zenon DEF Goes
    <3>2. callers'[c] = [callers[c] EXCEPT !.pc = p]
      BY <3>1 DEF CallTypes
    <3>3. QED
      BY <1>2, <3>2 DEF Call
  <2>2. CASE \E e : Ends(c, e)
    <3>1. PICK e : callers' = [callers EXCEPT ![c].pc = "marking", ![c].event = e]
      BY <2>2, Zenon DEF Ends
    <3>2. callers'[c] = [callers[c] EXCEPT !.pc = "marking", !.event = e]
      BY <3>1 DEF CallTypes
    <3>3. QED
      BY <1>2, <3>2 DEF Call
  <2>3. CASE \E dig, p : callers' = [callers EXCEPT ![c].digest = dig, ![c].pc = p]
    <3>1. PICK dig, p : callers' = [callers EXCEPT ![c].digest = dig, ![c].pc = p]
      BY <2>3, Zenon
    <3>2. callers'[c] = [callers[c] EXCEPT !.digest = dig, !.pc = p]
      BY <3>1 DEF CallTypes
    <3>3. QED
      BY <1>2, <3>2 DEF Call
  <2>4. CASE callers' = [callers EXCEPT ![c] = NoCall]
    BY <2>4 DEF CallTypes
  <2>5. QED
    BY <1>4, <2>1, <2>2, <2>3, <2>4, Zenon
<1>7. QED
  BY <1>2, <1>3, <1>5, <1>6

-----------------------------------------------------------------------------
(* The channels and the whole. *)

(* A channel is served while its run lives and below the cap of lines; what *)
(* its thread serves is the first line.                                    *)
Serve(call, ch, run) ==
    /\ call # NoCall => /\ ch.open /\ ch.lines # <<>>
                        /\ Head(ch.lines).line = call.line
    /\ ch.open => run \in {"running", "returned"} /\ ch.served < MaxRequests
    /\ ~ch.open => ch.lines = <<>>
    /\ run = "none" => ch.served = 0
ServeInv == \A t \in Tasks : Serve(callers[t], chans[t], runs[t])

(* Between a running worker and the daemon there is at most one line or     *)
(* reply, and it is of the one agent that waits.                           *)
Sent == [from : Agents, line : Line]
Quiet(ch) == ch.lines = <<>> /\ ch.replies = <<>>
Asked(ch, a) == (\E e \in Sent : e.from = a /\ ch.lines = <<e>>) /\ ch.replies = <<>>
Told(ch, a) == ch.lines = <<>> /\ ch.replies = <<a>>
Waits(t) == {a \in Agents : <<t, a>> \in waiting}
Pair(ch, run, waits) ==
    /\ run = "none" => Quiet(ch) /\ waits = {}
    /\ run = "running" => Quiet(ch) \/ \E a \in waits : Asked(ch, a) \/ Told(ch, a)
    /\ \A a, b \in waits : a = b
PairInv == \A t \in Tasks : Pair(chans[t], runs[t], Waits(t))

RunState == {"none", "running", "returned", "ended"}
RunTypes ==
    /\ runs \in [Tasks -> RunState]
    /\ chans \in [Tasks -> Channel]
    /\ waiting \subseteq Tasks \X Agents

IInv == TypeOK /\ KeyInv /\ HolderInv /\ BudgetInv /\ ServeInv /\ PairInv

-----------------------------------------------------------------------------
(* Channels. *)

(* A queue of at most one element. *)
LEMMA OneElement ==
    ASSUME NEW S, NEW e \in S
    PROVE  /\ <<>> \in Seq(S) /\ <<e>> \in Seq(S) /\ <<e>> # <<>>
           /\ Append(<<>>, e) = <<e>> /\ Head(<<e>>) = e /\ Tail(<<e>>) = <<>>
  OBVIOUS

(* Every step of a run or its agents concerns the channel of one task. *)
LEMMA OneTask ==
    ASSUME RunTypes, ServeInv, PairInv, NEW t \in Tasks, NEW ch \in Channel, NEW run \in RunState,
           chans' = [chans EXCEPT ![t] = ch], runs' = [runs EXCEPT ![t] = run],
           waiting' \subseteq Tasks \X Agents,
           \A u \in Tasks \ {t} : callers'[u] = callers[u] /\ Waits(u)' = Waits(u),
           Serve(callers'[t], ch, run), Pair(ch, run, Waits(t)')
    PROVE  RunTypes' /\ ServeInv' /\ PairInv'
<1>1. \A u \in Tasks : /\ chans'[u] = IF u = t THEN ch ELSE chans[u]
                       /\ runs'[u] = IF u = t THEN run ELSE runs[u]
  BY DEF RunTypes
<1>2. RunTypes'
  BY DEF RunTypes
<1>3. ServeInv'
  BY <1>1 DEF ServeInv
<1>4. PairInv'
  BY <1>1 DEF PairInv
<1>5. QED
  BY <1>2, <1>3, <1>4, Zenon

(* Steps of calls leave the channels as they are. *)
LEMMA RunsKept ==
    ASSUME RunTypes, ServeInv, PairInv, UNCHANGED runVars,
           \A t \in Tasks : callers'[t] # NoCall =>
              callers[t] # NoCall /\ callers'[t].line = callers[t].line
    PROVE  RunTypes' /\ ServeInv' /\ PairInv'
<1>1. runs' = runs /\ chans' = chans /\ waiting' = waiting
  BY DEF runVars
<1>2. RunTypes'
  BY <1>1 DEF RunTypes
<1>3. ServeInv'
  BY <1>1 DEF ServeInv, Serve
<1>4. PairInv'
  BY <1>1 DEF PairInv, Waits
<1>5. QED
  BY <1>2, <1>3, <1>4

(* The parts of a channel. *)
LEMMA ChannelParts ==
    ASSUME NEW ch \in Channel
    PROVE  /\ ch.open \in BOOLEAN /\ ch.lines \in Seq(Sent) /\ ch.replies \in Seq(Agents)
           /\ ch.served \in 0..MaxRequests
           /\ ch = [open |-> ch.open, lines |-> ch.lines, replies |-> ch.replies,
                    served |-> ch.served]
  BY DEF Channel, Sent

(* A channel made of parts. *)
LEMMA ChannelOf ==
    ASSUME NEW o \in BOOLEAN, NEW l \in Seq(Sent), NEW r \in Seq(Agents), NEW n \in 0..MaxRequests
    PROVE  [open |-> o, lines |-> l, replies |-> r, served |-> n] \in Channel
  BY DEF Channel, Sent

(* A channel with one part replaced. *)
LEMMA ChannelWith ==
    ASSUME NEW ch \in Channel, NEW x
    PROVE  /\ [ch EXCEPT !.open = x] = [open |-> x, lines |-> ch.lines, replies |-> ch.replies,
                                        served |-> ch.served]
           /\ [ch EXCEPT !.lines = x] = [open |-> ch.open, lines |-> x, replies |-> ch.replies,
                                         served |-> ch.served]
           /\ [ch EXCEPT !.replies = x] = [open |-> ch.open, lines |-> ch.lines, replies |-> x,
                                           served |-> ch.served]
<1> PICK o, l, r, n : o = ch.open /\ l = ch.lines /\ r = ch.replies /\ n = ch.served
  OBVIOUS
<1>1. ch = [open |-> o, lines |-> l, replies |-> r, served |-> n]
  BY ChannelParts
<1>2. QED
  BY <1>1

(* A channel that closes, its last reply written or not. *)
LEMMA ChannelClosed ==
    ASSUME NEW ch \in Channel, NEW x
    PROVE  /\ [ch EXCEPT !.open = FALSE, !.lines = <<>>] =
                 [open |-> FALSE, lines |-> <<>>, replies |-> ch.replies, served |-> ch.served]
           /\ [ch EXCEPT !.open = FALSE, !.lines = <<>>, !.replies = x] =
                 [open |-> FALSE, lines |-> <<>>, replies |-> x, served |-> ch.served]
<1> PICK shut : shut = [open |-> FALSE, lines |-> ch.lines, replies |-> ch.replies,
                        served |-> ch.served]
  BY Zenon
<1>1. shut \in Channel /\ [ch EXCEPT !.open = FALSE] = shut
  BY ChannelParts, ChannelOf, ChannelWith, Zenon
<1>2. /\ shut.open = FALSE /\ shut.lines = ch.lines /\ shut.replies = ch.replies
      /\ shut.served = ch.served
  OBVIOUS
<1> PICK empty : empty = [open |-> FALSE, lines |-> <<>>, replies |-> ch.replies,
                          served |-> ch.served]
  BY Zenon
<1>3. empty \in Channel /\ [shut EXCEPT !.lines = <<>>] = empty
  <2>1. <<>> \in Seq(Sent) /\ ch.replies \in Seq(Agents) /\ ch.served \in 0..MaxRequests
    BY ChannelParts, NoLines
  <2>2. empty \in Channel
    BY <2>1, ChannelOf, Zenon
  <2>3. [shut EXCEPT !.lines = <<>>] =
           [open |-> shut.open, lines |-> <<>>, replies |-> shut.replies, served |-> shut.served]
    BY <1>1, ChannelWith, Zenon
  <2>4. QED
    BY <1>2, <2>2, <2>3
<1>4. /\ empty.open = FALSE /\ empty.lines = <<>> /\ empty.replies = ch.replies
      /\ empty.served = ch.served
  OBVIOUS
<1>5. [empty EXCEPT !.replies = x] =
         [open |-> FALSE, lines |-> <<>>, replies |-> x, served |-> ch.served]
  <2>1. [empty EXCEPT !.replies = x] =
           [open |-> empty.open, lines |-> empty.lines, replies |-> x, served |-> empty.served]
    BY <1>3, ChannelWith, Zenon
  <2>2. QED
    BY <1>4, <2>1
<1>6. [[ch EXCEPT !.open = FALSE] EXCEPT !.lines = <<>>] = empty
  BY <1>1, <1>3, Zenon
<1>7. [[[ch EXCEPT !.open = FALSE] EXCEPT !.lines = <<>>] EXCEPT !.replies = x] =
         [open |-> FALSE, lines |-> <<>>, replies |-> x, served |-> ch.served]
  BY <1>5, <1>6, Zenon
<1>8. QED
  BY <1>6, <1>7

(* A run starts on an empty channel (RunStart). *)
LEMMA StartStep ==
    ASSUME RunTypes, ServeInv, PairInv, NEW t \in Tasks, RunStart(t)
    PROVE  RunTypes' /\ ServeInv' /\ PairInv'
<1> PICK old \in Channel : old = chans[t]
  BY DEF RunTypes
<1> PICK new : new = [open |-> TRUE, lines |-> old.lines, replies |-> old.replies,
                      served |-> old.served]
  BY Zenon
<1>1. new.open /\ new.lines = old.lines /\ new.replies = old.replies /\ new.served = old.served
  OBVIOUS
<1>2. new \in Channel
  BY ChannelParts, ChannelOf, Zenon
<1>3. [old EXCEPT !.open = TRUE] = new
  BY ChannelWith, Zenon
<1>4. /\ chans' = [chans EXCEPT ![t] = new] /\ runs' = [runs EXCEPT ![t] = "running"]
      /\ waiting' = waiting /\ callers' = callers /\ runs[t] = "none"
  BY <1>3, Zenon DEF RunStart, callVars
<1>5. Quiet(old) /\ Waits(t) = {} /\ old.served = 0 /\ callers[t] = NoCall
  BY <1>4 DEF PairInv, Pair, ServeInv, Serve
<1>6. Serve(callers'[t], new, "running")
  BY <1>1, <1>4, <1>5, BrokerAssumption DEF Serve
<1>7. Pair(new, "running", Waits(t)')
  BY <1>1, <1>4, <1>5 DEF Pair, Quiet, Waits
<1>8. waiting' \subseteq Tasks \X Agents /\ \A u \in Tasks : Waits(u)' = Waits(u)
  BY <1>4, Zenon DEF RunTypes, Waits
<1>9. "running" \in RunState
  BY DEF RunState
<1>10. QED
  BY <1>2, <1>4, <1>6, <1>7, <1>8, <1>9, OneTask, Zenon

(* An agent writes a line only when none waits (forward). *)
LEMMA ForwardStep ==
    ASSUME RunTypes, ServeInv, PairInv, NEW t \in Tasks, NEW a \in Agents, NEW line \in Line,
           forward(t, a, line)
    PROVE  RunTypes' /\ ServeInv' /\ PairInv'
<1> PICK old \in Channel : old = chans[t]
  BY DEF RunTypes
<1> PICK e \in Sent : e = [from |-> a, line |-> line]
  BY Zenon DEF Sent
<1>1. /\ runs[t] = "running" /\ old.open /\ Waits(t) = {}
      /\ waiting' = waiting \cup {<<t, a>>} /\ callers' = callers /\ runs' = runs
  BY DEF forward, Waits, callVars
<1>2. Quiet(old)
  BY <1>1, Zenon DEF PairInv, Pair
<1> PICK new : new = [open |-> old.open, lines |-> <<e>>, replies |-> old.replies,
                      served |-> old.served]
  BY Zenon
<1>3. new.open /\ new.lines = <<e>> /\ new.replies = <<>> /\ new.served = old.served
  BY <1>1, <1>2, Zenon DEF Quiet
<1>4. new \in Channel
  BY ChannelParts, ChannelOf, OneElement, Zenon
<1>5. chans' = [chans EXCEPT ![t] = new]
  <2>1. Append(old.lines, e) = <<e>>
    BY <1>2, OneElement, Zenon DEF Quiet
  <2>2. [old EXCEPT !.lines = <<e>>] = new
    BY ChannelWith, Zenon
  <2>3. chans' = [chans EXCEPT ![t] = [old EXCEPT !.lines = Append(old.lines, e)]]
    BY DEF forward
  <2>4. QED
    BY <2>1, <2>2, <2>3, Zenon
<1>6. callers'[t] = NoCall
  BY <1>1, <1>2, Zenon DEF ServeInv, Serve, Quiet
<1>7. Serve(callers'[t], new, "running")
  BY <1>1, <1>3, <1>6, Zenon DEF ServeInv, Serve
<1>8. Waits(t)' = {a}
  BY <1>1, Zenon DEF Waits
<1>9. Asked(new, a)
  BY <1>3, Zenon DEF Asked
<1>10. Pair(new, "running", Waits(t)')
  BY <1>8, <1>9 DEF Pair
<1>11. waiting' \subseteq Tasks \X Agents /\ \A u \in Tasks \ {t} : Waits(u)' = Waits(u)
  BY <1>1 DEF RunTypes, Waits
<1>12. runs' = [runs EXCEPT ![t] = "running"] /\ "running" \in RunState
  BY <1>1, Zenon DEF RunTypes, RunState
<1>13. QED
  BY <1>1, <1>4, <1>5, <1>7, <1>10, <1>11, <1>12, OneTask, ZenonT(30)

(* An agent reads the one reply there is, and it is to its line (ReadReply). *)
LEMMA ReadStep ==
    ASSUME RunTypes, ServeInv, PairInv, NEW t \in Tasks, NEW a \in Agents, ReadReply(t, a)
    PROVE  /\ RunTypes' /\ ServeInv' /\ PairInv'
           /\ runs[t] = "running" /\ chans[t].replies # <<>> => Head(chans[t].replies) = a
<1> PICK old \in Channel : old = chans[t]
  BY DEF RunTypes
<1> PICK run \in RunState : run = runs[t]
  BY DEF RunTypes
<1>1. a \in Waits(t) /\ waiting' = waiting \ {<<t, a>>} /\ callers' = callers /\ runs' = runs
  BY DEF ReadReply, Waits, callVars
<1>2. \A b \in Waits(t) : b = a
  BY <1>1, Zenon DEF PairInv, Pair
<1>3. run = "running" => Quiet(old) \/ Asked(old, a) \/ Told(old, a)
  BY <1>2, Zenon DEF PairInv, Pair
<1>4. run # "none"
  BY <1>1 DEF PairInv, Pair
<1>5. Waits(t)' = {}
  BY <1>1, <1>2 DEF Waits
<1>6. waiting' \subseteq Tasks \X Agents /\ \A u \in Tasks \ {t} : Waits(u)' = Waits(u)
  BY <1>1 DEF RunTypes, Waits
<1>7. runs' = [runs EXCEPT ![t] = run]
  BY <1>1, Zenon DEF RunTypes
<1>8. CASE old.replies # <<>>
  <2>1. chans' = [chans EXCEPT ![t] = [old EXCEPT !.replies = Tail(old.replies)]]
    BY <1>8 DEF ReadReply
  <2> PICK r \in Seq(Agents) : r = Tail(old.replies)
    BY <1>8, ChannelParts, QueueParts, Zenon
  <2> PICK new : new = [open |-> old.open, lines |-> old.lines, replies |-> r, served |-> old.served]
    BY Zenon
  <2>2. /\ new.open = old.open /\ new.lines = old.lines /\ new.replies = r
        /\ new.served = old.served
    OBVIOUS
  <2>3. new \in Channel
    BY ChannelParts, ChannelOf, Zenon
  <2>4. chans' = [chans EXCEPT ![t] = new]
    <3>1. [old EXCEPT !.replies = r] = new
      BY ChannelWith, Zenon
    <3>2. QED
      BY <2>1, <3>1, Zenon
  <2>5. run = "running" => Told(old, a)
    BY <1>3, <1>8, Zenon DEF Quiet, Asked
  <2>6. run = "running" => Quiet(new) /\ Head(old.replies) = a
    BY <2>2, <2>5, OneElement, Zenon DEF Told, Quiet
  <2>7. Serve(callers'[t], new, run)
    BY <1>1, <2>2, Zenon DEF ServeInv, Serve
  <2>8. Pair(new, run, Waits(t)')
    BY <1>4, <1>5, <2>6, Zenon DEF Pair
  <2>9. RunTypes' /\ ServeInv' /\ PairInv'
    BY <1>1, <1>6, <1>7, <2>3, <2>4, <2>7, <2>8, OneTask, ZenonT(30)
  <2>10. QED
    BY <2>6, <2>9
<1>9. CASE old.replies = <<>>
  <2>1. chans' = chans /\ ~old.open
    BY <1>9 DEF ReadReply
  <2>2. chans' = [chans EXCEPT ![t] = old]
    BY <2>1 DEF RunTypes
  <2>3. run = "running" => Quiet(old)
    BY <1>9, <2>1, Zenon DEF ServeInv, Serve, Quiet
  <2>4. Serve(callers'[t], old, run)
    BY <1>1, Zenon DEF ServeInv
  <2>5. Pair(old, run, Waits(t)')
    BY <1>4, <1>5, <2>3 DEF Pair
  <2>6. RunTypes' /\ ServeInv' /\ PairInv'
    BY <1>1, <1>6, <1>7, <2>2, <2>4, <2>5, OneTask, ZenonT(30)
  <2>7. QED
    BY <1>9, <2>6
<1>10. QED
  BY <1>8, <1>9

(* A worker that returns closes its end; the daemon's end closes, and the run *)
(* is recorded, once nothing is served (WorkerReturns, ChannelEnds,          *)
(* RunRecords).                                                             *)
LEMMA EndStep ==
    ASSUME RunTypes, ServeInv, PairInv, NEW t \in Tasks,
           WorkerReturns(t) \/ ChannelEnds(t) \/ \E ok \in BOOLEAN : RunRecords(t, ok)
    PROVE  RunTypes' /\ ServeInv' /\ PairInv'
<1> PICK old \in Channel : old = chans[t]
  BY DEF RunTypes
<1>1. callers' = callers
  BY DEF WorkerReturns, ChannelEnds, RunRecords, callVars
<1>2. Serve(callers[t], old, runs[t]) /\ Pair(old, runs[t], Waits(t))
  BY Zenon DEF ServeInv, PairInv
<1>3. "returned" \in RunState /\ "ended" \in RunState
  BY DEF RunState
<1>4. CASE WorkerReturns(t)
  <2> PICK new : new = [open |-> old.open, lines |-> old.lines, replies |-> <<>>,
                        served |-> old.served]
    BY Zenon
  <2>1. new.open = old.open /\ new.lines = old.lines /\ new.served = old.served
    OBVIOUS
  <2>2. new \in Channel
    BY ChannelParts, ChannelOf, NoLines, Zenon
  <2>3. [old EXCEPT !.replies = <<>>] = new
    BY ChannelWith, Zenon
  <2>4. /\ chans' = [chans EXCEPT ![t] = new] /\ runs' = [runs EXCEPT ![t] = "returned"]
        /\ runs[t] = "running" /\ waiting' = {w \in waiting : w[1] # t}
    BY <1>4, <2>3, Zenon DEF WorkerReturns
  <2>5. Waits(t)' = {} /\ \A u \in Tasks \ {t} : Waits(u)' = Waits(u)
    BY <2>4 DEF Waits
  <2>6. waiting' \subseteq Tasks \X Agents
    BY <2>4, Zenon DEF RunTypes
  <2>7. Serve(callers'[t], new, "returned")
    BY <1>1, <1>2, <2>1, <2>4, Zenon DEF Serve
  <2>8. Pair(new, "returned", Waits(t)')
    BY <2>5 DEF Pair
  <2>9. QED
    BY <1>1, <1>3, <2>2, <2>4, <2>5, <2>6, <2>7, <2>8, OneTask, ZenonT(30)
<1>5. CASE ChannelEnds(t)
  <2> PICK new : new = [open |-> FALSE, lines |-> <<>>, replies |-> old.replies,
                        served |-> old.served]
    BY Zenon
  <2>1. ~new.open /\ new.lines = <<>> /\ new.served = old.served
    OBVIOUS
  <2>2. new \in Channel
    BY ChannelParts, ChannelOf, NoLines, Zenon
  <2>3. [old EXCEPT !.open = FALSE, !.lines = <<>>] = new
    BY ChannelClosed, Zenon
  <2>4. /\ chans' = [chans EXCEPT ![t] = new] /\ runs[t] = "returned" /\ callers[t] = NoCall
        /\ runs' = runs /\ waiting' = waiting
    BY <1>5, <2>3, Zenon DEF ChannelEnds
  <2>5. runs' = [runs EXCEPT ![t] = "returned"] /\ waiting' \subseteq Tasks \X Agents
    BY <2>4, Zenon DEF RunTypes
  <2>6. \A u \in Tasks : Waits(u)' = Waits(u)
    BY <2>4 DEF Waits
  <2>7. Serve(callers'[t], new, "returned")
    BY <1>1, <2>1, <2>4, SMTT(30) DEF Serve
  <2>8. Pair(new, "returned", Waits(t)')
    BY <1>2, <2>6, Zenon DEF Pair
  <2>9. QED
    BY <1>1, <1>3, <2>2, <2>4, <2>5, <2>6, <2>7, <2>8, OneTask, ZenonT(30)
<1>6. CASE \E ok \in BOOLEAN : RunRecords(t, ok)
  <2>1. /\ runs' = [runs EXCEPT ![t] = "ended"] /\ chans' = chans /\ waiting' = waiting /\ ~old.open
    BY <1>6 DEF RunRecords
  <2>2. chans' = [chans EXCEPT ![t] = old] /\ waiting' \subseteq Tasks \X Agents
    BY <2>1 DEF RunTypes
  <2>3. \A u \in Tasks : Waits(u)' = Waits(u)
    BY <2>1, Zenon DEF Waits
  <2>4. Serve(callers'[t], old, "ended")
    BY <1>1, <1>2, <2>1 DEF Serve
  <2>5. Pair(old, "ended", Waits(t)')
    BY <1>2, <2>3, Zenon DEF Pair
  <2>6. QED
    BY <1>1, <1>3, <2>1, <2>2, <2>3, <2>4, <2>5, OneTask, ZenonT(30)
<1>7. QED
  BY <1>4, <1>5, <1>6

(* The thread takes the first line of an open channel (ServeLine). *)
LEMMA ServeStep ==
    ASSUME CallTypes, KeyInv, HolderInv, RunTypes, ServeInv, PairInv, NEW t \in Tasks, ServeLine(t)
    PROVE  CallGood /\ RunTypes' /\ ServeInv' /\ PairInv'
<1> PICK old \in Channel : old = chans[t]
  BY DEF RunTypes
<1> PICK run \in RunState : run = runs[t]
  BY DEF RunTypes
<1>1. old.open /\ old.lines # <<>> /\ Head(old.lines).line # Huge
  BY DEF ServeLine
<1>2. Head(old.lines) \in Sent
  BY <1>1, ChannelParts, QueueParts, Zenon
<1> PICK line \in CallLine : line = Head(old.lines).line
  BY <1>1, <1>2, Zenon DEF Sent, Line
<1>3. /\ run_processor_call(t, t, line) /\ UNCHANGED <<configs, calls, lock, sends>>
      /\ runs' = runs /\ chans' = chans /\ waiting' = waiting
  BY DEF ServeLine, runVars
<1>4. t \in Callers
  BY Zenon DEF Callers
<1>5. /\ CallGood /\ callers'[t] # NoCall /\ callers'[t].line = line
      /\ \A d \in Callers \ {t} : callers'[d] = callers[d]
  BY <1>3, <1>4, BeginStep, SMTT(30)
<1>6. Serve(callers'[t], old, run) /\ Pair(old, run, Waits(t))
  BY <1>1, <1>5, Zenon DEF ServeInv, PairInv, Serve
<1>7. \A u \in Tasks : Waits(u)' = Waits(u)
  BY <1>3, Zenon DEF Waits
<1>8. /\ chans' = [chans EXCEPT ![t] = old] /\ runs' = [runs EXCEPT ![t] = run]
      /\ waiting' \subseteq Tasks \X Agents
  BY <1>3 DEF RunTypes
<1>9. \A u \in Tasks \ {t} : callers'[u] = callers[u]
  BY <1>5 DEF Callers
<1>10. Pair(old, run, Waits(t)')
  BY <1>6, <1>7, Zenon
<1>11. RunTypes' /\ ServeInv' /\ PairInv'
  BY <1>6, <1>7, <1>8, <1>9, <1>10, OneTask, ZenonT(30)
<1>12. QED
  BY <1>5, <1>11

(* An oversized line is refused: its agent is told, and the channel closes   *)
(* (RefuseHuge).                                                            *)
LEMMA RefuseStep ==
    ASSUME CallTypes, RunTypes, ServeInv, PairInv, NEW t \in Tasks, RefuseHuge(t)
    PROVE  RunTypes' /\ ServeInv' /\ PairInv'
<1> PICK old \in Channel : old = chans[t]
  BY DEF RunTypes
<1> PICK run \in RunState : run = runs[t]
  BY DEF RunTypes
<1>1. /\ old.open /\ old.lines # <<>> /\ Head(old.lines).line = Huge
      /\ callers' = callers /\ runs' = runs /\ waiting' = waiting
  BY DEF RefuseHuge, callVars
<1>2. Serve(callers[t], old, run) /\ Pair(old, run, Waits(t)) /\ run \in {"running", "returned"}
  BY <1>1, Zenon DEF ServeInv, PairInv, Serve
<1>3. callers[t] = NoCall
  <2>1. callers[t] # NoCall => callers[t] \in Call /\ callers[t].line = Huge
    BY <1>1, <1>2, Zenon DEF Serve, CallTypes, Callers
  <2>2. callers[t] # NoCall => callers[t].line \in CallLine
    BY <2>1, CallParts, Zenon
  <2>3. QED
    BY <2>1, <2>2, BrokerAssumption, Zenon
<1>4. Head(old.lines) \in Sent
  BY <1>1, ChannelParts, QueueParts, Zenon
<1> PICK a \in Agents : a = Head(old.lines).from
  BY <1>4 DEF Sent
<1> PICK r : r = IF run = "running" THEN Append(old.replies, a) ELSE old.replies
  BY Zenon
<1>5. r \in Seq(Agents)
  BY ChannelParts
<1> PICK new : new = [open |-> FALSE, lines |-> <<>>, replies |-> r, served |-> old.served]
  BY Zenon
<1>6. ~new.open /\ new.lines = <<>> /\ new.replies = r /\ new.served = old.served
  OBVIOUS
<1>7. new \in Channel
  BY <1>5, ChannelParts, ChannelOf, NoLines, Zenon
<1>8. chans' = [chans EXCEPT ![t] = new]
  <2>1. chans' = [chans EXCEPT ![t] = [old EXCEPT !.open = FALSE, !.lines = <<>>, !.replies = r]]
    BY Zenon DEF RefuseHuge
  <2>2. QED
    BY <2>1, ChannelClosed, Zenon
<1>9. run = "running" => Told(new, a) /\ a \in Waits(t)
  <2>1. SUFFICES ASSUME run = "running" PROVE Told(new, a) /\ a \in Waits(t)
    BY Zenon
  <2>2. PICK b \in Waits(t) : Asked(old, b)
    BY <1>1, <1>2, <2>1, Zenon DEF Pair, Quiet, Told
  <2>3. PICK e \in Sent : e.from = b /\ old.lines = <<e>> /\ old.replies = <<>>
    BY <2>2, Zenon DEF Asked
  <2>4. b = a
    BY <2>3, OneElement, Zenon
  <2>5. r = <<a>>
    BY <2>1, <2>3, OneElement, Zenon
  <2>6. QED
    BY <1>6, <2>2, <2>4, <2>5, ZenonT(30) DEF Told
<1>10. Serve(callers'[t], new, run)
  BY <1>1, <1>2, <1>3, <1>6, Zenon DEF Serve
<1>11. \A u \in Tasks : Waits(u)' = Waits(u)
  BY <1>1, Zenon DEF Waits
<1>12. Pair(new, run, Waits(t)')
  BY <1>2, <1>9, <1>11, ZenonT(30) DEF Pair
<1>13. runs' = [runs EXCEPT ![t] = run] /\ waiting' \subseteq Tasks \X Agents
  BY <1>1, Zenon DEF RunTypes
<1>14. QED
  BY <1>1, <1>7, <1>8, <1>10, <1>11, <1>12, <1>13, OneTask, ZenonT(30)

(* A reply is written to the agent whose line was served (write_line). *)
LEMMA WriteStep ==
    ASSUME CallTypes, KeyInv, HolderInv, RunTypes, ServeInv, PairInv, NEW t \in Tasks, write_line(t)
    PROVE  CallGood /\ RunTypes' /\ ServeInv' /\ PairInv'
<1> PICK old \in Channel : old = chans[t]
  BY DEF RunTypes
<1> PICK run \in RunState : run = runs[t]
  BY DEF RunTypes
<1>1. /\ callers' = [callers EXCEPT ![t] = NoCall] /\ callers[t] # NoCall /\ callers[t].pc = "answer"
      /\ UNCHANGED <<configs, calls, lock, sends>> /\ runs' = runs /\ waiting' = waiting
  BY Zenon DEF write_line, Under
<1>2. t \in Callers
  BY DEF Callers
<1>3. CallGood
  BY <1>1, <1>2, Unlocked, ZenonT(30) DEF Locked
<1>4. callers'[t] = NoCall /\ \A u \in Tasks \ {t} : callers'[u] = callers[u]
  BY <1>1, SMTT(30) DEF CallTypes, Callers
<1>5. /\ Serve(callers[t], old, run) /\ Pair(old, run, Waits(t))
      /\ old.open /\ old.lines # <<>> /\ run \in {"running", "returned"} /\ old.served < MaxRequests
  BY <1>1, Zenon DEF ServeInv, PairInv, Serve
<1>6. Head(old.lines) \in Sent /\ Tail(old.lines) \in Seq(Sent)
  BY <1>5, ChannelParts, QueueParts, Zenon
<1> PICK a \in Agents : a = Head(old.lines).from
  BY <1>6 DEF Sent
<1> PICK o \in BOOLEAN : o = (run = "running" /\ old.served + 1 < MaxRequests)
  BY Zenon
<1> PICK l : l = IF o THEN Tail(old.lines) ELSE <<>>
  BY Zenon
<1> PICK r : r = IF run = "running" THEN Append(old.replies, a) ELSE <<>>
  BY Zenon
<1> PICK n : n = old.served + 1
  BY Zenon
<1>7. l \in Seq(Sent) /\ r \in Seq(Agents)
  BY <1>6, ChannelParts, NoLines, SMTT(30)
<1>8. n \in 0..MaxRequests
  <2>1. old.served \in Nat /\ MaxRequests \in Nat
    BY ChannelParts, BrokerAssumption, SMTT(30)
  <2>2. QED
    BY <1>5, <2>1, SMTT(30)
<1> PICK new : new = [open |-> o, lines |-> l, replies |-> r, served |-> n]
  BY Zenon
<1>9. new.open = o /\ new.lines = l /\ new.replies = r /\ new.served = n
  OBVIOUS
<1>10. new \in Channel
  BY <1>7, <1>8, ChannelOf, Zenon
<1>11. chans' = [chans EXCEPT ![t] = new]
  BY Zenon DEF write_line
<1>12. run = "running" => Told(new, a) /\ a \in Waits(t)
  <2>1. SUFFICES ASSUME run = "running" PROVE Told(new, a) /\ a \in Waits(t)
    BY Zenon
  <2>2. PICK b \in Waits(t) : Asked(old, b)
    BY <1>5, <2>1, Zenon DEF Pair, Quiet, Told
  <2>3. PICK e \in Sent : e.from = b /\ old.lines = <<e>> /\ old.replies = <<>>
    BY <2>2, Zenon DEF Asked
  <2>4. b = a
    BY <2>3, OneElement, Zenon
  <2>5. r = <<a>>
    BY <2>1, <2>3, OneElement, SMTT(30)
  <2>6. l = <<>>
    BY <2>3, OneElement, Zenon
  <2>7. QED
    BY <1>9, <2>2, <2>4, <2>5, <2>6, ZenonT(30) DEF Told
<1>13. Serve(callers'[t], new, run)
  BY <1>4, <1>5, <1>9, ZenonT(30) DEF Serve
<1>14. \A u \in Tasks : Waits(u)' = Waits(u)
  BY <1>1, Zenon DEF Waits
<1>15. Pair(new, run, Waits(t)')
  BY <1>5, <1>12, <1>14, ZenonT(30) DEF Pair
<1>16. runs' = [runs EXCEPT ![t] = run] /\ waiting' \subseteq Tasks \X Agents
  BY <1>1, Zenon DEF RunTypes
<1>17. RunTypes' /\ ServeInv' /\ PairInv'
  BY <1>4, <1>10, <1>11, <1>13, <1>14, <1>15, <1>16, OneTask, ZenonT(30)
<1>18. QED
  BY <1>3, <1>17, Zenon

-----------------------------------------------------------------------------
(* The whole broker. *)

(* The type invariant, taken apart. *)
LEMMA Types == TypeOK <=> AttemptsTypeOK /\ CallTypes /\ RunTypes
  BY DEF TypeOK, CallTypes, RunTypes, RunState

(* A step of the calls leaves the budget as it is. *)
LEMMA BudgetKept ==
    ASSUME BudgetInv, CallGood
    PROVE  BudgetInv'
  BY DEF BudgetInv, CallGood

(* The steps of a call, from its caller's thread. *)
LEMMA CallSteps ==
    ASSUME IInv, NEW c \in Callers, CallStep(c)
    PROVE  IInv'
<1>1. AttemptsTypeOK /\ CallTypes /\ RunTypes
  BY Types DEF IInv
<1>2. KeyInv /\ HolderInv /\ BudgetInv /\ ServeInv /\ PairInv
  BY DEF IInv
<1>3. CallTypes' /\ KeyInv' /\ HolderInv' /\ BudgetInv'
  <2>1. CASE prepare_call(c)
    BY <1>1, <1>2, <2>1, PrepareStep
  <2>2. CASE Dispatching(c) \/ get_credential(c)
    BY <1>1, <1>2, <2>2, DispatchStep, BudgetKept, Zenon DEF CallGood
  <2>3. CASE \/ \E addr \in Addresses \cup {Unresolved} : Resolve(c, addr)
             \/ ConnectFails(c) \/ ResponseArrives(c) \/ ExchangeFails(c) \/ AnswerOperator(c)
    BY <1>1, <1>2, <2>3, NetworkStep, BudgetKept, Zenon DEF CallGood
  <2>4. CASE \E left \in BOOLEAN : SendRequest(c, left)
    BY <1>1, <1>2, <2>4, SendStep, BudgetKept, Zenon DEF CallGood
  <2>5. CASE mark(c)
    BY <1>1, <1>2, <2>5, MarkStep, BudgetKept, Zenon DEF CallGood
  <2>6. CASE StoreFails(c)
    BY <1>1, <1>2, <2>6, StoreFailsStep, BudgetKept, Zenon DEF CallGood
  <2>7. QED
    BY <2>1, <2>2, <2>3, <2>4, <2>5, <2>6, Zenon DEF CallStep
<1>4. /\ runVars' = runVars /\ attemptVars' = attemptVars
      /\ \A t \in Callers : callers'[t] # NoCall =>
            callers[t] # NoCall /\ callers'[t].line = callers[t].line
  BY <1>1, <1>2, LineKept, Zenon
<1>5. RunTypes' /\ ServeInv' /\ PairInv'
  <2>1. \A t \in Tasks : callers'[t] # NoCall =>
           callers[t] # NoCall /\ callers'[t].line = callers[t].line
    BY <1>4 DEF Callers
  <2>2. QED
    BY <1>1, <1>2, <1>4, <2>1, RunsKept, Zenon
<1>6. AttemptsTypeOK'
  BY <1>1, <1>4 DEF AttemptsTypeOK, attemptVars
<1>7. TypeOK'
  BY <1>3, <1>5, <1>6, Types, PTL
<1>8. QED
  BY <1>3, <1>5, <1>7 DEF IInv

(* What leaves the calls alone keeps what is known of them. *)
LEMMA CallsKept ==
    ASSUME CallTypes, KeyInv, HolderInv, BudgetInv, UNCHANGED callVars, configs' \in [Procs -> Configs]
    PROVE  CallTypes' /\ KeyInv' /\ HolderInv' /\ BudgetInv'
<1>1. calls' = calls /\ lock' = lock /\ callers' = callers /\ sends' = sends
  BY DEF callVars
<1>2. CallTypes'
  BY <1>1, SMTT(30) DEF CallTypes
<1>3. KeyInv' /\ HolderInv'
  BY <1>1, Zenon DEF KeyInv, HolderInv
<1>4. BudgetInv'
  BY <1>1 DEF BudgetInv, Used
<1>5. QED
  BY <1>2, <1>3, <1>4

(* The steps of a run, its worker and its channel. *)
LEMMA RunSteps ==
    ASSUME IInv, NEW t \in Tasks,
           \/ RunStart(t)
           \/ \E a \in Agents : ReadReply(t, a) \/ \E line \in Line : forward(t, a, line)
           \/ WorkerReturns(t) \/ RunStep(t) \/ Fulfill(t)
    PROVE  IInv'
<1>1. AttemptsTypeOK /\ CallTypes /\ RunTypes
  BY Types DEF IInv
<1>2. KeyInv /\ HolderInv /\ BudgetInv /\ ServeInv /\ PairInv
  BY DEF IInv
<1>3. AttemptsTypeOK'
  <2>1. CASE RunStart(t)
    <3>1. orders' = orders /\ next(attempts[t], "Start") # {}
      BY <2>1 DEF RunStart, advance_attempt
    <3>2. PICK n \in AttemptState : n = CHOOSE m \in next(attempts[t], "Start") : TRUE
      BY <3>1 DEF next
    <3>3. attempts' = [attempts EXCEPT ![t] = n]
      BY <2>1, <3>1, <3>2, Zenon DEF RunStart, advance_attempt
    <3>4. QED
      BY <1>1, <3>1, <3>3 DEF AttemptsTypeOK
  <2>2. CASE (\E ok \in BOOLEAN : RunRecords(t, ok)) \/ Fulfill(t)
    BY <1>1, <2>2 DEF RunRecords, Fulfill, AttemptsTypeOK, AttemptState
  <2>3. CASE \/ \E a \in Agents : ReadReply(t, a) \/ \E line \in Line : forward(t, a, line)
             \/ WorkerReturns(t) \/ ServeLine(t) \/ RefuseHuge(t) \/ write_line(t) \/ ChannelEnds(t)
    <3>1. attempts' = attempts /\ orders' = orders
      BY <2>3, ZenonT(30) DEF ReadReply, forward, WorkerReturns, ServeLine, RefuseHuge, write_line,
         ChannelEnds, attemptVars
    <3>2. QED
      BY <1>1, <3>1 DEF AttemptsTypeOK
  <2>4. QED
    BY <2>1, <2>2, <2>3 DEF RunStep
<1>4. CallTypes' /\ KeyInv' /\ HolderInv' /\ BudgetInv' /\ RunTypes' /\ ServeInv' /\ PairInv'
  <2>1. CASE ServeLine(t)
    BY <1>1, <1>2, <2>1, ServeStep, BudgetKept, Zenon DEF CallGood
  <2>2. CASE write_line(t)
    BY <1>1, <1>2, <2>2, WriteStep, BudgetKept, Zenon DEF CallGood
  <2>3. ASSUME UNCHANGED <<configs, callVars>>
        PROVE  CallTypes' /\ KeyInv' /\ HolderInv' /\ BudgetInv'
    <3>1. UNCHANGED callVars /\ configs' \in [Procs -> Configs]
      BY <1>1, <2>3 DEF CallTypes
    <3>2. QED
      BY <1>1, <1>2, <3>1, CallsKept, Zenon
  <2>4. CASE RunStart(t)
    <3>1. UNCHANGED <<configs, callVars>>
      BY <2>4, Zenon DEF RunStart
    <3>2. QED
      BY <1>1, <1>2, <2>3, <2>4, <3>1, StartStep, Zenon
  <2>5. CASE \E a \in Agents : ReadReply(t, a) \/ \E line \in Line : forward(t, a, line)
    <3>1. UNCHANGED <<configs, callVars>>
      BY <2>5, Zenon DEF ReadReply, forward
    <3>2. QED
      BY <1>1, <1>2, <2>3, <2>5, <3>1, ReadStep, ForwardStep, Zenon
  <2>6. CASE WorkerReturns(t) \/ ChannelEnds(t) \/ \E ok \in BOOLEAN : RunRecords(t, ok)
    <3>1. UNCHANGED <<configs, callVars>>
      BY <2>6 DEF WorkerReturns, ChannelEnds, RunRecords
    <3>2. QED
      BY <1>1, <1>2, <2>3, <2>6, <3>1, EndStep, Zenon
  <2>7. CASE RefuseHuge(t)
    <3>1. UNCHANGED <<configs, callVars>>
      BY <2>7 DEF RefuseHuge
    <3>2. QED
      BY <1>1, <1>2, <2>3, <2>7, <3>1, RefuseStep, Zenon
  <2>8. CASE Fulfill(t)
    <3>1. UNCHANGED <<configs, callVars>> /\ UNCHANGED runVars /\ callers' = callers
      BY <2>8 DEF Fulfill, callVars
    <3>2. QED
      BY <1>1, <1>2, <2>3, <3>1, RunsKept, Zenon
  <2>9. QED
    BY <2>1, <2>2, <2>4, <2>5, <2>6, <2>7, <2>8, Zenon DEF RunStep
<1>5. TypeOK'
  BY <1>3, <1>4, Types, PTL
<1>6. QED
  BY <1>4, <1>5 DEF IInv

(* A crash and the restart after it. *)
LEMMA CrashSteps ==
    ASSUME IInv, Crash
    PROVE  IInv'
<1>1. AttemptsTypeOK /\ CallTypes /\ RunTypes /\ KeyInv /\ BudgetInv
  BY Types DEF IInv
<1>2. CallTypes' /\ KeyInv' /\ HolderInv' /\ BudgetInv'
  BY <1>1, CrashStep
<1>3. AttemptsTypeOK'
  BY <1>1 DEF Crash, resolve_crashed_attempts, AttemptsTypeOK, AttemptState
<1>4. /\ callers' = [c \in Callers |-> NoCall] /\ chans' = [t \in Tasks |-> Closed] /\ waiting' = {}
      /\ runs' = [t \in Tasks |-> IF runs[t] = "none" THEN "none" ELSE "ended"]
  BY DEF Crash
<1>5. /\ Closed \in Channel /\ ~Closed.open /\ Closed.lines = <<>> /\ Closed.replies = <<>>
      /\ Closed.served = 0
  <2>1. <<>> \in Seq(Sent) /\ <<>> \in Seq(Agents) /\ 0 \in 0..MaxRequests
    BY NoLines, BrokerAssumption
  <2>2. QED
    BY <2>1, ChannelOf, Zenon DEF Closed
<1>6. RunTypes'
  BY <1>1, <1>4, <1>5, Zenon DEF RunTypes, RunState
<1>7. \A t \in Tasks : callers'[t] = NoCall /\ chans'[t] = Closed /\ runs'[t] \in {"none", "ended"}
  BY <1>4, Zenon DEF Callers
<1>8. ServeInv'
  BY <1>5, <1>7, Zenon DEF ServeInv, Serve
<1>9. PairInv'
  <2>1. \A t \in Tasks : Waits(t)' = {}
    BY <1>4 DEF Waits
  <2>2. QED
    BY <1>5, <1>7, <2>1 DEF PairInv, Pair, Quiet
<1>10. TypeOK'
  BY <1>2, <1>3, <1>6, Types, PTL
<1>11. QED
  BY <1>2, <1>8, <1>9, <1>10 DEF IInv

(* Initially nothing is called, and no run has started. *)
LEMMA InitInv == Init => IInv
<1> SUFFICES ASSUME Init PROVE IInv
  OBVIOUS
<1>1. AttemptsTypeOK
  BY DEF Init, AttemptsTypeOK, AttemptState
<1>2. CallTypes
  BY BrokerAssumption DEF Init, CallTypes
<1>3. /\ Closed \in Channel /\ ~Closed.open /\ Closed.lines = <<>> /\ Closed.replies = <<>>
      /\ Closed.served = 0
  <2>1. <<>> \in Seq(Sent) /\ <<>> \in Seq(Agents) /\ 0 \in 0..MaxRequests
    BY NoLines, BrokerAssumption
  <2>2. QED
    BY <2>1, ChannelOf, Zenon DEF Closed
<1>4. RunTypes
  BY <1>3, Zenon DEF Init, RunTypes, RunState
<1>5. KeyInv /\ HolderInv
  BY DEF Init, KeyInv, HolderInv, Honest
<1>6. BudgetInv
  <2>1. \A t \in Tasks : Used(t) = {}
    BY Zenon DEF Init, Used
  <2>2. IsFiniteSet({}) /\ Cardinality({}) = 0
    BY FS_EmptySet
  <2>3. 0 <= MaxOperations
    BY BrokerAssumption
  <2>4. \A t \in Tasks : IsFiniteSet(Used(t)) /\ Cardinality(Used(t)) <= MaxOperations
    BY <2>1, <2>2, <2>3, Zenon
  <2>5. QED
    BY <2>4, Zenon DEF BudgetInv
<1>7. \A t \in Tasks : callers[t] = NoCall /\ chans[t] = Closed /\ runs[t] = "none" /\ Waits(t) = {}
  BY Zenon DEF Init, Callers, Waits
<1>8. ServeInv
  BY <1>3, <1>7, Zenon DEF ServeInv, Serve
<1>9. PairInv
  BY <1>3, <1>7, ZenonT(30) DEF PairInv, Pair, Quiet
<1>10. QED
  BY <1>1, <1>2, <1>4, <1>5, <1>6, <1>8, <1>9, Types, Zenon DEF IInv

(* Every step preserves the invariant. *)
LEMMA NextInv == IInv /\ [Next]_vars => IInv'
<1> SUFFICES ASSUME IInv, [Next]_vars PROVE IInv'
  OBVIOUS
<1>1. /\ AttemptsTypeOK /\ CallTypes /\ RunTypes /\ KeyInv /\ HolderInv /\ BudgetInv
      /\ ServeInv /\ PairInv
  BY Types DEF IInv
<1>2. ASSUME UNCHANGED <<attemptVars, callVars, runVars>>, configs' \in [Procs -> Configs]
      PROVE  IInv'
  <2>1. CallTypes' /\ KeyInv' /\ HolderInv' /\ BudgetInv'
    BY <1>1, <1>2, CallsKept
  <2>2. callers' = callers
    BY <1>2 DEF callVars
  <2>3. RunTypes' /\ ServeInv' /\ PairInv'
    BY <1>1, <1>2, <2>2, RunsKept
  <2>4. AttemptsTypeOK'
    BY <1>1, <1>2 DEF AttemptsTypeOK, attemptVars
  <2>5. TypeOK'
    BY <2>1, <2>3, <2>4, Types, PTL
  <2>6. QED
    BY <2>1, <2>3, <2>5 DEF IInv
<1>3. ASSUME NEW p \in Procs, NEW cfg \in Configs, put_processor(p, cfg)
      PROVE  IInv'
  BY <1>1, <1>2, <1>3, Zenon DEF put_processor, CallTypes
<1>4. ASSUME NEW c \in Operators, NEW t \in Tasks, NEW line \in CallLine,
             RequestProcessorCall(c, t, line)
      PROVE  IInv'
  <2>1. c \in Callers /\ c \notin Tasks
    BY BrokerAssumption DEF Callers
  <2>2. /\ run_processor_call(c, t, line) /\ UNCHANGED <<configs, calls, lock, sends>>
        /\ UNCHANGED runVars /\ UNCHANGED attemptVars
    BY <1>4 DEF RequestProcessorCall
  <2>3. CallGood /\ \A d \in Callers \ {c} : callers'[d] = callers[d]
    BY <1>1, <2>1, <2>2, BeginStep, Zenon
  <2>4. BudgetInv'
    BY <1>1, <2>3, BudgetKept, Zenon
  <2>5. \A u \in Tasks : callers'[u] = callers[u]
    BY <2>1, <2>3 DEF Callers
  <2>6. RunTypes' /\ ServeInv' /\ PairInv'
    BY <1>1, <2>2, <2>5, RunsKept, Zenon
  <2>7. AttemptsTypeOK'
    BY <1>1, <2>2 DEF AttemptsTypeOK, attemptVars
  <2>8. TypeOK'
    <3>1. CallTypes'
      BY <2>3 DEF CallGood
    <3>2. QED
      BY <2>6, <2>7, <3>1, Types, PTL
  <2>9. QED
    BY <2>3, <2>4, <2>6, <2>8, Zenon DEF IInv, CallGood
<1>5. CASE UNCHANGED vars
  BY <1>1, <1>2, <1>5 DEF vars, CallTypes
<1>6. QED
  BY <1>3, <1>4, <1>5, CallSteps, RunSteps, CrashSteps, Zenon DEF Next

(* The broker's invariant holds in every behaviour. *)
THEOREM Invariant == Spec => []IInv
  BY InitInv, NextInv, PTL DEF Spec

(* Every row, channel and call is of its type, whatever its callers, agents  *)
(* and processors do.                                                       *)
THEOREM TypeCorrect == Spec => []TypeOK
<1>1. IInv => TypeOK
  BY DEF IInv
<1>2. QED
  BY <1>1, Invariant, PTL

(* A request is never disclosed twice: repeated calls, shared keys, crashes  *)
(* and failing store calls included (dispatch_processor_call).               *)
THEOREM NeverSentTwice == Spec => []SentOnce
<1>1. IInv => SentOnce
  BY SMTT(30) DEF IInv, KeyInv, Honest, SentOnce
<1>2. QED
  BY <1>1, Invariant, PTL

(* A row recorded as prepared or failed means that nothing left the host, a  *)
(* completed one that the request did (dispatch_processor_call).             *)
THEOREM RowsAreHonest == Spec => []HonestOutcome
<1>1. IInv => HonestOutcome
  BY Zenon DEF IInv, KeyInv, Honest, HonestOutcome
<1>2. QED
  BY <1>1, Invariant, PTL

(* The disclosures under a work order stay within its operation budget, for  *)
(* every budget, also one of zero (prepare_call).                            *)
THEOREM BudgetIsKept == Spec => []WithinBudget
<1>1. IInv => WithinBudget
  <2> SUFFICES ASSUME IInv, NEW t \in Tasks
               PROVE  Cardinality({k \in Key : k.task = t /\ (calls[k] # "none" \/ sends[k] > 0)})
                        <= MaxOperations
    BY Zenon DEF WithinBudget
  <2>1. \A k \in Key : calls[k] = "none" => ~(sends[k] > 0)
    BY SMTT(30) DEF IInv, KeyInv, Honest
  <2>2. {k \in Key : k.task = t /\ (calls[k] # "none" \/ sends[k] > 0)} = Used(t)
    BY <2>1, Zenon DEF Used
  <2>3. QED
    BY <2>2, Zenon DEF IInv, BudgetInv
<1>2. QED
  BY <1>1, Invariant, PTL

(* No run is over while a call of its worker is under way (the scope of      *)
(* run_worker).                                                             *)
THEOREM RunsOutliveCalls == Spec => []RunOutlivesItsCalls
<1>1. IInv => RunOutlivesItsCalls
  BY DEF IInv, ServeInv, Serve, RunOutlivesItsCalls
<1>2. QED
  BY <1>1, Invariant, PTL

(* Every agent reads the reply to its own line, for every number of agents   *)
(* that share the channel (LoopbackProxy::forward).                          *)
THEOREM RepliesReachTheirAgents == Spec => ReplyIsMine
<1> DEFINE Mine == \A t \in Tasks, a \in Agents :
                      <<t, a>> \in waiting /\ <<t, a>> \notin waiting'
                        /\ chans'[t].replies # chans[t].replies /\ runs'[t] = "running"
                        => Head(chans[t].replies) = a
<1>1. IInv /\ [Next]_vars => [Mine]_vars
  <2> SUFFICES ASSUME IInv, Next, NEW t \in Tasks, NEW a \in Agents,
                      <<t, a>> \in waiting, <<t, a>> \notin waiting',
                      chans'[t].replies # chans[t].replies, runs'[t] = "running"
               PROVE  Head(chans[t].replies) = a
    OBVIOUS
  <2>1. RunTypes /\ ServeInv /\ PairInv /\ CallTypes /\ HolderInv
    BY Types, Zenon DEF IInv
  <2>2. ASSUME NEW u \in Tasks, NEW b \in Agents, ReadReply(u, b)
        PROVE  Head(chans[t].replies) = a
    <3>1. waiting' = waiting \ {<<u, b>>} /\ runs' = runs
      BY <2>2, Zenon DEF ReadReply
    <3>2. u = t /\ b = a
      BY <3>1
    <3>3. chans[t].replies # <<>>
      BY <2>2, <3>2, Zenon DEF ReadReply
    <3>4. QED
      BY <2>1, <2>2, <3>1, <3>2, <3>3, ReadStep, Zenon
  <2>3. ASSUME NEW u \in Tasks, WorkerReturns(u)
        PROVE  FALSE
    <3>1. waiting' = {w \in waiting : w[1] # u} /\ runs' = [runs EXCEPT ![u] = "returned"]
      BY <2>3 DEF WorkerReturns
    <3>2. u = t
      BY <3>1, Zenon
    <3>3. QED
      BY <2>1, <3>1, <3>2 DEF RunTypes
  <2>4. ASSUME Crash
        PROVE  FALSE
    <3>1. runs'[t] \in {"none", "ended"}
      BY <2>4, Zenon DEF Crash
    <3>2. QED
      BY <3>1, Zenon
  <2>5. ASSUME NEW c \in Callers, CallStep(c)
        PROVE  FALSE
    BY <2>1, <2>5, LineKept DEF runVars
  <2>6. ASSUME NEW u \in Tasks, \/ RunStart(u) \/ RunStep(u) \/ Fulfill(u)
                                \/ \E b \in Agents, line \in Line : forward(u, b, line)
        PROVE  FALSE
    BY <2>6, Zenon DEF RunStart, RunStep, Fulfill, forward, ServeLine, RefuseHuge, write_line,
       ChannelEnds, RunRecords, runVars
  <2>7. ASSUME \/ \E p \in Procs, cfg \in Configs : put_processor(p, cfg)
               \/ \E c \in Operators, u \in Tasks, line \in CallLine : RequestProcessorCall(c, u, line)
        PROVE  FALSE
    BY <2>7 DEF put_processor, RequestProcessorCall, runVars
  <2>8. QED
    BY <2>2, <2>3, <2>4, <2>5, <2>6, <2>7, Zenon DEF Next
<1>2. QED
  BY <1>1, Invariant, PTL DEF Spec, ReplyIsMine
-----------------------------------------------------------------------------
(* Broker implements TaskLife. *)

(* Where no row, no order and no start changes, TaskLife stutters. *)
LEMMA LifeStays ==
    ASSUME attempts' = attempts, orders' = orders,
           \A t \in Tasks : startedOf(t)' = startedOf(t)
    PROVE  UNCHANGED Life!lvars
  BY DEF deliveredOf, Life!lvars

(* The orders are issued and no worker has started. *)
LEMMA LifeInit == Init => Life!Init
  BY DEF Init, startedOf, deliveredOf, Life!Init

(* The outcome of a task that is claimed or running is recorded, once. *)
LEMMA Outcome ==
    ASSUME NEW t \in Tasks, t \in orders, orders' = orders, attempts \in [Tasks -> AttemptState],
           NEW s, attempts' = [attempts EXCEPT ![t] = s],
           \/ s = "succeeded" /\ attempts[t] \in {"claimed", "running"}
           \/ s = "failed" /\ attempts[t] = "running",
           \A u \in Tasks : startedOf(u)' = startedOf(u)
    PROVE  Life!Next
<1>1. [u \in Tasks |-> startedOf(u)]' = [u \in Tasks |-> startedOf(u)]
  OBVIOUS
<1>2. attempts'[t] = s /\ \A u \in Tasks : u # t => deliveredOf(u)' = deliveredOf(u)
  BY DEF deliveredOf
<1>3. CASE s = "succeeded"
  <2>1. deliveredOf(t)' = "result"
    BY <1>2, <1>3 DEF deliveredOf
  <2>2. Life!Complete(t)
    BY <1>1, <1>2, <1>3, <2>1, Zenon DEF Life!Complete, Life!Move, Life!InFlight
  <2>3. QED
    BY <2>2 DEF Life!Next
<1>4. CASE s = "failed"
  <2>1. \A u \in Tasks : deliveredOf(u)' = deliveredOf(u)
    BY <1>2, <1>4, Zenon DEF deliveredOf
  <2>2. Life!Fail(t)
    BY <1>1, <1>4, <2>1 DEF Life!Fail, Life!Move
  <2>3. QED
    BY <2>2 DEF Life!Next
<1>5. QED
  BY <1>3, <1>4

(* No step withdraws an order (put_work_order came before the run). *)
AllOrdered == orders = Tasks

(* Every step of Broker is a step of TaskLife or leaves it as it is. *)
LEMMA LifeStep ==
    ASSUME TypeOK, AllOrdered, [Next]_vars
    PROVE  [Life!Next]_Life!lvars /\ AllOrdered'
<1> USE DEF AllOrdered
<1>0. attempts \in [Tasks -> AttemptState] /\ runs \in [Tasks -> RunState]
  BY DEF TypeOK, AttemptsTypeOK, RunState
<1>1. ASSUME attempts' = attempts, orders' = orders, runs' = runs
      PROVE  [Life!Next]_Life!lvars /\ orders' = Tasks
  BY <1>1, LifeStays DEF startedOf
<1>2. ASSUME NEW t \in Tasks, RunStart(t) PROVE [Life!Next]_Life!lvars /\ orders' = Tasks
  <2>1. attempts[t] = "claimed"
    BY <1>2 DEF RunStart, next, Transition
  <2>2. next(attempts[t], "Start") = {"running"}
    BY <2>1 DEF next, Transition, AttemptState
  <2>3. (CHOOSE n \in {"running"} : TRUE) = "running"
    OBVIOUS
  <2>4. attempts' = [attempts EXCEPT ![t] = "running"] /\ orders' = orders
    BY <1>2, <2>2, <2>3, Zenon DEF RunStart, advance_attempt
  <2>5. runs[t] = "none" /\ runs' = [runs EXCEPT ![t] = "running"]
    BY <1>2 DEF RunStart
  <2>6. startedOf(t) = 0 /\ startedOf(t)' = 1
        /\ \A u \in Tasks : u # t => startedOf(u)' = startedOf(u)
    BY <1>0, <2>5 DEF startedOf
  <2>7. [u \in Tasks |-> startedOf(u)]' = [[u \in Tasks |-> startedOf(u)] EXCEPT ![t] = @ + 1]
    <3> DEFINE F == [u \in Tasks |-> startedOf(u)]
    <3>1. F[t] = 0 /\ F'[t] = 1 /\ \A u \in Tasks : u # t => F'[u] = F[u]
      BY <2>6, Zenon
    <3>2. F = [u \in Tasks |-> F[u]] /\ F' = [u \in Tasks |-> F'[u]]
      OBVIOUS
    <3> HIDE DEF F
    <3>3. F' = [F EXCEPT ![t] = @ + 1]
      BY <3>1, <3>2
    <3>4. QED
      BY <3>3, Zenon DEF F
  <2>8. [u \in Tasks |-> deliveredOf(u)]' = [u \in Tasks |-> deliveredOf(u)]
    <3>1. \A u \in Tasks : deliveredOf(u)' = deliveredOf(u)
      BY <1>0, <2>1, <2>4, Zenon DEF deliveredOf
    <3>2. QED
      BY <3>1
  <2>9. Life!Start(t)
    BY <2>1, <2>4, <2>7, <2>8, Zenon DEF Life!Start, Life!Move
  <2>10. QED
    BY <2>4, <2>9 DEF Life!Next
<1>3. ASSUME NEW t \in Tasks, WorkerReturns(t) PROVE [Life!Next]_Life!lvars /\ orders' = Tasks
  <2>1. attempts' = attempts /\ orders' = orders
        /\ runs[t] = "running" /\ runs' = [runs EXCEPT ![t] = "returned"]
    BY <1>3 DEF WorkerReturns, attemptVars
  <2>2. \A u \in Tasks : startedOf(u)' = startedOf(u)
    BY <1>0, <2>1 DEF startedOf
  <2>3. QED
    BY <2>1, <2>2, LifeStays
<1>4. ASSUME NEW t \in Tasks, NEW ok \in BOOLEAN, RunRecords(t, ok)
      PROVE  [Life!Next]_Life!lvars /\ orders' = Tasks
  <2>1. /\ orders' = orders
        /\ runs[t] = "returned" /\ runs' = [runs EXCEPT ![t] = "ended"]
        /\ attempts' = [attempts EXCEPT ![t] = IF @ # "running" THEN @
                                               ELSE IF ok THEN "succeeded" ELSE "failed"]
    BY <1>4 DEF RunRecords
  <2>2. \A u \in Tasks : startedOf(u)' = startedOf(u)
    BY <1>0, <2>1, Zenon DEF startedOf
  <2>3. CASE attempts[t] # "running"
    <3>1. attempts' = attempts
      BY <1>0, <2>1, <2>3
    <3>2. QED
      BY <2>1, <2>2, <3>1, LifeStays, Zenon
  <2>4. CASE attempts[t] = "running"
    <3> DEFINE s == IF ok THEN "succeeded" ELSE "failed"
    <3>1. attempts' = [attempts EXCEPT ![t] = s]
      BY <2>1, <2>4
    <3>2. s \in {"succeeded", "failed"}
      OBVIOUS
    <3> HIDE DEF s
    <3>3. Life!Next
      BY <1>0, <2>1, <2>2, <2>4, <3>1, <3>2, Outcome, Zenon
    <3>4. QED
      BY <2>1, <3>3
  <2>5. QED
    BY <2>3, <2>4, Zenon
<1>5. ASSUME NEW t \in Tasks, Fulfill(t) PROVE [Life!Next]_Life!lvars /\ orders' = Tasks
  <2>1. /\ orders' = orders /\ runs' = runs /\ attempts[t] \in {"claimed", "running"}
        /\ attempts' = [attempts EXCEPT ![t] = "succeeded"]
    BY <1>5 DEF Fulfill, runVars
  <2>2. \A u \in Tasks : startedOf(u)' = startedOf(u)
    BY <2>1 DEF startedOf
  <2>3. Life!Next
    BY <1>0, <2>1, <2>2, Outcome, Zenon
  <2>4. QED
    BY <2>1, <2>3
<1>6. ASSUME Crash PROVE [Life!Next]_Life!lvars /\ orders' = Tasks
  <2>1. /\ attempts' = [t \in Tasks |-> IF attempts[t] \in {"claimed", "running"}
                                        THEN "ambiguous" ELSE attempts[t]]
        /\ orders' = orders
        /\ runs' = [t \in Tasks |-> IF runs[t] = "none" THEN "none" ELSE "ended"]
    BY <1>6 DEF Crash, resolve_crashed_attempts
  <2>2. \A u \in Tasks : startedOf(u)' = startedOf(u) /\ deliveredOf(u)' = deliveredOf(u)
    BY <2>1 DEF startedOf, deliveredOf
  <2>3. Life!Restart
    BY <2>1, <2>2, Zenon DEF Life!Restart, Life!InFlight
  <2>4. QED
    BY <2>1, <2>3, Zenon DEF Life!Next
<1>7. ASSUME NEW c \in Callers, CallStep(c) PROVE [Life!Next]_Life!lvars /\ orders' = Tasks
  <2>1. runVars' = runVars /\ attemptVars' = attemptVars
    BY <1>7, Zenon DEF CallStep, prepare_call, Dispatching, get_credential, Resolve, ConnectFails,
       SendRequest, ResponseArrives, ExchangeFails, mark, AnswerOperator, StoreFails
  <2>2. QED
    BY <1>1, <2>1 DEF runVars, attemptVars
<1>8. ASSUME NEW t \in Tasks,
             \/ ServeLine(t) \/ RefuseHuge(t) \/ write_line(t) \/ ChannelEnds(t)
             \/ \E a \in Agents : ReadReply(t, a) \/ \E line \in Line : forward(t, a, line)
      PROVE  [Life!Next]_Life!lvars /\ orders' = Tasks
  <2>1. runs' = runs /\ attemptVars' = attemptVars
    BY <1>8, Zenon DEF ServeLine, RefuseHuge, write_line, ChannelEnds, ReadReply, forward, runVars
  <2>2. QED
    BY <1>1, <2>1 DEF attemptVars
<1>9. ASSUME \/ UNCHANGED vars
             \/ \E p \in Procs, cfg \in Configs : put_processor(p, cfg)
             \/ \E c \in Operators, t \in Tasks, line \in CallLine : RequestProcessorCall(c, t, line)
      PROVE  [Life!Next]_Life!lvars /\ orders' = Tasks
  BY <1>1, <1>9 DEF vars, runVars, attemptVars, put_processor, RequestProcessorCall
<1>10. QED
  BY <1>2, <1>3, <1>4, <1>5, <1>6, <1>7, <1>8, <1>9, Zenon DEF Next, RunStep

(* A run with its channel and its calls keeps the promise of TaskLife:        *)
(* whatever the agents, the processors, the operator and a restart do, its    *)
(* worker starts once and the task comes to one outcome.                      *)
THEOREM KeepsTaskLife == Spec => ImplementsTaskLife
<1>1. Init => AllOrdered
  BY DEF Init, AllOrdered
<1>2. IInv /\ AllOrdered /\ [Next]_vars => AllOrdered' /\ [Life!Next]_Life!lvars
  BY LifeStep DEF IInv
<1>3. QED
  BY <1>1, <1>2, Invariant, LifeInit, PTL DEF Spec, ImplementsTaskLife, Life!Spec
=============================================================================
