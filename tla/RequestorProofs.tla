--------------------------- MODULE RequestorProofs ---------------------------
(* Proofs about Requestor, for any calls, any connections, any nesting.    *)
EXTENDS Requestor, Integers, TLAPS

IInv == TypeOK /\ CallsConsistent

LEMMA InitIInv == Init => IInv
<1> SUFFICES ASSUME Init PROVE IInv
  OBVIOUS
<1> USE ConstantsAssumption DEF Init
<1>1. TypeOK
  BY DEF TypeOK, Modes, RCodes
<1>2. CallsConsistent
  BY DEF CallsConsistent, UnsentIsUnknown, RequestsPending, AnswersPending,
         HandlersConsistent, ErasedIsCompleted, ResultsTruthful,
         DescriptorsAccountedFor, Untouched
<1> QED
  BY <1>1, <1>2 DEF IInv

LEMMA TypeStep == IInv /\ [Next]_vars => TypeOK'
<1> SUFFICES ASSUME IInv, [Next]_vars PROVE TypeOK'
  OBVIOUS
<1> USE ConstantsAssumption DEF IInv, TypeOK, Modes, RCodes, Responses
<1>1. ASSUME NEW c \in Calls, UserCall(c) PROVE TypeOK'
  BY <1>1 DEF UserCall, Begin, loopVars, netVars
<1>2. ASSUME NEW c \in Calls, CallStep(c) PROVE TypeOK'
  <2>1. CASE NewDescribe(c)
    BY <2>1 DEF NewDescribe, loopVars, netVars
  <2>2. CASE SendRequest(c)
    BY <2>2 DEF SendRequest, loopVars
  <2>3. CASE NullConnection(c)
    BY <2>3 DEF NullConnection, callVars, loopVars, netVars
  <2>4. CASE Return(c)
    BY <2>4 DEF Return, loopVars, netVars, Accepts
  <2> QED
    BY <1>2, <2>1, <2>2, <2>3, <2>4 DEF CallStep
<1>3. ASSUME NEW c \in Calls, NEW r \in RCodes, Respond(c, r) PROVE TypeOK'
  BY <1>3 DEF Respond, callVars, loopVars
<1>4. ASSUME NEW k \in Conns, LinkStep(k) \/ ConnectionLost(k) PROVE TypeOK'
  BY <1>4 DEF LinkStep, CountDown, SetConnection, ConnectionLost, callVars, loopVars, netVars
<1>5. ASSUME NEW k \in Conns, LoopStep(k) PROVE TypeOK'
  <2>1. CASE OnMessage(k)
    BY <2>1 DEF OnMessage, callVars
  <2>2. CASE GetDescribe(k)
    BY <2>2 DEF GetDescribe, Finish, callVars, netVars
  <2>3. CASE SetResponse(k)
    BY <2>3 DEF SetResponse, callVars, netVars, CallsConsistent, HandlersConsistent
  <2>4. CASE SetFuture(k)
    BY <2>4 DEF SetFuture, callVars, netVars, Accepts
  <2>5. CASE InvokeCallback(k)
    BY <2>5 DEF InvokeCallback, callVars, netVars, Accepts
  <2>6. CASE CallbackReturns(k)
    BY <2>6 DEF CallbackReturns, callVars, netVars
  <2>7. CASE DelDescribe(k)
    BY <2>7 DEF DelDescribe, Finish, callVars, netVars
  <2> QED
    BY <1>5, <2>1, <2>2, <2>3, <2>4, <2>5, <2>6, <2>7 DEF LoopStep
<1>6. ASSUME NEW k \in Conns, NEW c \in Calls, NestedCall(k, c) PROVE TypeOK'
  BY <1>6 DEF NestedCall, Begin, netVars
<1>7. CASE UNCHANGED vars
  BY <1>7 DEF vars, callVars, loopVars, netVars
<1> QED
  BY <1>1, <1>2, <1>3, <1>4, <1>5, <1>6, <1>7 DEF Next

LEMMA ConsistentStep == IInv /\ [Next]_vars => CallsConsistent'
<1> SUFFICES ASSUME IInv, [Next]_vars PROVE CallsConsistent'
  OBVIOUS
<1> USE ConstantsAssumption
    DEF IInv, TypeOK, Modes, RCodes, Responses, CallsConsistent,
        UnsentIsUnknown, RequestsPending, AnswersPending, HandlersConsistent,
        ErasedIsCompleted, ResultsTruthful, DescriptorsAccountedFor, Untouched,
        Completed, Handled, CutOff, Accepts
<1>1. ASSUME NEW c \in Calls, UserCall(c) PROVE CallsConsistent'
  BY <1>1 DEF UserCall, Begin, loopVars, netVars
<1>2. ASSUME NEW c \in Calls, CallStep(c) PROVE CallsConsistent'
  <2>1. CASE NewDescribe(c)
    BY <2>1 DEF NewDescribe, loopVars, netVars
  <2>2. CASE SendRequest(c)
    BY <2>2 DEF SendRequest, loopVars
  <2>3. CASE NullConnection(c)
    BY <2>3 DEF NullConnection, callVars, loopVars, netVars
  <2>4. CASE Return(c)
    BY <2>4 DEF Return, loopVars, netVars
  <2> QED
    BY <1>2, <2>1, <2>2, <2>3, <2>4 DEF CallStep
<1>3. ASSUME NEW c \in Calls, NEW r \in RCodes, Respond(c, r) PROVE CallsConsistent'
  <2> USE <1>3 DEF Respond, callVars, loopVars
  <2>1. UnsentIsUnknown'
    OBVIOUS
  <2>2. RequestsPending'
    OBVIOUS
  <2>3. AnswersPending'
    OBVIOUS
  <2>4. HandlersConsistent'
    OBVIOUS
  <2>5. ErasedIsCompleted' /\ ResultsTruthful'
    OBVIOUS
  <2>6. DescriptorsAccountedFor'
    <3>1. \E m \in answers' : m.id = c
      <4>1. [id |-> c, rcode |-> r] \in answers'
        OBVIOUS
      <4> QED
        BY <4>1
    <3>2. \A d \in Calls : Handled(d) => Handled(d)'
      OBVIOUS
    <3>3. \A d \in Calls : CutOff(d) => CutOff(d)'
      OBVIOUS
    <3> QED
      BY <3>1, <3>2, <3>3
  <2> QED
    BY <2>1, <2>2, <2>3, <2>4, <2>5, <2>6
<1>4. ASSUME NEW k \in Conns, LinkStep(k) \/ ConnectionLost(k) PROVE CallsConsistent'
  BY <1>4 DEF LinkStep, CountDown, SetConnection, ConnectionLost, callVars, loopVars, netVars
<1>5. ASSUME NEW k \in Conns, LoopStep(k) PROVE CallsConsistent'
  <2>1. CASE OnMessage(k)
    <3> USE <2>1 DEF OnMessage, callVars
    <3>1. UnsentIsUnknown'
      OBVIOUS
    <3>2. RequestsPending'
      OBVIOUS
    <3>3. AnswersPending'
      OBVIOUS
    <3>4. HandlersConsistent'
      BY DEF DispatcherFree
    <3>5. ErasedIsCompleted' /\ ResultsTruthful'
      OBVIOUS
    <3>6. DescriptorsAccountedFor'
      OBVIOUS
    <3> QED
      BY <3>1, <3>2, <3>3, <3>4, <3>5, <3>6
  <2>2. CASE GetDescribe(k)
    BY <2>2 DEF GetDescribe, Finish, callVars, netVars
  <2>3. CASE SetResponse(k)
    BY <2>3 DEF SetResponse, callVars, netVars
  <2>4. CASE SetFuture(k)
    BY <2>4 DEF SetFuture, callVars, netVars
  <2>5. CASE InvokeCallback(k)
    BY <2>5 DEF InvokeCallback, callVars, netVars
  <2>6. CASE CallbackReturns(k)
    BY <2>6 DEF CallbackReturns, callVars, netVars
  <2>7. CASE DelDescribe(k)
    BY <2>7 DEF DelDescribe, Finish, callVars, netVars
  <2> QED
    BY <1>5, <2>1, <2>2, <2>3, <2>4, <2>5, <2>6, <2>7 DEF LoopStep
<1>6. ASSUME NEW k \in Conns, NEW c \in Calls, NestedCall(k, c) PROVE CallsConsistent'
  BY <1>6 DEF NestedCall, Begin, netVars
<1>7. CASE UNCHANGED vars
  BY <1>7 DEF vars, callVars, loopVars, netVars
<1> HIDE DEF IInv, TypeOK, CallsConsistent
<1> QED
  BY <1>1, <1>2, <1>3, <1>4, <1>5, <1>6, <1>7 DEF Next

LEMMA IInvAlways == Spec => []IInv
<1>1. IInv /\ [Next]_vars => IInv'
  BY TypeStep, ConsistentStep DEF IInv
<1> QED
  BY InitIInv, <1>1, PTL DEF Spec

\* Every variable of the call path keeps its type.
THEOREM TypeCorrect == Spec => []TypeOK
BY IInvAlways, PTL DEF IInv

\* The table, the wire and the loop threads agree on every outstanding call.
THEOREM CallsAlwaysConsistent == Spec => []CallsConsistent
BY IInvAlways, PTL DEF IInv

\* No description goes stale in _request_desc while its connection is up.
THEOREM DescriptorsAlwaysAccountedFor == Spec => []DescriptorsAccountedFor
BY IInvAlways, PTL DEF IInv, CallsConsistent

\* No response arrives for which onResponse finds no description.
THEOREM NoResponseOrphaned == Spec => []NoOrphanResponse
<1>1. IInv => NoOrphanResponse
  BY DEF IInv, CallsConsistent, AnswersPending, HandlersConsistent, NoOrphanResponse
<1> QED
  BY IInvAlways, <1>1, PTL

\* Two user callbacks of one client never overlap, on any number of connections.
THEOREM CallbacksSerialised == Spec => []OneCallbackAtATime
<1>1. IInv => OneCallbackAtATime
  BY DEF IInv, CallsConsistent, HandlersConsistent, OneCallbackAtATime
<1> QED
  BY IInvAlways, <1>1, PTL

-----------------------------------------------------------------------------
LEMMA InitHolders == Init => HoldersAtWork
BY ConstantsAssumption DEF Init, HoldersAtWork

LEMMA HoldersStep == IInv /\ HoldersAtWork /\ [Next]_vars => HoldersAtWork'
<1> SUFFICES ASSUME IInv, HoldersAtWork, [Next]_vars PROVE HoldersAtWork'
  OBVIOUS
<1> USE ConstantsAssumption
    DEF TypeOK, Modes, RCodes, Responses, HoldersAtWork
<1>0. TypeOK /\ UnsentIsUnknown /\ RequestsPending /\ AnswersPending /\ HandlersConsistent
  BY DEF IInv, CallsConsistent
<1>a. \A c \in Calls : pc[c] = "idle" =>
        /\ \A k \in Conns : nested[k] # c
        /\ c \notin requests
        /\ \A m \in answers : m.id # c
  BY <1>0 DEF UnsentIsUnknown, RequestsPending, AnswersPending
<1>1. ASSUME NEW c \in Calls, UserCall(c) PROVE HoldersAtWork'
  BY <1>0, <1>a, <1>1 DEF UserCall, Begin, loopVars, netVars
<1>2. ASSUME NEW c \in Calls, CallStep(c) PROVE HoldersAtWork'
  <2>1. CASE NewDescribe(c)
    BY <1>0, <2>1 DEF NewDescribe, loopVars, netVars
  <2>2. CASE SendRequest(c)
    BY <1>0, <2>2 DEF SendRequest, loopVars
  <2>3. CASE NullConnection(c)
    BY <1>0, <2>3 DEF NullConnection, callVars, loopVars, netVars
  <2>4. CASE Return(c)
    BY <1>0, <2>4 DEF Return, loopVars, netVars
  <2> QED
    BY <1>2, <2>1, <2>2, <2>3, <2>4 DEF CallStep
<1>3. ASSUME NEW c \in Calls, NEW r \in RCodes, Respond(c, r) PROVE HoldersAtWork'
  BY <1>0, <1>3 DEF Respond, callVars, loopVars
<1>4. ASSUME NEW k \in Conns, LinkStep(k) \/ ConnectionLost(k) PROVE HoldersAtWork'
  BY <1>0, <1>4 DEF LinkStep, CountDown, SetConnection, ConnectionLost, callVars, loopVars, netVars
<1>5. ASSUME NEW k \in Conns, LoopStep(k) PROVE HoldersAtWork'
  <2>0. \A j \in Conns : at[j] # "idle" => dispatcher = j
    BY <1>0 DEF HandlersConsistent
  <2>1. CASE OnMessage(k)
    BY <1>0, <2>0, <2>1 DEF OnMessage, DispatcherFree, callVars
  <2>2. CASE GetDescribe(k)
    BY <1>0, <2>0, <2>2 DEF GetDescribe, Finish, callVars, netVars
  <2>3. CASE SetResponse(k)
    BY <1>0, <2>0, <2>3 DEF SetResponse, callVars, netVars
  <2>4. CASE SetFuture(k)
    BY <1>0, <2>0, <2>4 DEF SetFuture, callVars, netVars
  <2>5. CASE InvokeCallback(k)
    BY <1>0, <2>0, <2>5 DEF InvokeCallback, callVars, netVars
  <2>6. CASE CallbackReturns(k)
    BY <1>0, <2>0, <2>6 DEF CallbackReturns, callVars, netVars
  <2>7. CASE DelDescribe(k)
    BY <1>0, <2>0, <2>7 DEF DelDescribe, Finish, callVars, netVars
  <2> QED
    BY <1>5, <2>1, <2>2, <2>3, <2>4, <2>5, <2>6, <2>7 DEF LoopStep
<1>6. ASSUME NEW k \in Conns, NEW c \in Calls, NestedCall(k, c) PROVE HoldersAtWork'
  BY <1>0, <1>a, <1>6 DEF NestedCall, Begin, netVars
<1>7. CASE UNCHANGED vars
  BY <1>0, <1>7 DEF vars, callVars, loopVars, netVars
<1> QED
  BY <1>1, <1>2, <1>3, <1>4, <1>5, <1>6, <1>7 DEF Next

LEMMA NeverBlocked == IInv /\ HoldersAtWork => OnlyCallbacksBlock
<1> SUFFICES ASSUME IInv, HoldersAtWork, NEW c \in Calls, Outstanding(c), ~CutOff(c)
             PROVE  \/ c \in requests
                    \/ CanBeTaken(c)
                    \/ \E k \in Conns : LoopGoesOn(k)
                    \/ \E k \in Conns : WaitsForItself(k) /\ "sync" \in NestedModes
  BY DEF OnlyCallbacksBlock
<1>1. TypeOK /\ CallsConsistent
  BY DEF IInv
\* A loop thread at work goes on, or waits for itself.
<1>2. ASSUME NEW k \in Conns, at[k] # "idle"
      PROVE  LoopGoesOn(k) \/ (WaitsForItself(k) /\ "sync" \in NestedModes)
  BY <1>1, <1>2 DEF TypeOK, HoldersAtWork, LoopGoesOn, WaitsForItself, Waits
\* An outstanding call is described, and so is accounted for.
<1>3. c \in desc /\ pc[c] # "described"
  BY <1>1, ConstantsAssumption
     DEF Outstanding, Waits, CallsConsistent, ErasedIsCompleted, Completed, TypeOK
<1>4. c \in requests \/ (\E m \in answers : m.id = c) \/ Handled(c)
  BY <1>1, <1>3 DEF CallsConsistent, DescriptorsAccountedFor
<1>5. CASE Handled(c)
  BY <1>2, <1>5 DEF Handled
<1>6. CASE \E m \in answers : m.id = c
  <2>1. conn[c] \in Conns /\ link[conn[c]] = "up"
    BY <1>1, <1>6 DEF HoldersAtWork, TypeOK
  <2>2. CASE dispatcher = None
    <3>1. \A k \in Conns : at[k] = "idle"
      BY <1>1, <2>2, ConstantsAssumption DEF CallsConsistent, HandlersConsistent
    <3> QED
      BY <1>6, <2>1, <2>2, <3>1 DEF CanBeTaken
  <2>3. CASE dispatcher \in Conns
    BY <1>2, <2>3 DEF HoldersAtWork
  <2> QED
    BY <1>1, <2>2, <2>3 DEF TypeOK
<1> QED
  BY <1>4, <1>5, <1>6

\* The safety core of "every call concludes", in any mode, over any number of
\* connections and with whatever calls callbacks make: an outstanding call over a
\* live connection stands still only behind a callback that waits for an answer.
THEOREM NothingElseBlocks == Spec => []OnlyCallbacksBlock
<1>1. IInv /\ HoldersAtWork /\ [Next]_vars /\ IInv' => HoldersAtWork'
  BY HoldersStep
<1> QED
  BY InitHolders, <1>1, IInvAlways, NeverBlocked, PTL DEF Spec

-----------------------------------------------------------------------------
(* The call path implements the contract of a remote call.                 *)

LEMMA ContractInit == Init => Contract!Init
BY DEF Init, Contract!Init, Told

LEMMA ContractStep ==
  IInv /\ [Next]_vars => [Contract!Next]_Contract!contractVars
<1> SUFFICES ASSUME IInv, [Next]_vars
             PROVE  [Contract!Next]_Contract!contractVars
  OBVIOUS
<1> DEFINE Issued == {c \in Calls : pc[c] \in {"sent", "returned"}}
           Learned == [c \in Calls |-> Told(c)]
           Stutters == Issued' = Issued /\ Learned' = Learned /\ executed' = executed
<1> USE ConstantsAssumption DEF IInv, TypeOK, Responses, Accepts
<1>a. ASSUME Stutters PROVE UNCHANGED Contract!contractVars
  BY <1>a DEF Contract!contractVars
<1>b. ASSUME NEW c \in Calls, Contract!Issue(c) \/ Contract!Tell(c)
      PROVE Contract!Next
  BY <1>b DEF Contract!Next
<1>1. ASSUME NEW c \in Calls, NEW m \in Modes, NEW k \in Conns, Begin(c, m, k),
             UNCHANGED <<desc, handed, executed>>
      PROVE Stutters
  BY <1>1 DEF Begin, Told, CallsConsistent, UnsentIsUnknown, Untouched
<1>2. ASSUME NEW c \in Calls, CallStep(c)
      PROVE Stutters \/ Contract!Issue(c) \/ Contract!Tell(c)
  <2>1. CASE NewDescribe(c)
    BY <2>1 DEF NewDescribe, loopVars, netVars, Told
  <2>2. CASE SendRequest(c)
    <3>1. Learned' = Learned
      BY <2>2 DEF SendRequest, Told
    <3>2. Issued' = Issued \cup {c} /\ c \notin Issued /\ executed' = executed
      BY <2>2 DEF SendRequest
    <3> QED
      BY <3>1, <3>2 DEF Contract!Issue
  <2>3. CASE NullConnection(c)
    BY <2>3 DEF NullConnection, callVars, netVars, Told
  <2>4. CASE Return(c)
    <3>1. Issued' = Issued /\ executed' = executed
      BY <2>4 DEF Return, netVars
    <3>2. \A d \in Calls \ {c} : Told(d)' = Told(d)
      BY <2>4 DEF Return, Told
    <3>3. CASE mode[c] = "sync" \/ (mode[c] = "async" /\ c \notin desc /\ ~handed[c])
      <4>1. executed[c] # None /\ Told(c) = "nothing"
        BY <2>4, <3>3 DEF Return, Told, CallsConsistent, ResultsTruthful,
                          ErasedIsCompleted, Completed
      <4>2. Told(c)' = IF executed[c] = "OK" THEN "result" ELSE "failure"
        <5>1. pc'[c] = "returned" /\ mode' = mode /\ desc' = desc
              /\ handed'[c] = (mode[c] = "sync" /\ response[c] = "OK")
          BY <2>4, <3>3, <4>1 DEF Return, Told
        <5>2. CASE mode[c] = "sync"
          <6>1. response[c] = executed[c]
            BY <2>4, <5>2 DEF Return, CallsConsistent, ResultsTruthful
          <6> QED
            BY <5>1, <5>2, <6>1 DEF Told
        <5>3. CASE mode[c] # "sync"
          <6>1. executed[c] # "OK"
            BY <2>4, <3>3, <5>3 DEF Return, CallsConsistent, ErasedIsCompleted, Completed
          <6> QED
            BY <3>3, <5>1, <5>3, <6>1 DEF Told
        <5> QED
          BY <5>2, <5>3
      <4>3. Learned' = [Learned EXCEPT ![c] = IF executed[c] = "OK" THEN "result" ELSE "failure"]
        BY <3>2, <4>2
      <4> QED
        BY <3>1, <4>1, <4>3 DEF Contract!Tell
    <3>4. CASE ~(mode[c] = "sync" \/ (mode[c] = "async" /\ c \notin desc /\ ~handed[c]))
      <4>1. Told(c)' = Told(c)
        BY <2>4, <3>4 DEF Return, Told
      <4> QED
        BY <3>1, <3>2, <4>1
    <3> QED
      BY <3>3, <3>4
  <2> QED
    BY <1>2, <2>1, <2>2, <2>3, <2>4 DEF CallStep
<1>3. ASSUME NEW c \in Calls, NEW r \in RCodes, Respond(c, r)
      PROVE Contract!Execute(c, r)
  <2>1. Learned' = Learned /\ Issued' = Issued
    BY <1>3 DEF Respond, callVars, Told
  <2>2. c \in Issued /\ executed[c] = None
    BY <1>3 DEF Respond, CallsConsistent, RequestsPending
  <2> QED
    BY <1>3, <2>1, <2>2 DEF Contract!Execute, Respond
<1>4. ASSUME NEW k \in Conns, LinkStep(k) \/ ConnectionLost(k) PROVE Stutters
  BY <1>4 DEF LinkStep, CountDown, SetConnection, ConnectionLost, callVars, netVars, Told
<1>5. ASSUME NEW k \in Conns, LoopStep(k)
      PROVE Stutters \/ \E c \in Calls : Contract!Tell(c)
  <2>0. at[k] # "idle" => cur[k].id \in Calls /\ cur[k].rcode \in RCodes
    BY DEF CallsConsistent, HandlersConsistent
  <2>1. CASE OnMessage(k)
    BY <2>1 DEF OnMessage, callVars, Told
  <2>2. CASE GetDescribe(k)
    BY <2>2 DEF GetDescribe, callVars, netVars, Told
  <2>3. CASE SetResponse(k)
    BY <2>3 DEF SetResponse, callVars, netVars, Told
  <2>4. CASE SetFuture(k) \/ InvokeCallback(k)
    <3>1. PICK c \in Calls : c = cur[k].id /\ at[k] = "found" /\ mode[c] # "sync"
      BY <2>0, <2>4 DEF SetFuture, InvokeCallback
    <3>2. executed[c] = cur[k].rcode /\ executed[c] # None /\ ~handed[c] /\ c \in desc
      BY <2>0, <3>1 DEF CallsConsistent, HandlersConsistent, Untouched, RCodes
    <3>3. Issued' = Issued /\ executed' = executed /\ UNCHANGED <<pc, mode, desc>>
          /\ handed' = [handed EXCEPT ![c] = @ \/ (cur[k].rcode = "OK")]
      BY <2>4, <3>1 DEF SetFuture, InvokeCallback, callVars, netVars
    <3>4. \A d \in Calls \ {c} : Told(d)' = Told(d)
      BY <3>1, <3>3 DEF Told
    <3>5. CASE cur[k].rcode = "OK"
      <4>1. Told(c) = "nothing" /\ Told(c)' = "result"
        BY <3>1, <3>2, <3>3, <3>5 DEF Told
      <4>2. Learned' = [Learned EXCEPT ![c] = IF executed[c] = "OK" THEN "result" ELSE "failure"]
        BY <3>2, <3>4, <3>5, <4>1
      <4> QED
        BY <3>1, <3>2, <3>3, <4>1, <4>2 DEF Contract!Tell
    <3>6. CASE cur[k].rcode # "OK"
      BY <3>1, <3>3, <3>6 DEF Told
    <3> QED
      BY <3>5, <3>6
  <2>5. CASE CallbackReturns(k)
    BY <2>5 DEF CallbackReturns, callVars, netVars, Told
  <2>6. CASE DelDescribe(k)
    <3>1. PICK c \in Calls : c = cur[k].id /\ at[k] = "erase"
      BY <2>0, <2>6 DEF DelDescribe
    <3>2. Completed(c) /\ c \in desc
      BY <3>1 DEF CallsConsistent, HandlersConsistent
    <3>3. Issued' = Issued /\ executed' = executed /\ UNCHANGED <<pc, mode, handed>>
          /\ desc' = desc \ {c}
      BY <2>6, <3>1 DEF DelDescribe, callVars, netVars
    <3>4. \A d \in Calls \ {c} : Told(d)' = Told(d)
      BY <3>1, <3>3 DEF Told
    <3>5. CASE pc[c] = "returned" /\ mode[c] = "async" /\ ~handed[c]
      <4>1. executed[c] # None /\ executed[c] # "OK"
        BY <3>1, <3>2, <3>5 DEF Completed
      <4>2. Told(c) = "nothing" /\ Told(c)' = "failure"
        BY <3>1, <3>2, <3>3, <3>5 DEF Told
      <4>3. Learned' = [Learned EXCEPT ![c] = IF executed[c] = "OK" THEN "result" ELSE "failure"]
        BY <3>4, <4>1, <4>2
      <4> QED
        BY <3>1, <3>3, <4>1, <4>2, <4>3 DEF Contract!Tell
    <3>6. CASE ~(pc[c] = "returned" /\ mode[c] = "async" /\ ~handed[c])
      <4>1. Told(c)' = Told(c)
        BY <3>1, <3>3, <3>6 DEF Told
      <4> QED
        BY <3>3, <3>4, <4>1
    <3> QED
      BY <3>5, <3>6
  <2> QED
    BY <1>5, <2>1, <2>2, <2>3, <2>4, <2>5, <2>6 DEF LoopStep
<1>6. CASE UNCHANGED vars
  <2>1. Stutters
    BY <1>6 DEF vars, callVars, netVars, Told
  <2> QED
    BY <1>a, <2>1
<1>7. CASE \E c \in Calls : UserCall(c) \/ CallStep(c)
  BY <1>a, <1>b, <1>1, <1>2, <1>7 DEF UserCall, netVars
<1>8. CASE \E c \in Calls, r \in RCodes : Respond(c, r)
  BY <1>3, <1>8 DEF Contract!Next
<1>9. CASE \E k \in Conns : LinkStep(k) \/ ConnectionLost(k) \/ LoopStep(k)
  BY <1>a, <1>b, <1>4, <1>5, <1>9
<1>10. CASE \E k \in Conns, c \in Calls : NestedCall(k, c)
  BY <1>a, <1>1, <1>10 DEF NestedCall, netVars
<1> HIDE DEF IInv, TypeOK, Stutters
<1> QED
  BY <1>a, <1>6, <1>7, <1>8, <1>9, <1>10 DEF Next

\* The table of descriptions, the threads and the wire are invisible to the
\* caller: what it sees is a call executed at most once whose outcome it is told.
THEOREM RequestorImplementsContract == Spec => ImplementsContract
<1>1. Init => Contract!Init
  BY ContractInit
<1>2. IInv /\ [Next]_vars => [Contract!Next]_Contract!contractVars
  BY ContractStep
<1> QED
  BY <1>1, <1>2, IInvAlways, PTL DEF Spec, Contract!Spec, ImplementsContract

-----------------------------------------------------------------------------
(* The work runs out.                                                       *)

Stages == {"lookup", "found", "callback", "erase"}

LEMMA WorkType ==
  \A c : /\ ThreadWork(c) \in 0..4 /\ MessageWork(c) \in 0..7
         /\ ThreadWork(c)' \in 0..4 /\ MessageWork(c)' \in 0..7
BY DEF ThreadWork, MessageWork

LEMMA WorkInt == \A c : Work(c) \in Int /\ Work(c)' \in Int
BY WorkType DEF Work

\* A call that is not concerned by a step keeps the work it has.
LEMMA WorkKept ==
  ASSUME NEW c \in Calls, pc'[c] = pc[c],
         c \in requests' <=> c \in requests,
         (\E m \in answers' : m.id = c) <=> (\E m \in answers : m.id = c),
         \A a \in Stages : At(c, a)' <=> At(c, a)
  PROVE  Work(c)' = Work(c)
<1>1. ThreadWork(c)' = ThreadWork(c)
  BY DEF ThreadWork
<1>2. MessageWork(c)' = MessageWork(c)
  BY DEF MessageWork, Stages
<1> QED
  BY <1>1, <1>2 DEF Work

\* When the thread of a call goes on and its message, if it was sent, stays where
\* it is, it has less to do.
LEMMA ThreadAdvances ==
  ASSUME NEW c \in Calls,
         \/ pc[c] = "idle" /\ pc'[c] = "begun"
         \/ pc[c] = "begun" /\ pc'[c] = "described"
         \/ pc[c] = "described" /\ pc'[c] = "sent"
         \/ pc[c] = "sent" /\ pc'[c] = "returned",
         \A d \in Calls : d # c => pc'[d] = pc[d],
         \A d \in Calls : /\ d # c \/ pc'[c] # "sent" =>
                               (d \in requests' <=> d \in requests)
                          /\ (\E m \in answers' : m.id = d) <=> (\E m \in answers : m.id = d)
                          /\ \A a \in Stages : At(d, a)' <=> At(d, a)
  PROVE  Work(c)' < Work(c) /\ \A d \in Calls : Work(d)' <= Work(d)
<1>2. ThreadWork(c)' < ThreadWork(c)
  BY DEF ThreadWork
<1>3. MessageWork(c)' <= MessageWork(c)
  BY DEF MessageWork, Stages
<1>4. Work(c)' < Work(c)
  BY <1>2, <1>3, WorkType DEF Work
<1>5. ASSUME NEW d \in Calls, d # c PROVE Work(d)' = Work(d)
  BY <1>5, WorkKept
<1> QED
  BY <1>4, <1>5, WorkInt

\* When the message of a call goes on and its thread stays where it is, so too.
LEMMA MessageAdvances ==
  ASSUME NEW c \in Calls, pc' = pc,
         MessageWork(c)' < MessageWork(c),
         \A d \in Calls : d # c =>
           /\ d \in requests' <=> d \in requests
           /\ (\E m \in answers' : m.id = d) <=> (\E m \in answers : m.id = d)
           /\ \A a \in Stages : At(d, a)' <=> At(d, a)
  PROVE  Work(c)' < Work(c) /\ \A d \in Calls : Work(d)' <= Work(d)
<1>1. ThreadWork(c)' = ThreadWork(c)
  BY DEF ThreadWork
<1>2. Work(c)' < Work(c)
  BY <1>1, WorkType DEF Work
<1>3. ASSUME NEW d \in Calls, d # c PROVE Work(d)' = Work(d)
  BY <1>3, WorkKept
<1> QED
  BY <1>2, <1>3, WorkInt

\* A response that is being handled is nowhere else, and nothing else is handled.
LEMMA HandledAlone ==
  ASSUME IInv, NEW k \in Conns, at[k] # "idle"
  PROVE  /\ cur[k].id \in Calls
         /\ cur[k].id \notin requests
         /\ \A m \in answers : m.id # cur[k].id
         /\ pc[cur[k].id] \in {"sent", "returned"}
         /\ \A j \in Conns : j # k => at[j] = "idle"
<1> USE ConstantsAssumption DEF IInv, TypeOK, CallsConsistent
<1>1. /\ dispatcher = k /\ cur[k] \in Responses
      /\ executed[cur[k].id] = cur[k].rcode
      /\ \A j \in Conns : at[j] # "idle" => dispatcher = j
  BY DEF HandlersConsistent
<1>2. cur[k].id \in Calls /\ executed[cur[k].id] # None
  BY <1>1 DEF Responses
<1>3. cur[k].id \notin requests
  BY <1>2 DEF RequestsPending
<1>4. \A m \in answers : m.id # cur[k].id
  BY DEF AnswersPending, Handled
<1>5. pc[cur[k].id] \in {"sent", "returned"}
  BY <1>2 DEF UnsentIsUnknown
<1> QED
  BY <1>1, <1>2, <1>3, <1>4, <1>5

\* A step of onResponse, from one place to a later one, takes one message on.
LEMMA HandlerAdvances ==
  ASSUME IInv, NEW k \in Conns,
         \/ at[k] = "lookup" /\ at'[k] = "found"
         \/ at[k] = "found" /\ at'[k] = "callback"
         \/ at[k] \in {"found", "callback"} /\ at'[k] = "erase"
         \/ at[k] = "erase" /\ at'[k] = "idle",
         \A j \in Conns : j # k => at'[j] = at[j],
         at'[k] # "idle" => cur' = cur,
         UNCHANGED <<pc, requests, answers>>
  PROVE  \E c \in Calls : Work(c)' < Work(c) /\ \A d \in Calls : Work(d)' <= Work(d)
<1> DEFINE c == cur[k].id
<1>0. at[k] # "idle" /\ at[k] \in Stages
  BY DEF Stages
<1>1. /\ c \in Calls /\ c \notin requests /\ \A m \in answers : m.id # c
      /\ pc[c] \in {"sent", "returned"}
      /\ \A j \in Conns : j # k => at[j] = "idle"
  BY <1>0, HandledAlone
<1>2. \A d \in Calls, a \in Stages : At(d, a) <=> at[k] = a /\ c = d
  BY <1>1 DEF At, Stages
<1>3. \A j \in Conns : j # k => at'[j] = "idle"
  BY <1>1
<1>4. PICK e \in Calls : e = c
  BY <1>1
<1>5. \A d \in Calls, a \in Stages : At(d, a)' <=> at'[k] = a /\ e = d
  <2>1. CASE at'[k] = "idle"
    BY <1>3, <2>1 DEF At, Stages
  <2>2. CASE at'[k] # "idle"
    BY <1>3, <1>4, <2>2 DEF At, Stages
  <2> QED
    BY <2>1, <2>2
<1> HIDE DEF c
<1>6. MessageWork(e)' < MessageWork(e)
  BY <1>1, <1>2, <1>4, <1>5 DEF MessageWork, Stages
<1>7. \A d \in Calls : d # e => \A a \in Stages : At(d, a)' <=> At(d, a)
  BY <1>2, <1>4, <1>5
<1>8. /\ pc' = pc
      /\ \A d \in Calls : /\ d \in requests' <=> d \in requests
                          /\ (\E m \in answers' : m.id = d) <=> (\E m \in answers : m.id = d)
  OBVIOUS
<1>9. Work(e)' < Work(e) /\ \A d \in Calls : Work(d)' <= Work(d)
  BY <1>6, <1>7, <1>8, MessageAdvances
<1> QED
  BY <1>9

LEMMA ThreadSteps ==
  ASSUME IInv, NEW c \in Calls,
         \/ UserCall(c) \/ NewDescribe(c) \/ SendRequest(c) \/ Return(c)
         \/ \E k \in Conns : NestedCall(k, c)
  PROVE  Work(c)' < Work(c) /\ \A d \in Calls : Work(d)' <= Work(d)
<1>1. \A d \in Calls, a \in Stages : At(d, a)' <=> At(d, a)
  BY DEF UserCall, NewDescribe, SendRequest, Return, NestedCall, loopVars, At
<1>2. answers' = answers
  BY DEF UserCall, NewDescribe, SendRequest, Return, NestedCall, netVars
<1>3. \/ pc[c] = "idle" /\ pc' = [pc EXCEPT ![c] = "begun"]
      \/ pc[c] = "begun" /\ pc' = [pc EXCEPT ![c] = "described"]
      \/ pc[c] = "described" /\ pc' = [pc EXCEPT ![c] = "sent"]
      \/ pc[c] = "sent" /\ pc' = [pc EXCEPT ![c] = "returned"]
  BY DEF UserCall, NewDescribe, SendRequest, Return, NestedCall, Begin
<1>4. \A d \in Calls : d # c => pc'[d] = pc[d]
  BY <1>3 DEF IInv, TypeOK
<1>5. \/ pc[c] = "idle" /\ pc'[c] = "begun"
      \/ pc[c] = "begun" /\ pc'[c] = "described"
      \/ pc[c] = "described" /\ pc'[c] = "sent"
      \/ pc[c] = "sent" /\ pc'[c] = "returned"
  BY <1>3 DEF IInv, TypeOK
<1>6. \A d \in Calls : d # c \/ pc'[c] # "sent" => (d \in requests' <=> d \in requests)
  <2>1. CASE SendRequest(c)
    BY <2>1 DEF SendRequest, IInv, TypeOK
  <2>2. CASE ~SendRequest(c)
    BY <2>2 DEF UserCall, NewDescribe, Return, NestedCall, netVars
  <2> QED
    BY <2>1, <2>2
<1> QED
  BY <1>1, <1>2, <1>4, <1>5, <1>6, ThreadAdvances

LEMMA RespondAdvances ==
  ASSUME IInv, NEW c \in Calls, NEW r \in RCodes, Respond(c, r)
  PROVE  Work(c)' < Work(c) /\ \A d \in Calls : Work(d)' <= Work(d)
<1>1. /\ pc' = pc /\ c \in requests /\ requests' = requests \ {c}
      /\ answers' = answers \cup {[id |-> c, rcode |-> r]}
      /\ \A d \in Calls, a \in Stages : At(d, a)' <=> At(d, a)
  BY DEF Respond, callVars, loopVars, At
<1>2. pc[c] \in {"sent", "returned"}
  BY <1>1 DEF IInv, CallsConsistent, RequestsPending
<1>3. \E m \in answers' : m.id = c
  <2>1. [id |-> c, rcode |-> r] \in answers'
    BY <1>1
  <2> QED
    BY <2>1
<1>4. MessageWork(c)' < MessageWork(c)
  BY <1>1, <1>2, <1>3 DEF MessageWork
<1>5. \A d \in Calls : d # c =>
        /\ d \in requests' <=> d \in requests
        /\ (\E m \in answers' : m.id = d) <=> (\E m \in answers : m.id = d)
  BY <1>1
<1> QED
  BY <1>1, <1>4, <1>5, MessageAdvances

LEMMA OnMessageAdvances ==
  ASSUME IInv, NEW k \in Conns, OnMessage(k)
  PROVE  \E c \in Calls : Work(c)' < Work(c) /\ \A d \in Calls : Work(d)' <= Work(d)
<1>1. PICK m \in answers : answers' = answers \ {m} /\ cur' = [cur EXCEPT ![k] = m]
  BY DEF OnMessage
<1>2. /\ pc' = pc /\ requests' = requests
      /\ at[k] = "idle" /\ at' = [at EXCEPT ![k] = "lookup"]
  BY DEF OnMessage, callVars
<1>3. m \in Responses /\ answers \subseteq Responses
  BY DEF IInv, TypeOK
<1>4. PICK c \in Calls : c = m.id
  BY <1>3 DEF Responses
\* It was on its way back, and nothing else of this call is.
<1>5. /\ c \notin requests /\ pc[c] \in {"sent", "returned"}
      /\ \A n \in answers' : n.id # c
  <2>1. executed[c] = m.rcode /\ m.rcode # None
    BY <1>3, <1>4, ConstantsAssumption DEF IInv, CallsConsistent, AnswersPending, Responses
  <2>2. c \notin requests
    BY <2>1 DEF IInv, CallsConsistent, RequestsPending
  <2>3. pc[c] \in {"sent", "returned"}
    BY <2>1 DEF IInv, TypeOK, CallsConsistent, UnsentIsUnknown
  <2>4. ASSUME NEW n \in answers, n.id = c PROVE n = m
    <3>1. n.rcode = m.rcode
      BY <2>1, <2>4 DEF IInv, CallsConsistent, AnswersPending
    <3>2. n \in Responses
      BY <1>3
    <3> QED
      BY <1>3, <1>4, <2>4, <3>1, <3>2 DEF Responses
  <2> QED
    BY <1>1, <2>2, <2>3, <2>4
<1>6. /\ \A j \in Conns : at'[j] = IF j = k THEN "lookup" ELSE at[j]
      /\ \A j \in Conns : cur'[j] = IF j = k THEN m ELSE cur[j]
  BY <1>1, <1>2 DEF IInv, TypeOK
<1>7. MessageWork(c)' < MessageWork(c)
  BY <1>1, <1>2, <1>4, <1>5 DEF MessageWork
<1>8. \A d \in Calls : d # c => \A a \in Stages : At(d, a)' <=> At(d, a)
  BY <1>2, <1>4, <1>6 DEF At, Stages
<1>9. \A d \in Calls : d # c =>
        /\ d \in requests' <=> d \in requests
        /\ (\E n \in answers' : n.id = d) <=> (\E n \in answers : n.id = d)
  BY <1>1, <1>2, <1>4
<1> QED
  BY <1>2, <1>7, <1>8, <1>9, MessageAdvances

LEMMA LoopAdvances ==
  ASSUME IInv, NEW k \in Conns, LoopStep(k)
  PROVE  \E c \in Calls : Work(c)' < Work(c) /\ \A d \in Calls : Work(d)' <= Work(d)
<1>1. CASE OnMessage(k)
  BY <1>1, OnMessageAdvances
\* onResponse finds the description, since no response is orphaned.
<1>2. CASE ~OnMessage(k)
  <2>1. cur[k].id \in desc \/ at[k] # "lookup"
    BY DEF IInv, CallsConsistent, HandlersConsistent
  <2>2. /\ \/ at[k] = "lookup" /\ at' = [at EXCEPT ![k] = "found"]
           \/ at[k] = "found" /\ at' = [at EXCEPT ![k] = "callback"]
           \/ at[k] \in {"found", "callback"} /\ at' = [at EXCEPT ![k] = "erase"]
           \/ at[k] = "erase" /\ at' = [at EXCEPT ![k] = "idle"]
        /\ at[k] # "erase" => cur' = cur
        /\ UNCHANGED <<pc, requests, answers>>
    <3> USE DEF callVars, netVars
    <3>1. CASE GetDescribe(k)
      BY <2>1, <3>1 DEF GetDescribe
    <3>2. CASE SetResponse(k) \/ SetFuture(k)
      BY <3>2 DEF SetResponse, SetFuture
    <3>3. CASE InvokeCallback(k)
      BY <3>3 DEF InvokeCallback
    <3>4. CASE CallbackReturns(k)
      BY <3>4 DEF CallbackReturns
    <3>5. CASE DelDescribe(k)
      BY <3>5 DEF DelDescribe, Finish
    <3> QED
      BY <1>2, <3>1, <3>2, <3>3, <3>4, <3>5 DEF LoopStep
  <2>3. /\ \/ at[k] = "lookup" /\ at'[k] = "found"
           \/ at[k] = "found" /\ at'[k] = "callback"
           \/ at[k] \in {"found", "callback"} /\ at'[k] = "erase"
           \/ at[k] = "erase" /\ at'[k] = "idle"
        /\ \A j \in Conns : j # k => at'[j] = at[j]
    BY <2>2 DEF IInv, TypeOK
  <2> QED
    BY <2>2, <2>3, HandlerAdvances
<1> QED
  BY <1>1, <1>2

\* What a connection that goes down takes with it is not work any more.
LEMMA LossRaisesNothing ==
  ASSUME IInv, NEW k \in Conns, ConnectionLost(k), NEW c \in Calls
  PROVE  Work(c)' <= Work(c)
<1>1. /\ pc' = pc /\ requests' \subseteq requests /\ answers' \subseteq answers
      /\ \A a \in Stages : At(c, a)' <=> At(c, a)
  BY DEF ConnectionLost, callVars, loopVars, At
<1>2. ThreadWork(c)' = ThreadWork(c)
  BY <1>1 DEF ThreadWork
<1>3. MessageWork(c)' <= MessageWork(c)
  BY <1>1 DEF MessageWork, Stages
<1> QED
  BY <1>2, <1>3, WorkType DEF Work

LEMMA WorkStep ==
  ASSUME IInv, [Next]_vars
  PROVE  /\ \A c \in Calls : Work(c)' <= Work(c)
         /\ Works => \E c \in Calls : Work(c)' < Work(c)
<1>1. CASE Works
  <2>1. \E c \in Calls : Work(c)' < Work(c) /\ \A d \in Calls : Work(d)' <= Work(d)
    BY <1>1, ThreadSteps, RespondAdvances, LoopAdvances DEF Works
  <2> QED
    BY <2>1
<1>2. CASE ~Works
  <2>1. CASE \E k \in Conns : ConnectionLost(k)
    BY <1>2, <2>1, LossRaisesNothing
  <2>2. CASE \/ \E k \in Conns : LinkStep(k)
             \/ \E c \in Calls : NullConnection(c)
             \/ UNCHANGED vars
    <3>1. /\ pc' = pc /\ requests' = requests /\ answers' = answers
          /\ at' = at /\ cur' = cur
      BY <2>2 DEF LinkStep, CountDown, SetConnection, NullConnection, vars,
                  callVars, loopVars, netVars
    <3>2. \A c \in Calls : Work(c)' = Work(c)
      BY <3>1, WorkKept DEF At
    <3> QED
      BY <1>2, <3>2, WorkInt
  <2> QED
    BY <1>2, <2>1, <2>2 DEF Next, CallStep, Works
<1> QED
  BY <1>1, <1>2

\* The other half of "every call concludes": from its beginning a call takes at most
\* eleven steps, which no other step repeats or undoes, and there is always one to
\* take unless a callback waits for itself (NothingElseBlocks).
THEOREM WorkAlwaysRunsOut == Spec => WorkRunsOut
<1>1. IInv /\ [Next]_vars =>
        [/\ \A c \in Calls : Work(c)' <= Work(c)
         /\ Works => \E c \in Calls : Work(c)' < Work(c)]_vars
  BY WorkStep
<1> QED
  BY <1>1, IInvAlways, PTL DEF Spec, WorkRunsOut
=============================================================================
