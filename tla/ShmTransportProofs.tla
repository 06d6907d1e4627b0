------------------------- MODULE ShmTransportProofs -------------------------
(***************************************************************************)
(* Proofs about ShmTransport for every number of calls, every set of       *)
(* caller ids and both timeout modes, and about ShmLifecycle for every     *)
(* number of clients of one name.  The two share no variable.              *)
(***************************************************************************)
EXTENDS ShmTransport, ShmLifecycle, FiniteSetTheorems, TLAPS

(* The messages and replies the code builds are well typed.                *)
LEMMA ConstantContents ==
    /\ Zeroed \in Content
    /\ Partial \in Content
    /\ \A c \in 0..MaxCalls, i \in RequestIds : Whole(c, i) \in Content
    /\ NoReply \in Replies
    /\ ErrorReply \in Replies
    /\ \A c \in 0..MaxCalls, i \in RequestIds : Response(c, i) \in Replies
  BY ShmAssumption DEF Zeroed, Partial, Whole, Content, NoReply, ErrorReply,
     Response, Replies, RequestIds

(* A deserialization produces a well-typed message, mixtures included.     *)
LEMMA DeserializedType ==
    ASSUME NEW a \in Content, NEW b \in Content, NEW m \in Deserialized(a, b)
    PROVE  m \in Content
  <1>1. CASE m \in {a, b}
    BY <1>1
  <1>2. CASE m = Whole(0, a.id) \/ m = Whole(0, b.id)
    <2>1. a.id \in RequestIds /\ b.id \in RequestIds /\ 0 \in 0..MaxCalls
      BY ShmAssumption DEF Content
    <2> QED
      BY <1>2, <2>1, ConstantContents
  <1>3. m \in {b} \cup {v \in {a, b} : v.whole} \cup {Whole(0, v.id) : v \in {a, b}}
    BY DEF Deserialized
  <1> QED
    BY <1>1, <1>2, <1>3

(* Reading a whole buffer that nobody touches meanwhile gives its content, *)
(* and cannot throw.                                                       *)
LEMMA CleanRead ==
    ASSUME NEW a, a.whole
    PROVE  Deserialized(a, a) = {a} /\ ~TornRead(a, a)
  BY DEF Deserialized, TornRead

-----------------------------------------------------------------------------

LEMMA TypeInit == Init => TypeOK
  <1>1. 0 \in RequestIds
    BY ShmAssumption DEF RequestIds
  <1> QED
    BY <1>1, ShmAssumption, ConstantContents
    DEF Init, TypeOK, ClientPcs, ServerPcs, Calls

LEMMA TypeStep == TypeOK /\ [Next]_vars => TypeOK'
  <1> SUFFICES ASSUME TypeOK, [Next]_vars PROVE TypeOK'
    OBVIOUS
  <1> USE ShmAssumption DEF TypeOK, ClientPcs, ServerPcs
  <1>1. ASSUME NEW i \in CallerIds, Generate(i) PROVE TypeOK'
    <2>1. call' \in 1..MaxCalls /\ nextId' \in 1..(call' + 1)
      BY <1>1 DEF Generate
    <2>2. rid' \in RequestIds /\ hdrId' \in RequestIds
      BY <1>1 DEF Generate, RequestIds
    <2> QED
      BY <1>1, <2>1, <2>2, ConstantContents DEF Generate, server, history
  <1>2. CASE BeginSerializeRequest
    BY <1>2, ConstantContents DEF BeginSerializeRequest, server, history
  <1>3. CASE EndSerializeRequest
    <2>1. callerId \in RequestIds
      BY DEF RequestIds
    <2> QED
      BY <1>3, <2>1, ConstantContents DEF EndSerializeRequest, server, history
  <1>4. CASE RequestTooLarge
    BY <1>4, ConstantContents DEF RequestTooLarge, Return, shared, server, history
  <1>5. CASE PostRequest
    BY <1>5 DEF PostRequest, server, Calls
  <1>6. CASE TakeResponse
    BY <1>6, ConstantContents DEF TakeResponse, Return, server, history
  <1>7. CASE GiveUp
    BY <1>7, ConstantContents DEF GiveUp, Return, shared, server
  <1>8. CASE ReceiveResponse
    <2>1. \A m \in Deserialized(cview, respBuf) : Response(m.call, m.id) \in Replies
      <3> TAKE m \in Deserialized(cview, respBuf)
      <3>1. m \in Content
        BY DeserializedType
      <3> QED
        BY <3>1, ConstantContents DEF Content
    <2>2. reply' \in Replies /\ cpc' \in ClientPcs
      BY <1>8, <2>1, ConstantContents DEF ReceiveResponse, Return
    <2> QED
      BY <1>8, <2>2 DEF ReceiveResponse, shared, server, history
  <1>9. CASE ServeOne
    BY <1>9 DEF ServeOne, shared, client, history
  <1>10. CASE ServeTimeout
    BY <1>10 DEF ServeTimeout, shared, client, history
  <1>11. CASE TakeRequest
    BY <1>11 DEF TakeRequest, client, history
  <1>12. CASE ReceiveRequest
    <2>1. \A m \in Deserialized(sview, reqBuf) :
            Whole(m.call, IF m.id = 0 THEN hdrId ELSE m.id) \in Content
      <3> TAKE m \in Deserialized(sview, reqBuf)
      <3>1. m \in Content
        BY DeserializedType
      <3> QED
        BY <3>1, ConstantContents DEF Content
    <2>2. sreq' \in Content /\ spc' \in ServerPcs /\ status' \in 0..2
      BY <1>12, <2>1 DEF ReceiveRequest
    <2> QED
      BY <1>12, <2>2 DEF ReceiveRequest, shared, client, history
  <1>13. CASE Handle
    <2>1. sreq.call \in 0..MaxCalls
      BY DEF Content
    <2>2. handled' \in [0..MaxCalls -> Nat]
      BY <1>13, <2>1 DEF Handle
    <2> QED
      BY <1>13, <2>2 DEF Handle, shared, client
  <1>14. CASE BeginSerializeResponse
    BY <1>14, ConstantContents DEF BeginSerializeResponse, client, history
  <1>15. CASE EndSerializeResponse
    BY <1>15 DEF EndSerializeResponse, client, history
  <1>16. CASE PostResponse
    BY <1>16, ConstantContents DEF PostResponse, client, history
  <1>17. CASE StopServer
    BY <1>17 DEF StopServer, shared, client, history
  <1>d. CASE ServerDies
    <2>1. lost' \in Nat
      BY <1>d DEF ServerDies
    <2> QED
      BY <1>d, <2>1 DEF ServerDies, shared, client
  <1>a. CASE AttachServer
    BY <1>a DEF AttachServer, shared, client, history
  <1>18. CASE UNCHANGED vars
    BY <1>18 DEF vars, shared, client, server, history
  <1> QED
    BY <1>1, <1>2, <1>3, <1>4, <1>5, <1>6, <1>7, <1>8, <1>9, <1>10, <1>11,
       <1>12, <1>13, <1>14, <1>15, <1>16, <1>17, <1>d, <1>a, <1>18
    DEF Next, ClientStep, ServerStep

(* Every variable keeps its type; in particular no semaphore is ever taken *)
(* below zero.                                                             *)
THEOREM TypeCorrect == Spec => []TypeOK
  BY TypeInit, TypeStep, PTL DEF Spec

-----------------------------------------------------------------------------
(* Tokens.                                                                 *)

LEMMA TokenStep ==
    TypeOK /\ TokenConservation /\ [Next]_vars => TokenConservation'
  <1> SUFFICES ASSUME TypeOK, TokenConservation, [Next]_vars
               PROVE  TokenConservation'
    OBVIOUS
  <1> USE DEF TypeOK, TokenConservation, Serving
  <1>1. ASSUME NEW i \in CallerIds, Generate(i) PROVE TokenConservation'
    BY <1>1 DEF Generate, server, history
  <1>2. CASE BeginSerializeRequest
    BY <1>2 DEF BeginSerializeRequest, server, history
  <1>3. CASE EndSerializeRequest
    BY <1>3 DEF EndSerializeRequest, server, history
  <1>4. CASE RequestTooLarge
    BY <1>4 DEF RequestTooLarge, Return, shared, server, history
  <1>5. CASE PostRequest
    BY <1>5 DEF PostRequest, server
  <1>6. CASE TakeResponse
    BY <1>6 DEF TakeResponse, Return, server, history
  <1>7. CASE GiveUp
    BY <1>7 DEF GiveUp, Return, shared, server
  <1>8. CASE ReceiveResponse
    BY <1>8 DEF ReceiveResponse, Return, shared, server, history
  <1>9. CASE ServeOne
    BY <1>9 DEF ServeOne, shared, client, history
  <1>10. CASE ServeTimeout
    BY <1>10 DEF ServeTimeout, shared, client, history
  <1>11. CASE TakeRequest
    BY <1>11 DEF TakeRequest, client, history
  <1>12. CASE ReceiveRequest
    BY <1>12 DEF ReceiveRequest, shared, client, history
  <1>13. CASE Handle
    BY <1>13 DEF Handle, shared, client
  <1>14. CASE BeginSerializeResponse
    BY <1>14 DEF BeginSerializeResponse, client, history
  <1>15. CASE EndSerializeResponse
    BY <1>15 DEF EndSerializeResponse, client, history
  <1>16. CASE PostResponse
    BY <1>16 DEF PostResponse, client, history
  <1>17. CASE StopServer
    BY <1>17 DEF StopServer, shared, client, history
  <1>d. CASE ServerDies
    BY <1>d DEF ServerDies, Serving, shared, client
  <1>a. CASE AttachServer
    BY <1>a DEF AttachServer, shared, client, history
  <1>18. CASE UNCHANGED vars
    BY <1>18 DEF vars, shared, client, server, history
  <1> QED
    BY <1>1, <1>2, <1>3, <1>4, <1>5, <1>6, <1>7, <1>8, <1>9, <1>10, <1>11,
       <1>12, <1>13, <1>14, <1>15, <1>16, <1>17, <1>d, <1>a, <1>18
    DEF Next, ClientStep, ServerStep

(* Every posted request is in exactly one place, and each timeout leaves   *)
(* one token in the circuit for ever, in both timeout modes.               *)
THEOREM TokensConserved == Spec => []TokenConservation
  <1>1. Init => TokenConservation
    BY DEF Init, TokenConservation, Serving
  <1> QED
    BY <1>1, TokenStep, TypeCorrect, PTL DEF Spec

-----------------------------------------------------------------------------
(* While no call has timed out.                                            *)

(* There is one token at most, and it exists exactly while the client      *)
(* waits: the two sides take turns.                                        *)
LEMMA OneToken ==
    ASSUME TypeOK, TokenConservation, timeouts = 0
    PROVE  /\ cpc # "wait" => reqSem = 0 /\ respSem = 0 /\ ~Serving
           /\ Serving => cpc = "wait" /\ reqSem = 0 /\ respSem = 0
           /\ reqSem > 0 => cpc = "wait" /\ respSem = 0 /\ ~Serving
           /\ respSem > 0 => cpc = "wait" /\ reqSem = 0 /\ ~Serving
  BY DEF TypeOK, TokenConservation, Serving

LEMMA CleanInit == Init => CleanInv
  BY DEF Init, CleanInv, ClientInv, ServerInv, HandledInv, Calls, NoReply

LEMMA CleanStep ==
    TypeOK /\ TokenConservation /\ CleanInv /\ [Next]_vars => CleanInv'
  <1> SUFFICES ASSUME TypeOK, TokenConservation, CleanInv, [Next]_vars,
                      timeouts' = 0
               PROVE  (ClientInv /\ ServerInv /\ HandledInv)'
    BY DEF CleanInv
  <1>0. timeouts = 0 /\ ClientInv /\ ServerInv /\ HandledInv
    <2>1. timeouts \in Nat /\ (timeouts' = timeouts \/ timeouts' = timeouts + 1)
      BY DEF TypeOK, Next, ClientStep, ServerStep, Generate,
         BeginSerializeRequest, EndSerializeRequest, RequestTooLarge,
         PostRequest, TakeResponse, GiveUp, ReceiveResponse, ServeOne,
         ServeTimeout, TakeRequest, ReceiveRequest, Handle,
         BeginSerializeResponse, EndSerializeResponse, PostResponse,
         StopServer, ServerDies, AttachServer, vars, history
    <2> QED
      BY <2>1 DEF CleanInv
  <1>t. /\ cpc # "wait" => reqSem = 0 /\ respSem = 0 /\ ~Serving
        /\ Serving => cpc = "wait" /\ reqSem = 0 /\ respSem = 0
        /\ reqSem > 0 => cpc = "wait" /\ respSem = 0 /\ ~Serving
        /\ respSem > 0 => cpc = "wait" /\ reqSem = 0 /\ ~Serving
    BY <1>0, OneToken
  <1> USE <1>0 DEF TypeOK, Serving, ClientInv, ServerInv, HandledInv, Own
  <1>1. ASSUME NEW i \in CallerIds, Generate(i)
        PROVE  (ClientInv /\ ServerInv /\ HandledInv)'
    BY <1>1, <1>t, ShmAssumption
    DEF Generate, server, history, NoReply, Calls
  <1>2. CASE BeginSerializeRequest
    BY <1>2, <1>t DEF BeginSerializeRequest, server, history
  <1>3. CASE EndSerializeRequest
    BY <1>3, <1>t DEF EndSerializeRequest, server, history
  <1>4. CASE RequestTooLarge
    BY <1>4, <1>t DEF RequestTooLarge, Return, ErrorReply, shared, server, history
  <1>5. CASE PostRequest
    BY <1>5, <1>t DEF PostRequest, server
  <1>6. CASE TakeResponse
    BY <1>6, <1>t DEF TakeResponse, Return, ErrorReply, server, history
  <1>7. CASE GiveUp
    BY <1>7 DEF GiveUp
  <1>8. CASE ReceiveResponse
    <2>1. Own.whole /\ Own.call = call /\ Own.id = rid
      BY DEF Own, Whole
    <2>2. cpc = "receive" /\ cview = Own /\ respBuf = Own
      BY <1>8 DEF ReceiveResponse
    <2>3. Deserialized(cview, respBuf) = {Own} /\ ~TornRead(cview, respBuf)
      BY <2>1, <2>2, CleanRead DEF Own
    <2>4. cpc' = "idle" /\ reply' = Response(call, rid)
      BY <1>8, <2>1, <2>3 DEF ReceiveResponse, Return
    <2> QED
      BY <1>8, <2>4, <1>t DEF ReceiveResponse, shared, server, history
  <1>9. CASE ServeOne
    BY <1>9, <1>t DEF ServeOne, shared, client, history
  <1>10. CASE ServeTimeout
    BY <1>10, <1>t DEF ServeTimeout, shared, client, history
  <1>11. CASE TakeRequest
    BY <1>11, <1>t DEF TakeRequest, client, history
  <1>12. CASE ReceiveRequest
    <2>1. cpc = "wait" /\ sview = Whole(call, callerId) /\ reqBuf = sview
      BY <1>12, <1>t DEF ReceiveRequest
    <2>2. sview.whole /\ sview.call = call /\ sview.id = callerId
      BY <2>1 DEF Whole
    <2>3. Deserialized(sview, reqBuf) = {sview} /\ ~TornRead(sview, reqBuf)
      BY <2>1, <2>2, CleanRead
    <2>4. sreq' = Whole(call, rid) /\ spc' = "handle" /\ handled[call] = 0
      BY <1>12, <1>t, <2>1, <2>2, <2>3 DEF ReceiveRequest
    <2> QED
      BY <1>12, <1>t, <2>4, <2>1 DEF ReceiveRequest, shared, client, history
  <1>13. CASE Handle
    <2>1. cpc = "wait" /\ sreq.call = call /\ handled[call] = 0 /\ call \in 1..MaxCalls
      BY <1>13, <1>t DEF Handle, Whole
    <2>2. handled' = [handled EXCEPT ![call] = 1]
      BY <1>13, <2>1 DEF Handle
    <2>3. handled'[call] = 1 /\ \A c \in Calls : c # call => handled'[c] = handled[c]
      BY <2>1, <2>2 DEF Calls
    <2> QED
      BY <1>13, <1>t, <2>1, <2>3 DEF Handle, shared, client, Calls
  <1>14. CASE BeginSerializeResponse
    BY <1>14, <1>t DEF BeginSerializeResponse, client, history
  <1>15. CASE EndSerializeResponse
    BY <1>15, <1>t DEF EndSerializeResponse, client, history
  <1>16. CASE PostResponse
    BY <1>16, <1>t DEF PostResponse, client, history
  <1>17. CASE StopServer
    BY <1>17, <1>t DEF StopServer, shared, client, history
  <1>d. CASE ServerDies
    BY <1>d, <1>t DEF ServerDies, shared, client
  <1>a. CASE AttachServer
    BY <1>a, <1>t DEF AttachServer, shared, client, history
  <1>18. CASE UNCHANGED vars
    BY <1>18, <1>t DEF vars, shared, client, server, history
  <1> QED
    BY <1>1, <1>2, <1>3, <1>4, <1>5, <1>6, <1>7, <1>8, <1>9, <1>10, <1>11,
       <1>12, <1>13, <1>14, <1>15, <1>16, <1>17, <1>d, <1>a, <1>18
    DEF Next, ClientStep, ServerStep

LEMMA CleanInvariant == Spec => [](TypeOK /\ TokenConservation /\ CleanInv)
  BY TypeCorrect, TokensConserved, CleanInit, CleanStep, PTL DEF Spec

(* Until a call times out there is no data race on either buffer and each  *)
(* call that returns a response returns the one to its own request.        *)
THEOREM CleanUntilFirstTimeout == Spec => []CleanUntilTimeout
  <1>1. ASSUME TypeOK, TokenConservation, CleanInv PROVE CleanUntilTimeout
    <2> SUFFICES ASSUME timeouts = 0
                 PROVE  NoDataRace /\ (reply.kind = "ok" => reply = Response(call, rid))
      BY DEF CleanUntilTimeout
    <2>1. ClientInv /\ ServerInv
      BY <1>1 DEF CleanInv
    <2>2. spc = "receive" => ~TornRead(sview, reqBuf)
      BY <1>1, <2>1, OneToken DEF ServerInv, ClientInv, Serving, TornRead, Whole
    <2>w. Own.whole
      BY DEF Own, Whole
    <2>3. cpc = "receive" => ~TornRead(cview, respBuf)
      BY <2>1, <2>w DEF ClientInv, TornRead
    <2> QED
      BY <2>1, <2>2, <2>3 DEF NoDataRace, ClientInv
  <1> QED
    BY <1>1, CleanInvariant, PTL

-----------------------------------------------------------------------------
(* Without a client timeout.                                               *)

LEMMA NeverTimesOut ==
    ASSUME ~ClientTimeout
    PROVE  Spec => [](timeouts = 0)
  <1>1. Init => timeouts = 0
    BY DEF Init
  <1>2. timeouts = 0 /\ [Next]_vars => (timeouts = 0)'
    BY DEF Next, ClientStep, ServerStep, Generate, BeginSerializeRequest,
       EndSerializeRequest, RequestTooLarge, PostRequest, TakeResponse, GiveUp,
       ReceiveResponse, ServeOne, ServeTimeout, TakeRequest, ReceiveRequest,
       Handle, BeginSerializeResponse, EndSerializeResponse, PostResponse,
       StopServer, ServerDies, AttachServer, vars, history
  <1> QED
    BY <1>1, <1>2, PTL DEF Spec

LEMMA RpcInit == Init => Rpc!Init
  BY ShmAssumption DEF Init, Rpc!Init, NoReply, Rpc!NoReply, Calls

(* Generate invokes, Handle executes, the returns return; every other step *)
(* leaves the abstract call alone.                                         *)
LEMMA RpcStep ==
    ASSUME TypeOK, TokenConservation, CleanInv, timeouts = 0, timeouts' = 0,
           [Next]_vars
    PROVE  [Rpc!Next]_(Rpc!rpcVars)
  <1> DEFINE runs == [c \in Calls |-> handled[c]]
  <1>0. ClientInv /\ ServerInv /\ HandledInv
    BY DEF CleanInv
  <1>t. /\ cpc # "wait" => reqSem = 0 /\ respSem = 0 /\ ~Serving
        /\ Serving => cpc = "wait" /\ reqSem = 0 /\ respSem = 0
        /\ reqSem > 0 => cpc = "wait" /\ respSem = 0 /\ ~Serving
        /\ respSem > 0 => cpc = "wait" /\ reqSem = 0 /\ ~Serving
    BY OneToken
  <1>c. cpc # "idle" => call \in Calls
    BY <1>0 DEF ClientInv, TypeOK, Calls
  <1>u. ASSUME UNCHANGED <<call, rid, handled, reply>>, (cpc # "idle") = (cpc' # "idle")
        PROVE  UNCHANGED Rpc!rpcVars
    BY <1>u DEF Rpc!rpcVars
  <1>e. ASSUME cpc # "idle", cpc' = "idle", reply' = ErrorReply,
               UNCHANGED <<call, rid, handled>>
        PROVE  Rpc!Next
    BY <1>e DEF Rpc!Next, Rpc!ReturnError, Rpc!ErrorReply, ErrorReply
  <1>1. ASSUME NEW i \in CallerIds, Generate(i) PROVE Rpc!Next
    <2>1. rid' \in RequestIds
      BY <1>1, TypeStep DEF TypeOK
    <2>2. Rpc!Invoke(rid')
      BY <1>1 DEF Generate, history, Rpc!Invoke, NoReply, Rpc!NoReply
    <2> QED
      BY <2>1, <2>2 DEF Rpc!Next
  <1>2. CASE BeginSerializeRequest
    BY <1>2, <1>u DEF BeginSerializeRequest, history
  <1>3. CASE EndSerializeRequest
    BY <1>3, <1>u DEF EndSerializeRequest, history
  <1>4. CASE RequestTooLarge
    BY <1>4, <1>e DEF RequestTooLarge, Return, history
  <1>5. CASE PostRequest
    BY <1>5, <1>u DEF PostRequest
  <1>6. CASE TakeResponse
    <2>1. CASE respStatus # 0
      BY <1>6, <2>1, <1>e DEF TakeResponse, Return, history
    <2>2. CASE respStatus = 0
      BY <1>6, <2>2, <1>u DEF TakeResponse, Return, history
    <2> QED
      BY <2>1, <2>2
  <1>7. CASE GiveUp
    BY <1>7 DEF GiveUp, TypeOK
  <1>8. CASE ReceiveResponse
    <2>0. Own.whole /\ Own.call = call /\ Own.id = rid
      BY DEF Own, Whole
    <2>1. cpc = "receive" /\ cview = Own /\ respBuf = Own /\ handled[call] = 1
      BY <1>8, <1>0 DEF ReceiveResponse, ClientInv, HandledInv
    <2>2. Deserialized(cview, respBuf) = {Own} /\ ~TornRead(cview, respBuf)
      BY <2>0, <2>1, CleanRead
    <2>3. cpc' = "idle" /\ reply' = Response(call, rid)
      BY <1>8, <2>0, <2>2 DEF ReceiveResponse, Return
    <2>4. call \in Calls /\ UNCHANGED <<call, rid, handled>>
      BY <1>8, <1>c DEF ReceiveResponse, history
    <2>5. Rpc!ReturnResponse
      BY <2>1, <2>3, <2>4 DEF Rpc!ReturnResponse, Rpc!Response, Response
    <2> QED
      BY <2>5 DEF Rpc!Next
  <1>9. CASE ServeOne
    BY <1>9, <1>u DEF ServeOne, client, history
  <1>10. CASE ServeTimeout
    BY <1>10, <1>u DEF ServeTimeout, client, history
  <1>11. CASE TakeRequest
    BY <1>11, <1>u DEF TakeRequest, client, history
  <1>12. CASE ReceiveRequest
    BY <1>12, <1>u DEF ReceiveRequest, client, history
  <1>13. CASE Handle
    <2>1. cpc = "wait" /\ sreq = Own /\ handled[call] = 0 /\ call \in Calls
      BY <1>13, <1>0, <1>t, <1>c DEF Handle, ServerInv, HandledInv, Serving
    <2>h. handled \in [0..MaxCalls -> Nat] /\ sreq.call = call
      BY <2>1 DEF TypeOK, Own, Whole
    <2>2. \A c \in Calls : handled'[c] = IF c = call THEN 1 ELSE handled[c]
      BY <1>13, <2>1, <2>h DEF Handle, Calls
    <2>3. runs' = [runs EXCEPT ![call] = 1]
      BY <2>1, <2>2
    <2>4. Rpc!Execute
      BY <1>13, <2>1, <2>3 DEF Rpc!Execute, Handle, client
    <2> QED
      BY <2>4 DEF Rpc!Next
  <1>14. CASE BeginSerializeResponse
    BY <1>14, <1>u DEF BeginSerializeResponse, client, history
  <1>15. CASE EndSerializeResponse
    BY <1>15, <1>u DEF EndSerializeResponse, client, history
  <1>16. CASE PostResponse
    BY <1>16, <1>u DEF PostResponse, client, history
  <1>17. CASE StopServer
    BY <1>17, <1>u DEF StopServer, client, history
  <1>d. CASE ServerDies
    BY <1>d, <1>u DEF ServerDies, client
  <1>a. CASE AttachServer
    BY <1>a, <1>u DEF AttachServer, client, history
  <1>18. CASE UNCHANGED vars
    BY <1>18, <1>u DEF vars, client, history
  <1> QED
    BY <1>1, <1>2, <1>3, <1>4, <1>5, <1>6, <1>7, <1>8, <1>9, <1>10, <1>11,
       <1>12, <1>13, <1>14, <1>15, <1>16, <1>17, <1>d, <1>a, <1>18
    DEF Next, ClientStep, ServerStep

(* A client that waits without a timeout makes synchronous calls: the      *)
(* shared-memory protocol implements RolloutRpc, so each request is        *)
(* executed at most once, while its call is open, and answered by its own  *)
(* response or an error.                                                   *)
THEOREM BlockingRefinesRpc ==
    ASSUME ~ClientTimeout
    PROVE  Spec => RefinesRpc
  <1>1. TypeOK /\ TokenConservation /\ CleanInv /\ timeouts = 0
        /\ (timeouts = 0)' /\ [Next]_vars => [Rpc!Next]_(Rpc!rpcVars)
    BY RpcStep
  <1>2. Spec => [](timeouts = 0)
    BY NeverTimesOut
  <1> QED
    BY <1>1, <1>2, RpcInit, CleanInvariant, PTL DEF Spec, RefinesRpc, Rpc!Spec
-----------------------------------------------------------------------------
(* After timeouts.                                                         *)

(* No more than n + 1 of the posted calls ps are call c or later ones      *)
(* (call 0 is a mixture, of which nothing is said).                        *)
Behind(ps, c, n) == c # 0 => Cardinality({p \in ps : p >= c}) <= n + 1

(* What is posted, and that nothing is returned before the call ends.      *)
PostedInv ==
    /\ posted \subseteq 1..call
    /\ cpc \in {"serialize", "serializing", "post"} => call \notin posted
    /\ cpc = "post" => reqBuf.call = call
    /\ cpc # "idle" => call > 0 /\ reply.kind # "ok"

(* How old a message can be, wherever it is: a request that the server has *)
(* taken is behind by the requests still to be taken, a response by those  *)
(* and the ones being served or lost.                                      *)
LagInv ==
    /\ PostedInv
    /\ Behind(posted, reqBuf.call, 0)
    /\ spc = "receive" => Behind(posted, sview.call, reqSem)
    /\ spc \in {"handle", "serialize", "serializing"} => Behind(posted, sreq.call, reqSem)
    /\ spc = "post" /\ status = 0 => Behind(posted, respBuf.call, reqSem)
    /\ Behind(posted, respBuf.call, reqSem + (IF Serving THEN 1 ELSE 0) + lost)
    /\ cpc = "receive" => Behind(posted, cview.call, timeouts)
    /\ LagBound

(* Counting the posted calls from c on.                                    *)
LEMMA NewerCount ==
    ASSUME NEW ps \in SUBSET (0..MaxCalls), NEW c
    PROVE  Cardinality({p \in ps : p >= c}) \in Nat /\ IsFiniteSet({p \in ps : p >= c})
  <1>1. IsFiniteSet(0..MaxCalls)
    BY FS_Interval, ShmAssumption
  <1>2. IsFiniteSet({p \in ps : p >= c})
    BY <1>1, FS_Subset
  <1> QED
    BY <1>2, FS_CardinalityType

(* A message that is behind by n is behind by any more.                    *)
LEMMA BehindMore ==
    ASSUME NEW ps \in SUBSET (0..MaxCalls), NEW c, NEW n \in Nat, NEW m \in Nat,
           n <= m, Behind(ps, c, n)
    PROVE  Behind(ps, c, m)
  BY NewerCount DEF Behind

(* One more post leaves a message behind by one more at most, and the call *)
(* just posted, the last, is not behind.                                   *)
LEMMA BehindPost ==
    ASSUME NEW ps \in SUBSET (0..MaxCalls), NEW d \in 0..MaxCalls
    PROVE  /\ \A c, n \in Nat : Behind(ps, c, n) => Behind(ps \cup {d}, c, n + 1)
           /\ ps \subseteq 1..d => Behind(ps \cup {d}, d, 0)
  <1>1. ASSUME NEW c \in Nat, NEW n \in Nat, Behind(ps, c, n), c # 0
        PROVE  Cardinality({p \in ps \cup {d} : p >= c}) <= n + 1 + 1
    <2> DEFINE A == {p \in ps : p >= c}
    <2>1. Cardinality(A) \in Nat /\ IsFiniteSet(A) /\ Cardinality(A) <= n + 1
      BY <1>1, NewerCount DEF Behind
    <2>2. Cardinality(A \cup {d}) <= Cardinality(A) + 1 /\ IsFiniteSet(A \cup {d})
      <3> HIDE DEF A
      <3>1. Cardinality(A \cup {d}) = IF d \in A THEN Cardinality(A) ELSE Cardinality(A) + 1
        BY <2>1, FS_AddElement
      <3> QED
        BY <2>1, <3>1, FS_AddElement
    <2>3. {p \in ps \cup {d} : p >= c} \subseteq A \cup {d}
      OBVIOUS
    <2>4. /\ Cardinality({p \in ps \cup {d} : p >= c}) <= Cardinality(A \cup {d})
          /\ Cardinality(A \cup {d}) \in Nat
          /\ Cardinality({p \in ps \cup {d} : p >= c}) \in Nat
      BY <2>2, <2>3, FS_Subset, FS_CardinalityType
    <2> HIDE DEF A
    <2> QED
      BY <2>1, <2>2, <2>4
  <1>2. ASSUME ps \subseteq 1..d
        PROVE  Cardinality({p \in ps \cup {d} : p >= d}) <= 1
    <2>1. \A p \in ps \cup {d} : p >= d <=> p = d
      BY <1>2, ShmAssumption
    <2>2. {p \in ps \cup {d} : p >= d} = {d}
      BY <2>1
    <2> QED
      BY <2>2, FS_Singleton
  <1> QED
    BY <1>1, <1>2 DEF Behind

(* A call later than all posted ones is not behind.                        *)
LEMMA BehindNone ==
    ASSUME NEW d \in Nat, NEW ps, ps \subseteq 1..d, d \notin ps
    PROVE  Behind(ps, d, 0)
  <1>0. \A p \in ps : ~(p >= d)
    OBVIOUS
  <1>1. {p \in ps : p >= d} = {}
    BY <1>0
  <1>2. Cardinality({p \in ps : p >= d}) = 0
    BY <1>1, FS_EmptySet
  <1> QED
    BY <1>2 DEF Behind

(* What a deserialization yields is one of its two contents or a mixture.  *)
LEMMA BehindRead ==
    ASSUME NEW ps, NEW a, NEW b, NEW n, Behind(ps, a.call, n), Behind(ps, b.call, n),
           NEW m \in Deserialized(a, b)
    PROVE  Behind(ps, m.call, n)
  <1>1. m \in {a, b} \/ m.call = 0
    BY DEF Deserialized, Whole
  <1> QED
    BY <1>1 DEF Behind

LEMMA LagInit == Init => LagInv
  <1> SUFFICES ASSUME Init PROVE LagInv
    OBVIOUS
  <1>1. reqBuf.call = 0 /\ respBuf.call = 0 /\ spc = "loop" /\ cpc = "idle" /\ posted = {}
        /\ reply.kind = "none"
    BY DEF Init, Zeroed, Whole, NoReply
  <1> QED
    BY <1>1 DEF LagInv, PostedInv, Behind, LagBound

(* The tokens on their way bound the age of the response in the buffer.    *)
Tokens == reqSem + (IF Serving THEN 1 ELSE 0) + lost

LEMMA LagStep ==
    TypeOK /\ TokenConservation /\ LagInv /\ [Next]_vars => LagInv'
  <1> SUFFICES ASSUME TypeOK, TokenConservation, LagInv, [Next]_vars
               PROVE  LagInv'
    OBVIOUS
  <1>0. /\ posted \in SUBSET (0..MaxCalls) /\ call \in 0..MaxCalls
        /\ reqSem \in Nat /\ respSem \in Nat /\ timeouts \in Nat /\ lost \in Nat
        /\ Tokens \in Nat /\ reqSem <= Tokens
        /\ \A m \in Content : m.call \in Nat
        /\ {reqBuf, respBuf, cview, sview, sreq} \subseteq Content
    BY ShmAssumption DEF TypeOK, Tokens, Content
  <1>t. Tokens + respSem = timeouts + (IF cpc = "wait" THEN 1 ELSE 0)
    BY <1>0 DEF TokenConservation, Tokens, Serving
  <1>l. /\ PostedInv
        /\ Behind(posted, reqBuf.call, 0)
        /\ spc = "receive" => Behind(posted, sview.call, reqSem)
        /\ spc \in {"handle", "serialize", "serializing"} => Behind(posted, sreq.call, reqSem)
        /\ spc = "post" /\ status = 0 => Behind(posted, respBuf.call, reqSem)
        /\ Behind(posted, respBuf.call, Tokens)
        /\ cpc = "receive" => Behind(posted, cview.call, timeouts)
        /\ LagBound
    BY DEF LagInv, Tokens
  <1>w. ASSUME /\ PostedInv'
               /\ Behind(posted', reqBuf'.call, 0)
               /\ spc' = "receive" => Behind(posted', sview'.call, reqSem')
               /\ spc' \in {"handle", "serialize", "serializing"} => Behind(posted', sreq'.call, reqSem')
               /\ spc' = "post" /\ status' = 0 => Behind(posted', respBuf'.call, reqSem')
               /\ Behind(posted', respBuf'.call, Tokens')
               /\ cpc' = "receive" => Behind(posted', cview'.call, timeouts')
               /\ LagBound'
        PROVE  LagInv'
    BY <1>w DEF LagInv, Tokens
  <1>p. Partial.call = 0 /\ \A ps, n : Behind(ps, 0, n)
    BY DEF Partial, Behind
  <1>u. ASSUME UNCHANGED <<posted, reqBuf, respBuf, reqSem, lost, spc, sview, sreq, status>>
        PROVE  /\ Behind(posted', reqBuf'.call, 0)
               /\ spc' = "receive" => Behind(posted', sview'.call, reqSem')
               /\ spc' \in {"handle", "serialize", "serializing"} => Behind(posted', sreq'.call, reqSem')
               /\ spc' = "post" /\ status' = 0 => Behind(posted', respBuf'.call, reqSem')
               /\ Behind(posted', respBuf'.call, Tokens')
    <2>1. Tokens' = Tokens
      BY <1>u DEF Tokens, Serving
    <2> QED
      BY <1>u, <1>l, <2>1
  <1>c. ASSUME UNCHANGED <<posted, timeouts, cpc, call, reply, cview>>, cpc = "post" => reqBuf' = reqBuf
        PROVE  /\ PostedInv'
               /\ cpc' = "receive" => Behind(posted', cview'.call, timeouts')
               /\ LagBound'
    BY <1>c, <1>l DEF PostedInv, LagBound
  <1>1. ASSUME NEW i \in CallerIds, Generate(i) PROVE LagInv'
    <2>1. PostedInv' /\ LagBound' /\ cpc' # "receive"
      BY <1>0, <1>1, <1>l DEF Generate, history, PostedInv, NoReply, LagBound
    <2>2. UNCHANGED <<posted, reqBuf, respBuf, reqSem, lost, spc, sview, sreq, status>>
      BY <1>1 DEF Generate, history, server
    <2> QED
      BY <1>u, <1>w, <2>1, <2>2
  <1>2. CASE BeginSerializeRequest
    <2>1. PostedInv' /\ LagBound' /\ cpc' # "receive"
      BY <1>2, <1>l DEF BeginSerializeRequest, history, PostedInv, LagBound
    <2>2. /\ UNCHANGED <<posted, respBuf, reqSem, lost, spc, sview, sreq, status>>
          /\ reqBuf' = Partial
      BY <1>2 DEF BeginSerializeRequest, history, server
    <2>3. Tokens' = Tokens
      BY <2>2 DEF Tokens, Serving
    <2> QED
      BY <1>p, <1>l, <1>w, <2>1, <2>2, <2>3
  <1>3. CASE EndSerializeRequest
    <2>1. reqBuf'.call = call /\ cpc = "serializing"
      BY <1>3 DEF EndSerializeRequest, Whole
    <2>2. PostedInv' /\ LagBound' /\ cpc' # "receive"
      BY <1>3, <1>l, <2>1 DEF EndSerializeRequest, history, PostedInv, LagBound
    <2>3. UNCHANGED <<posted, respBuf, reqSem, lost, spc, sview, sreq, status>>
      BY <1>3 DEF EndSerializeRequest, history, server
    <2>4. Tokens' = Tokens
      BY <2>3 DEF Tokens, Serving
    <2>5. Behind(posted, call, 0)
      <3>1. call \in Nat /\ posted \subseteq 1..call /\ call \notin posted
        BY <1>0, <1>l, <2>1, ShmAssumption DEF PostedInv
      <3> QED
        BY <3>1, BehindNone
    <2> QED
      BY <1>l, <1>w, <2>1, <2>2, <2>3, <2>4, <2>5
  <1>4. CASE RequestTooLarge
    <2>1. PostedInv' /\ LagBound' /\ cpc' # "receive"
      BY <1>4, <1>l DEF RequestTooLarge, Return, history, PostedInv, LagBound, ErrorReply
    <2>2. UNCHANGED <<posted, reqBuf, respBuf, reqSem, lost, spc, sview, sreq, status>>
      BY <1>4 DEF RequestTooLarge, history, server, shared
    <2> QED
      BY <1>u, <1>w, <2>1, <2>2
  <1>5. CASE PostRequest
    <2>1. /\ posted' = posted \cup {call} /\ reqSem' = reqSem + 1 /\ cpc = "post" /\ cpc' = "wait"
          /\ UNCHANGED <<reqBuf, respBuf, lost, spc, sview, sreq, status, call, reply>>
      BY <1>5 DEF PostRequest, server
    <2>2. posted \subseteq 1..call /\ reqBuf.call = call /\ reply.kind # "ok"
      BY <1>l, <2>1 DEF PostedInv
    <2>3. call > 0
      BY <1>l, <2>1 DEF PostedInv
    <2>4. PostedInv' /\ LagBound'
      BY <1>0, <2>1, <2>2, <2>3 DEF PostedInv, LagBound
    <2>5. Tokens' = Tokens + 1
      BY <1>0, <2>1 DEF Tokens, Serving
    <2>6. \A c, n \in Nat : Behind(posted, c, n) => Behind(posted', c, n + 1)
      BY <1>0, <2>1, BehindPost
    <2>7. Behind(posted', reqBuf'.call, 0)
      BY <1>0, <2>1, <2>2, BehindPost
    <2>8. Behind(posted', respBuf'.call, Tokens')
      BY <1>0, <1>l, <2>1, <2>5, <2>6
    <2>9. /\ spc' = "receive" => Behind(posted', sview'.call, reqSem')
          /\ spc' \in {"handle", "serialize", "serializing"} => Behind(posted', sreq'.call, reqSem')
          /\ spc' = "post" /\ status' = 0 => Behind(posted', respBuf'.call, reqSem')
      BY <1>0, <1>l, <2>1, <2>6
    <2> QED
      BY <1>w, <2>1, <2>4, <2>7, <2>8, <2>9
  <1>6. CASE TakeResponse
    <2>1. /\ UNCHANGED <<posted, reqBuf, respBuf, reqSem, lost, spc, sview, sreq, status, timeouts, call>>
          /\ cpc = "wait" /\ respSem > 0
          /\ \/ cpc' = "idle" /\ reply' = ErrorReply
             \/ cpc' = "receive" /\ cview' = respBuf /\ reply' = reply
      BY <1>6 DEF TakeResponse, Return, history, server
    <2>2. PostedInv' /\ LagBound'
      BY <1>l, <2>1 DEF PostedInv, LagBound, ErrorReply
    <2>3. Tokens <= timeouts
      BY <1>0, <1>t, <2>1
    <2>4. Behind(posted, respBuf.call, timeouts)
      BY <1>0, <1>l, <2>3, BehindMore
    <2>5. cpc' = "receive" => Behind(posted', cview'.call, timeouts')
      BY <2>1, <2>4
    <2> QED
      BY <1>u, <1>w, <2>1, <2>2, <2>5
  <1>7. CASE GiveUp
    <2>1. PostedInv' /\ LagBound' /\ cpc' # "receive"
      BY <1>7, <1>l DEF GiveUp, Return, history, PostedInv, LagBound, ErrorReply
    <2>2. UNCHANGED <<posted, reqBuf, respBuf, reqSem, lost, spc, sview, sreq, status>>
      BY <1>7 DEF GiveUp, server, shared
    <2> QED
      BY <1>u, <1>w, <2>1, <2>2
  <1>8. CASE ReceiveResponse
    <2>1. /\ UNCHANGED <<posted, reqBuf, respBuf, reqSem, lost, spc, sview, sreq, status, timeouts, call>>
          /\ cpc = "receive" /\ cpc' = "idle"
          /\ \/ \E m \in Deserialized(cview, respBuf) : reply' = Response(m.call, m.id)
             \/ reply' = ErrorReply
      BY <1>8 DEF ReceiveResponse, Return, shared, history, server
    <2>2. Tokens <= timeouts
      BY <1>0, <1>t, <2>1
    <2>3. Behind(posted, cview.call, timeouts) /\ Behind(posted, respBuf.call, timeouts)
      BY <1>0, <1>l, <2>1, <2>2, BehindMore
    <2>4. ASSUME NEW m \in Deserialized(cview, respBuf), reply' = Response(m.call, m.id)
          PROVE  LagBound'
      <3>1. Behind(posted, m.call, timeouts) /\ reply'.call = m.call
        BY <2>3, <2>4, BehindRead DEF Response
      <3> QED
        BY <2>1, <3>1 DEF LagBound, Behind
    <2>5. LagBound'
      BY <2>1, <2>4 DEF LagBound, ErrorReply
    <2>6. PostedInv'
      BY <1>l, <2>1 DEF PostedInv
    <2> QED
      BY <1>u, <1>w, <2>1, <2>5, <2>6
  <1>9. CASE ServeOne \/ ServeTimeout \/ StopServer \/ AttachServer
    <2>1. /\ UNCHANGED <<posted, reqBuf, respBuf, reqSem, lost, sview, sreq, status, timeouts, cpc, call,
                        reply, cview>>
          /\ spc' = spc \/ (spc' \in {"loop", "wait", "stopped"} /\ spc \in {"loop", "wait", "stopped"})
      BY <1>9 DEF ServeOne, ServeTimeout, StopServer, AttachServer, shared, client, history
    <2>2. Tokens' = Tokens
      BY <2>1 DEF Tokens, Serving
    <2> QED
      BY <1>c, <1>l, <1>w, <2>1, <2>2
  <1>11. CASE TakeRequest
    <2>1. /\ UNCHANGED <<posted, reqBuf, respBuf, lost, sreq, timeouts, cpc, call, reply, cview>>
          /\ reqSem > 0 /\ reqSem' = reqSem - 1 /\ sview' = reqBuf /\ spc = "wait" /\ spc' = "receive"
      BY <1>11 DEF TakeRequest, client, history
    <2>2. Tokens' = Tokens
      BY <1>0, <2>1 DEF Tokens, Serving
    <2>3. reqSem' \in Nat /\ 0 <= reqSem'
      BY <1>0, <2>1
    <2>4. Behind(posted', sview'.call, reqSem')
      BY <1>0, <1>l, <2>1, <2>3, BehindMore
    <2> QED
      BY <1>c, <1>l, <1>w, <2>1, <2>2, <2>4
  <1>12. CASE ReceiveRequest
    <2>1. /\ UNCHANGED <<posted, reqBuf, respBuf, lost, reqSem, timeouts, cpc, call, reply, cview>>
          /\ spc = "receive"
          /\ \/ /\ \E m \in Deserialized(sview, reqBuf) : sreq'.call = m.call
                /\ spc' = "handle"
             \/ spc' = "post" /\ status' = 1
      BY <1>12 DEF ReceiveRequest, shared, client, history, Whole
    <2>2. Tokens' = Tokens
      BY <2>1 DEF Tokens, Serving
    <2>3. Behind(posted, sview.call, reqSem) /\ Behind(posted, reqBuf.call, reqSem)
      BY <1>0, <1>l, <2>1, BehindMore
    <2>4. \A m \in Deserialized(sview, reqBuf) : Behind(posted, m.call, reqSem)
      BY <2>3, BehindRead
    <2>5. spc' = "handle" => Behind(posted', sreq'.call, reqSem')
      BY <2>1, <2>4
    <2> QED
      BY <1>c, <1>l, <1>w, <2>1, <2>2, <2>5
  <1>13. CASE Handle
    <2>1. /\ UNCHANGED <<posted, reqBuf, respBuf, lost, reqSem, timeouts, cpc, call, reply, cview, sreq>>
          /\ spc = "handle"
          /\ spc' = "serialize" \/ (spc' = "post" /\ status' = 1)
      BY <1>13 DEF Handle, shared, client
    <2>2. Tokens' = Tokens
      BY <2>1 DEF Tokens, Serving
    <2> QED
      BY <1>c, <1>l, <1>w, <2>1, <2>2
  <1>14. CASE BeginSerializeResponse
    <2>1. /\ UNCHANGED <<posted, reqBuf, lost, reqSem, timeouts, cpc, call, reply, cview, sreq>>
          /\ spc = "serialize" /\ spc' = "serializing" /\ respBuf' = Partial
      BY <1>14 DEF BeginSerializeResponse, client, history
    <2> QED
      BY <1>c, <1>l, <1>p, <1>w, <2>1
  <1>15. CASE EndSerializeResponse
    <2>1. /\ UNCHANGED <<posted, reqBuf, lost, reqSem, timeouts, cpc, call, reply, cview, sreq>>
          /\ spc = "serializing" /\ spc' = "post"
          /\ respBuf' = sreq \/ (respBuf' = respBuf /\ status' = 2)
      BY <1>15 DEF EndSerializeResponse, client, history
    <2>2. Tokens' = Tokens
      BY <2>1 DEF Tokens, Serving
    <2>3. Behind(posted, sreq.call, reqSem) /\ Behind(posted, sreq.call, Tokens)
      BY <1>0, <1>l, <2>1, BehindMore
    <2> QED
      BY <1>c, <1>l, <1>w, <2>1, <2>2, <2>3
  <1>16. CASE PostResponse
    <2>1. /\ UNCHANGED <<posted, reqBuf, lost, reqSem, timeouts, cpc, call, reply, cview, sreq>>
          /\ spc = "post" /\ spc' = "loop"
          /\ respBuf' = IF status = 0 THEN respBuf ELSE Partial
      BY <1>16 DEF PostResponse, client, history
    <2>2. Tokens' \in Nat /\ reqSem <= Tokens'
      BY <1>0, <2>1 DEF Tokens, Serving
    <2>3. Behind(posted', respBuf'.call, Tokens')
      <3>1. CASE status = 0
        BY <1>0, <1>l, <2>1, <2>2, <3>1, BehindMore
      <3>2. CASE status # 0
        BY <1>p, <2>1, <3>2
      <3> QED
        BY <3>1, <3>2
    <2> QED
      BY <1>c, <1>l, <1>w, <2>1, <2>3
  <1>d. CASE ServerDies
    <2>1. /\ UNCHANGED <<posted, reqBuf, respBuf, reqSem, timeouts, cpc, call, reply, cview>>
          /\ spc' = "stopped" /\ lost' = lost + (IF Serving THEN 1 ELSE 0)
      BY <1>d DEF ServerDies, shared, client
    <2>2. Tokens' = Tokens
      BY <1>0, <2>1 DEF Tokens, Serving
    <2> QED
      BY <1>c, <1>l, <1>w, <2>1, <2>2
  <1>18. CASE UNCHANGED vars
    BY <1>18, <1>c, <1>u, <1>w DEF vars, shared, client, server, history
  <1> QED
    BY <1>1, <1>2, <1>3, <1>4, <1>5, <1>6, <1>7, <1>8, <1>9, <1>11, <1>12, <1>13, <1>14, <1>15, <1>16,
       <1>d, <1>18
    DEF Next, ClientStep, ServerStep

(* A client that has timed out reads old responses, but it never falls     *)
(* further behind than the number of its timeouts: what it returns answers *)
(* one of the last timeouts + 1 requests it posted, whatever dies or is    *)
(* restarted on the other side (generate() does not compare the ids).      *)
THEOREM LagIsBounded == Spec => []LagBound
  <1>1. LagInv => LagBound
    BY DEF LagInv
  <1> QED
    BY <1>1, LagInit, LagStep, TypeCorrect, TokensConserved, PTL DEF Spec

-----------------------------------------------------------------------------
(* The region's name is a lock, taken by shm_open with O_EXCL: a client    *)
(* has it from there until its destructor's last step (Holding).  Who      *)
(* holds it is the only one whose semaphores have names (HolderOnly), and  *)
(* a create_client that may still get it has removed what a dead client    *)
(* left (StaleGone).                                                       *)

Entering == {"unlink_req", "unlink_resp", "shm_open"}
Holding == {"ftruncate", "header", "sem_req", "sem_resp", "up", "close_req", "close_resp",
            "close_region"}
Labels == Entering \cup Holding \cup Finished

LifecycleTypeOK ==
    /\ names \in [Names -> Clients \cup {NoOne}]
    /\ region \in [Clients -> {"none", "empty", "zero", "ready"}]
    /\ opened \in [Clients -> SUBSET Semaphores]
    /\ pc \in [Clients -> Labels]
    /\ attach \in {"away", "header", "sem_req", "sem_resp", "attached"}
    /\ joined \in [Names -> Clients \cup {NoOne}]

(* The region's name is that of the one client that holds it, or of a dead *)
(* one.                                                                    *)
Lock ==
    /\ \A c \in Clients : pc[c] \in Holding => names["shm"] = c
    /\ names["shm"] # NoOne => pc[names["shm"]] \in Holding \cup {"dead"}

(* What holds a name of a semaphore has opened it and not closed it.       *)
HolderOnly ==
    \A c \in Clients, s \in Semaphores :
        /\ pc[c] \in Holding => names[s] \in {c, NoOne}
        /\ names[s] = c =>
              /\ s \in opened[c]
              /\ pc[c] \in {"sem_resp", "up", "close_req", "close_resp", "dead"}
              /\ s = "req" => pc[c] # "close_resp"

(* What has opened a semaphore and is not yet closing it has its name, or  *)
(* has lost it to another create_client.                                   *)
Losing == {"unlink_resp", "shm_open", "refused", "dead"}
LostToOther ==
    \A c \in Clients, s \in Semaphores :
        pc[c] = "up" \/ (s = "req" /\ pc[c] = "sem_resp") =>
            names[s] = c \/ \E d \in Clients : pc[d] \in Losing

(* While nobody has the region's name.                                     *)
StaleGone ==
    names["shm"] = NoOne =>
        \A c \in Clients :
            /\ pc[c] \in {"unlink_resp", "shm_open"} => names["req"] = NoOne
            /\ pc[c] = "shm_open" => names["resp"] = NoOne

(* The server, from when it has opened the region of c.                    *)
JoinsHolder ==
    /\ attach = "away" => joined = Nothing
    /\ attach # "away" => joined["shm"] # NoOne /\ pc[joined["shm"]] \notin Entering
    /\ \A s \in Semaphores :
          /\ attach = "attached" \/ (s = "req" /\ attach = "sem_resp") => joined[s] # NoOne
          /\ attach # "away" /\ pc[joined["shm"]] \in Holding => joined[s] \in {joined["shm"], NoOne}

LifecycleInv == LifecycleTypeOK /\ Lock /\ HolderOnly /\ LostToOther /\ StaleGone /\ JoinsHolder

LEMMA InitHolds == InitLifecycle => LifecycleInv
BY LifecycleAssumption
   DEF InitLifecycle, LifecycleInv, LifecycleTypeOK, Lock, HolderOnly, LostToOther, StaleGone, JoinsHolder, Nothing, Names,
       Semaphores, Labels, Entering, Holding

-----------------------------------------------------------------------------
(* Steps of one client.                                                    *)

LEMMA UnlinkStaleKeeps == ASSUME LifecycleInv, NEW c \in Clients, UnlinkStale(c) PROVE LifecycleInv'
<1>. USE DEF LifecycleInv, UnlinkStale, Unlink, Goto, attaching
<1>1. LifecycleTypeOK'
  BY DEF LifecycleTypeOK, Names, Semaphores, Labels, Entering, Holding, Finished
<1>2. Lock'
  BY LifecycleAssumption DEF LifecycleTypeOK, Lock, Names, Semaphores, Holding, Finished
<1>3. HolderOnly'
  BY LifecycleAssumption
     DEF LifecycleTypeOK, Lock, HolderOnly, StaleGone, Names, Semaphores, Holding, Finished
<1>4. LostToOther'
  BY LifecycleAssumption
     DEF LifecycleTypeOK, Lock, HolderOnly, LostToOther, Losing, Names, Semaphores, Holding
<1>5. StaleGone'
  BY LifecycleAssumption
     DEF LifecycleTypeOK, Lock, HolderOnly, StaleGone, Names, Semaphores, Holding, Finished
<1>6. JoinsHolder'
  BY LifecycleAssumption
     DEF LifecycleTypeOK, Lock, HolderOnly, JoinsHolder, Nothing, Names, Semaphores, Holding, Entering
<1>. QED BY <1>1, <1>2, <1>3, <1>4, <1>5, <1>6

LEMMA OpenRegionKeeps == ASSUME LifecycleInv, NEW c \in Clients, OpenRegion(c) PROVE LifecycleInv'
<1>. USE DEF LifecycleInv, OpenRegion, Goto, attaching
<1>1. LifecycleTypeOK'
  BY DEF LifecycleTypeOK, Names, Semaphores, Labels, Entering, Holding, Finished
<1>2. Lock'
  BY LifecycleAssumption DEF LifecycleTypeOK, Lock, Names, Semaphores, Holding, Finished
<1>3. HolderOnly'
  BY LifecycleAssumption
     DEF LifecycleTypeOK, Lock, HolderOnly, StaleGone, Names, Semaphores, Holding, Finished
<1>4. LostToOther'
  BY LifecycleAssumption
     DEF LifecycleTypeOK, Lock, HolderOnly, LostToOther, Losing, Names, Semaphores, Holding
<1>5. StaleGone'
  BY LifecycleAssumption
     DEF LifecycleTypeOK, Lock, HolderOnly, StaleGone, Names, Semaphores, Holding, Finished
<1>6. JoinsHolder'
  BY LifecycleAssumption
     DEF LifecycleTypeOK, Lock, HolderOnly, JoinsHolder, Nothing, Names, Semaphores, Holding, Entering
<1>. QED BY <1>1, <1>2, <1>3, <1>4, <1>5, <1>6

LEMMA SizeRegionKeeps == ASSUME LifecycleInv, NEW c \in Clients, SizeRegion(c) PROVE LifecycleInv'
<1>. USE DEF LifecycleInv, SizeRegion, Goto, attaching
<1>1. LifecycleTypeOK'
  BY DEF LifecycleTypeOK, Names, Semaphores, Labels, Entering, Holding, Finished
<1>2. Lock'
  BY LifecycleAssumption DEF LifecycleTypeOK, Lock, Names, Semaphores, Holding, Finished
<1>3. HolderOnly'
  BY LifecycleAssumption
     DEF LifecycleTypeOK, Lock, HolderOnly, StaleGone, Names, Semaphores, Holding, Finished
<1>4. LostToOther'
  BY LifecycleAssumption
     DEF LifecycleTypeOK, Lock, HolderOnly, LostToOther, Losing, Names, Semaphores, Holding
<1>5. StaleGone'
  BY LifecycleAssumption
     DEF LifecycleTypeOK, Lock, HolderOnly, StaleGone, Names, Semaphores, Holding, Finished
<1>6. JoinsHolder'
  BY LifecycleAssumption
     DEF LifecycleTypeOK, Lock, HolderOnly, JoinsHolder, Nothing, Names, Semaphores, Holding, Entering
<1>. QED BY <1>1, <1>2, <1>3, <1>4, <1>5, <1>6

LEMMA WriteHeaderKeeps == ASSUME LifecycleInv, NEW c \in Clients, WriteHeader(c) PROVE LifecycleInv'
<1>. USE DEF LifecycleInv, WriteHeader, Goto, attaching
<1>1. LifecycleTypeOK'
  BY DEF LifecycleTypeOK, Names, Semaphores, Labels, Entering, Holding, Finished
<1>2. Lock'
  BY LifecycleAssumption DEF LifecycleTypeOK, Lock, Names, Semaphores, Holding, Finished
<1>3. HolderOnly'
  BY LifecycleAssumption
     DEF LifecycleTypeOK, Lock, HolderOnly, StaleGone, Names, Semaphores, Holding, Finished
<1>4. LostToOther'
  BY LifecycleAssumption
     DEF LifecycleTypeOK, Lock, HolderOnly, LostToOther, Losing, Names, Semaphores, Holding
<1>5. StaleGone'
  BY LifecycleAssumption
     DEF LifecycleTypeOK, Lock, HolderOnly, StaleGone, Names, Semaphores, Holding, Finished
<1>6. JoinsHolder'
  BY LifecycleAssumption
     DEF LifecycleTypeOK, Lock, HolderOnly, JoinsHolder, Nothing, Names, Semaphores, Holding, Entering
<1>. QED BY <1>1, <1>2, <1>3, <1>4, <1>5, <1>6

LEMMA OpenSemaphoresKeeps == ASSUME LifecycleInv, NEW c \in Clients, OpenSemaphores(c) PROVE LifecycleInv'
<1>. USE DEF LifecycleInv, OpenSemaphores, OpenSemaphore, Goto, attaching
<1>1. LifecycleTypeOK'
  BY DEF LifecycleTypeOK, Names, Semaphores, Labels, Entering, Holding, Finished
<1>2. Lock'
  BY LifecycleAssumption DEF LifecycleTypeOK, Lock, Names, Semaphores, Holding, Finished
<1>3. HolderOnly'
  BY LifecycleAssumption
     DEF LifecycleTypeOK, Lock, HolderOnly, StaleGone, Names, Semaphores, Holding, Finished
<1>4. LostToOther'
  BY LifecycleAssumption
     DEF LifecycleTypeOK, Lock, HolderOnly, LostToOther, Losing, Names, Semaphores, Holding
<1>5. StaleGone'
  BY LifecycleAssumption
     DEF LifecycleTypeOK, Lock, HolderOnly, StaleGone, Names, Semaphores, Holding, Finished
<1>6. JoinsHolder'
  BY LifecycleAssumption
     DEF LifecycleTypeOK, Lock, HolderOnly, JoinsHolder, Nothing, Names, Semaphores, Holding, Entering
<1>. QED BY <1>1, <1>2, <1>3, <1>4, <1>5, <1>6

LEMMA DestroyKeeps == ASSUME LifecycleInv, NEW c \in Clients, Destroy(c) PROVE LifecycleInv'
<1>. USE DEF LifecycleInv, Destroy, Goto, attaching
<1>1. LifecycleTypeOK'
  BY DEF LifecycleTypeOK, Names, Semaphores, Labels, Entering, Holding, Finished
<1>2. Lock'
  BY LifecycleAssumption DEF LifecycleTypeOK, Lock, Names, Semaphores, Holding, Finished
<1>3. HolderOnly'
  BY LifecycleAssumption
     DEF LifecycleTypeOK, Lock, HolderOnly, StaleGone, Names, Semaphores, Holding, Finished
<1>4. LostToOther'
  BY LifecycleAssumption
     DEF LifecycleTypeOK, Lock, HolderOnly, LostToOther, Losing, Names, Semaphores, Holding
<1>5. StaleGone'
  BY LifecycleAssumption
     DEF LifecycleTypeOK, Lock, HolderOnly, StaleGone, Names, Semaphores, Holding, Finished
<1>6. JoinsHolder'
  BY LifecycleAssumption
     DEF LifecycleTypeOK, Lock, HolderOnly, JoinsHolder, Nothing, Names, Semaphores, Holding, Entering
<1>. QED BY <1>1, <1>2, <1>3, <1>4, <1>5, <1>6

LEMMA CloseKeeps == ASSUME LifecycleInv, NEW c \in Clients, Close(c) PROVE LifecycleInv'
<1>. USE DEF LifecycleInv, Close, CloseSemaphore, CloseRegion, Unlink, Goto, attaching
<1>1. LifecycleTypeOK'
  BY DEF LifecycleTypeOK, Names, Semaphores, Labels, Entering, Holding, Finished
<1>2. Lock'
  BY LifecycleAssumption DEF LifecycleTypeOK, Lock, Names, Semaphores, Holding, Finished
<1>3. HolderOnly'
  BY LifecycleAssumption
     DEF LifecycleTypeOK, Lock, HolderOnly, StaleGone, Names, Semaphores, Holding, Finished
<1>4. LostToOther'
  BY LifecycleAssumption
     DEF LifecycleTypeOK, Lock, HolderOnly, LostToOther, Losing, Names, Semaphores, Holding
<1>5. StaleGone'
  BY LifecycleAssumption
     DEF LifecycleTypeOK, Lock, HolderOnly, StaleGone, Names, Semaphores, Holding, Finished
<1>6. JoinsHolder'
  BY LifecycleAssumption
     DEF LifecycleTypeOK, Lock, HolderOnly, JoinsHolder, Nothing, Names, Semaphores, Holding, Entering
<1>. QED BY <1>1, <1>2, <1>3, <1>4, <1>5, <1>6

LEMMA CrashKeeps == ASSUME LifecycleInv, NEW c \in Clients, Crash(c) PROVE LifecycleInv'
<1>. USE DEF LifecycleInv, Crash, Goto, attaching
<1>1. LifecycleTypeOK'
  BY DEF LifecycleTypeOK, Names, Semaphores, Labels, Entering, Holding, Finished
<1>2. Lock'
  BY LifecycleAssumption DEF LifecycleTypeOK, Lock, Names, Semaphores, Holding, Finished
<1>3. HolderOnly'
  BY LifecycleAssumption
     DEF LifecycleTypeOK, Lock, HolderOnly, StaleGone, Names, Semaphores, Holding, Finished
<1>4. LostToOther'
  BY LifecycleAssumption
     DEF LifecycleTypeOK, Lock, HolderOnly, LostToOther, Losing, Names, Semaphores, Holding
<1>5. StaleGone'
  BY LifecycleAssumption
     DEF LifecycleTypeOK, Lock, HolderOnly, StaleGone, Names, Semaphores, Holding, Finished
<1>6. JoinsHolder'
  BY LifecycleAssumption
     DEF LifecycleTypeOK, Lock, HolderOnly, JoinsHolder, Nothing, Names, Semaphores, Holding, Entering
<1>. QED BY <1>1, <1>2, <1>3, <1>4, <1>5, <1>6

-----------------------------------------------------------------------------
(* Steps of others.                                                        *)

LEMMA RemoveRegionKeeps == ASSUME LifecycleInv, RemoveRegion PROVE LifecycleInv'
<1>. USE DEF LifecycleInv, RemoveRegion, Unlink, attaching
<1>1. LifecycleTypeOK'
  BY DEF LifecycleTypeOK, Names, Semaphores, Labels, Entering, Holding, Finished
<1>2. Lock'
  BY LifecycleAssumption DEF LifecycleTypeOK, Lock, Names, Semaphores, Holding, Finished
<1>3. HolderOnly'
  BY LifecycleAssumption
     DEF LifecycleTypeOK, Lock, HolderOnly, StaleGone, Names, Semaphores, Holding, Finished
<1>4. LostToOther'
  BY LifecycleAssumption
     DEF LifecycleTypeOK, Lock, HolderOnly, LostToOther, Losing, Names, Semaphores, Holding
<1>5. StaleGone'
  BY LifecycleAssumption
     DEF LifecycleTypeOK, Lock, HolderOnly, StaleGone, Names, Semaphores, Holding, Finished
<1>6. JoinsHolder'
  BY LifecycleAssumption
     DEF LifecycleTypeOK, Lock, HolderOnly, JoinsHolder, Nothing, Names, Semaphores, Holding, Entering
<1>. QED BY <1>1, <1>2, <1>3, <1>4, <1>5, <1>6

LEMMA ServerKeeps ==
    ASSUME LifecycleInv, AttachRegion \/ CheckHeader \/ JoinSemaphores \/ Detach
    PROVE  LifecycleInv'
<1>. USE DEF LifecycleInv, AttachRegion, CheckHeader, JoinSemaphores, JoinSemaphore, Detach, Leaves,
             creating
<1>1. LifecycleTypeOK'
  BY DEF LifecycleTypeOK, Nothing, Names, Semaphores, Labels, Entering, Holding, Finished
<1>2. Lock'
  BY LifecycleAssumption DEF LifecycleTypeOK, Lock, Names, Semaphores, Holding, Finished
<1>3. HolderOnly'
  BY LifecycleAssumption
     DEF LifecycleTypeOK, Lock, HolderOnly, StaleGone, Names, Semaphores, Holding, Finished
<1>4. LostToOther'
  BY LifecycleAssumption
     DEF LifecycleTypeOK, Lock, HolderOnly, LostToOther, Losing, Names, Semaphores, Holding
<1>5. StaleGone'
  BY LifecycleAssumption
     DEF LifecycleTypeOK, Lock, HolderOnly, StaleGone, Names, Semaphores, Holding, Finished
<1>6. JoinsHolder'
  BY LifecycleAssumption
     DEF LifecycleTypeOK, Lock, HolderOnly, JoinsHolder, Nothing, Names, Semaphores, Holding, Entering
<1>. QED BY <1>1, <1>2, <1>3, <1>4, <1>5, <1>6

LEMMA Inductive == SpecLifecycle => []LifecycleInv
<1>1. LifecycleInv /\ [NextLifecycle]_lifecycle => LifecycleInv'
  <2>. SUFFICES ASSUME LifecycleInv, [NextLifecycle]_lifecycle PROVE LifecycleInv'
    OBVIOUS
  <2>1. ASSUME NEW c \in Clients, Client(c) PROVE LifecycleInv'
    BY <2>1, UnlinkStaleKeeps, OpenRegionKeeps, SizeRegionKeeps, WriteHeaderKeeps,
       OpenSemaphoresKeeps, DestroyKeeps, CloseKeeps, CrashKeeps DEF Client
  <2>2. CASE UNCHANGED lifecycle
    BY <2>2 DEF lifecycle, LifecycleInv, LifecycleTypeOK, Lock, HolderOnly, LostToOther, StaleGone, JoinsHolder
  <2>. QED BY <2>1, <2>2, RemoveRegionKeeps, ServerKeeps DEF NextLifecycle
<1>. QED BY <1>1, InitHolds, PTL DEF SpecLifecycle

(* Whoever else uses the name, a client that fails or goes leaves nothing  *)
(* under it, one that is up keeps its region's name and loses those of its *)
(* semaphores to no one but a create_client that is refused, and a server  *)
(* that attaches to it waits on its semaphores.                            *)
THEOREM SessionsStayApart == SpecLifecycle => []SessionsApart
<1>1. ASSUME LifecycleInv PROVE NamesOwned
  <2>. SUFFICES ASSUME NEW n \in Names, names[n] # NoOne
                PROVE  pc[names[n]] \notin {"refused", "gone"}
    BY DEF NamesOwned
  <2>1. names[n] \in Clients /\ (n = "shm" \/ n \in Semaphores)
    BY <1>1 DEF LifecycleInv, LifecycleTypeOK, Names
  <2>2. pc[names[n]] \in Holding \cup {"dead"}
    BY <1>1, <2>1 DEF LifecycleInv, Lock, HolderOnly, Holding
  <2>. QED BY <2>2 DEF Holding
<1>2. ASSUME LifecycleInv PROVE KeepsNames
  <2>. SUFFICES ASSUME NEW c \in Up
       PROVE  /\ names["shm"] = c
              /\ \A s \in Semaphores :
                    \/ names[s] = c
                    \/ names[s] = NoOne /\ \E d \in Clients : pc[d] \in Losing
    BY DEF KeepsNames, Losing
  <2>1. c \in Clients /\ pc[c] = "up" /\ pc[c] \in Holding
    BY DEF Up, Holding
  <2>. QED BY <1>2, <2>1 DEF LifecycleInv, Lock, HolderOnly, LostToOther
<1>3. ASSUME LifecycleInv PROVE JoinsOne
  <2>. SUFFICES ASSUME attach = "attached", joined["shm"] \in Up, NEW s \in Semaphores
       PROVE  joined[s] = joined["shm"]
    BY DEF JoinsOne
  <2>1. pc[joined["shm"]] \in Holding
    BY DEF Up, Holding
  <2>. QED BY <1>3, <2>1 DEF LifecycleInv, JoinsHolder
<1>4. LifecycleInv => SessionsApart
  BY <1>1, <1>2, <1>3 DEF SessionsApart
<1>. QED BY <1>4, Inductive, PTL
=============================================================================
