---------------------------- MODULE ShmTransport ----------------------------
(***************************************************************************)
(* SharedMemoryRolloutTransport: one client (the trainer) and one server   *)
(* (the rollout sidecar) sharing a header, a request buffer and a response *)
(* buffer, and two semaphores.  Every step is one access to shared memory  *)
(* or to a semaphore that the other side can tell apart; a serialization   *)
(* takes two steps, its first leaves the buffer half written.  Reading a   *)
(* buffer also takes two steps: what the reader gets when the buffer was   *)
(* half written or changed meanwhile is any outcome of that data race.     *)
(* A payload is the number of the call that wrote it.                      *)
(***************************************************************************)
EXTENDS Naturals, FiniteSets

CONSTANTS
    MaxCalls,       \* bound on the calls of generate()
    CallerIds,      \* values of RolloutRequest::request_id, 0 for "not set"
    ClientTimeout,  \* options.timeout_ms > 0 on the client
    ServerTimeout   \* options.timeout_ms > 0 on the server

ASSUME ShmAssumption ==
    /\ MaxCalls \in Nat \ {0}
    /\ CallerIds \subseteq Nat
    /\ 0 \in CallerIds
    /\ {ClientTimeout, ServerTimeout} \subseteq BOOLEAN

Calls == 1..MaxCalls

VARIABLES
    (* the shared region *)
    hdrId,      \* hdr->request_id
    reqBuf,     \* request buffer and hdr->request_size
    respBuf,    \* response buffer and hdr->response_size
    respStatus, \* hdr->response_status
    reqSem,     \* value of the semaphore <name>.req
    respSem,    \* value of the semaphore <name>.resp
    (* the client *)
    cpc,        \* where generate() is
    call,       \* number of the current (or last) call
    callerId,   \* request.request_id of that call
    rid,        \* the id generate() uses for it
    nextId,     \* impl_->next_request_id
    cview,      \* response buffer when its deserialization began
    reply,      \* how the last call ended
    (* the server *)
    running,    \* the flag of serve_loop
    spc,        \* where serve_loop / serve_one is
    sview,      \* request buffer when its deserialization began
    sreq,       \* the request given to the handler
    status,     \* local of serve_one
    (* history *)
    handled,    \* how often the handler ran for each call; 0: for garbage
    posted,     \* the calls whose request was posted
    timeouts,   \* calls that gave up waiting for a response
    lost        \* requests taken by a server that died before it answered

shared == <<hdrId, reqBuf, respBuf, respStatus, reqSem, respSem>>
client == <<cpc, call, callerId, rid, nextId, cview, reply>>
server == <<running, spc, sview, sreq, status>>
history == <<handled, posted, timeouts, lost>>
vars == <<shared, client, server, history>>

(* Auto-assigned ids count from 1, one per call at most.                   *)
RequestIds == CallerIds \cup (1..MaxCalls)

(* Contents of a buffer.  whole = FALSE: a writer is, or stopped, in the   *)
(* middle of it, or its size is 0.                                         *)
Content == [whole : BOOLEAN, call : 0..MaxCalls, id : RequestIds]
Whole(c, i) == [whole |-> TRUE, call |-> c, id |-> i]
Zeroed == Whole(0, 0)
Partial == [whole |-> FALSE, call |-> 0, id |-> 0]

(* What deserializing a buffer can produce when it held a at the start and *)
(* holds b at the end: b if nothing happened to it, and otherwise either   *)
(* of the two or a mixture (call 0) carrying the id of either.  The reader *)
(* may also run over the size and throw: see TornRead.                     *)
Deserialized(a, b) ==
    IF a = b /\ a.whole THEN {b}
    ELSE {m \in {a, b} : m.whole} \cup {Whole(0, m.id) : m \in {a, b}}
TornRead(a, b) == a # b \/ ~a.whole

NoReply    == [kind |-> "none",  call |-> 0, id |-> 0]
ErrorReply == [kind |-> "error", call |-> 0, id |-> 0]
Response(c, i) == [kind |-> "ok", call |-> c, id |-> i]

(* create_client zeroes the region and both semaphores; attach_server has  *)
(* succeeded.                                                              *)
Init ==
    /\ hdrId = 0 /\ reqBuf = Zeroed /\ respBuf = Zeroed /\ respStatus = 0
    /\ reqSem = 0 /\ respSem = 0
    /\ cpc = "idle" /\ call = 0 /\ callerId = 0 /\ rid = 0 /\ nextId = 1
    /\ cview = Zeroed /\ reply = NoReply
    /\ running = TRUE /\ spc = "loop" /\ sview = Zeroed /\ sreq = Zeroed
    /\ status = 0
    /\ handled = [c \in 0..MaxCalls |-> 0] /\ posted = {} /\ timeouts = 0
    /\ lost = 0

-----------------------------------------------------------------------------
(* generate()                                                              *)

Return(r) ==
    /\ cpc' = "idle"
    /\ reply' = r

(* A call begins: the id goes into the header, before the payload.         *)
Generate(i) ==
    /\ cpc = "idle"
    /\ call < MaxCalls
    /\ call' = call + 1
    /\ callerId' = i
    /\ rid' = IF i # 0 THEN i ELSE nextId
    /\ nextId' = IF i # 0 THEN nextId ELSE nextId + 1
    /\ hdrId' = rid'
    /\ cpc' = "serialize"
    /\ reply' = NoReply
    /\ UNCHANGED <<reqBuf, respBuf, respStatus, reqSem, respSem, cview,
                   server, history>>

BeginSerializeRequest ==
    /\ cpc = "serialize"
    /\ reqBuf' = Partial
    /\ cpc' = "serializing"
    /\ UNCHANGED <<hdrId, respBuf, respStatus, reqSem, respSem, call, callerId,
                   rid, nextId, cview, reply, server, history>>

(* The payload is the caller's request: it carries request.request_id, not *)
(* the id that was auto-assigned.                                          *)
EndSerializeRequest ==
    /\ cpc = "serializing"
    /\ reqBuf' = Whole(call, callerId)
    /\ cpc' = "post"
    /\ UNCHANGED <<hdrId, respBuf, respStatus, reqSem, respSem, call, callerId,
                   rid, nextId, cview, reply, server, history>>

(* "payload exceeds capacity": nothing is posted, the buffer stays as is.  *)
RequestTooLarge ==
    /\ cpc = "serializing"
    /\ Return(ErrorReply)
    /\ UNCHANGED <<shared, call, callerId, rid, nextId, cview, server, history>>

(* Mutant: the semaphore is posted before the payload is complete.         *)
PostRequest_beforePayload ==
    /\ cpc = "serializing"
    /\ reqSem' = reqSem + 1
    /\ posted' = posted \cup {call}
    /\ cpc' = "wait"
    /\ UNCHANGED <<hdrId, reqBuf, respBuf, respStatus, respSem, call, callerId,
                   rid, nextId, cview, reply, server, handled, timeouts, lost>>

PostRequest ==
    /\ cpc = "post"
    /\ reqSem' = reqSem + 1
    /\ posted' = posted \cup {call}
    /\ cpc' = "wait"
    /\ UNCHANGED <<hdrId, reqBuf, respBuf, respStatus, respSem, call, callerId,
                   rid, nextId, cview, reply, server, handled, timeouts, lost>>

(* Mutant: the response semaphore is tested but not decremented.           *)
TakeResponse_keepsToken ==
    /\ cpc = "wait"
    /\ respSem > 0
    /\ IF respStatus # 0
         THEN Return(ErrorReply) /\ UNCHANGED cview
         ELSE cpc' = "receive" /\ cview' = respBuf /\ UNCHANGED reply
    /\ UNCHANGED <<shared, call, callerId, rid, nextId, server, history>>

(* The wait succeeds; an error status ends the call, otherwise the         *)
(* response is read.  Nothing compares its request_id with rid.            *)
TakeResponse ==
    /\ cpc = "wait"
    /\ respSem > 0
    /\ respSem' = respSem - 1
    /\ IF respStatus # 0
         THEN Return(ErrorReply) /\ UNCHANGED cview
         ELSE cpc' = "receive" /\ cview' = respBuf /\ UNCHANGED reply
    /\ UNCHANGED <<hdrId, reqBuf, respBuf, respStatus, reqSem, call, callerId,
                   rid, nextId, server, history>>

(* Mutant: ETIMEDOUT is retried like EINTR.                                *)
GiveUp_retries ==
    /\ ClientTimeout
    /\ cpc = "wait"
    /\ respSem = 0
    /\ UNCHANGED vars

(* sem_timedwait does not time out on a semaphore it can take.             *)
GiveUp ==
    /\ ClientTimeout
    /\ cpc = "wait"
    /\ respSem = 0
    /\ Return(ErrorReply)
    /\ timeouts' = timeouts + 1
    /\ UNCHANGED <<shared, call, callerId, rid, nextId, cview, server, handled,
                   posted, lost>>

ReceiveResponse ==
    /\ cpc = "receive"
    /\ \/ \E m \in Deserialized(cview, respBuf) : Return(Response(m.call, m.id))
       \/ TornRead(cview, respBuf) /\ Return(ErrorReply)
    /\ UNCHANGED <<shared, call, callerId, rid, nextId, cview, server, history>>

-----------------------------------------------------------------------------
(* serve_loop() and serve_one()                                            *)

(* Mutant: the loop does not look at its flag.                             *)
ServeOne_ignoresFlag ==
    /\ spc = "loop"
    /\ spc' = "wait"
    /\ UNCHANGED <<shared, client, running, sview, sreq, status, history>>

ServeOne ==
    /\ spc = "loop"
    /\ spc' = IF running THEN "wait" ELSE "stopped"
    /\ UNCHANGED <<shared, client, running, sview, sreq, status, history>>

ServeTimeout ==
    /\ ServerTimeout
    /\ spc = "wait"
    /\ reqSem = 0
    /\ spc' = "loop"
    /\ UNCHANGED <<shared, client, running, sview, sreq, status, history>>

(* Mutant: the result of the wait is ignored.                              *)
TakeRequest_ignoresWait ==
    /\ spc = "wait"
    /\ reqSem' = reqSem - 1
    /\ sview' = reqBuf
    /\ status' = 0
    /\ spc' = "receive"
    /\ UNCHANGED <<hdrId, reqBuf, respBuf, respStatus, respSem, client, running,
                   sreq, history>>

TakeRequest ==
    /\ spc = "wait"
    /\ reqSem > 0
    /\ reqSem' = reqSem - 1
    /\ sview' = reqBuf
    /\ status' = 0
    /\ spc' = "receive"
    /\ UNCHANGED <<hdrId, reqBuf, respBuf, respStatus, respSem, client, running,
                   sreq, history>>

(* The id of a request that carries none is read from the header, after    *)
(* the payload.                                                            *)
ReceiveRequest ==
    /\ spc = "receive"
    /\ \/ /\ \E m \in Deserialized(sview, reqBuf) :
               sreq' = Whole(m.call, IF m.id = 0 THEN hdrId ELSE m.id)
          /\ spc' = "handle"
          /\ UNCHANGED status
       \/ /\ TornRead(sview, reqBuf)
          /\ status' = 1
          /\ spc' = "post"
          /\ UNCHANGED sreq
    /\ UNCHANGED <<shared, client, running, sview, history>>

(* Mutant: an exception of the handler ends serve_one without a response.  *)
Handle_withoutCatch ==
    /\ spc = "handle"
    /\ handled' = [handled EXCEPT ![sreq.call] = @ + 1]
    /\ \/ spc' = "serialize"
       \/ spc' = "loop"
    /\ UNCHANGED <<shared, client, running, sview, sreq, status, posted, timeouts,
                   lost>>

(* The handler answers the request, or throws.                             *)
Handle ==
    /\ spc = "handle"
    /\ handled' = [handled EXCEPT ![sreq.call] = @ + 1]
    /\ \/ spc' = "serialize" /\ UNCHANGED status
       \/ spc' = "post" /\ status' = 1
    /\ UNCHANGED <<shared, client, running, sview, sreq, posted, timeouts, lost>>

BeginSerializeResponse ==
    /\ spc = "serialize"
    /\ respBuf' = Partial
    /\ spc' = "serializing"
    /\ UNCHANGED <<hdrId, reqBuf, respStatus, reqSem, respSem, client, running,
                   sview, sreq, status, history>>

(* The response is for the request the handler saw; its id is the          *)
(* request's, whether the handler or serve_one set it.                     *)
EndSerializeResponse ==
    /\ spc = "serializing"
    /\ \/ respBuf' = sreq /\ UNCHANGED status
       \/ UNCHANGED respBuf /\ status' = 2
    /\ spc' = "post"
    /\ UNCHANGED <<hdrId, reqBuf, respStatus, reqSem, respSem, client, running,
                   sview, sreq, history>>

(* With an error the size published is 0: there is nothing to deserialize. *)
PostResponse ==
    /\ spc = "post"
    /\ respBuf' = IF status = 0 THEN respBuf ELSE Partial
    /\ respStatus' = status
    /\ respSem' = respSem + 1
    /\ spc' = "loop"
    /\ UNCHANGED <<hdrId, reqBuf, reqSem, client, running, sview, sreq, status,
                   history>>

(* The sidecar clears the flag of serve_loop.                              *)
StopServer ==
    /\ running
    /\ running' = FALSE
    /\ UNCHANGED <<shared, client, spc, sview, sreq, status, history>>

Serving == spc \notin {"loop", "wait", "stopped"}

(* The sidecar dies, in the middle of a request or not: what it has taken  *)
(* from .req it is not going to answer, what it has written stays.         *)
ServerDies ==
    /\ spc # "stopped"
    /\ spc' = "stopped"
    /\ running' = FALSE
    /\ lost' = lost + (IF Serving THEN 1 ELSE 0)
    /\ UNCHANGED <<shared, client, sview, sreq, status, handled, posted, timeouts>>

(* Another sidecar attaches to the same region and semaphores.             *)
AttachServer ==
    /\ spc = "stopped"
    /\ spc' = "loop"
    /\ running' = TRUE
    /\ UNCHANGED <<shared, client, sview, sreq, status, history>>

-----------------------------------------------------------------------------

ClientStep ==
    \/ BeginSerializeRequest \/ EndSerializeRequest \/ RequestTooLarge
    \/ PostRequest \/ TakeResponse \/ GiveUp \/ ReceiveResponse
ServerStep ==
    \/ ServeOne \/ ServeTimeout \/ TakeRequest \/ ReceiveRequest \/ Handle
    \/ BeginSerializeResponse \/ EndSerializeResponse \/ PostResponse

Next ==
    \/ \E i \in CallerIds : Generate(i)
    \/ ClientStep
    \/ ServerStep
    \/ StopServer \/ ServerDies \/ AttachServer

Spec == Init /\ [][Next]_vars

(* A thread that can take a step takes it: each side is an ordinary thread *)
(* of an operating-system process.  Nothing makes a caller call, or anyone *)
(* clear the flag.                                                         *)
FairSpec == Spec /\ WF_vars(ClientStep) /\ WF_vars(ServerStep)

(* Only the client is scheduled: the sidecar may hang, or have died.       *)
ClientFairSpec == Spec /\ WF_vars(ClientStep)

-----------------------------------------------------------------------------
(* Properties                                                              *)

ClientPcs == {"idle", "serialize", "serializing", "post", "wait", "receive"}
ServerPcs == {"loop", "wait", "receive", "handle", "serialize", "serializing",
              "post", "stopped"}
Replies == [kind : {"none", "error", "ok"}, call : 0..MaxCalls, id : RequestIds]

(* Type invariant: every variable, and both semaphores never below zero.   *)
TypeOK ==
    /\ hdrId \in RequestIds /\ reqBuf \in Content /\ respBuf \in Content
    /\ respStatus \in 0..2 /\ reqSem \in Nat /\ respSem \in Nat
    /\ cpc \in ClientPcs /\ call \in 0..MaxCalls /\ callerId \in CallerIds
    /\ rid \in RequestIds /\ nextId \in 1..(call + 1) /\ cview \in Content
    /\ reply \in Replies
    /\ running \in BOOLEAN /\ spc \in ServerPcs /\ sview \in Content
    /\ sreq \in Content /\ status \in 0..2
    /\ handled \in [0..MaxCalls -> Nat] /\ posted \subseteq 0..MaxCalls
    /\ timeouts \in Nat /\ lost \in Nat

(* Every post of a request is, at any time, in exactly one place: waiting  *)
(* in .req, being served, waiting in .resp, consumed by generate() or lost *)
(* with a server that died.  A call that timed out consumes nothing, so    *)
(* its token stays in the circuit for ever: one extra token per timeout,   *)
(* less those that were lost.                                              *)
TokenConservation ==
    reqSem + (IF Serving THEN 1 ELSE 0) + respSem + lost
        = timeouts + (IF cpc = "wait" THEN 1 ELSE 0)

(* No byte of a buffer is written by one side while the other reads it.    *)
NoDataRace ==
    /\ ~(spc = "receive" /\ TornRead(sview, reqBuf))
    /\ ~(cpc = "receive" /\ TornRead(cview, respBuf))

(* As long as no call has timed out the two sides never touch a buffer at  *)
(* the same time, and generate() returns the response to its own request,  *)
(* with its own id.                                                        *)
CleanUntilTimeout ==
    timeouts = 0 =>
        /\ NoDataRace
        /\ reply.kind = "ok" => reply = Response(call, rid)

(* Why CleanUntilTimeout holds: while no call has timed out the one token  *)
(* in the circuit says which side may touch which buffer, and what it is   *)
(* then going to find there.                                               *)
Own == Whole(call, rid)
ClientInv ==
    /\ hdrId = rid
    /\ callerId # 0 => rid = callerId
    /\ cpc # "idle" => reply.kind = "none" /\ call > 0
    /\ cpc \in {"post", "wait"} => reqBuf = Whole(call, callerId)
    /\ cpc = "receive" => respBuf = Own /\ cview = Own
    /\ cpc = "wait" /\ respSem > 0 /\ respStatus = 0 => respBuf = Own
    /\ reply.kind = "ok" => reply = Response(call, rid)
ServerInv ==
    /\ spc = "receive" => sview = reqBuf
    /\ spc \in {"handle", "serialize", "serializing"} => sreq = Own
    /\ spc = "post" /\ status = 0 => respBuf = Own
HandledInv ==
    /\ \A c \in Calls : c > call => handled[c] = 0
    /\ cpc \in {"serialize", "serializing", "post"} => handled[call] = 0
    /\ cpc = "wait" /\ (reqSem > 0 \/ spc \in {"receive", "handle"})
         => handled[call] = 0
    /\ spc \in {"serialize", "serializing"} => handled[call] = 1
    /\ spc = "post" /\ status = 0 => handled[call] = 1
    /\ cpc = "wait" /\ respSem > 0 /\ respStatus = 0 => handled[call] = 1
    /\ cpc = "receive" => handled[call] = 1
CleanInv == timeouts = 0 => ClientInv /\ ServerInv /\ HandledInv

(* Timeouts make the client read old responses, but it never falls further *)
(* behind than the number of its timeouts: the response it returns is for  *)
(* one of the last timeouts + 1 posted requests (or a torn mixture).       *)
LagBound ==
    reply.kind = "ok" /\ reply.call # 0 =>
        Cardinality({c \in posted : c >= reply.call}) <= timeouts + 1

(* The blocking transport (timeout_ms <= 0) is a synchronous call.         *)
Rpc == INSTANCE RolloutRpc WITH
    open <- cpc # "idle",
    runs <- [c \in Calls |-> handled[c]]
RefinesRpc == Rpc!Spec

(* generate() with a timeout returns even if the sidecar is gone.          *)
GenerateReturns == cpc # "idle" ~> cpc = "idle"

(* Without a timeout it returns as long as nobody stops the sidecar.       *)
ServedWhileRunning == []running => GenerateReturns

(* serve_loop looks at its flag between requests only: with a timeout it   *)
(* notices being stopped, whether or not the client ever calls again.      *)
ServerStops == ~running ~> spc = "stopped"
=============================================================================
