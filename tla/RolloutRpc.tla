----------------------------- MODULE RolloutRpc -----------------------------
(***************************************************************************)
(* What RolloutTransport::generate promises its caller (transport.h): a    *)
(* synchronous call.  At most one call is open; the handler runs at most   *)
(* once for it, while it is open; the call ends with an error or with the  *)
(* response to this very request, labelled with this request's id.         *)
(***************************************************************************)
EXTENDS Naturals

CONSTANTS
    MaxCalls,   \* bound on the number of calls of one client
    RequestIds  \* the ids a request can carry

VARIABLES
    open,   \* a call has been made and has not returned
    call,   \* number of the open call, or of the last one
    rid,    \* its request id
    runs,   \* how often the handler has run for each call
    reply   \* how the last call ended

rpcVars == <<open, call, rid, runs, reply>>

NoReply    == [kind |-> "none",  call |-> 0, id |-> 0]
ErrorReply == [kind |-> "error", call |-> 0, id |-> 0]
Response(c, i) == [kind |-> "ok", call |-> c, id |-> i]

Init ==
    /\ open = FALSE
    /\ call = 0
    /\ rid = 0
    /\ runs = [c \in 1..MaxCalls |-> 0]
    /\ reply = NoReply

Invoke(i) ==
    /\ ~open
    /\ call < MaxCalls
    /\ open' = TRUE
    /\ call' = call + 1
    /\ rid' = i
    /\ reply' = NoReply
    /\ UNCHANGED runs

Execute ==
    /\ open
    /\ runs[call] = 0
    /\ runs' = [runs EXCEPT ![call] = 1]
    /\ UNCHANGED <<open, call, rid, reply>>

ReturnResponse ==
    /\ open
    /\ runs[call] = 1
    /\ open' = FALSE
    /\ reply' = Response(call, rid)
    /\ UNCHANGED <<call, rid, runs>>

ReturnError ==
    /\ open
    /\ open' = FALSE
    /\ reply' = ErrorReply
    /\ UNCHANGED <<call, rid, runs>>

Next ==
    \/ \E i \in RequestIds : Invoke(i)
    \/ Execute
    \/ ReturnResponse
    \/ ReturnError

Spec == Init /\ [][Next]_rpcVars
=============================================================================
