---------------------------- MODULE ResponseFifo ----------------------------
(***************************************************************************)
(* What the client's protocol logic takes for granted about a connection:   *)
(* each call of receiveResponse returns the next response of the server, or *)
(* nothing, and after a failure of the stream nothing for good.             *)
(***************************************************************************)
EXTENDS Sequences

CONSTANTS
    Responses,  \* what a server may write
    Valid(_)    \* the size that a response announces is the one of its code

VARIABLES
    queue,   \* the responses that are not taken yet
    open,    \* the client's end of the connection
    result   \* what the last call returned: at most one response

vars == <<queue, open, result>>

Init == queue = <<>> /\ open = TRUE /\ result = <<>>

\* The server writes a response.
Put == \E r \in Responses : queue' = Append(queue, r) /\ UNCHANGED <<open, result>>

\* The next response is returned, or dropped as one that was not to be accepted.
Take ==
    /\ open /\ queue # <<>> /\ Valid(Head(queue))
    /\ result' \in {<<Head(queue)>>, <<>>}
    /\ queue' = Tail(queue)
    /\ UNCHANGED open

\* The connection has failed, or the next response is none.
Break == open' = FALSE /\ queue' = <<>> /\ result' = <<>>

\* A call on a closed connection.
Closed == ~open /\ result' = <<>> /\ UNCHANGED <<queue, open>>

\* A new call forgets the result of the last one.
Call == result' = <<>> /\ UNCHANGED <<queue, open>>

Next == Put \/ Take \/ Break \/ Closed \/ Call

Spec == Init /\ [][Next]_vars
=============================================================================
