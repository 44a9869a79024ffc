----------------------------- MODULE Connection -----------------------------
(***************************************************************************)
(* One connection in bytes, both ways: the client sends a request and calls *)
(* receiveResponse if the request has a response; a server reads the        *)
(* requests and answers what it likes.                                     *)
(*                                                                         *)
(* The functions of TransferClient give up after a failed call.  Here the   *)
(* client may go on, so that nothing rests on its callers.                 *)
(***************************************************************************)
EXTENDS RequestStream, ResponseStream

VARIABLE awaiting  \* the request that has no response yet, by its code, or Nothing

Nothing == 0

vars == <<requestVars, responseVars, awaiting>>

Init == RequestInit /\ ResponseInit /\ awaiting = Nothing

\* The client has one thread, and sends nothing while it waits for a response.
SendRequest == \E code \in RequestCode :
    /\ awaiting = Nothing /\ isOpen
    /\ Sends(code)
    /\ awaiting' = IF code \in DOMAIN acceptedCodes THEN code ELSE Nothing
    /\ UNCHANGED responseVars

Call ==
    /\ awaiting # Nothing
    /\ ReceiveResponse(acceptedCodes[awaiting])
    /\ UNCHANGED <<requestVars, awaiting>>

\* A call that has failed may be repeated.
Receive ==
    /\ ReceiveStep
    /\ awaiting' = IF stage' = "idle" /\ result' # <<>> THEN Nothing ELSE awaiting
    /\ UNCHANGED requestVars

ServerReads == ReadRequest /\ UNCHANGED <<responseVars, awaiting>>

\* A request is handled with one response, with none, or with one too many.
ServerAnswers ==
    /\ \/ Handled /\ UNCHANGED responseVars
       \/ heard # NoRequest /\ UNCHANGED requestVars /\ \E r \in Responses : Respond(r)
    /\ UNCHANGED awaiting

Failure == LinkFails /\ UNCHANGED <<requestVars, awaiting>>

\* The bounds are reached, or the server has lost the stream.
Over == requests = MAX_REQUESTS /\ stage = "idle" /\ UNCHANGED vars

Next ==
    SendRequest \/ Call \/ Receive \/ ServerReads \/ ServerAnswers \/ Failure \/ Over

Spec == Init /\ [][Next]_vars
=============================================================================
