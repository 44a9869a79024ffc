--------------------------- MODULE NetworkClient ---------------------------
(***************************************************************************)
(* The TCP connection of each run (NetworkClient.cpp), at the granularity  *)
(* of protocol messages.  TCP delivers the bytes of a connection in order  *)
(* and without loss until the connection breaks; what was in flight then    *)
(* may be lost from any point on, in both directions.                      *)
(***************************************************************************)
EXTENDS Protocol, Sequences

VARIABLES
    socket,    \* socket[p]: "closed" | "up" | "down" (open, but the peer is gone)
    outbound,  \* outbound[p]: requests p has written and the server has not read
    inbound    \* inbound[p]: responses p has not read

netVars == <<socket, outbound, inbound>>

NetTypeOK ==
    /\ socket \in [Procs -> {"closed", "up", "down"}]
    /\ outbound \in [Procs -> Seq(Request)]
    /\ inbound \in [Procs -> Seq(Response)]

NetInit ==
    /\ socket = [p \in Procs |-> "closed"]
    /\ outbound = [p \in Procs |-> <<>>]
    /\ inbound = [p \in Procs |-> <<>>]

-----------------------------------------------------------------------------
\* connect: resolve, then open a TCP connection.
connect(p) ==
    /\ socket' = [socket EXCEPT ![p] = "up"]
    /\ UNCHANGED <<outbound, inbound>>

\* disconnect: what the peer has sent and nobody has read is discarded.
disconnect(p) ==
    /\ socket' = [socket EXCEPT ![p] = "closed"]
    /\ inbound' = [inbound EXCEPT ![p] = <<>>]
    /\ UNCHANGED outbound

\* send returns true: the bytes are in the kernel's buffer.  The step is the moment at
\* which boost::asio::write returns; until then the run is inside the call, which has no
\* timeout and which nothing obliges to return while the peer does not read (FairSpec).
\* That it returned says nothing of the peer: a connection that is already broken still
\* takes the first write.
send(p, request) ==
    outbound' = IF socket[p] = "up"
                THEN [outbound EXCEPT ![p] = Append(@, request)]
                ELSE outbound

\* send returns false: the write fails.
sendFails(p) == socket[p] = "down"

\* receiveExact finds a whole response in the stream.
responseArrived(p) == /\ socket[p] # "closed"
                      /\ inbound[p] # <<>>

\* receiveExact takes that response.
receive(p) == /\ inbound' = [inbound EXCEPT ![p] = Tail(@)]
              /\ UNCHANGED <<socket, outbound>>

\* receiveExact reports end of file or an error.  While the connection is up and nothing
\* arrives it does neither, and has no timeout.
receiveFails(p) == /\ socket[p] = "down"
                   /\ inbound[p] = <<>>

-----------------------------------------------------------------------------
\* The connection breaks.  Any suffix of what is in flight is lost.
LinkBreaks(p) ==
    /\ socket[p] = "up"
    /\ socket' = [socket EXCEPT ![p] = "down"]
    /\ \E i \in 0..Len(outbound[p]), j \in 0..Len(inbound[p]) :
          /\ outbound' = [outbound EXCEPT ![p] = SubSeq(@, 1, i)]
          /\ inbound' = [inbound EXCEPT ![p] = SubSeq(@, 1, j)]
=============================================================================
