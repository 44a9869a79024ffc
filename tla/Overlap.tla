------------------------------ MODULE Overlap ------------------------------
(***************************************************************************)
(* Runs that overlap: several processes started in one directory.  Nothing *)
(* in the program keeps a second one from starting, so the steps of         *)
(* tryReconnect, removeClientInfo and saveClientInfo of one run may fall     *)
(* between those of another.                                               *)
(*                                                                         *)
(* A file that is truncated twice and then written twice from its start    *)
(* reads as its last writer left it: me.info is read up to its third line   *)
(* feed, and what a longer key leaves behind a shorter one in priv.key lies  *)
(* behind the end of the DER sequence.  That fails for a write that takes   *)
(* only a prefix, so "disk" is not among the Faults of an instance.        *)
(***************************************************************************)
EXTENDS System

ASSUME WholeWrites == "disk" \notin Faults

\* A run that starts beside others is as exposed as one that meets a fault, and
\* so are they.
StartBeside(p) ==
    LET others == {q \in Procs : pc[q] \in Running}
    IN  loadTransferInfo(p, IF others = {} THEN {} ELSE others \cup {p})

\* Windows does not remove a file that another process holds open, and removeClientInfo
\* ignores it.  A writer holds its file from one of its points to the next, a reader at
\* some time in the step that reads, so that it may or may not be in the way.
RemoveShared(p, point, next, writing, reading, remove) ==
    LET held    == \E q \in Procs : At(q, writing)
        mayHold == \E q \in Procs : At(q, reading)
    IN  DiskStep(p, point, next,
                 \/ ~held /\ remove
                 \/ (held \/ mayHold) /\ UNCHANGED diskVars,
                 FALSE)
RemoveSharedMeInfo(p) ==
    RemoveShared(p, "removeMeInfo", "removePrivKey", "writeMeInfo", "loadClientInfo",
                 removeMeInfo)
RemoveSharedPrivKey(p) ==
    RemoveShared(p, "removePrivKey", "register", "writePrivKey", "tryReconnect",
                 removePrivKey)

OverlapStep(p) ==
    \/ StartBeside(p) \/ RemoveSharedMeInfo(p) \/ RemoveSharedPrivKey(p) \/ RunStep(p)

OverlapMoves(p) ==
    /\ OverlapStep(p) \/ Crash(p) \/ Disconnection(p)
    /\ UNCHANGED serverVars

OverlapNext == (\E p \in Procs : OverlapMoves(p) \/ ServerMoves(p)) \/ AllDone

OverlapSpec == Init /\ [][OverlapNext]_vars

-----------------------------------------------------------------------------
(* Properties *)

\* No file is encrypted under a key that is not the server's: whatever mixture
\* of two runs' credentials a run has loaded, it gets as far as its files only
\* with the session key of its own connection.
TransfersShareKey ==
    \A p \in Procs : pc[p] \in {"nextFile"} \cup Transferring => aesKey[p] = p

\* The credentials that run p has loaded are not each other's: the server holds
\* another public key for the ID.
badCredentials(p) ==
    /\ clientId[p] \in Procs
    /\ registry[clientId[p]].pub \notin {Nil, privateKey[p]}

\* [violated] A run whose stored credentials are bad registers again, and does
\* not fail for them when no fault and no other run interferes:
\* TransferClient.h, "Output flag set to true if reconnect is rejected or
\* credentials are bad".
BadCredentialsReplaced ==
    \A p \in Procs : badCredentials(p) /\ p \notin hit => pc[p] # "failed"
=============================================================================
