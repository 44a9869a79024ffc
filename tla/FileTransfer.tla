---------------------------- MODULE FileTransfer ----------------------------
(***************************************************************************)
(* What a run of the client promises to whoever started it: the files of   *)
(* its job arrive intact, in the order of the list, and the run reports      *)
(* success only when the last one has.  A run that reports a failure, or     *)
(* dies, has delivered a prefix of the job; the server may confirm one more *)
(* file after the run is gone, for the confirmation was on its way.         *)
(***************************************************************************)
EXTENDS Naturals, Sequences

CONSTANTS
    Clients,  \* runs of the program
    Jobs      \* the sequences of files a run may be asked to transfer

VARIABLES
    phase,     \* phase[p]: "idle" | "active" | "succeeded" | "failed"
    job,       \* job[p]: the files to transfer
    delivered  \* delivered[p]: how many of them, in order, have arrived intact

transferVars == <<phase, job, delivered>>

TransferInit ==
    /\ phase = [p \in Clients |-> "idle"]
    /\ job = [p \in Clients |-> <<>>]
    /\ delivered = [p \in Clients |-> 0]

Begin(p) ==
    /\ phase[p] = "idle"
    /\ phase' = [phase EXCEPT ![p] = "active"]
    /\ \E list \in Jobs : job' = [job EXCEPT ![p] = list]
    /\ UNCHANGED delivered

Deliver(p) ==
    /\ phase[p] \in {"active", "failed"}
    /\ delivered[p] < Len(job[p])
    /\ delivered' = [delivered EXCEPT ![p] = @ + 1]
    /\ UNCHANGED <<phase, job>>

Succeed(p) ==
    /\ phase[p] = "active"
    /\ delivered[p] = Len(job[p])
    /\ phase' = [phase EXCEPT ![p] = "succeeded"]
    /\ UNCHANGED <<job, delivered>>

Fail(p) ==
    /\ phase[p] \in {"idle", "active"}
    /\ phase' = [phase EXCEPT ![p] = "failed"]
    /\ UNCHANGED <<job, delivered>>

TransferNext ==
    \E p \in Clients : Begin(p) \/ Deliver(p) \/ Succeed(p) \/ Fail(p)

TransferSpec == TransferInit /\ [][TransferNext]_transferVars
=============================================================================
