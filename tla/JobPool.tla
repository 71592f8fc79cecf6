------------------------------ MODULE JobPool ------------------------------
(***************************************************************************)
(* What a conversation's register of delegations promises, without slots,  *)
(* channels or goroutines: every job that is handed in is worked on in its *)
(* turn, at most Capacity at a time, ends once with one result, and only   *)
(* the user's Stop ends it early.                                          *)
(***************************************************************************)
EXTENDS Naturals, FiniteSets

CONSTANTS Jobs, Capacity

VARIABLES
  job,      (* absent, waiting, running or over                            *)
  result,   (* its result once it is over                                  *)
  told      (* the jobs the user told to stop                              *)

poolVars == <<job, result, told>>

PoolInit ==
  /\ job = [j \in Jobs |-> "absent"]
  /\ result = [j \in Jobs |-> "none"]
  /\ told = {}

Running == {j \in Jobs : job[j] = "running"}

Submit(j) ==
  /\ job[j] = "absent"
  /\ job' = [job EXCEPT ![j] = "waiting"]
  /\ UNCHANGED <<result, told>>

Begin(j) ==
  /\ job[j] = "waiting"
  /\ Cardinality(Running) < Capacity
  /\ job' = [job EXCEPT ![j] = "running"]
  /\ UNCHANGED <<result, told>>

Tell(j) ==
  /\ job[j] # "absent"
  /\ told' = told \cup {j}
  /\ UNCHANGED <<job, result>>

(* A job that has begun ends with its result, or as stopped if it was told *)
(* to; one that waits ends only by being told.                             *)
End(j, r) ==
  /\ job[j] \in {"waiting", "running"}
  /\ r = "stopped" => j \in told
  /\ job[j] = "waiting" => r = "stopped"
  /\ job' = [job EXCEPT ![j] = "over"]
  /\ result' = [result EXCEPT ![j] = r]
  /\ UNCHANGED told

PoolNext ==
  \E j \in Jobs :
    \/ Submit(j)
    \/ Begin(j)
    \/ Tell(j)
    \/ \E r \in {"ok", "failed", "stopped"} : End(j, r)

PoolSpec == PoolInit /\ [][PoolNext]_poolVars
=============================================================================
