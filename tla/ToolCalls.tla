----------------------------- MODULE ToolCalls -----------------------------
(***************************************************************************)
(* The tool calls of a running turn, as the executor serves them           *)
(* (src/internal/turn/executor.go, dispatchWithDeadline): a call waits for *)
(* its work until a deadline, the work goes on behind it, and the same     *)
(* call made again looks in on it through the register `pending`.          *)
(*                                                                         *)
(* A key is a tool with its arguments. The calls are those of one answer   *)
(* of the model, at the places 1..MaxCalls; AgentLoop says which run       *)
(* together. Left out: approval, hooks, and the tools without a deadline   *)
(* (a delegation's are the matter of Delegations).                         *)
(***************************************************************************)
EXTENDS Integers, FiniteSets, Sequences

CONSTANTS
  Keys,       (* tools with their arguments                                *)
  Slow,       (* the keys of tools that may outlast the deadline           *)
  MaxCalls,   (* bound: calls in one answer of the model                   *)
  Works,      (* runs of a tool; one nothing refers to is used again       *)
  None

Places == 1 .. MaxCalls

ASSUME ToolCallsAssumption ==
  /\ MaxCalls \in Nat /\ None \notin Works \cup Keys
  /\ IsFiniteSet(Works) /\ IsFiniteSet(Keys)
  /\ Cardinality(Works) > 2 * Cardinality(Keys) + MaxCalls

VARIABLES
  stopped,    (* the context of the turn is cancelled                      *)
  pending,    (* Executor.pending: the work a key is answered with         *)
  work,       (* what each piece of work has come to                       *)
  stage,      (* where each call is                                        *)
  holds,      (* the work a call waits for                                 *)
  told        (* history: the work a key was last said to be still running *)

callVars == <<stopped, pending, work, stage, holds, told>>

Ended == {"done", "failed", "cancelled"}
Stages == {"none", "due", "waits", "done", "parked", "failed"}
Back == {"done", "parked", "failed"}

CallTypes ==
  /\ stopped \in BOOLEAN
  /\ pending \in [Keys -> Works \cup {None}]
  /\ work \in [Works -> {"free", "runs", "doomed"} \cup Ended]
  /\ stage \in [Places -> Stages]
  /\ holds \in [Places -> Works \cup {None}]
  /\ told \in [Keys -> Works \cup {None}]

CallInit ==
  /\ stopped = FALSE
  /\ pending = [k \in Keys |-> None]
  /\ work = [w \in Works |-> "free"]
  /\ stage = [i \in Places |-> "none"]
  /\ holds = [i \in Places |-> None]
  /\ told = pending

(* Nobody can tell any more what work is doing that nothing refers to.     *)
Kept(wk, pd, hd, td) ==
  [w \in Works |->
     IF (\E k \in Keys : w \in {pd[k], td[k]}) \/ \E i \in Places : hd[i] = w
     THEN wk[w] ELSE "free"]

Without(f, k) == [f EXCEPT ![k] = None]

(* The call at place i is back, with what it will be answered.             *)
Comes(i, as, pd, td) ==
  /\ stage' = [stage EXCEPT ![i] = as]
  /\ holds' = Without(holds, i)
  /\ pending' = pd
  /\ work' = Kept(work, pd, Without(holds, i), td)
  /\ told' = td
  /\ UNCHANGED stopped

-----------------------------------------------------------------------------
(* beginCall: the work already in flight for this key, unless it was       *)
(* cancelled with the turn it was of; else new work, under the context of  *)
(* the turn whatever has become of that.                                   *)

InFlight(k) == pending[k] # None /\ work[pending[k]] # "cancelled"

Join(i, k) ==
  /\ stage[i] = "due" /\ InFlight(k)
  /\ stage' = [stage EXCEPT ![i] = "waits"]
  /\ holds' = [holds EXCEPT ![i] = pending[k]]
  /\ UNCHANGED <<stopped, pending, work, told>>

(* There always is a free one, by the assumption on Works.                 *)
Start(i, k) ==
  /\ stage[i] = "due" /\ ~InFlight(k)
  /\ \E w \in Works : work[w] = "free"
  /\ LET w == CHOOSE w \in Works : work[w] = "free"
         pd == [pending EXCEPT ![k] = w]
         hd == [holds EXCEPT ![i] = w]
     IN /\ pending' = pd
        /\ holds' = hd
        /\ work' = Kept([work EXCEPT ![w] = IF stopped THEN "doomed" ELSE "runs"], pd, hd, told)
  /\ stage' = [stage EXCEPT ![i] = "waits"]
  /\ UNCHANGED <<stopped, told>>

(* The three ends of the select. forget takes away what is under the key,  *)
(* whichever work that is by now.                                          *)
Collect(i, k) ==
  /\ stage[i] = "waits" /\ work[holds[i]] \in Ended
  /\ Comes(i, IF work[holds[i]] = "done" THEN "done" ELSE "failed", Without(pending, k),
           IF told[k] = holds[i] THEN Without(told, k) ELSE told)

(* Mutant: a call looks at Stop once its work is over.                     *)
GiveUpLate(i, k) ==
  /\ stage[i] = "waits" /\ stopped /\ work[holds[i]] \in Ended
  /\ Comes(i, "failed", Without(pending, k), told)

GiveUp(i, k) ==
  /\ stage[i] = "waits" /\ stopped
  /\ Comes(i, "failed", Without(pending, k), told)

(* Mutant: a call that is parked is forgotten.                             *)
OverrunForgotten(i, k) ==
  /\ stage[i] = "waits" /\ k \in Slow
  /\ Comes(i, "parked", Without(pending, k), [told EXCEPT ![k] = holds[i]])

Overrun(i, k) ==
  /\ stage[i] = "waits" /\ k \in Slow
  /\ Comes(i, "parked", pending, [told EXCEPT ![k] = holds[i]])

CallStep(i, k) ==
  \/ Join(i, k) \/ Start(i, k)
  \/ Collect(i, k) \/ GiveUp(i, k) \/ Overrun(i, k)

(* The work behind a call ends when it ends; one whose context is gone may *)
(* be cut short, and a tool that does not look at its context is not.      *)
WorkEnds(w) ==
  /\ \/ work[w] = "runs" /\ \E e \in {"done", "failed"} : work' = [work EXCEPT ![w] = e]
     \/ work[w] = "doomed" /\ \E e \in Ended : work' = [work EXCEPT ![w] = e]
  /\ UNCHANGED <<stopped, pending, stage, holds, told>>

(* The context of the turn goes, and with it that of all it has started.   *)
Cancel == work' = [w \in Works |-> IF work[w] = "runs" THEN "doomed" ELSE work[w]]

-----------------------------------------------------------------------------
(***************************************************************************)
(* What the model was told is still running is not started a second time:  *)
(* while it runs, the same call made again looks in on it ("It was NOT     *)
(* cancelled and NOT restarted", stillRunning).                            *)
(***************************************************************************)
ParkedIsKept ==
  \A k \in Keys :
    told[k] # None /\ work[told[k]] = "runs" => pending[k] = told[k]
=============================================================================
