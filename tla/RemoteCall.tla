----------------------------- MODULE RemoteCall -----------------------------
(***************************************************************************)
(* What a call across the wire promises its caller, without frames, queues *)
(* or a connection: it comes back once, answered only if the other side    *)
(* has done the work, and the work is done at most once whatever came      *)
(* back. A call given up on is forgotten here and not withdrawn there.     *)
(***************************************************************************)
CONSTANT Calls

VARIABLES
  outcome,   (* none, open, answered or failed                             *)
  done       (* the calls whose work the other side has done               *)

remoteVars == <<outcome, done>>

RemoteInit ==
  /\ outcome = [c \in Calls |-> "none"]
  /\ done = {}

Ask(c) ==
  /\ outcome[c] = "none"
  /\ outcome' = [outcome EXCEPT ![c] = "open"]
  /\ UNCHANGED done

Do(c) ==
  /\ outcome[c] # "none"
  /\ c \notin done
  /\ done' = done \cup {c}
  /\ UNCHANGED outcome

Return(c) ==
  /\ outcome[c] = "open"
  /\ c \in done
  /\ outcome' = [outcome EXCEPT ![c] = "answered"]
  /\ UNCHANGED done

Fail(c) ==
  /\ outcome[c] = "open"
  /\ outcome' = [outcome EXCEPT ![c] = "failed"]
  /\ UNCHANGED done

RemoteNext == \E c \in Calls : Ask(c) \/ Do(c) \/ Return(c) \/ Fail(c)

RemoteSpec == RemoteInit /\ [][RemoteNext]_remoteVars
=============================================================================
