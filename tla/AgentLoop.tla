----------------------------- MODULE AgentLoop -----------------------------
(***************************************************************************)
(* One agent's turns: the tool loop of src/internal/cognitive/agent.go     *)
(* (RespondWithTools) over the history it keeps (memory/context.go), the   *)
(* words a person types under a running turn, Stop, and the end the engine *)
(* puts to a turn (src/internal/engine/app.go). The calls an answer makes  *)
(* are served by ToolCalls.                                                *)
(*                                                                         *)
(* Answers of the provider are numbered. A message is a user's, an         *)
(* answer (numbered, with so many calls) or the result of one of its       *)
(* calls. Left out: what messages say, the character budget that drops old *)
(* turns, the bytes of pictures, and usage. Summarising is one step with   *)
(* what follows it: a Stop in between shows at the request that is next.   *)
(***************************************************************************)
EXTENDS ToolCalls, FiniteSetsExt

CONSTANTS
  Reads,        (* the keys of tools that may run beside each other        *)
  Cameras,      (* the keys of tools that give a picture                   *)
  CallLists,    (* what an answer may call, in order                       *)
  Troubles,     (* ways a request fails that are asked again               *)
  Budget,       (* how often, for each; the code's differ from 3 to 6      *)
  MaxToolCalls, (* the cap on rounds, 0 for none                           *)
  DoomStop,     (* the same call so many times in a row ends the turn      *)
  KeepRecent,   (* what a summary leaves alone                             *)
  CompactAt,    (* the length of a history that is to be summarised        *)
  MaxTurns,     (* bound: turns                                            *)
  MaxRequests,  (* bound: answers of the provider, over all turns          *)
  MaxWords      (* bound: what the person types under turns                *)

VARIABLES
  pc,         (* where the turn is                                         *)
  history,    (* Context.messages, after the system prompt                 *)
  round,      (* the loop's i                                              *)
  asked,      (* requests so far                                           *)
  turns,      (* turns so far                                              *)
  since,      (* history: requests before this turn                        *)
  spent,      (* what has been used of each budget                         *)
  carried,    (* the pieces of an answer that was cut                      *)
  reply,      (* the pieces of the answer the turn ends with               *)
  calls,      (* the keys the last answer calls                            *)
  first, last,(* the group of calls that is running                        *)
  pictures,   (* how many are held back                                    *)
  lastKey, repeats, (* the doom-loop guard                                 *)
  typed,      (* what the person has typed, numbered                       *)
  interjection, (* what of it waits for the loop                           *)
  folded, handed, dropped (* and what became of the rest                   *)

words == <<typed, interjection, folded, handed, dropped>>
guard == <<lastKey, repeats>>
group == <<calls, first, last, pictures>>
answer == <<carried, reply>>
vars == <<callVars, pc, history, round, asked, turns, since, spent, answer, group, guard, words>>

Budgets == Troubles \cup {"overflow", "more", "leak", "blank"}

ASSUME AgentLoopAssumption ==
  /\ CallLists \subseteq Seq(Keys) /\ \A ks \in CallLists : Len(ks) \in Places
  /\ Reads \subseteq Keys /\ Cameras \subseteq Keys
  /\ {Budget, MaxToolCalls, MaxTurns, MaxRequests, MaxWords, CompactAt} \subseteq Nat
  /\ {DoomStop, KeepRecent} \subseteq Nat \ {0}
  /\ {"overflow", "more", "leak", "blank"} \cap Troubles = {}

User(x) == [role |-> "user", of |-> 0, n |-> 0, says |-> x]
Assistant(a, n, x) == [role |-> "assistant", of |-> a, n |-> n, says |-> x]
Result(a, i) == [role |-> "tool", of |-> a, n |-> i, says |-> "result"]

UserWords == {"question", "word", "more", "leak", "blank", "verdict", "picture", "summary"}
Messages ==
  [role : {"user"}, of : {0}, n : {0}, says : UserWords] \cup
  [role : {"assistant"}, of : 1 .. MaxRequests, n : 0 .. MaxCalls, says : {"text", "alone"}] \cup
  [role : {"tool"}, of : 1 .. MaxRequests, n : Places, says : {"result"}]

LoopTypes ==
  /\ pc \in {"idle", "top", "asking", "waiting", "running", "ending", "closing"}
  /\ history \in Seq(Messages)
  /\ round \in Nat
  /\ asked \in 0 .. MaxRequests /\ turns \in 0 .. MaxTurns /\ since \in Nat
  /\ spent \in [Budgets -> Nat]
  /\ carried \in Seq(1 .. MaxRequests) /\ reply \in Seq(1 .. MaxRequests)
  /\ calls \in Seq(Keys) /\ Len(calls) <= MaxCalls
  /\ first \in 1 .. MaxCalls + 1 /\ last \in 0 .. MaxCalls
  /\ pictures \in Nat
  /\ lastKey \in Keys \cup {None} /\ repeats \in Nat
  /\ typed \in 0 .. MaxWords
  /\ interjection \in Seq(1 .. MaxWords) /\ folded \in Seq(1 .. MaxWords)
  /\ handed \subseteq 1 .. MaxWords /\ dropped \subseteq 1 .. MaxWords

TypeOK == CallTypes /\ LoopTypes

Init ==
  /\ CallInit
  /\ pc = "idle" /\ history = <<>> /\ round = 0 /\ asked = 0 /\ turns = 0 /\ since = 0
  /\ spent = [b \in Budgets |-> 0]
  /\ carried = <<>> /\ reply = <<>>
  /\ calls = <<>> /\ first = 1 /\ last = 0 /\ pictures = 0
  /\ lastKey = None /\ repeats = 0
  /\ typed = 0 /\ interjection = <<>> /\ folded = <<>> /\ handed = {} /\ dropped = {}

-----------------------------------------------------------------------------
(* The history.                                                            *)

(* compactionBoundary, with the system prompt not counted: a user message  *)
(* at or after the tail to keep, else the last one before it; 0 for none.  *)
Boundary(h) ==
  LET users == {i \in DOMAIN h : h[i].role = "user"}
      later == {i \in users : i > Len(h) - KeepRecent}
      before == {i \in users : 1 < i /\ i <= Len(h) - KeepRecent}
  IN IF Len(h) < KeepRecent + 3 \/ later \cup before = {} THEN 0
     ELSE IF later # {} THEN Min(later) ELSE Max(before)

Summarised(h) == <<User("summary")>> \o SubSeq(h, Boundary(h), Len(h))

(* compactIfNeeded: the summary may fail, and the turn goes on without it. *)
Compactions(h) ==
  IF Len(h) > CompactAt /\ Boundary(h) # 0 THEN {h, Summarised(h)} ELSE {h}

Times(n, m) == [i \in 1 .. n |-> m]

-----------------------------------------------------------------------------
(* A turn from its question to the next request.                           *)

(* What a budget allows once more.                                         *)
Allows(b) == spent[b] < Budget
Spend(b) == spent' = [spent EXCEPT ![b] = @ + 1]

(* What a turn keeps to itself is gone with it.                            *)
NoTurn ==
  /\ round' = 0
  /\ spent' = [b \in Budgets |-> 0]
  /\ carried' = <<>> /\ reply' = <<>>
  /\ lastKey' = None /\ repeats' = 0

Begin ==
  /\ pc = "idle" /\ turns < MaxTurns
  /\ turns' = turns + 1 /\ pc' = "top"
  /\ \E h \in Compactions(history) : history' = Append(h, User("question"))
  /\ since' = asked
  /\ UNCHANGED <<callVars, round, asked, spent, answer, group, guard, words>>

Exhausted == MaxToolCalls > 0 /\ round >= MaxToolCalls

(* The turn has nothing more to ask: the cap is reached, or Stop was.      *)
Leave ==
  /\ pc = "top" /\ (Exhausted \/ stopped)
  /\ pc' = "ending"
  /\ UNCHANGED <<callVars, history, round, asked, turns, since, spent, answer, group, guard, words>>

(* The request for the next answer, with what was typed folded in first.   *)
Ask ==
  /\ pc = "top" /\ ~Exhausted /\ ~stopped /\ asked < MaxRequests
  /\ pc' = "asking"
  /\ asked' = asked + 1
  /\ \E h \in IF round > 0 THEN Compactions(history) ELSE {history} :
       history' = h \o Times(Len(interjection), User("word"))
  /\ folded' = folded \o interjection
  /\ interjection' = <<>>
  /\ UNCHANGED <<callVars, round, turns, since, spent, answer, group, guard, typed, handed, dropped>>

-----------------------------------------------------------------------------
(* A request that failed. Nothing of it is in the history.                 *)

Failing(to) ==
  /\ pc = "asking" /\ pc' = to
  /\ UNCHANGED <<callVars, round, asked, turns, since, answer, group, guard, words>>

(* askAgainAfterDrop, -Empty, -Limit, -Overload: wait, and ask again.      *)
AskAgain(t) ==
  /\ ~stopped /\ Allows(t)
  /\ Spend(t)
  /\ UNCHANGED history
  /\ Failing("waiting")

(* Out of replays of an empty answer: one nudge.                           *)
NudgeBlank ==
  /\ "empty" \in Troubles /\ ~Allows("empty") /\ spent["blank"] = 0
  /\ Spend("blank")
  /\ history' = Append(history, User("blank"))
  /\ Failing("top")

(* The prompt is too long for the model: summarise and ask again.          *)
TooLong ==
  /\ Allows("overflow") /\ Boundary(history) # 0
  /\ Spend("overflow")
  /\ history' = Summarised(history)
  /\ Failing("top")

(* Any other failure, a budget that is spent and a Stop among them.        *)
Refused ==
  /\ UNCHANGED <<history, spent>>
  /\ Failing("ending")

(* The tool block is what was refused: the answer is a plain one.          *)
PlainAnswer ==
  /\ pc = "asking" /\ round = 0
  /\ pc' = "ending"
  /\ history' = Append(history, Assistant(asked, 0, "alone"))
  /\ reply' = <<asked>>
  /\ UNCHANGED <<callVars, round, asked, turns, since, spent, carried, group, guard, words>>

(* The wait is over, by its clock or by Stop.                              *)
Waited ==
  /\ pc = "waiting"
  /\ pc' \in {"top"} \cup (IF stopped THEN {"ending"} ELSE {})
  /\ UNCHANGED <<callVars, history, round, asked, turns, since, spent, answer, group, guard, words>>

-----------------------------------------------------------------------------
(* An answer without calls.                                                *)

Answered(to, h) ==
  /\ pc = "asking" /\ pc' = to
  /\ history' = h
  /\ UNCHANGED <<callVars, asked, turns, since, group, guard, typed, handed, dropped>>

NextRound == round' = round + 1

(* It ran out of room: ask for the rest of it.                             *)
Cut ==
  /\ Allows("more")
  /\ Spend("more")
  /\ carried' = Append(carried, asked)
  /\ Answered("top", history \o <<Assistant(asked, 0, "text"), User("more")>>)
  /\ UNCHANGED <<round, reply, interjection, folded>>

(* It is no answer, but leaked markup or nothing at all: a nudge.          *)
Nudge(b, limit) ==
  /\ spent[b] < limit
  /\ Spend(b)
  /\ carried' = <<>>
  /\ Answered("top", Append(history, User(b)))
  /\ NextRound
  /\ UNCHANGED <<reply, interjection, folded>>

Leaked == Nudge("leak", Budget)
Blank == carried = <<>> /\ Nudge("blank", 1)

(* What the history gets, and what the person is shown: the whole answer,  *)
(* or the sentence the loop says in its place when it leaks once too often.*)
Kinds == {"text"} \cup (IF Allows("leak") THEN {} ELSE {"alone"})
Content(x) == IF x = "text" THEN Append(carried, asked) ELSE <<asked>>

(* Mutant: what was carried stays where it is.                             *)
ConsumedNever == carried

Consumed == <<>>

(* The person typed while it was written, and the turn goes on.            *)
KeptAlive(x) ==
  /\ interjection # <<>>
  /\ carried' = Consumed
  /\ Answered("top", Append(history, Assistant(asked, 0, x)) \o Times(Len(interjection), User("word")))
  /\ folded' = folded \o interjection
  /\ interjection' = <<>>
  /\ NextRound
  /\ UNCHANGED <<spent, reply>>

(* The goal's checker sends it back; by then it is in the history twice.   *)
SentBack(x) ==
  /\ interjection = <<>>
  /\ carried' = Consumed
  /\ Answered("top", history \o <<Assistant(asked, 0, x), Assistant(asked, 0, x), User("verdict")>>)
  /\ NextRound
  /\ UNCHANGED <<spent, reply, interjection, folded>>

Final(x) ==
  /\ interjection = <<>>
  /\ carried' = Consumed
  /\ reply' = Content(x)
  /\ Answered("ending", Append(history, Assistant(asked, 0, x)))
  /\ UNCHANGED <<round, spent, interjection, folded>>

Says == Cut \/ Leaked \/ Blank \/ \E x \in Kinds : KeptAlive(x) \/ SentBack(x) \/ Final(x)

-----------------------------------------------------------------------------
(* An answer with calls.                                                   *)

(* The last of its calls is not whole: each is refused, and none is run.   *)
Truncated(ks) ==
  /\ Answered("top", Append(history, Assistant(asked, Len(ks), "text"))
                       \o [i \in 1 .. Len(ks) |-> Result(asked, i)])
  /\ carried' = <<>>
  /\ NextRound
  /\ UNCHANGED <<spent, reply, interjection, folded>>

Call(ks) ==
  /\ pc = "asking" /\ pc' = "running"
  /\ history' = Append(history, Assistant(asked, Len(ks), "text"))
  /\ carried' = <<>>
  /\ calls' = ks /\ first' = 1 /\ last' = 0 /\ pictures' = 0
  /\ UNCHANGED <<callVars, round, asked, turns, since, spent, reply, guard, words>>

(* parallelGroup: up to five reads go together, anything else alone.       *)
GroupEnd ==
  LET together == {j \in first .. Len(calls) : j < first + 5 /\ \A i \in first .. j : calls[i] \in Reads}
  IN IF together = {} THEN first ELSE Max(together)

(* The guard after the calls of the group up to place j.                   *)
RepeatsAt(j) ==
  LET same == {m \in first .. j : \A i \in m .. j : calls[i] = calls[j]}
      run == Cardinality(same)
  IN IF run = j - first + 1 /\ calls[j] = lastKey THEN repeats + run ELSE run

Looping == {j \in first .. GroupEnd : RepeatsAt(j) >= DoomStop}

NoCalls == calls' = <<>> /\ first' = 1 /\ last' = 0 /\ pictures' = 0

(* The group begins, if the guard lets all of it.                          *)
BeginGroup ==
  /\ pc = "running" /\ last < first /\ first <= Len(calls) /\ Looping = {}
  /\ last' = GroupEnd
  /\ stage' = [i \in Places |-> IF i \in first .. GroupEnd THEN "due" ELSE "none"]
  /\ lastKey' = calls[GroupEnd] /\ repeats' = RepeatsAt(GroupEnd)
  /\ UNCHANGED <<stopped, pending, work, holds, told, pc, history, round, asked, turns, since, spent,
                 answer, calls, first, pictures, words>>

(* The same call once too often ends the turn, with a result of its own.   *)
DoomLoop ==
  /\ pc = "running" /\ last < first /\ first <= Len(calls) /\ Looping # {}
  /\ LET j == Min(Looping)
     IN /\ history' = Append(history, Result(asked, j)) \o Times(pictures, User("picture"))
        /\ lastKey' = calls[j] /\ repeats' = RepeatsAt(j)
  /\ pc' = "ending"
  /\ NoCalls
  /\ UNCHANGED <<callVars, round, asked, turns, since, spent, answer, words>>

RunCall(i) ==
  /\ pc = "running" /\ i \in first .. last
  /\ CallStep(i, calls[i])
  /\ UNCHANGED <<pc, history, round, asked, turns, since, spent, answer, group, guard, words>>

GroupBack == pc = "running" /\ first <= last /\ \A i \in first .. last : stage[i] \in Back

(* Mutant: the calls that failed last.                                     *)
FailedLast(i) == Result(asked, IF stage[first] = "failed" THEN last - i + 1 ELSE first + i - 1)

(* The order in which the results of the group are written.                *)
InOrder(i) == Result(asked, first + i - 1)

Shot == Cardinality({i \in first .. last : stage[i] = "done" /\ calls[i] \in Cameras})
Results == [i \in 1 .. last - first + 1 |-> InOrder(i)]
Clear == stage' = [i \in Places |-> "none"] /\ UNCHANGED <<stopped, pending, work, holds, told>>

(* A group is written down once all of it is back. A Stop that one of it   *)
(* felt ends the turn there.                                               *)
Felt == stopped /\ \E i \in first .. last : stage[i] = "failed"

Write ==
  /\ GroupBack /\ ~Felt /\ last < Len(calls)
  /\ history' = history \o Results
  /\ pictures' = pictures + Shot
  /\ first' = last + 1
  /\ Clear
  /\ UNCHANGED <<pc, round, asked, turns, since, spent, answer, calls, last, guard, words>>

(* The pictures go behind every result of the answer.                      *)
WriteLast ==
  /\ GroupBack /\ (Felt \/ last = Len(calls))
  /\ history' = history \o Results \o Times(pictures + Shot, User("picture"))
  /\ NoCalls
  /\ IF Felt THEN pc' = "ending" /\ UNCHANGED round ELSE pc' = "top" /\ NextRound
  /\ Clear
  /\ UNCHANGED <<asked, turns, since, spent, answer, guard, words>>

-----------------------------------------------------------------------------
(* The person, and the end of a turn.                                      *)

Interject ==
  /\ typed < MaxWords
  /\ typed' = typed + 1
  /\ interjection' = Append(interjection, typed + 1)
  /\ UNCHANGED <<callVars, pc, history, round, asked, turns, since, spent, answer, group, guard,
                 folded, handed, dropped>>

(* CancelTurn: what was typed under the turn is dropped with it.           *)
Stop ==
  /\ pc # "closing" /\ ~stopped
  /\ dropped' = dropped \cup {interjection[i] : i \in DOMAIN interjection}
  /\ interjection' = <<>>
  /\ stopped' = (pc # "idle")
  /\ Cancel
  /\ UNCHANGED <<pending, stage, holds, told, pc, history, round, asked, turns, since, spent, answer,
                 group, guard, typed, folded, handed>>

(* Mutant: the buffer is not looked at again.                              *)
HandBackNothing ==
  /\ pc = "ending" /\ pc' = "closing"
  /\ handed' = handed \cup {interjection[i] : i \in DOMAIN interjection}
  /\ UNCHANGED <<callVars, history, round, asked, turns, since, spent, answer, group, guard, typed,
                 folded, dropped, interjection>>

(* runTurn, behind the loop: what came too late goes back to the window.   *)
HandBack ==
  /\ pc = "ending" /\ pc' = "closing"
  /\ handed' = handed \cup {interjection[i] : i \in DOMAIN interjection}
  /\ interjection' = <<>>
  /\ UNCHANGED <<callVars, history, round, asked, turns, since, spent, answer, group, guard, typed,
                 folded, dropped>>

(* Its context goes with the turn, parked work and all.                    *)
TurnEnds ==
  /\ pc = "closing" /\ pc' = "idle"
  /\ Cancel
  /\ told' = [k \in Keys |-> None]
  /\ stopped' = FALSE
  /\ NoTurn
  /\ UNCHANGED <<pending, stage, holds, history, asked, turns, since, group, words>>

WorkStep ==
  /\ \E w \in Works : WorkEnds(w)
  /\ UNCHANGED <<pc, history, round, asked, turns, since, spent, answer, group, guard, words>>

Fails == (\E t \in Troubles : AskAgain(t)) \/ NudgeBlank \/ TooLong \/ Refused
Calls == \E ks \in CallLists : Call(ks) \/ Truncated(ks)
Returns == Fails \/ PlainAnswer \/ Says \/ Calls
Runs == BeginGroup \/ DoomLoop \/ Write \/ WriteLast \/ \E i \in Places : RunCall(i)

LoopStep == Leave \/ Ask \/ Returns \/ Waited \/ Runs \/ HandBack \/ TurnEnds
Next == Begin \/ LoopStep \/ Interject \/ Stop \/ WorkStep

(* Once a turn is stopped its request comes back, its wait ends and its    *)
(* calls return; no work of a tool has to end.                             *)
Spec == Init /\ [][Next]_vars
FairSpec == Spec /\ WF_vars(stopped /\ LoopStep)

-----------------------------------------------------------------------------
(***************************************************************************)
(* The history is one a provider takes: a result stands behind its answer  *)
(* with nothing but results of that answer between the two, summaries and  *)
(* pictures notwithstanding, and when the next request goes out every call *)
(* of this turn has its result, in the order of the calls, whichever of    *)
(* them came back first. (A turn that was stopped, or ended by the         *)
(* doom-loop guard, leaves calls without a result for the turns after it.) *)
(***************************************************************************)
ResultsFollowCalls ==
  /\ \A j \in DOMAIN history : history[j].role = "tool" =>
       \E i \in 1 .. j - 1 :
         /\ history[i].role = "assistant" /\ history[i].n >= history[j].n
         /\ \A m \in i .. j : history[m].of = history[j].of
  /\ pc = "asking" =>
       \A i \in DOMAIN history : history[i].role = "assistant" /\ history[i].of > since =>
         \A k \in 1 .. history[i].n :
           i + k <= Len(history) /\ history[i + k] = Result(history[i].of, k)

(***************************************************************************)
(* A message typed under a turn is never swallowed and never said twice:   *)
(* it waits, was folded into a turn, went back to the window or was        *)
(* dropped by the Stop it was typed before; what was folded came in the    *)
(* order it was typed.                                                     *)
(***************************************************************************)
WordsHaveOnePlace ==
  LET said == folded \o interjection
      placed == {said[i] : i \in DOMAIN said}
  IN /\ placed \cup handed \cup dropped = 1 .. typed
     /\ handed \cap dropped = {} /\ placed \cap (handed \cup dropped) = {}
     /\ \A i, j \in DOMAIN said : i < j => said[i] < said[j]

(***************************************************************************)
(* The answer the person is shown is the answer: the pieces of one that    *)
(* was cut, in their order and each once, and none of an earlier one the   *)
(* turn went on from.                                                      *)
(***************************************************************************)
ReplyIsTheAnswer ==
  pc = "ending" /\ reply # <<>> =>
    LET text == {i \in DOMAIN history : history[i].role = "assistant"}
        lastOne == CHOOSE i \in text : \A j \in text : j <= i
        Joined(i, j) ==
          /\ history[i + 1] = User("more") /\ history[j].says = "text"
          /\ \A m \in i + 1 .. j - 1 :
               history[m].role = "user" /\ history[m].says \notin {"leak", "question"}
        Goes(p, i) == i \in text /\ history[i].of = p
    IN /\ Goes(reply[Len(reply)], lastOne)
       /\ \A k \in 1 .. Len(reply) - 1 : \A i, j \in text :
            Goes(reply[k], i) /\ Goes(reply[k + 1], j) => Joined(i, j)
       /\ \A i, j \in text : Goes(reply[1], j) /\ i < j => ~Joined(i, j)

(***************************************************************************)
(* Stop is the brake of a loop that has no bound of its own: a turn that   *)
(* was stopped comes to its end, wherever it was, with calls that wait for *)
(* tools that never end among the places.                                  *)
(***************************************************************************)
StoppedTurnEnds == (stopped /\ pc # "idle") ~> (pc = "idle")
=============================================================================
