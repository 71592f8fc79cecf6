----------------------------- MODULE Transcript -----------------------------
(***************************************************************************)
(* What is kept of a chat: its rows in the store, the transcript of a      *)
(* conversation that is held in memory, and the memory of its agent. The   *)
(* calls are those of src/internal/engine/app.go (SendMessage),            *)
(* regenerate.go and sessions.go, with a process that may die at any       *)
(* moment and the repair its next launch begins with.                      *)
(*                                                                         *)
(* A question is numbered by the turn that first asked it, an answer by    *)
(* the turn that gave it. The window makes one call at a time, except that *)
(* it goes on while a turn works: it opens other chats, leaves the working *)
(* one and comes back to it. A chat has one conversation at most: the      *)
(* objects behind it are the matter of TurnGate.                           *)
(*                                                                         *)
(* Left out: a write the database refuses, and the row a handed-over chat  *)
(* begins with.                                                            *)
(***************************************************************************)
EXTENDS Integers, FiniteSets, Sequences

CONSTANTS
  Chats,      (* session ids                                               *)
  MaxTurns,   (* bound: turns in all                                       *)
  MaxCrashes, (* bound: how often the process dies                         *)
  None

Numbers == 1 .. MaxTurns
Answers == [to : Numbers, by : 0 .. MaxTurns]
Messages ==
  [role : {"user", "agent"}, to : Numbers, by : 0 .. MaxTurns, failed : BOOLEAN,
   variants : SUBSET Answers]

Question(q) == [role |-> "user", to |-> q, by |-> 0, failed |-> FALSE, variants |-> {}]
Answer(q, n) == [role |-> "agent", to |-> q, by |-> n, failed |-> FALSE, variants |-> {}]
Failure(q) == [role |-> "agent", to |-> q, by |-> 0, failed |-> TRUE, variants |-> {}]

VARIABLES
  up,         (* the process runs                                          *)
  rows,       (* the messages of each session in the store                 *)
  screen,     (* the chat on screen                                        *)
  held,       (* the chats a conversation is held for                      *)
  transcript, (* conversation.transcript                                   *)
  memory,     (* what the conversation's agent remembers                   *)
  opened,     (* the conversations with turnOpened set                     *)
  turn,       (* the turn in flight in a chat                              *)
  resend,     (* the question a retry or an edit is about to send          *)
  clock,      (* how many turns there have been                            *)
  crashes,    (* how often the process has died                            *)
  reached     (* history: held chats a call reached into while their turn  *)
              (* worked: Attach read the transcript again, or the failed   *)
              (* second answer of another chat rebuilt the memory          *)

inMemory == <<screen, held, transcript, memory, opened, turn, resend>>
vars == <<up, rows, inMemory, clock, crashes, reached>>

Turns == [kind : {"send", "again"}, to : Numbers, by : Numbers,
          stage : {"begun", "running", "answered", "failed"}]

ASSUME TranscriptAssumption ==
  /\ MaxTurns \in Nat /\ MaxCrashes \in Nat
  /\ None \notin Chats \cup Turns \cup Numbers \cup {0} /\ \E c \in Chats : TRUE

(* What is said of everything but the agents' memory.                      *)
StoreTypes ==
  /\ up \in BOOLEAN
  /\ rows \in [Chats -> Seq(Messages)]
  /\ screen \in Chats
  /\ held \subseteq Chats
  /\ transcript \in [Chats -> Seq(Messages)]
  /\ opened \subseteq Chats
  /\ turn \in [Chats -> Turns \cup {None}]
  /\ resend \in Numbers \cup {0, None}
  /\ clock \in 0 .. MaxTurns
  /\ crashes \in 0 .. MaxCrashes
  /\ reached \subseteq held

Init ==
  /\ up = TRUE
  /\ rows = [c \in Chats |-> <<>>]
  /\ screen \in Chats
  /\ held = {screen}
  /\ transcript = rows
  /\ memory = rows
  /\ opened = {}
  /\ turn = [c \in Chats |-> None]
  /\ resend = None
  /\ clock = 0
  /\ crashes = 0
  /\ reached = {}

-----------------------------------------------------------------------------
(* Reading a transcript.                                                   *)

FailedPairAt(s, i) ==
  IF s[i].role = "agent" THEN s[i].failed
  ELSE i < Len(s) /\ s[i + 1].role = "agent" /\ s[i + 1].failed

(* The messages of s at the positions of K, in their order: a loop that    *)
(* appends what it does not leave out.                                     *)
Selected(s, K) ==
  LET upTo[n \in 0 .. Len(s)] ==
        IF n = 0 THEN <<>>
        ELSE IF n \in K THEN Append(upTo[n - 1], s[n]) ELSE upTo[n - 1]
  IN upTo[Len(s)]

Plain(m) == [m EXCEPT !.variants = {}]

(* transcriptToModelMessages: both halves of a turn that failed are left   *)
(* out, and an answer goes in as the one that is shown.                    *)
ToModel(s) ==
  Selected([i \in DOMAIN s |-> Plain(s[i])], {i \in DOMAIN s : ~FailedPairAt(s, i)})

WithoutLastPair(s) == SubSeq(s, 1, Len(s) - 2)

EndsInPair(s) ==
  /\ Len(s) >= 2
  /\ s[Len(s) - 1].role = "user" /\ s[Len(s)].role = "agent"

(* Mutant: the tail is taken for a failed one.                             *)
EndsInAny(s) == Len(s) >= 2

EndsInFailure(s) ==
  Len(s) >= 2 /\ s[Len(s)].role = "agent" /\ s[Len(s)].failed

Live(m) == [to |-> m.to, by |-> m.by]

(* variantsOf: an answer given once is the list of itself.                 *)
VariantsOf(m) == IF m.variants = {} THEN {Live(m)} ELSE m.variants

(* The answer shown, with the list it was chosen from.                     *)
Showing(m, a, all) == [m EXCEPT !.to = a.to, !.by = a.by, !.variants = all]

(* storeVariants: "the newest agent row of this session".                  *)
StoreVariants(s, a, all) ==
  LET agents == {i \in DOMAIN s : s[i].role = "agent"}
      newest == CHOOSE i \in agents : \A j \in agents : j <= i
  IN IF agents = {} THEN s ELSE [s EXCEPT ![newest] = Showing(s[newest], a, all)]

Working(c) == turn[c] # None
TurnBusy == \E c \in Chats : Working(c)

(* No call of the window's own is between two of its steps.                *)
Calm == up /\ resend = None /\ \A c \in Chats : Working(c) => turn[c].stage # "begun"

(* A chat that nothing has been said in and nobody holds.                  *)
Spare == {c \in Chats : rows[c] = <<>> /\ c \notin held}

NewTurn(kind, q, stage) == [kind |-> kind, to |-> q, by |-> clock + 1, stage |-> stage]

Advance(c, from, to) ==
  /\ Working(c) /\ turn[c].kind = "send" /\ turn[c].stage = from
  /\ turn' = [turn EXCEPT ![c].stage = to]

-----------------------------------------------------------------------------
(* SendMessage.                                                            *)

(* beginTurn. The bound leaves a session id for the next new chat.         *)
BeginTurn(q) ==
  /\ ~Working(screen) /\ clock < MaxTurns
  /\ rows[screen] = <<>> => Spare # {}
  /\ turn' = [turn EXCEPT ![screen] = NewTurn("send", q, "begun")]
  /\ clock' = clock + 1

SendMessage ==
  /\ Calm
  /\ BeginTurn(clock + 1)
  /\ UNCHANGED <<up, rows, screen, held, transcript, memory, opened, resend, crashes, reached>>

(* The second half of RetryFailedTurn and ResendEdited.                    *)
Resend ==
  /\ up /\ resend # None
  /\ BeginTurn(IF resend = 0 THEN clock + 1 ELSE resend)
  /\ resend' = None
  /\ UNCHANGED <<up, rows, screen, held, transcript, memory, opened, crashes, reached>>

(* openTurn, and the agent given the question.                             *)
OpenTurn(c) ==
  /\ Advance(c, "begun", "running")
  /\ rows' = [rows EXCEPT ![c] = Append(@, Question(turn[c].to))]
  /\ opened' = opened \cup {c}
  /\ memory' = [memory EXCEPT ![c] = Append(@, Question(turn[c].to))]
  /\ UNCHANGED <<up, screen, held, transcript, resend, clock, crashes, reached>>

(* Mutant: the flag of the chat on screen is asked.                        *)
PendingOnScreen(c) == IF screen \in opened THEN <<>> ELSE <<Question(turn[c].to)>>

(* The question, unless openTurn has written it.                           *)
Pending(c) == IF c \in opened THEN <<>> ELSE <<Question(turn[c].to)>>

(* appendTurn.                                                             *)
AppendTurn(c) ==
  /\ Advance(c, "running", "answered")
  /\ rows' = [rows EXCEPT ![c] = @ \o Append(Pending(c), Answer(turn[c].to, turn[c].by))]
  /\ opened' = opened \ {c}
  /\ memory' = [memory EXCEPT ![c] = Append(@, Answer(turn[c].to, turn[c].by))]
  /\ UNCHANGED <<up, screen, held, transcript, resend, clock, crashes, reached>>

(* appendFailedTurn: an error, a Stop or the app's close. The question     *)
(* stays in the agent's memory.                                            *)
AppendFailedTurn(c) ==
  /\ Advance(c, "running", "failed")
  /\ rows' = [rows EXCEPT ![c] = Append(@, Failure(turn[c].to))]
  /\ opened' = opened \ {c}
  /\ UNCHANGED <<up, screen, held, transcript, memory, resend, clock, crashes, reached>>

(* endTurn: a chat nobody looks at is let go of, with what it held.        *)
EndTurn(c, texts, minds, astray) ==
  /\ turn' = [turn EXCEPT ![c] = None]
  /\ held' = IF c = screen THEN held ELSE held \ {c}
  /\ transcript' = [d \in Chats |-> IF d \in held' THEN texts[d] ELSE <<>>]
  /\ memory' = [d \in Chats |-> IF d \in held' THEN minds[d] ELSE <<>>]
  /\ reached' = astray \cap held'

(* The pair goes into the transcript, and the turn ends.                   *)
Finish(c) ==
  /\ Working(c) /\ turn[c].stage \in {"answered", "failed"}
  /\ LET q == turn[c].to
         ending == IF turn[c].stage = "failed" THEN Failure(q) ELSE Answer(q, turn[c].by)
     IN EndTurn(c, [transcript EXCEPT ![c] = @ \o <<Question(q), ending>>], memory, reached)
  /\ UNCHANGED <<up, rows, screen, opened, resend, clock, crashes>>

-----------------------------------------------------------------------------
(* Asking again.                                                           *)

(* Mutant: the memory is left as the failed attempt left it.               *)
DropUnremembered ==
  /\ transcript' = [transcript EXCEPT ![screen] = WithoutLastPair(@)]
  /\ rows' = [rows EXCEPT ![screen] = WithoutLastPair(@)]
  /\ UNCHANGED memory

(* dropLastTurnRows and restoreContext.                                    *)
DropLastTurn ==
  /\ transcript' = [transcript EXCEPT ![screen] = WithoutLastPair(@)]
  /\ rows' = [rows EXCEPT ![screen] = WithoutLastPair(@)]
  /\ memory' = [memory EXCEPT ![screen] = ToModel(transcript'[screen])]

(* RetryFailedTurn, in the same words or in others. The window offers it   *)
(* under the failed answer a chat ends with.                               *)
RetryFailedTurn ==
  /\ Calm /\ ~TurnBusy /\ clock < MaxTurns
  /\ EndsInFailure(transcript[screen])
  /\ DropLastTurn
  /\ resend' \in {transcript[screen][Len(transcript[screen])].to, 0}
  /\ UNCHANGED <<up, screen, held, opened, turn, clock, crashes, reached>>

(* ResendEdited.                                                           *)
ResendEdited ==
  /\ Calm /\ ~TurnBusy /\ clock < MaxTurns
  /\ EndsInPair(transcript[screen])
  /\ DropLastTurn
  /\ resend' = 0
  /\ UNCHANGED <<up, screen, held, opened, turn, clock, crashes, reached>>

(* RegenerateReply up to the request. What is asked is the question above  *)
(* the answer that is shown. That it is not asked of a failed one is the   *)
(* window's doing, which offers a retry there; lastQuestion does not look. *)
RegenerateReply ==
  LET s == transcript[screen]
  IN /\ Calm /\ ~Working(screen) /\ clock < MaxTurns
     /\ EndsInPair(s) /\ ~s[Len(s)].failed
     /\ turn' = [turn EXCEPT ![screen] = NewTurn("again", s[Len(s) - 1].to, "running")]
     /\ clock' = clock + 1
     /\ memory' = [memory EXCEPT ![screen] = Append(ToModel(WithoutLastPair(s)), Question(s[Len(s) - 1].to))]
     /\ UNCHANGED <<up, rows, screen, held, transcript, opened, resend, crashes, reached>>

AskedAgain(c) == Working(c) /\ turn[c].kind = "again" /\ turn[c].stage = "running"

(* The second answer. The bubble it is added to is read from the chat on   *)
(* screen, and written to the one that was asked.                          *)
StoreAgain(c) ==
  LET shown == transcript[screen]
      new == [to |-> turn[c].to, by |-> turn[c].by]
      live == shown[Len(shown)]
      all == VariantsOf(live) \cup {new}
  IN /\ AskedAgain(c) /\ shown # <<>>
     /\ rows' = [rows EXCEPT ![c] = StoreVariants(@, new, all)]
     /\ EndTurn(c, [transcript EXCEPT ![c] = [@ EXCEPT ![Len(@)] = Showing(live, new, all)]],
                [memory EXCEPT ![c] = Append(@, Answer(turn[c].to, turn[c].by))], reached)
     /\ UNCHANGED <<up, screen, opened, resend, clock, crashes>>

(* Nothing has been said in the chat on screen: the index is out of range, *)
(* the call panics and the answer is gone.                                 *)
PanicAgain(c) ==
  /\ AskedAgain(c) /\ transcript[screen] = <<>>
  /\ EndTurn(c, transcript, memory, reached)
  /\ UNCHANGED <<up, rows, screen, opened, resend, clock, crashes>>

(* Mutant: the memory stays one exchange short.                            *)
FailAgainForgetful(c) ==
  /\ AskedAgain(c)
  /\ EndTurn(c, transcript, memory, reached)
  /\ UNCHANGED <<up, rows, screen, opened, resend, clock, crashes>>

(* It fails: the memory is put back, in the chat that is on screen then,   *)
(* which may be another one, with a turn of its own at work.               *)
FailAgain(c) ==
  /\ AskedAgain(c)
  /\ EndTurn(c, transcript, [memory EXCEPT ![screen] = ToModel(transcript[screen])],
             IF c # screen /\ Working(screen) THEN reached \cup {screen} ELSE reached)
  /\ UNCHANGED <<up, rows, screen, opened, resend, clock, crashes>>

(* SwitchVariant.                                                          *)
SwitchVariant(a) ==
  LET s == transcript[screen]
      live == s[Len(s)]
  IN /\ Calm /\ ~TurnBusy
     /\ s # <<>> /\ live.role = "agent" /\ a \in live.variants
     /\ transcript' = [transcript EXCEPT ![screen] = [@ EXCEPT ![Len(@)] = Showing(live, a, live.variants)]]
     /\ rows' = [rows EXCEPT ![screen] = StoreVariants(@, a, live.variants)]
     /\ memory' = [memory EXCEPT ![screen] = ToModel(transcript'[screen])]
     /\ UNCHANGED <<up, screen, held, opened, turn, resend, clock, crashes, reached>>

-----------------------------------------------------------------------------
(* Opening, leaving and deleting chats.                                    *)

(* showConversation: the chat left behind is let go of unless it works.    *)
Show(c, texts, minds, astray) ==
  /\ screen' = c
  /\ held' = {c} \cup IF Working(screen) THEN held ELSE held \ {screen}
  /\ transcript' = [d \in Chats |-> IF d \in held' THEN texts[d] ELSE <<>>]
  /\ memory' = [d \in Chats |-> IF d \in held' THEN minds[d] ELSE <<>>]
  /\ opened' = opened \cap held'
  /\ reached' = astray \cap held'

(* LoadSession of a chat that is not held: built from its rows.            *)
LoadSession(c) ==
  /\ Calm /\ c \notin held /\ rows[c] # <<>>
  /\ Show(c, [transcript EXCEPT ![c] = rows[c]], [memory EXCEPT ![c] = ToModel(rows[c])], reached)
  /\ UNCHANGED <<up, rows, turn, resend, clock, crashes>>

(* LoadSession of one that is: its agent is left alone, its transcript is  *)
(* read again, with the question a turn has written and will write again.  *)
Attach(c) ==
  /\ Calm /\ c \in held /\ rows[c] # <<>>
  /\ Show(c, [transcript EXCEPT ![c] = rows[c]], memory,
          IF Working(c) THEN reached \cup {c} ELSE reached)
  /\ UNCHANGED <<up, rows, turn, resend, clock, crashes>>

(* startNewSession.                                                        *)
NewSession(c) ==
  /\ Calm /\ c \in Spare
  /\ Show(c, transcript, memory, reached)
  /\ UNCHANGED <<up, rows, turn, resend, clock, crashes>>

(* DeleteSession. On screen it gives way to a new one.                     *)
DeleteSession(c) ==
  /\ Calm /\ ~Working(c) /\ rows[c] # <<>>
  /\ rows' = [rows EXCEPT ![c] = <<>>]
  /\ IF c # screen THEN UNCHANGED <<screen, held, transcript, memory, opened, reached>>
     ELSE \E d \in Spare : Show(d, transcript, memory, reached)
  /\ UNCHANGED <<up, turn, resend, clock, crashes>>

-----------------------------------------------------------------------------
(* The process dies, and is launched again.                                *)

Crash ==
  /\ up /\ crashes < MaxCrashes
  /\ up' = FALSE
  /\ crashes' = crashes + 1
  /\ held' = {} /\ opened' = {} /\ reached' = {}
  /\ transcript' = [c \in Chats |-> <<>>]
  /\ memory' = transcript'
  /\ turn' = [c \in Chats |-> None]
  /\ resend' = None
  /\ UNCHANGED <<rows, screen, clock>>

(* Mutant: the repair is left out.                                         *)
RowsAsFound == rows

(* closeInterruptedTurns: every session that ends in a question.           *)
InterruptedTurnsClosed ==
  [c \in Chats |->
    IF rows[c] # <<>> /\ rows[c][Len(rows[c])].role = "user"
      THEN Append(rows[c], Failure(rows[c][Len(rows[c])].to)) ELSE rows[c]]

(* startup, with a new chat on screen.                                     *)
Launch ==
  /\ ~up /\ up' = TRUE
  /\ rows' = InterruptedTurnsClosed
  /\ screen' \in Spare
  /\ held' = {screen'}
  /\ UNCHANGED <<transcript, memory, opened, turn, resend, clock, crashes, reached>>

-----------------------------------------------------------------------------
TurnStep(c) ==
  \/ OpenTurn(c) \/ AppendTurn(c) \/ AppendFailedTurn(c) \/ Finish(c)
  \/ StoreAgain(c) \/ PanicAgain(c) \/ FailAgain(c)

WindowStep ==
  \/ SendMessage \/ RetryFailedTurn \/ ResendEdited \/ RegenerateReply
  \/ \E a \in Answers : SwitchVariant(a)
  \/ \E c \in Chats : LoadSession(c) \/ Attach(c) \/ NewSession(c) \/ DeleteSession(c)

Next ==
  \/ WindowStep \/ Resend
  \/ \E c \in Chats : TurnStep(c)
  \/ Crash \/ Launch

(* A turn comes to an end: it is answered, fails or is stopped (what it    *)
(* does until then is AgentLoop). The app is started again some day.       *)
Fairness ==
  /\ \A c \in Chats : WF_vars(TurnStep(c))
  /\ WF_vars(Resend) /\ WF_vars(Launch)

Spec == Init /\ [][Next]_vars /\ Fairness

-----------------------------------------------------------------------------
Alternates(s) == \A i \in DOMAIN s : s[i].role = IF i % 2 = 1 THEN "user" ELSE "agent"

(* The chats whose last question is on its way to an answer.               *)
Asking(c) == Working(c) /\ turn[c].kind = "send" /\ turn[c].stage = "running"

(***************************************************************************)
(* The store holds strict pairs of a question and an ending, but for one   *)
(* last question: of a turn that works, or of one that died with the       *)
(* process and whose ending the next launch writes. Nothing a retry, an    *)
(* edit, a second answer, a moved window or a crash does breaks it         *)
(* (appendTurn, appendFailedTurn, dropLastTurnRows, closeInterruptedTurns).*)
(***************************************************************************)
RowsArePairs ==
  \A c \in Chats :
    /\ Alternates(rows[c])
    /\ up => (Len(rows[c]) % 2 = 1 <=> Asking(c))

(***************************************************************************)
(* A question is in the memory its turn is answered from once: not twice,  *)
(* because a failed attempt left it there or the rows were replayed, and   *)
(* not never, because the retry or the second answer that asks it dropped  *)
(* the exchange it stood in (restoreContext, transcriptToModelMessages,    *)
(* LoadSession). Excepted are the chats another call reached into while    *)
(* their turn worked: what that does to the question is StillAsked.        *)
(***************************************************************************)
AskedOnce ==
  \A c \in Chats \ reached : Working(c) /\ turn[c].stage = "running" =>
    Cardinality({i \in DOMAIN memory[c] : memory[c][i] = Question(turn[c].to)}) = 1

(***************************************************************************)
(* No call rebuilds the memory a turn is being answered from: its question *)
(* is there until it ends. RetryFailedTurn and SwitchVariant refuse while  *)
(* a turn works so that restoreContext does not do that. The code does not *)
(* keep this: another chat's second answer does it when it fails.          *)
(***************************************************************************)
StillAsked ==
  \A c \in Chats : Working(c) /\ turn[c].stage = "running" =>
    \E i \in DOMAIN memory[c] : memory[c][i] = Question(turn[c].to)

AnswersOf(s) == Selected(s, {i \in DOMAIN s : s[i].role = "agent"})

(***************************************************************************)
(* In a chat where nothing is under way, the answers the agent remembers   *)
(* are those the transcript shows, and the transcript is what the rows     *)
(* say: whatever was retried, edited, answered again or switched, a chat   *)
(* that is reopened is the one that was left (regenerate.go, LoadSession). *)
(* Excepted are the chats a call reached into while their turn worked.     *)
(***************************************************************************)
ThreeCopiesAgree ==
  \A c \in held \ reached : ~Working(c) =>
    /\ transcript[c] = rows[c]
    /\ AnswersOf(memory[c]) = AnswersOf(ToModel(transcript[c]))

(* Every answer a session keeps, shown or not.                             *)
Kept(s) == UNION {VariantsOf(m) : m \in {s[i] : i \in {j \in DOMAIN s : s[j].role = "agent" /\ ~s[j].failed}}}

AnswersStay(c) == Kept(rows[c]) \subseteq Kept(rows'[c])

(***************************************************************************)
(* An answer that was given stays in the store until its question is       *)
(* edited or its chat deleted: what a retry takes away is the pair that    *)
(* failed, and a second answer comes beside the first (dropFailedTail,     *)
(* dropLastTurnRows, storeVariants). Excepted is the second answer that    *)
(* comes while another chat is on screen: it is put beside the answer that *)
(* chat shows, and the one it should stand beside is gone.                 *)
(***************************************************************************)
AnswersAreKept ==
  [][\/ ResendEdited \/ \E c \in Chats : DeleteSession(c)
     \/ \E c \in Chats \ {screen} : StoreAgain(c)
     \/ \A c \in Chats : AnswersStay(c)]_vars

(***************************************************************************)
(* A question that was written down gets an ending, whatever happens to    *)
(* the turn, the window or the process in between.                         *)
(***************************************************************************)
QuestionsEnd ==
  \A c \in Chats : Len(rows[c]) % 2 = 1 ~> Len(rows[c]) % 2 = 0
=============================================================================
