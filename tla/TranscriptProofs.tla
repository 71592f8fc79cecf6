-------------------------- MODULE TranscriptProofs --------------------------
(***************************************************************************)
(* What is proved of Transcript for any number of chats, turns and         *)
(* crashes: its types, that the store holds pairs of a question and an     *)
(* ending, that the three copies of a chat agree, that a question is asked *)
(* once, and that no answer is lost.                                       *)
(*                                                                         *)
(* The transcript the model is told of is made by a loop (ToModel,         *)
(* AnswersOf). What such a loop returns is proved from LeastNatural: if it *)
(* went wrong at some position, there would be a first one.                *)
(***************************************************************************)
EXTENDS Transcript, SequenceTheorems, FiniteSetTheorems, TLAPS

(* Messages of the three kinds.                                            *)
LEMMA MessageTypes ==
  ASSUME NEW q \in Numbers, NEW n \in Numbers
  PROVE  /\ Question(q) \in Messages /\ Question(q).role = "user"
         /\ Answer(q, n) \in Messages /\ Answer(q, n).role = "agent"
         /\ Failure(q) \in Messages /\ Failure(q).role = "agent"
  BY TranscriptAssumption DEF Question, Answer, Failure, Messages, Numbers

(* The list an answer belongs to, and the bubble that shows another of it. *)
LEMMA ShowingType ==
  ASSUME NEW m \in Messages, NEW a \in Answers, NEW all \in SUBSET Answers
  PROVE  /\ Showing(m, a, all) \in Messages
         /\ Showing(m, a, all).role = m.role
         /\ VariantsOf(m) \subseteq Answers
         /\ VariantsOf(m) \cup {a} \subseteq Answers
<1>1. /\ m.to \in Numbers /\ m.by \in 0 .. MaxTurns
      /\ m.role \in {"user", "agent"} /\ m.failed \in BOOLEAN /\ m.variants \subseteq Answers
  BY DEF Messages
<1>2. a.to \in Numbers /\ a.by \in 0 .. MaxTurns
  BY DEF Answers
<1>3. Showing(m, a, all) \in Messages
  BY <1>1, <1>2 DEF Showing, Messages
<1>4. Showing(m, a, all).role = m.role
  BY <1>1 DEF Showing, Messages
<1>5. Live(m) \in Answers
  BY <1>1 DEF Live, Answers
<1>6. QED
  BY <1>1, <1>3, <1>4, <1>5 DEF VariantsOf

(* What follows an even number of messages, and what an odd one.           *)
LEMMA Parity ==
  ASSUME NEW n \in Nat
  PROVE  /\ n % 2 = 0 <=> ~(n % 2 = 1)
         /\ n % 2 = 0 <=> (n + 1) % 2 = 1
  OBVIOUS

(* A question after pairs, and an ending after a question.                 *)
LEMMA AppendAlternates ==
  ASSUME NEW s \in Seq(Messages), Alternates(s), NEW m \in Messages,
         m.role = IF Len(s) % 2 = 0 THEN "user" ELSE "agent"
  PROVE  /\ Append(s, m) \in Seq(Messages)
         /\ Alternates(Append(s, m))
         /\ Len(Append(s, m)) = Len(s) + 1
<1>1. /\ Append(s, m) \in Seq(Messages) /\ Len(Append(s, m)) = Len(s) + 1
      /\ \A i \in 1 .. Len(s) : Append(s, m)[i] = s[i]
      /\ Append(s, m)[Len(s) + 1] = m
  BY AppendProperties
<1>2. ASSUME NEW i \in DOMAIN Append(s, m)
      PROVE  Append(s, m)[i].role = IF i % 2 = 1 THEN "user" ELSE "agent"
  <2>1. Len(s) \in Nat /\ DOMAIN s = 1 .. Len(s) /\ i \in 1 .. Len(s) + 1
    BY <1>1, LenProperties
  <2>2. CASE i = Len(s) + 1
    <3>1. Append(s, m)[i] = m
      BY <1>1, <2>2
    <3>2. (Len(s) % 2 = 0) <=> (i % 2 = 1)
      BY <2>1, <2>2
    <3>3. QED
      BY <3>1, <3>2
  <2>3. CASE i # Len(s) + 1
    <3>1. i \in 1 .. Len(s)
      BY <2>1, <2>3
    <3>2. QED
      BY <1>1, <2>1, <3>1 DEF Alternates
  <2>4. QED
    BY <2>2, <2>3
<1>3. QED
  BY <1>1, <1>2 DEF Alternates

(* dropLastTurnRows leaves pairs where there were pairs.                   *)
LEMMA WithoutLastPairAlternates ==
  ASSUME NEW s \in Seq(Messages)
  PROVE  /\ WithoutLastPair(s) \in Seq(Messages)
         /\ Alternates(s) => Alternates(WithoutLastPair(s))
         /\ Len(s) % 2 = 0 => Len(WithoutLastPair(s)) % 2 = 0
<1>1. Len(s) \in Nat /\ DOMAIN s = 1 .. Len(s) /\ \A i \in 1 .. Len(s) : s[i] \in Messages
  BY LenProperties
<1>2. \A i \in 1 .. Len(s) - 2 : s[i] \in Messages
  BY <1>1
<1>3. /\ WithoutLastPair(s) \in Seq(Messages)
      /\ Len(WithoutLastPair(s)) = IF 1 <= Len(s) - 2 THEN Len(s) - 2 ELSE 0
      /\ \A i \in 1 .. Len(s) - 2 : WithoutLastPair(s)[i] = s[i]
  <2>1. 1 \in Int /\ Len(s) - 2 \in Int /\ (Len(s) - 2) - 1 + 1 = Len(s) - 2
    BY <1>1
  <2>2. /\ SubSeq(s, 1, Len(s) - 2) \in Seq(Messages)
        /\ Len(SubSeq(s, 1, Len(s) - 2)) = IF 1 <= Len(s) - 2 THEN (Len(s) - 2) - 1 + 1 ELSE 0
        /\ \A i \in 1 .. (Len(s) - 2) - 1 + 1 : SubSeq(s, 1, Len(s) - 2)[i] = s[1 + i - 1]
    BY <1>2, <2>1, SubSeqProperties
  <2>3. \A i \in 1 .. Len(s) - 2 : 1 + i - 1 = i
    BY <1>1
  <2>4. QED
    BY <2>1, <2>2, <2>3 DEF WithoutLastPair
<1>4. DOMAIN WithoutLastPair(s) = 1 .. Len(WithoutLastPair(s))
  BY <1>3, LenProperties
<1>5. CASE 1 <= Len(s) - 2
  <2>1. Len(WithoutLastPair(s)) = Len(s) - 2
    BY <1>3, <1>5
  <2>2. DOMAIN WithoutLastPair(s) = 1 .. Len(s) - 2
    BY <1>4, <2>1, Zenon
  <2>a. 1 .. Len(s) - 2 \subseteq 1 .. Len(s)
    BY <1>1, SMT
  <2>b. DOMAIN s = 1 .. Len(s) /\ \A i \in 1 .. Len(s) - 2 : WithoutLastPair(s)[i] = s[i]
    BY <1>1, <1>3, Zenon
  <2>3. \A i \in 1 .. Len(s) - 2 : i \in DOMAIN s /\ WithoutLastPair(s)[i] = s[i]
    BY <2>a, <2>b, Zenon
  <2>4. Alternates(s) => Alternates(WithoutLastPair(s))
    BY <2>2, <2>3 DEF Alternates
  <2>5. \A n \in Nat : n % 2 = 0 => (n - 2) % 2 = 0
    OBVIOUS
  <2>6. Len(s) % 2 = 0 => Len(WithoutLastPair(s)) % 2 = 0
    BY <1>1, <2>1, <2>5
  <2>7. QED
    BY <1>3, <2>4, <2>6
<1>6. CASE ~(1 <= Len(s) - 2)
  <2>1. Len(WithoutLastPair(s)) = 0
    BY <1>3, <1>6
  <2>2. DOMAIN WithoutLastPair(s) = 1 .. 0
    BY <1>4, <2>1, Zenon
  <2>3. Alternates(WithoutLastPair(s))
    BY <2>2 DEF Alternates
  <2>4. 0 % 2 = 0
    OBVIOUS
  <2>5. QED
    BY <1>3, <2>1, <2>3, <2>4, Zenon
<1>7. QED
  BY <1>5, <1>6

(* storeVariants changes what an answer says, not what follows what.       *)
LEMMA StoreVariantsAlternates ==
  ASSUME NEW s \in Seq(Messages), NEW a \in Answers, NEW all \in SUBSET Answers
  PROVE  /\ StoreVariants(s, a, all) \in Seq(Messages)
         /\ Len(StoreVariants(s, a, all)) = Len(s)
         /\ Alternates(s) => Alternates(StoreVariants(s, a, all))
<1> DEFINE agents == {i \in DOMAIN s : s[i].role = "agent"}
           newest == CHOOSE i \in agents : \A j \in agents : j <= i
           new == Showing(s[newest], a, all)
           t == [s EXCEPT ![newest] = new]
<1>1. Len(s) \in Nat /\ s \in [1 .. Len(s) -> Messages] /\ DOMAIN s = 1 .. Len(s)
  BY LenProperties
<1>2. CASE agents = {}
  BY <1>2 DEF StoreVariants
<1>3. CASE newest \in DOMAIN s
  <2>1. new \in Messages /\ new.role = s[newest].role
    BY <1>1, <1>3, ShowingType
  <2>2. t \in [1 .. Len(s) -> Messages]
    BY <1>1, <1>3, <2>1
  <2>3. t \in Seq(Messages) /\ Len(t) = Len(s)
    BY <1>1, <2>2, IsASeq, LenProperties
  <2>4. \A i \in DOMAIN s : t[i].role = s[i].role
    BY <1>1, <1>3, <2>1
  <2>5. Alternates(s) => Alternates(t)
    BY <1>1, <2>2, <2>4 DEF Alternates
  <2>6. StoreVariants(s, a, all) = IF agents = {} THEN s ELSE t
    BY DEF StoreVariants
  <2>7. QED
    BY <2>3, <2>5, <2>6
<1>4. CASE newest \notin DOMAIN s
  <2>1. t = s
    BY <1>1, <1>4
  <2>2. StoreVariants(s, a, all) = IF agents = {} THEN s ELSE t
    BY DEF StoreVariants
  <2>3. QED
    BY <2>1, <2>2
<1>5. QED
  BY <1>2, <1>3, <1>4

-----------------------------------------------------------------------------
(* turnOpened is set while the turn that wrote its question works, a chat  *)
(* that works or is on screen is held, and without the process none works. *)
Flags ==
  /\ \A c \in Chats : c \in opened <=> Asking(c)
  /\ \A c \in Chats : Working(c) => c \in held
  /\ IF up THEN screen \in held ELSE held = {}

IInv == StoreTypes /\ Flags /\ RowsArePairs

(* It holds when the app starts for the first time.                        *)
LEMMA InitIInv == Init => IInv
<1> SUFFICES ASSUME Init PROVE IInv
  OBVIOUS
<1>1. <<>> \in Seq(Messages) /\ Len(<<>>) = 0 /\ DOMAIN <<>> = {} /\ 0 % 2 # 1
  OBVIOUS
<1>2. StoreTypes
  BY <1>1, TranscriptAssumption DEF Init, StoreTypes
<1>3. Flags
  BY TranscriptAssumption DEF Init, Flags, Working, Asking
<1>4. ASSUME NEW c \in Chats PROVE rows[c] = <<>> /\ ~Asking(c)
  BY DEF Init, Asking, Working
<1>5. RowsArePairs
  <2>1. Alternates(<<>>)
    BY <1>1 DEF Alternates
  <2>2. QED
    BY <1>1, <1>4, <2>1 DEF RowsArePairs
<1>6. QED
  BY <1>2, <1>3, <1>5 DEF IInv

(* A turn that is marked.                                                  *)
LEMMA NewTurnType ==
  ASSUME NEW kind \in {"send", "again"}, NEW q \in Numbers, NEW stage \in {"begun", "running"},
         clock \in 0 .. MaxTurns, clock < MaxTurns
  PROVE  /\ NewTurn(kind, q, stage) \in Turns /\ NewTurn(kind, q, stage) # None
         /\ NewTurn(kind, q, stage).kind = kind /\ NewTurn(kind, q, stage).stage = stage
         /\ clock + 1 \in Numbers
<1>1. clock + 1 \in Numbers
  BY TranscriptAssumption DEF Numbers
<1>2. NewTurn(kind, q, stage) \in Turns
  BY <1>1 DEF NewTurn, Turns
<1>3. QED
  BY <1>1, <1>2, TranscriptAssumption DEF NewTurn

(* beginTurn disturbs no row and no flag.                                  *)
LEMMA BeginTurnIInv ==
  ASSUME IInv, up, NEW q \in Numbers, BeginTurn(q), resend' \in Numbers \cup {0, None},
         UNCHANGED <<up, rows, screen, held, transcript, opened, crashes, reached>>
  PROVE  IInv'
<1>1. /\ NewTurn("send", q, "begun") \in Turns /\ NewTurn("send", q, "begun") # None
      /\ NewTurn("send", q, "begun").stage = "begun" /\ clock + 1 \in Numbers
  BY NewTurnType DEF BeginTurn, IInv, StoreTypes
<1>2. clock' \in 0 .. MaxTurns
  BY TranscriptAssumption DEF BeginTurn, IInv, StoreTypes
<1>3. turn' = [turn EXCEPT ![screen] = NewTurn("send", q, "begun")] /\ ~Working(screen)
  BY DEF BeginTurn
<1>4. StoreTypes'
  BY <1>1, <1>2, <1>3 DEF IInv, StoreTypes
<1>5. \A c \in Chats : Asking(c)' <=> Asking(c)
  BY <1>1, <1>3 DEF IInv, StoreTypes, Asking, Working
<1>6. Flags'
  BY <1>1, <1>3, <1>5 DEF IInv, StoreTypes, Flags, Working
<1>7. RowsArePairs'
  BY <1>5 DEF IInv, RowsArePairs
<1>8. QED
  BY <1>4, <1>6, <1>7 DEF IInv

(* endTurn keeps what it is given for the chats that stay.                 *)
LEMMA EndTurnIInv ==
  ASSUME IInv, up, NEW c \in Chats, c \notin opened, NEW texts \in [Chats -> Seq(Messages)],
         NEW minds, NEW astray \in SUBSET Chats, EndTurn(c, texts, minds, astray),
         rows' \in [Chats -> Seq(Messages)],
         \A d \in Chats : Len(rows'[d]) = Len(rows[d]) /\ (Alternates(rows[d]) => Alternates(rows'[d])),
         UNCHANGED <<up, screen, opened, resend, clock, crashes>>
  PROVE  IInv'
<1>1. turn' = [turn EXCEPT ![c] = None] /\ held' = IF c = screen THEN held ELSE held \ {c}
  BY DEF EndTurn
<1>2. transcript' \in [Chats -> Seq(Messages)]
  <2>1. <<>> \in Seq(Messages)
    OBVIOUS
  <2>2. QED
    BY <2>1 DEF EndTurn
<1>3. reached' \subseteq held'
  BY DEF EndTurn
<1>4. StoreTypes'
  BY <1>1, <1>2, <1>3 DEF IInv, StoreTypes
<1>5. \A d \in Chats : Working(d)' <=> Working(d) /\ d # c
  BY <1>1 DEF IInv, StoreTypes, Working
<1>6. \A d \in Chats : Asking(d)' <=> Asking(d)
  BY <1>1, <1>5 DEF IInv, StoreTypes, Flags, Asking, Working
<1>7. Flags'
  BY <1>1, <1>5, <1>6 DEF IInv, Flags
<1>8. RowsArePairs'
  BY <1>6 DEF IInv, RowsArePairs
<1>9. QED
  BY <1>4, <1>7, <1>8 DEF IInv

(* showConversation lets nothing go that works.                            *)
LEMMA ShowIInv ==
  ASSUME IInv, up, NEW c \in Chats, NEW texts \in [Chats -> Seq(Messages)],
         NEW minds, NEW astray \in SUBSET Chats, Show(c, texts, minds, astray),
         rows' \in [Chats -> Seq(Messages)],
         \A d \in Chats : rows'[d] = rows[d] \/ (~Asking(d) /\ rows'[d] = <<>>),
         UNCHANGED <<up, turn, resend, clock, crashes>>
  PROVE  IInv'
<1>1. held' \subseteq Chats /\ reached' \subseteq held' /\ screen' = c /\ opened' = opened \cap held'
  BY DEF Show, IInv, StoreTypes
<1>2. transcript' \in [Chats -> Seq(Messages)]
  <2>1. <<>> \in Seq(Messages)
    OBVIOUS
  <2>2. QED
    BY <2>1 DEF Show
<1>3. StoreTypes'
  BY <1>1, <1>2 DEF IInv, StoreTypes
<1>4. \A d \in Chats : (Working(d)' <=> Working(d)) /\ (Asking(d)' <=> Asking(d)) /\ (Asking(d) => Working(d))
  BY DEF Working, Asking
<1>5. \A d \in Chats : Working(d) => d \in held'
  BY DEF Show, IInv, Flags
<1>6. Flags'
  <2>1. \A d \in Chats : d \in opened' <=> Asking(d)'
    BY <1>1, <1>4, <1>5 DEF IInv, Flags
  <2>2. screen' \in held'
    BY DEF Show
  <2>3. QED
    BY <1>4, <1>5, <2>1, <2>2 DEF Flags
<1>7. RowsArePairs'
  <2>1. Alternates(<<>>) /\ Len(<<>>) % 2 # 1
    <3>1. DOMAIN <<>> = {} /\ Len(<<>>) = 0 /\ 0 % 2 # 1
      OBVIOUS
    <3>2. QED
      BY <3>1 DEF Alternates
  <2>2. QED
    BY <1>4, <2>1 DEF IInv, RowsArePairs
<1>8. QED
  BY <1>3, <1>6, <1>7 DEF IInv

-----------------------------------------------------------------------------
(* The steps of a turn.                                                    *)
LEMMA TurnStepIInv ==
  ASSUME IInv, up, NEW c \in Chats, TurnStep(c)
  PROVE  IInv'
<1>b. StoreTypes /\ RowsArePairs
  BY DEF IInv
<1>c. \A d \in Chats : rows[d] \in Seq(Messages) /\ transcript[d] \in Seq(Messages)
  BY <1>b DEF StoreTypes
<1>d. screen \in Chats /\ reached \subseteq Chats
  BY <1>b DEF StoreTypes
<1>a. \A d \in Chats : (Len(rows[d]) % 2 = 1 <=> Asking(d)) /\ Len(rows[d]) \in Nat /\ Alternates(rows[d])
  BY <1>b, <1>c, LenProperties DEF RowsArePairs
<1>1. /\ rows[c] \in Seq(Messages) /\ Alternates(rows[c]) /\ Len(rows[c]) \in Nat
      /\ transcript[c] \in Seq(Messages) /\ transcript[screen] \in Seq(Messages)
      /\ screen \in Chats /\ reached \subseteq Chats
  BY <1>a, <1>c, <1>d
<1>2. ASSUME Working(c) PROVE turn[c] \in Turns /\ turn[c].to \in Numbers /\ turn[c].by \in Numbers
  BY <1>2 DEF IInv, StoreTypes, Working, Turns
<1>3. CASE OpenTurn(c)
  <2>1. /\ Working(c) /\ turn[c].kind = "send" /\ turn[c].stage = "begun"
        /\ turn' = [turn EXCEPT ![c].stage = "running"]
    BY <1>3 DEF OpenTurn, Advance
  <2>2. turn'[c] \in Turns /\ turn'[c] # None /\ turn'[c].kind = "send" /\ turn'[c].stage = "running"
    BY <1>2, <2>1, TranscriptAssumption DEF Turns, IInv, StoreTypes
  <2>3. Asking(c)' /\ Working(c)' /\ ~Asking(c)
    BY <2>1, <2>2 DEF Asking, Working
  <2>4. \A d \in Chats \ {c} : (Asking(d)' <=> Asking(d)) /\ (Working(d)' <=> Working(d))
    BY <2>1 DEF Asking, Working, IInv, StoreTypes
  <2>5. Question(turn[c].to) \in Messages /\ Question(turn[c].to).role = "user"
    BY <1>2, <2>1, MessageTypes
  <2>6. Len(rows[c]) % 2 = 0
    BY <1>a, <2>3, Parity
  <2>7. /\ rows' = [rows EXCEPT ![c] = Append(rows[c], Question(turn[c].to))]
        /\ Append(rows[c], Question(turn[c].to)) \in Seq(Messages)
        /\ Alternates(Append(rows[c], Question(turn[c].to)))
        /\ Len(Append(rows[c], Question(turn[c].to))) = Len(rows[c]) + 1
    BY <1>1, <1>3, <2>5, <2>6, AppendAlternates DEF OpenTurn
  <2>8. Len(rows'[c]) % 2 = 1
    <3>1. rows'[c] = Append(rows[c], Question(turn[c].to))
      BY <2>7 DEF IInv, StoreTypes
    <3>2. QED
      BY <1>a, <2>6, <2>7, <3>1, Parity
  <2>9. StoreTypes'
    BY <1>3, <2>1, <2>2, <2>7 DEF OpenTurn, IInv, StoreTypes
  <2>10. Flags'
    BY <1>3, <2>1, <2>3, <2>4 DEF OpenTurn, IInv, Flags
  <2>11. RowsArePairs'
    BY <1>a, <2>3, <2>4, <2>7, <2>8 DEF IInv, StoreTypes, RowsArePairs
  <2>12. QED
    BY <2>9, <2>10, <2>11 DEF IInv
<1>4. ASSUME NEW ending \in Messages, ending.role = "agent", NEW stage \in {"answered", "failed"},
             Advance(c, "running", stage), rows' = [rows EXCEPT ![c] = Append(rows[c], ending)],
             opened' = opened \ {c},
             UNCHANGED <<up, screen, held, transcript, resend, clock, crashes, reached>>
      PROVE  IInv'
  <2>1. /\ Working(c) /\ turn[c].kind = "send" /\ turn[c].stage = "running"
        /\ turn' = [turn EXCEPT ![c].stage = stage]
    BY <1>4 DEF Advance
  <2>2. turn'[c] \in Turns /\ turn'[c] # None /\ turn'[c].stage = stage
    BY <1>2, <2>1, TranscriptAssumption DEF Turns, IInv, StoreTypes
  <2>3. ~Asking(c)' /\ Working(c)' /\ Asking(c)
    BY <2>1, <2>2 DEF Asking, Working
  <2>4. \A d \in Chats \ {c} : (Asking(d)' <=> Asking(d)) /\ (Working(d)' <=> Working(d))
    BY <2>1 DEF Asking, Working, IInv, StoreTypes
  <2>6. Len(rows[c]) % 2 = 1
    BY <1>1, <1>a, <2>3
  <2>a. ending.role = IF Len(rows[c]) % 2 = 0 THEN "user" ELSE "agent"
    BY <1>4, <1>a, <2>6, Parity
  <2>7. /\ Append(rows[c], ending) \in Seq(Messages)
        /\ Alternates(Append(rows[c], ending))
        /\ Len(Append(rows[c], ending)) = Len(rows[c]) + 1
    BY <1>1, <2>a, AppendAlternates
  <2>8. Len(rows'[c]) % 2 # 1
    <3>1. rows'[c] = Append(rows[c], ending)
      BY <1>4 DEF IInv, StoreTypes
    <3>2. QED
      BY <1>a, <2>6, <2>7, <3>1, Parity
  <2>9. StoreTypes'
    BY <1>4, <2>1, <2>2, <2>7 DEF IInv, StoreTypes
  <2>10. Flags'
    BY <1>4, <2>1, <2>3, <2>4 DEF IInv, Flags
  <2>11. RowsArePairs'
    BY <1>4, <1>a, <2>3, <2>4, <2>7, <2>8 DEF IInv, StoreTypes, RowsArePairs
  <2>12. QED
    BY <2>9, <2>10, <2>11 DEF IInv
<1>5. CASE AppendTurn(c)
  <2>1. c \in opened /\ Working(c)
    BY <1>5 DEF AppendTurn, Advance, Asking, Working, IInv, Flags
  <2>2. Answer(turn[c].to, turn[c].by) \in Messages /\ Answer(turn[c].to, turn[c].by).role = "agent"
    BY <1>2, <2>1, MessageTypes
  <2>3. Append(Pending(c), Answer(turn[c].to, turn[c].by)) = <<Answer(turn[c].to, turn[c].by)>>
    BY <2>1 DEF Pending
  <2>4. rows[c] \o <<Answer(turn[c].to, turn[c].by)>> = Append(rows[c], Answer(turn[c].to, turn[c].by))
    BY <1>1, <2>2
  <2>5. rows' = [rows EXCEPT ![c] = Append(rows[c], Answer(turn[c].to, turn[c].by))]
    BY <1>5, <2>3, <2>4 DEF AppendTurn
  <2>6. QED
    BY <1>4, <1>5, <2>2, <2>5 DEF AppendTurn
<1>6. CASE AppendFailedTurn(c)
  <2>1. Failure(turn[c].to) \in Messages /\ Failure(turn[c].to).role = "agent"
    BY <1>2, <1>6, MessageTypes DEF AppendFailedTurn, Advance
  <2>2. QED
    BY <1>4, <1>6, <2>1 DEF AppendFailedTurn

<1>7. ASSUME AskedAgain(c) \/ (Working(c) /\ turn[c].stage \in {"answered", "failed"}) PROVE c \notin opened /\ Working(c)
  BY <1>7 DEF AskedAgain, Asking, IInv, Flags
<1>8. \A d \in Chats : Len(rows[d]) = Len(rows[d]) /\ (Alternates(rows[d]) => Alternates(rows[d]))
  OBVIOUS
<1>9. CASE Finish(c)
  <2> DEFINE ending == IF turn[c].stage = "failed" THEN Failure(turn[c].to) ELSE Answer(turn[c].to, turn[c].by)
             texts == [transcript EXCEPT ![c] = @ \o <<Question(turn[c].to), ending>>]
  <2>1. c \notin opened /\ Working(c)
    BY <1>7, <1>9 DEF Finish
  <2>2. ending \in Messages /\ Question(turn[c].to) \in Messages
    BY <1>2, <2>1, MessageTypes
  <2>3. transcript[c] \o <<Question(turn[c].to), ending>> \in Seq(Messages)
    <3>1. <<Question(turn[c].to), ending>> \in Seq(Messages)
      BY <2>2
    <3>2. QED
      BY <1>1, <3>1, ConcatProperties
  <2>4. texts \in [Chats -> Seq(Messages)]
    BY <2>3 DEF IInv, StoreTypes
  <2>5. EndTurn(c, texts, memory, reached) /\ UNCHANGED <<up, rows, screen, opened, resend, clock, crashes>>
    BY <1>9 DEF Finish
  <2>6. rows' \in [Chats -> Seq(Messages)] /\ \A d \in Chats : rows'[d] = rows[d]
    BY <2>5 DEF IInv, StoreTypes
  <2> HIDE DEF texts
  <2>7. QED
    BY <1>1, <1>8, <2>1, <2>4, <2>5, <2>6, EndTurnIInv
<1>10. CASE StoreAgain(c)
  <2> DEFINE new == [to |-> turn[c].to, by |-> turn[c].by]
             live == transcript[screen][Len(transcript[screen])]
             all == VariantsOf(live) \cup {new}
             texts == [transcript EXCEPT ![c] = [@ EXCEPT ![Len(@)] = Showing(live, new, all)]]
             minds == [memory EXCEPT ![c] = Append(@, Answer(turn[c].to, turn[c].by))]
  <2>1. c \notin opened /\ Working(c) /\ transcript[screen] # <<>>
    BY <1>7, <1>10 DEF StoreAgain
  <2>2. new \in Answers
    BY <1>2, <2>1, TranscriptAssumption DEF Answers, Numbers
  <2>3. live \in Messages
    <3>1. Len(transcript[screen]) \in 1 .. Len(transcript[screen])
      BY <1>1, <2>1, EmptySeq, LenProperties
    <3>2. QED
      BY <1>1, <3>1, LenProperties
  <2>4. all \in SUBSET Answers
    BY <2>2, <2>3, ShowingType
  <2>5. Showing(live, new, all) \in Messages
    BY <2>2, <2>3, <2>4, ShowingType
  <2>6. [transcript[c] EXCEPT ![Len(transcript[c])] = Showing(live, new, all)] \in Seq(Messages)
    <3>1. transcript[c] \in [1 .. Len(transcript[c]) -> Messages] /\ Len(transcript[c]) \in Nat
      BY <1>1, LenProperties
    <3>2. [transcript[c] EXCEPT ![Len(transcript[c])] = Showing(live, new, all)] \in [1 .. Len(transcript[c]) -> Messages]
      BY <2>5, <3>1
    <3>3. QED
      BY <3>1, <3>2, IsASeq
  <2>7. texts \in [Chats -> Seq(Messages)]
    BY <2>6 DEF IInv, StoreTypes
  <2>8. /\ EndTurn(c, texts, minds, reached) /\ UNCHANGED <<up, screen, opened, resend, clock, crashes>>
        /\ rows' = [rows EXCEPT ![c] = StoreVariants(@, new, all)]
    BY <1>10 DEF StoreAgain
  <2> HIDE DEF new, live, all, texts, minds
  <2>9. /\ StoreVariants(rows[c], new, all) \in Seq(Messages)
        /\ Len(StoreVariants(rows[c], new, all)) = Len(rows[c])
        /\ Alternates(rows[c]) => Alternates(StoreVariants(rows[c], new, all))
    BY <1>1, <2>2, <2>4, StoreVariantsAlternates
  <2>10. /\ rows' \in [Chats -> Seq(Messages)]
         /\ \A d \in Chats : Len(rows'[d]) = Len(rows[d]) /\ (Alternates(rows[d]) => Alternates(rows'[d]))
    BY <2>8, <2>9 DEF IInv, StoreTypes
  <2>11. QED
    BY <1>1, <2>1, <2>7, <2>8, <2>10, EndTurnIInv
<1>11. CASE PanicAgain(c) \/ FailAgain(c)
  <2>1. c \notin opened /\ Working(c)
    BY <1>7, <1>11 DEF PanicAgain, FailAgain
  <2>2. \E minds, astray : astray \in SUBSET Chats /\ EndTurn(c, transcript, minds, astray)
    <3>1. reached \in SUBSET Chats /\ reached \cup {screen} \in SUBSET Chats
      BY <1>1
    <3>2. CASE PanicAgain(c)
      BY <3>1, <3>2 DEF PanicAgain
    <3>3. CASE FailAgain(c)
      BY <3>1, <3>3 DEF FailAgain
    <3>4. QED
      BY <1>11, <3>2, <3>3
  <2>3. UNCHANGED <<up, rows, screen, opened, resend, clock, crashes>>
    BY <1>11 DEF PanicAgain, FailAgain
  <2>4. rows' \in [Chats -> Seq(Messages)] /\ \A d \in Chats : rows'[d] = rows[d]
    BY <2>3 DEF IInv, StoreTypes
  <2>5. transcript \in [Chats -> Seq(Messages)]
    BY DEF IInv, StoreTypes
  <2>6. QED
    BY <1>8, <2>1, <2>2, <2>3, <2>4, <2>5, EndTurnIInv
<1>12. QED
  BY <1>3, <1>5, <1>6, <1>9, <1>10, <1>11 DEF TurnStep

-----------------------------------------------------------------------------
(* The calls of the window.                                                *)
LEMMA DropLastTurnIInv ==
  ASSUME IInv, up, ~TurnBusy, DropLastTurn, resend' \in Numbers \cup {0},
         UNCHANGED <<up, screen, held, opened, turn, clock, crashes, reached>>
  PROVE  IInv'
<1>1. screen \in Chats /\ rows[screen] \in Seq(Messages) /\ transcript[screen] \in Seq(Messages)
  BY DEF IInv, StoreTypes
<1>2. /\ WithoutLastPair(rows[screen]) \in Seq(Messages)
      /\ Alternates(rows[screen]) => Alternates(WithoutLastPair(rows[screen]))
      /\ Len(rows[screen]) % 2 = 0 => Len(WithoutLastPair(rows[screen])) % 2 = 0
      /\ WithoutLastPair(transcript[screen]) \in Seq(Messages)
  BY <1>1, WithoutLastPairAlternates
<1>3. /\ rows' = [rows EXCEPT ![screen] = WithoutLastPair(rows[screen])]
      /\ transcript' = [transcript EXCEPT ![screen] = WithoutLastPair(transcript[screen])]
  BY DEF DropLastTurn
<1>4. StoreTypes'
  BY <1>2, <1>3 DEF IInv, StoreTypes
<1>5. \A c \in Chats : (Working(c)' <=> Working(c)) /\ (Asking(c)' <=> Asking(c)) /\ ~Asking(c)
  BY DEF Working, Asking, TurnBusy
<1>6. Flags'
  BY <1>5 DEF IInv, Flags
<1>7. ASSUME NEW c \in Chats PROVE Alternates(rows'[c]) /\ ~(Len(rows'[c]) % 2 = 1)
  <2>1. Alternates(rows[c]) /\ ~(Len(rows[c]) % 2 = 1) /\ rows[c] \in Seq(Messages)
    BY <1>5 DEF IInv, RowsArePairs, StoreTypes
  <2>2. CASE c # screen
    BY <1>3, <2>1, <2>2 DEF IInv, StoreTypes
  <2>3. CASE c = screen
    <3>1. rows'[c] = WithoutLastPair(rows[screen])
      BY <1>3, <2>3 DEF IInv, StoreTypes
    <3>2. Len(rows[screen]) \in Nat /\ Len(WithoutLastPair(rows[screen])) \in Nat
      BY <1>1, <1>2, LenProperties
    <3>3. QED
      BY <1>2, <2>1, <2>3, <3>1, <3>2, Parity
  <2>4. QED
    BY <2>2, <2>3
<1>8. RowsArePairs'
  BY <1>5, <1>7 DEF RowsArePairs
<1>9. QED
  BY <1>4, <1>6, <1>8 DEF IInv

(* Every call of the window keeps the pairs.                               *)
LEMMA WindowStepIInv ==
  ASSUME IInv, up, WindowStep
  PROVE  IInv'
<1>1. /\ screen \in Chats /\ screen \in held /\ reached \subseteq Chats /\ clock \in 0 .. MaxTurns
      /\ \A c \in Chats : rows[c] \in Seq(Messages) /\ transcript[c] \in Seq(Messages)
      /\ rows \in [Chats -> Seq(Messages)] /\ transcript \in [Chats -> Seq(Messages)]
      /\ resend \in Numbers \cup {0, None}
  BY DEF IInv, StoreTypes, Flags
<1>2. CASE SendMessage
  <2>1. clock + 1 \in Numbers
    BY <1>1, <1>2, TranscriptAssumption DEF SendMessage, BeginTurn, Numbers
  <2>2. QED
    BY <1>1, <1>2, <2>1, BeginTurnIInv DEF SendMessage
<1>3. CASE RetryFailedTurn
  <2>1. transcript[screen][Len(transcript[screen])] \in Messages
    <3>1. Len(transcript[screen]) \in Nat /\ Len(transcript[screen]) >= 2
      BY <1>1, <1>3, LenProperties DEF RetryFailedTurn, EndsInFailure
    <3>2. QED
      BY <1>1, <3>1, LenProperties
  <2>2. resend' \in Numbers \cup {0}
    BY <1>3, <2>1 DEF RetryFailedTurn, Messages
  <2>3. QED
    BY <1>3, <2>2, DropLastTurnIInv DEF RetryFailedTurn
<1>4. CASE ResendEdited
  BY <1>4, DropLastTurnIInv DEF ResendEdited
<1>5. CASE RegenerateReply
  <2> DEFINE q == transcript[screen][Len(transcript[screen]) - 1].to
  <2>1. q \in Numbers
    <3>1. Len(transcript[screen]) \in Nat /\ Len(transcript[screen]) >= 2
      BY <1>1, <1>5, LenProperties DEF RegenerateReply, EndsInPair
    <3>2. transcript[screen][Len(transcript[screen]) - 1] \in Messages
      BY <1>1, <3>1, LenProperties
    <3>3. QED
      BY <3>2 DEF Messages
  <2>2. /\ turn' = [turn EXCEPT ![screen] = NewTurn("again", q, "running")] /\ ~Working(screen)
        /\ clock' = clock + 1 /\ clock < MaxTurns
        /\ UNCHANGED <<up, rows, screen, held, transcript, opened, resend, crashes, reached>>
    BY <1>5 DEF RegenerateReply
  <2> HIDE DEF q
  <2>3. /\ NewTurn("again", q, "running") \in Turns /\ NewTurn("again", q, "running") # None
        /\ NewTurn("again", q, "running").kind = "again" /\ clock + 1 \in Numbers
    BY <1>1, <2>1, <2>2, NewTurnType
  <2>4. clock' \in 0 .. MaxTurns
    BY <1>1, <2>2, TranscriptAssumption
  <2>5. StoreTypes'
    BY <2>2, <2>3, <2>4 DEF IInv, StoreTypes
  <2>6. \A c \in Chats : Asking(c)' <=> Asking(c)
    BY <2>2, <2>3 DEF IInv, StoreTypes, Asking, Working
  <2>7. Flags'
    BY <1>1, <2>2, <2>3, <2>6 DEF IInv, StoreTypes, Flags, Working
  <2>8. RowsArePairs'
    BY <2>2, <2>6 DEF IInv, RowsArePairs
  <2>9. QED
    BY <2>5, <2>7, <2>8 DEF IInv
<1>6. ASSUME NEW a \in Answers, SwitchVariant(a) PROVE IInv'
  <2> DEFINE live == transcript[screen][Len(transcript[screen])]
             texts == [transcript EXCEPT ![screen] = [@ EXCEPT ![Len(@)] = Showing(live, a, live.variants)]]
  <2>1. live \in Messages /\ live.variants \in SUBSET Answers
    <3>1. Len(transcript[screen]) \in 1 .. Len(transcript[screen])
      BY <1>1, <1>6, EmptySeq, LenProperties DEF SwitchVariant
    <3>2. live \in Messages
      BY <1>1, <3>1, LenProperties
    <3>3. QED
      BY <3>2 DEF Messages
  <2>2. Showing(live, a, live.variants) \in Messages
    BY <2>1, ShowingType
  <2>3. [transcript[screen] EXCEPT ![Len(transcript[screen])] = Showing(live, a, live.variants)] \in Seq(Messages)
    <3>1. transcript[screen] \in [1 .. Len(transcript[screen]) -> Messages] /\ Len(transcript[screen]) \in Nat
      BY <1>1, LenProperties
    <3>2. [transcript[screen] EXCEPT ![Len(transcript[screen])] = Showing(live, a, live.variants)]
            \in [1 .. Len(transcript[screen]) -> Messages]
      BY <2>2, <3>1
    <3>3. QED
      BY <3>1, <3>2, IsASeq
  <2>4. texts \in [Chats -> Seq(Messages)]
    BY <1>1, <2>3
  <2>5. /\ transcript' = texts /\ rows' = [rows EXCEPT ![screen] = StoreVariants(@, a, live.variants)]
        /\ UNCHANGED <<up, screen, held, opened, turn, resend, clock, crashes, reached>>
    BY <1>6 DEF SwitchVariant
  <2> HIDE DEF live, texts
  <2>6. /\ StoreVariants(rows[screen], a, live.variants) \in Seq(Messages)
        /\ Len(StoreVariants(rows[screen], a, live.variants)) = Len(rows[screen])
        /\ Alternates(rows[screen]) => Alternates(StoreVariants(rows[screen], a, live.variants))
    BY <1>1, <2>1, StoreVariantsAlternates
  <2>7. StoreTypes'
    BY <2>4, <2>5, <2>6 DEF IInv, StoreTypes
  <2>8. \A c \in Chats : (Working(c)' <=> Working(c)) /\ (Asking(c)' <=> Asking(c))
    BY <2>5 DEF Working, Asking
  <2>9. Flags'
    BY <2>5, <2>8 DEF IInv, Flags
  <2>10. \A c \in Chats : Len(rows'[c]) = Len(rows[c]) /\ (Alternates(rows[c]) => Alternates(rows'[c]))
    BY <1>1, <2>5, <2>6
  <2>11. RowsArePairs'
    BY <2>5, <2>8, <2>10 DEF IInv, RowsArePairs
  <2>12. QED
    BY <2>7, <2>9, <2>11 DEF IInv
<1>7. ASSUME NEW c \in Chats, LoadSession(c) \/ Attach(c) \/ NewSession(c) PROVE IInv'
  <2>1. \E texts, minds, astray : /\ texts \in [Chats -> Seq(Messages)] /\ astray \in SUBSET Chats
                                  /\ Show(c, texts, minds, astray)
    <3>1. reached \in SUBSET Chats /\ (IF Working(c) THEN reached \cup {c} ELSE reached) \in SUBSET Chats
      BY <1>1
    <3>2. [transcript EXCEPT ![c] = rows[c]] \in [Chats -> Seq(Messages)]
      BY <1>1
    <3>3. CASE LoadSession(c)
      BY <3>1, <3>2, <3>3 DEF LoadSession
    <3>4. CASE Attach(c)
      BY <3>1, <3>2, <3>4 DEF Attach
    <3>5. CASE NewSession(c)
      BY <1>1, <3>1, <3>5 DEF NewSession
    <3>6. QED
      BY <1>7, <3>3, <3>4, <3>5
  <2>2. UNCHANGED <<up, rows, turn, resend, clock, crashes>>
    BY <1>7 DEF LoadSession, Attach, NewSession
  <2>3. rows' \in [Chats -> Seq(Messages)] /\ \A d \in Chats : rows'[d] = rows[d]
    BY <1>1, <2>2
  <2>4. QED
    BY <2>1, <2>2, <2>3, ShowIInv
<1>8. ASSUME NEW c \in Chats, DeleteSession(c) PROVE IInv'
  <2>1. /\ ~Working(c) /\ rows' = [rows EXCEPT ![c] = <<>>]
        /\ UNCHANGED <<up, turn, resend, clock, crashes>>
    BY <1>8 DEF DeleteSession
  <2>2. <<>> \in Seq(Messages) /\ ~Asking(c)
    BY <2>1 DEF Asking
  <2>3. /\ rows' \in [Chats -> Seq(Messages)]
        /\ \A d \in Chats : rows'[d] = rows[d] \/ (~Asking(d) /\ rows'[d] = <<>>)
    BY <1>1, <2>1, <2>2
  <2>4. CASE c # screen
    <3>1. UNCHANGED <<screen, held, transcript, memory, opened, reached>>
      BY <1>8, <2>4 DEF DeleteSession
    <3>2. StoreTypes'
      BY <2>1, <2>3, <3>1 DEF IInv, StoreTypes
    <3>3. \A d \in Chats : (Working(d)' <=> Working(d)) /\ (Asking(d)' <=> Asking(d))
      BY <2>1 DEF Working, Asking
    <3>4. Flags'
      BY <2>1, <3>1, <3>3 DEF IInv, Flags
    <3>5. Alternates(<<>>) /\ ~(Len(<<>>) % 2 = 1)
      <4>1. DOMAIN <<>> = {} /\ Len(<<>>) = 0 /\ ~(0 % 2 = 1)
        OBVIOUS
      <4>2. QED
        BY <4>1 DEF Alternates
    <3>6. RowsArePairs'
      BY <2>1, <2>3, <3>3, <3>5 DEF IInv, RowsArePairs
    <3>7. QED
      BY <3>2, <3>4, <3>6 DEF IInv
  <2>5. CASE c = screen
    <3>1. PICK d \in Spare : Show(d, transcript, memory, reached)
      BY <1>8, <2>5 DEF DeleteSession
    <3>2. d \in Chats /\ reached \in SUBSET Chats
      BY <1>1 DEF Spare
    <3>3. QED
      BY <1>1, <2>1, <2>3, <3>1, <3>2, ShowIInv
  <2>6. QED
    BY <2>4, <2>5
<1>9. QED
  BY <1>2, <1>3, <1>4, <1>5, <1>6, <1>7, <1>8 DEF WindowStep

-----------------------------------------------------------------------------
(* closeInterruptedTurns closes what ends in a question, and only that.    *)
LEMMA LaunchIInv ==
  ASSUME IInv, Launch
  PROVE  IInv'
<1>1. /\ ~up /\ up' = TRUE /\ rows' = InterruptedTurnsClosed /\ screen' \in Spare /\ held' = {screen'}
      /\ UNCHANGED <<transcript, memory, opened, turn, resend, clock, crashes, reached>>
  BY DEF Launch
<1>2. ASSUME NEW c \in Chats
      PROVE  rows'[c] \in Seq(Messages) /\ Alternates(rows'[c]) /\ ~(Len(rows'[c]) % 2 = 1)
  <2>1. rows[c] \in Seq(Messages) /\ Alternates(rows[c])
    BY DEF IInv, StoreTypes, RowsArePairs
  <2>2. Len(rows[c]) \in Nat /\ DOMAIN rows[c] = 1 .. Len(rows[c])
    BY <2>1, LenProperties
  <2>3. CASE rows[c] = <<>>
    <3>1. rows'[c] = rows[c] /\ Len(rows[c]) = 0 /\ ~(0 % 2 = 1)
      BY <1>1, <2>3 DEF InterruptedTurnsClosed
    <3>2. QED
      BY <2>1, <3>1
  <2>4. CASE rows[c] # <<>>
    <3> DEFINE n == Len(rows[c])
    <3>1. n \in 1 .. n
      BY <2>1, <2>2, <2>4, EmptySeq
    <3>2. rows[c][n] \in Messages /\ rows[c][n].role = IF n % 2 = 1 THEN "user" ELSE "agent"
      BY <2>1, <2>2, <3>1, LenProperties DEF Alternates
    <3>3. CASE n % 2 = 1
      <4>1. rows'[c] = Append(rows[c], Failure(rows[c][n].to))
        BY <1>1, <2>4, <3>2, <3>3 DEF InterruptedTurnsClosed
      <4>a. rows[c][n].to \in Numbers
        BY <3>2 DEF Messages
      <4>2. Failure(rows[c][n].to) \in Messages /\ Failure(rows[c][n].to).role = "agent"
        BY <4>a, MessageTypes
      <4>3. ~(n % 2 = 0)
        BY <2>2, <3>3, Parity
      <4>4. /\ Append(rows[c], Failure(rows[c][n].to)) \in Seq(Messages)
            /\ Alternates(Append(rows[c], Failure(rows[c][n].to)))
            /\ Len(Append(rows[c], Failure(rows[c][n].to))) = n + 1
        BY <2>1, <4>2, <4>3, AppendAlternates
      <4>5. ~((n + 1) % 2 = 1)
        BY <2>2, <4>3, Parity
      <4>6. QED
        BY <4>1, <4>4, <4>5
    <3>4. CASE n % 2 # 1
      <4>1. rows'[c] = rows[c]
        BY <1>1, <3>2, <3>4 DEF InterruptedTurnsClosed
      <4>2. QED
        BY <2>1, <3>4, <4>1
    <3>5. QED
      BY <3>3, <3>4
  <2>5. QED
    BY <2>3, <2>4
<1>3. StoreTypes'
  <2>1. DOMAIN rows' = Chats /\ rows' = [c \in Chats |-> rows'[c]]
    BY <1>1 DEF InterruptedTurnsClosed
  <2>2. rows' \in [Chats -> Seq(Messages)]
    BY <1>2, <2>1
  <2>3. reached' \subseteq held' /\ held' \subseteq Chats
    <3>1. held = {} /\ reached \subseteq held
      BY <1>1 DEF IInv, StoreTypes, Flags
    <3>2. QED
      BY <1>1, <3>1 DEF Spare
  <2>4. QED
    BY <1>1, <2>2, <2>3 DEF IInv, StoreTypes, Spare
<1>4. \A c \in Chats : ~Working(c)' /\ ~Asking(c)' /\ (Asking(c)' <=> Asking(c))
  BY <1>1 DEF IInv, Flags, Working, Asking
<1>5. Flags'
  BY <1>1, <1>4 DEF IInv, Flags
<1>6. RowsArePairs'
  BY <1>2, <1>4 DEF RowsArePairs
<1>7. QED
  BY <1>3, <1>5, <1>6 DEF IInv

(* A crash leaves a question without its ending at most, and no turn.      *)
LEMMA CrashIInv ==
  ASSUME IInv, Crash
  PROVE  IInv'
<1>1. <<>> \in Seq(Messages)
  OBVIOUS
<1>a. crashes + 1 \in 0 .. MaxCrashes
  BY TranscriptAssumption DEF Crash, IInv, StoreTypes
<1>2. StoreTypes'
  BY <1>1, <1>a DEF Crash, IInv, StoreTypes
<1>3. \A c \in Chats : ~Working(c)' /\ ~Asking(c)'
  BY DEF Crash, Working, Asking
<1>4. Flags'
  BY <1>3 DEF Crash, Flags
<1>5. RowsArePairs'
  BY DEF Crash, IInv, RowsArePairs
<1>6. QED
  BY <1>2, <1>4, <1>5 DEF IInv

(* Every step keeps the pairs.                                             *)
LEMMA StepIInv == IInv /\ [Next]_vars => IInv'
<1> SUFFICES ASSUME IInv, [Next]_vars PROVE IInv'
  OBVIOUS
<1>1. CASE WindowStep
  <2>1. up
    BY <1>1 DEF WindowStep, SendMessage, RetryFailedTurn, ResendEdited, RegenerateReply, SwitchVariant,
                LoadSession, Attach, NewSession, DeleteSession, Calm
  <2>2. QED
    BY <1>1, <2>1, WindowStepIInv
<1>2. CASE Resend
  <2>1. up /\ resend \in Numbers \cup {0} /\ clock + 1 \in Numbers
    BY <1>2, TranscriptAssumption DEF Resend, BeginTurn, IInv, StoreTypes, Numbers
  <2>2. (IF resend = 0 THEN clock + 1 ELSE resend) \in Numbers
    BY <2>1
  <2>3. QED
    BY <1>2, <2>1, <2>2, BeginTurnIInv DEF Resend
<1>3. ASSUME NEW c \in Chats, TurnStep(c) PROVE IInv'
  <2>1. Working(c)
    BY <1>3 DEF TurnStep, OpenTurn, AppendTurn, AppendFailedTurn, Finish, StoreAgain, PanicAgain, FailAgain,
                Advance, AskedAgain
  <2>2. up
    BY <2>1 DEF IInv, Flags
  <2>3. QED
    BY <1>3, <2>2, TurnStepIInv
<1>4. CASE Crash
  BY <1>4, CrashIInv
<1>5. CASE Launch
  BY <1>5, LaunchIInv
<1>6. CASE UNCHANGED vars
  BY <1>6 DEF vars, inMemory, IInv, StoreTypes, Flags, RowsArePairs, Working, Asking
<1>7. QED
  BY <1>1, <1>2, <1>3, <1>4, <1>5, <1>6 DEF Next

-----------------------------------------------------------------------------
(* The loop of Selected, and what ToModel and AnswersOf make of one message *)
(* more.                                                                   *)

(* Every set of naturals that is not empty has a least member: what stands *)
(* for induction in the proofs about Selected.                             *)
LEMMA LeastNatural ==
  ASSUME NEW T \in SUBSET Nat, T # {}
  PROVE  \E x \in T : \A y \in T : x <= y
<1> DEFINE Below == {0 .. n : n \in T}
<1>1. Below \subseteq FiniteSubsetsOf(Nat)
  <2>1. ASSUME NEW n \in T PROVE 0 .. n \subseteq Nat /\ IsFiniteSet(0 .. n)
    BY FS_Interval
  <2>2. QED
    BY <2>1 DEF FiniteSubsetsOf
<1>2. Below # {}
  OBVIOUS
<1>3. PICK b \in Below : \A d \in Below : ~(<<d, b>> \in StrictSubsetOrdering(Nat))
  <2>1. IsWellFoundedOn(StrictSubsetOrdering(Nat), FiniteSubsetsOf(Nat))
    BY FS_StrictSubsetOrderingWellFounded
  <2> HIDE DEF Below
  <2>2. QED
    BY <1>1, <1>2, <2>1, WFMin
<1>4. PICK x \in T : b = 0 .. x
  BY <1>3
<1>5. ASSUME NEW y \in T, ~(x <= y) PROVE FALSE
  <2>1. 0 .. y \in Below /\ 0 .. x \in Below
    OBVIOUS
  <2>2. x \in 0 .. x /\ x \notin 0 .. y /\ 0 .. y \subseteq 0 .. x
    BY <1>5
  <2>3. <<0 .. y, b>> \in StrictSubsetOrdering(Nat)
    BY <1>1, <1>4, <2>1, <2>2 DEF StrictSubsetOrdering, FiniteSubsetsOf
  <2>4. QED
    BY <1>3, <2>1, <2>3
<1>6. QED
  BY <1>5

(* The sequences the loop of Selected goes through.                        *)
Loops(S, s, K, f) ==
  /\ f \in [0 .. Len(s) -> Seq(S)]
  /\ f[0] = <<>>
  /\ \A n \in 1 .. Len(s) : f[n] = IF n \in K THEN Append(f[n - 1], s[n]) ELSE f[n - 1]
  /\ Selected(s, K) = f[Len(s)]

(* The loop of Selected is one.                                            *)
LEMMA SelectedSteps ==
  ASSUME NEW S, NEW s \in Seq(S), NEW K
  PROVE  \E f : Loops(S, s, K, f)
<1> DEFINE Step(g, n) ==
             IF n = 0 THEN <<>> ELSE IF n \in K THEN Append(g[n - 1], s[n]) ELSE g[n - 1]
           Reaches(n, g) == g \in [0 .. n -> Seq(S)] /\ \A i \in 0 .. n : g[i] = Step(g, i)
           Bad == {n \in 0 .. Len(s) : ~\E g : Reaches(n, g)}
<1>1. Len(s) \in Nat /\ \A i \in 1 .. Len(s) : s[i] \in S
  BY LenProperties
<1>2. Bad = {}
  <2>1. SUFFICES ASSUME Bad # {} PROVE FALSE
    OBVIOUS
  <2>2. PICK n \in Bad : \A k \in Bad : n <= k
    <3>1. Bad \in SUBSET Nat
      BY <1>1
    <3> HIDE DEF Bad
    <3>2. QED
      BY <2>1, <3>1, LeastNatural
  <2>3. n \in 0 .. Len(s) /\ ~\E g : Reaches(n, g)
    OBVIOUS
  <2>4. CASE n = 0
    <3>1. [i \in 0 .. 0 |-> <<>>] \in [0 .. 0 -> Seq(S)]
      OBVIOUS
    <3>2. Reaches(0, [i \in 0 .. 0 |-> <<>>])
      BY <3>1
    <3>3. QED
      BY <2>3, <2>4, <3>2
  <2>5. CASE n # 0
    <3>1. n - 1 \in 0 .. Len(s) /\ ~(n <= n - 1)
      BY <1>1, <2>3, <2>5
    <3>2. PICK g : Reaches(n - 1, g)
      BY <2>2, <3>1
    <3> DEFINE last == IF n \in K THEN Append(g[n - 1], s[n]) ELSE g[n - 1]
               h == [i \in 0 .. n |-> IF i = n THEN last ELSE g[i]]
    <3>3. n - 1 \in 0 .. (n - 1) /\ n \in 1 .. Len(s) /\ s[n] \in S
      BY <1>1, <2>3, <2>5
    <3>4. g[n - 1] \in Seq(S)
      BY <3>2, <3>3
    <3>5. last \in Seq(S)
      BY <3>3, <3>4, AppendProperties
    <3>6. \A i \in 0 .. n : i # n => i \in 0 .. (n - 1)
      BY <2>3
    <3>7. \A i \in 0 .. n : i # n => g[i] \in Seq(S)
      BY <3>2, <3>6
    <3>8. h \in [0 .. n -> Seq(S)]
      BY <3>5, <3>7
    <3>9. ASSUME NEW i \in 0 .. n PROVE h[i] = Step(h, i)
      <4>1. CASE i = 0
        <5>1. h[0] = g[0] /\ g[0] = <<>>
          BY <2>3, <2>5, <3>2, <3>1
        <5>2. QED
          BY <4>1, <5>1
      <4>2. CASE i = n
        <5>1. n - 1 \in 0 .. n /\ n - 1 # n
          BY <3>3
        <5>2. h[n - 1] = g[n - 1]
          BY <5>1
        <5>3. h[n] = last
          BY <2>3
        <5> HIDE DEF h
        <5>4. QED
          BY <2>5, <4>2, <5>2, <5>3
      <4>3. CASE i # 0 /\ i # n
        <5>1. i \in 0 .. (n - 1) /\ i - 1 \in 0 .. n /\ i - 1 # n
          BY <3>6, <4>3
        <5>2. h[i] = g[i] /\ h[i - 1] = g[i - 1]
          BY <4>3, <5>1
        <5>3. g[i] = Step(g, i)
          BY <3>2, <5>1
        <5> HIDE DEF h
        <5>4. QED
          BY <4>3, <5>2, <5>3
      <4>4. QED
        BY <4>1, <4>2, <4>3
    <3> HIDE DEF h
    <3>10. Reaches(n, h)
      BY <3>8, <3>9
    <3>11. QED
      BY <2>3, <3>10
  <2>6. QED
    BY <2>4, <2>5
<1>3. PICK g : Reaches(Len(s), g)
  <2>1. Len(s) \in 0 .. Len(s)
    BY <1>1
  <2> HIDE DEF Reaches
  <2>2. QED
    BY <1>2, <2>1
<1> DEFINE Is(f) == f = [n \in 0 .. Len(s) |-> Step(f, n)]
           upTo == CHOOSE f : Is(f)
<1>4. Is(g)
  BY <1>3
<1>5. Is(upTo)
  <2> HIDE DEF Is
  <2>1. QED
    BY <1>4
<1>6. Selected(s, K) = upTo[Len(s)]
  BY DEF Selected
<1> HIDE DEF upTo
<1>7. \A n \in 0 .. Len(s) : upTo[n] = Step(upTo, n)
  BY <1>5
<1>8. upTo \in [0 .. Len(s) -> Seq(S)]
  <2> DEFINE Odd == {n \in 0 .. Len(s) : upTo[n] \notin Seq(S)}
  <2>1. Odd = {}
    <3>1. SUFFICES ASSUME Odd # {} PROVE FALSE
      OBVIOUS
    <3>2. PICK n \in Odd : \A k \in Odd : n <= k
      <4>1. Odd \in SUBSET Nat
        BY <1>1
      <4> HIDE DEF Odd
      <4>2. QED
        BY <3>1, <4>1, LeastNatural
    <3>3. n \in 0 .. Len(s) /\ upTo[n] \notin Seq(S)
      OBVIOUS
    <3>4. n # 0
      <4>1. <<>> \in Seq(S)
        OBVIOUS
      <4>2. QED
        BY <1>7, <3>3, <4>1
    <3>5. n - 1 \in 0 .. Len(s) /\ ~(n <= n - 1) /\ n \in 1 .. Len(s)
      BY <1>1, <3>3, <3>4
    <3>6. upTo[n - 1] \in Seq(S) /\ s[n] \in S
      BY <1>1, <3>2, <3>5
    <3>7. upTo[n] = IF n \in K THEN Append(upTo[n - 1], s[n]) ELSE upTo[n - 1]
      BY <1>7, <3>3, <3>4
    <3>8. Append(upTo[n - 1], s[n]) \in Seq(S)
      BY <3>6, AppendProperties
    <3>9. QED
      BY <3>3, <3>6, <3>7, <3>8
  <2>2. upTo = [n \in 0 .. Len(s) |-> upTo[n]]
    BY <1>5
  <2>3. QED
    BY <2>1, <2>2
<1>9. 0 \in 0 .. Len(s) /\ \A n \in 1 .. Len(s) : n \in 0 .. Len(s) /\ n # 0
  BY <1>1
<1>10. QED
  BY <1>6, <1>7, <1>8, <1>9 DEF Loops

(* What is selected is a sequence of the same kind.                        *)
LEMMA SelectedType ==
  ASSUME NEW S, NEW s \in Seq(S), NEW K
  PROVE  Selected(s, K) \in Seq(S)
<1>1. PICK f : Loops(S, s, K, f)
  BY SelectedSteps
<1>2. Len(s) \in 0 .. Len(s)
  BY LenProperties
<1>3. QED
  BY <1>1, <1>2 DEF Loops

(* Of nothing nothing is selected.                                         *)
LEMMA SelectedEmpty ==
  ASSUME NEW K
  PROVE  Selected(<<>>, K) = <<>>
<1>1. <<>> \in Seq({}) /\ Len(<<>>) = 0
  OBVIOUS
<1>2. PICK f : Loops({}, <<>>, K, f)
  BY <1>1, SelectedSteps
<1>3. QED
  BY <1>1, <1>2 DEF Loops

(* One message more: it is selected, or nothing changes.                   *)
LEMMA SelectedAppend ==
  ASSUME NEW S, NEW s \in Seq(S), NEW m \in S, NEW K, NEW L,
         \A i \in 1 .. Len(s) : i \in K <=> i \in L
  PROVE  Selected(Append(s, m), L) =
           IF Len(s) + 1 \in L THEN Append(Selected(s, K), m) ELSE Selected(s, K)
<1> DEFINE t == Append(s, m)
<1>1. Len(s) \in Nat
  BY LenProperties
<1>2. /\ t \in Seq(S) /\ Len(t) = Len(s) + 1 /\ t[Len(s) + 1] = m
      /\ \A i \in 1 .. Len(s) : t[i] = s[i]
  BY AppendProperties
<1> HIDE DEF t
<1>3. PICK f : Loops(S, s, K, f)
  BY SelectedSteps
<1>4. PICK g : Loops(S, t, L, g)
  BY <1>2, SelectedSteps
<1> DEFINE Bad == {n \in 0 .. Len(s) : f[n] # g[n]}
<1>5. Bad = {}
  <2>1. SUFFICES ASSUME Bad # {} PROVE FALSE
    OBVIOUS
  <2>2. PICK n \in Bad : \A k \in Bad : n <= k
    <3>1. Bad \in SUBSET Nat
      BY <1>1
    <3> HIDE DEF Bad
    <3>2. QED
      BY <2>1, <3>1, LeastNatural
  <2>3. n \in 0 .. Len(s) /\ f[n] # g[n]
    OBVIOUS
  <2>4. n # 0
    BY <1>3, <1>4, <2>3 DEF Loops
  <2>5. n - 1 \in 0 .. Len(s) /\ ~(n <= n - 1) /\ n \in 1 .. Len(s) /\ n \in 1 .. Len(t)
    BY <1>1, <1>2, <2>3, <2>4
  <2>6. f[n - 1] = g[n - 1]
    BY <2>2, <2>5
  <2>7. f[n] = IF n \in K THEN Append(f[n - 1], s[n]) ELSE f[n - 1]
    BY <1>3, <2>5 DEF Loops
  <2>8. g[n] = IF n \in L THEN Append(g[n - 1], t[n]) ELSE g[n - 1]
    BY <1>4, <2>5 DEF Loops
  <2>9. t[n] = s[n] /\ (n \in K <=> n \in L)
    BY <1>2, <2>5
  <2>10. QED
    BY <2>3, <2>6, <2>7, <2>8, <2>9
<1>6. f[Len(s)] = g[Len(s)]
  <2>1. Len(s) \in 0 .. Len(s)
    BY <1>1
  <2>2. QED
    BY <1>5, <2>1
<1>7. Len(s) + 1 \in 1 .. Len(t) /\ (Len(s) + 1) - 1 = Len(s)
  BY <1>1, <1>2
<1>8. g[Len(s) + 1] = IF Len(s) + 1 \in L THEN Append(g[Len(s)], m) ELSE g[Len(s)]
  BY <1>2, <1>4, <1>7 DEF Loops
<1>9. Selected(t, L) = g[Len(s) + 1]
  BY <1>2, <1>4 DEF Loops
<1>10. QED
  BY <1>3, <1>6, <1>8, <1>9 DEF t, Loops

(* Everything that is selected stands at one of the positions asked for.   *)
LEMMA SelectedFrom ==
  ASSUME NEW S, NEW s \in Seq(S), NEW K
  PROVE  \A k \in DOMAIN Selected(s, K) :
           \E i \in DOMAIN s : i \in K /\ Selected(s, K)[k] = s[i]
<1>1. Len(s) \in Nat /\ DOMAIN s = 1 .. Len(s) /\ \A i \in 1 .. Len(s) : s[i] \in S
  BY LenProperties
<1>2. PICK f : Loops(S, s, K, f)
  BY SelectedSteps
<1> DEFINE From(u, n) == \A k \in DOMAIN u : \E i \in 1 .. n : i \in K /\ u[k] = s[i]
           Bad == {n \in 0 .. Len(s) : ~From(f[n], n)}
<1>3. Bad = {}
  <2>1. SUFFICES ASSUME Bad # {} PROVE FALSE
    OBVIOUS
  <2>2. PICK n \in Bad : \A k \in Bad : n <= k
    <3>1. Bad \in SUBSET Nat
      BY <1>1
    <3> HIDE DEF Bad
    <3>2. QED
      BY <2>1, <3>1, LeastNatural
  <2>3. n \in 0 .. Len(s) /\ ~From(f[n], n)
    OBVIOUS
  <2>4. n # 0
    <3>1. DOMAIN <<>> = {}
      OBVIOUS
    <3>2. QED
      BY <1>2, <2>3, <3>1 DEF Loops
  <2>5. n - 1 \in 0 .. Len(s) /\ ~(n <= n - 1) /\ n \in 1 .. Len(s)
    BY <1>1, <2>3, <2>4
  <2>6. From(f[n - 1], n - 1)
    <3> HIDE DEF From
    <3>1. QED
      BY <2>2, <2>5
  <2>7. f[n - 1] \in Seq(S) /\ s[n] \in S
    BY <1>1, <1>2, <2>5 DEF Loops
  <2>8. f[n] = IF n \in K THEN Append(f[n - 1], s[n]) ELSE f[n - 1]
    BY <1>2, <2>5 DEF Loops
  <2>9. \A i \in 1 .. n - 1 : i \in 1 .. n
    BY <2>5
  <2>10. From(f[n], n)
    <3>1. CASE n \notin K
      BY <2>6, <2>8, <2>9, <3>1
    <3>2. CASE n \in K
      <4> DEFINE u == f[n - 1]
      <4>1. /\ Len(u) \in Nat /\ DOMAIN Append(u, s[n]) = 1 .. Len(u) + 1
            /\ \A k \in 1 .. Len(u) : Append(u, s[n])[k] = u[k]
            /\ Append(u, s[n])[Len(u) + 1] = s[n] /\ DOMAIN u = 1 .. Len(u)
        BY <2>7, AppendProperties, LenProperties
      <4>2. ASSUME NEW k \in DOMAIN Append(u, s[n])
            PROVE  \E i \in 1 .. n : i \in K /\ Append(u, s[n])[k] = s[i]
        <5>1. CASE k = Len(u) + 1
          <6>1. n \in 1 .. n
            BY <2>5
          <6>2. QED
            BY <3>2, <4>1, <5>1, <6>1
        <5>2. CASE k # Len(u) + 1
          <6>1. k \in DOMAIN u /\ Append(u, s[n])[k] = u[k]
            BY <4>1, <4>2, <5>2
          <6>2. QED
            BY <2>6, <2>9, <6>1
        <5>3. QED
          BY <5>1, <5>2
      <4>3. f[n] = Append(u, s[n])
        BY <2>8, <3>2
      <4> HIDE DEF u
      <4>4. QED
        BY <4>2, <4>3
    <3>3. QED
      BY <3>1, <3>2
  <2>11. QED
    BY <2>3, <2>10
<1>4. From(f[Len(s)], Len(s))
  <2>1. Len(s) \in 0 .. Len(s)
    BY <1>1
  <2> HIDE DEF From
  <2>2. QED
    BY <1>3, <2>1
<1>5. QED
  BY <1>1, <1>2, <1>4 DEF Loops

(* A message in the words the model gets.                                  *)
LEMMA PlainType ==
  ASSUME NEW m \in Messages
  PROVE  /\ Plain(m) \in Messages
         /\ Plain(m).role = m.role /\ Plain(m).to = m.to /\ Plain(m).by = m.by
         /\ Plain(m).failed = m.failed /\ Plain(m).variants = {}
<1>1. /\ m.role \in {"user", "agent"} /\ m.to \in Numbers /\ m.by \in 0 .. MaxTurns
      /\ m.failed \in BOOLEAN /\ m.variants \subseteq Answers
      /\ m = [role |-> m.role, to |-> m.to, by |-> m.by, failed |-> m.failed, variants |-> m.variants]
  BY DEF Messages
<1>2. Plain(m) = [role |-> m.role, to |-> m.to, by |-> m.by, failed |-> m.failed, variants |-> {}]
  BY <1>1 DEF Plain, Messages
<1>3. QED
  BY <1>1, <1>2 DEF Messages

(* A transcript in those words is as long as it was.                       *)
LEMMA PlainSeq ==
  ASSUME NEW s \in Seq(Messages)
  PROVE  /\ [i \in DOMAIN s |-> Plain(s[i])] \in Seq(Messages)
         /\ Len([i \in DOMAIN s |-> Plain(s[i])]) = Len(s)
<1>1. Len(s) \in Nat /\ DOMAIN s = 1 .. Len(s) /\ \A i \in 1 .. Len(s) : s[i] \in Messages
  BY LenProperties
<1>2. \A i \in 1 .. Len(s) : Plain(s[i]) \in Messages
  BY <1>1, PlainType
<1> DEFINE t == [i \in 1 .. Len(s) |-> Plain(s[i])]
<1>3. t \in [1 .. Len(s) -> Messages]
  BY <1>2
<1>4. t \in Seq(Messages) /\ Len(t) = Len(s)
  <2> HIDE DEF t
  <2>1. t \in Seq(Messages) /\ DOMAIN t = 1 .. Len(s)
    BY <1>1, <1>3
  <2>2. QED
    BY <1>1, <2>1, LenProperties
<1>5. QED
  BY <1>1, <1>4

(* One message more is one more in those words.                            *)
LEMMA PlainAppend ==
  ASSUME NEW s \in Seq(Messages), NEW m \in Messages
  PROVE  [i \in DOMAIN Append(s, m) |-> Plain(Append(s, m)[i])]
           = Append([i \in DOMAIN s |-> Plain(s[i])], Plain(m))
<1> DEFINE t == Append(s, m)
           p == [i \in DOMAIN s |-> Plain(s[i])]
           q == [i \in DOMAIN t |-> Plain(t[i])]
           r == Append(p, Plain(m))
<1>1. /\ t \in Seq(Messages) /\ Len(t) = Len(s) + 1 /\ t[Len(s) + 1] = m
      /\ \A i \in 1 .. Len(s) : t[i] = s[i]
      /\ Len(s) \in Nat /\ DOMAIN s = 1 .. Len(s)
  BY AppendProperties, LenProperties
<1> HIDE DEF t
<1>2. p \in Seq(Messages) /\ Len(p) = Len(s) /\ q \in Seq(Messages) /\ Len(q) = Len(t)
  BY <1>1, PlainSeq
<1>3. DOMAIN t = 1 .. Len(s) + 1 /\ Plain(m) \in Messages
  BY <1>1, LenProperties, PlainType
<1>4. /\ \A i \in 1 .. Len(s) : p[i] = Plain(s[i])
      /\ \A i \in 1 .. Len(s) + 1 : q[i] = Plain(t[i])
  BY <1>1, <1>3
<1> HIDE DEF p, q
<1>5. /\ r \in Seq(Messages) /\ Len(r) = Len(s) + 1 /\ r[Len(s) + 1] = Plain(m)
      /\ \A i \in 1 .. Len(s) : r[i] = p[i]
  BY <1>2, <1>3, AppendProperties
<1> HIDE DEF r
<1>6. \A i \in 1 .. Len(q) : q[i] = r[i]
  <2>1. ASSUME NEW i \in 1 .. Len(s) + 1 PROVE q[i] = r[i]
    <3>1. CASE i = Len(s) + 1
      BY <1>1, <1>4, <1>5, <3>1
    <3>2. CASE i # Len(s) + 1
      <4>1. i \in 1 .. Len(s)
        BY <1>1, <3>2
      <4>2. QED
        BY <1>1, <1>4, <1>5, <4>1
    <3>3. QED
      BY <3>1, <3>2
  <2>2. QED
    BY <1>1, <1>2, <2>1
<1>7. q = r
  BY <1>1, <1>2, <1>5, <1>6, SeqEqual
<1>8. QED
  BY <1>7 DEF p, q, r, t

(* What the model is told is messages, each of them one of the transcript. *)
LEMMA ToModelType ==
  ASSUME NEW s \in Seq(Messages)
  PROVE  /\ ToModel(s) \in Seq(Messages)
         /\ \A k \in DOMAIN ToModel(s) : \E i \in DOMAIN s : ToModel(s)[k] = Plain(s[i])
<1> DEFINE p == [i \in DOMAIN s |-> Plain(s[i])]
           kept == {i \in DOMAIN s : ~FailedPairAt(s, i)}
<1>1. p \in Seq(Messages) /\ DOMAIN p = DOMAIN s /\ \A i \in DOMAIN s : p[i] = Plain(s[i])
  BY PlainSeq
<1>2. ToModel(s) = Selected(p, kept)
  BY DEF ToModel
<1> HIDE DEF p, kept
<1>3. Selected(p, kept) \in Seq(Messages)
  BY <1>1, SelectedType
<1>4. \A k \in DOMAIN Selected(p, kept) : \E i \in DOMAIN p : Selected(p, kept)[k] = p[i]
  BY <1>1, SelectedFrom
<1>5. QED
  BY <1>1, <1>2, <1>3, <1>4

(* A chat nothing was said in tells the model nothing.                     *)
LEMMA ToModelEmpty == ToModel(<<>>) = <<>>
<1>1. [i \in DOMAIN <<>> |-> Plain(<<>>[i])] = <<>>
  OBVIOUS
<1>2. QED
  BY <1>1, SelectedEmpty DEF ToModel

(* A question and its ending: the model is told both, or neither.          *)
LEMMA ToModelPair ==
  ASSUME NEW s \in Seq(Messages), NEW u \in Messages, NEW a \in Messages,
         u.role = "user", a.role = "agent"
  PROVE  ToModel(Append(Append(s, u), a)) =
           IF a.failed THEN ToModel(s) ELSE Append(Append(ToModel(s), Plain(u)), Plain(a))
<1> DEFINE su == Append(s, u)
           t == Append(su, a)
           plain(v) == [i \in DOMAIN v |-> Plain(v[i])]
           kept(v) == {i \in DOMAIN v : ~FailedPairAt(v, i)}
<1>1. Len(s) \in Nat /\ DOMAIN s = 1 .. Len(s) /\ \A i \in 1 .. Len(s) : s[i] \in Messages
  BY LenProperties
<1>2. /\ su \in Seq(Messages) /\ Len(su) = Len(s) + 1 /\ su[Len(s) + 1] = u
      /\ \A i \in 1 .. Len(s) : su[i] = s[i]
  BY AppendProperties
<1>3. /\ t \in Seq(Messages) /\ Len(t) = Len(s) + 2 /\ t[Len(s) + 2] = a
      /\ \A i \in 1 .. Len(s) + 1 : t[i] = su[i]
  <2> HIDE DEF su
  <2>1. QED
    BY <1>1, <1>2, AppendProperties
<1>4. DOMAIN t = 1 .. Len(s) + 2
  BY <1>3, LenProperties
<1>5. t[Len(s) + 1] = u /\ \A i \in 1 .. Len(s) : t[i] = s[i]
  BY <1>1, <1>2, <1>3
<1>6. plain(t) = Append(Append(plain(s), Plain(u)), Plain(a))
  <2>1. plain(su) = Append(plain(s), Plain(u))
    BY PlainAppend
  <2>2. plain(t) = Append(plain(su), Plain(a))
    <3> HIDE DEF su
    <3>1. QED
      BY <1>2, PlainAppend
  <2>3. QED
    BY <2>1, <2>2
<1> HIDE DEF su, t
<1>7. ASSUME NEW i \in 1 .. Len(s) PROVE FailedPairAt(t, i) <=> FailedPairAt(s, i)
  <2>1. t[i] = s[i] /\ i < Len(t)
    BY <1>1, <1>3, <1>5
  <2>2. CASE i = Len(s)
    <3>1. t[i + 1].role # "agent" /\ ~(i < Len(s))
      BY <1>1, <1>5, <2>2
    <3>2. QED
      BY <2>1, <3>1 DEF FailedPairAt
  <2>3. CASE i # Len(s)
    <3>1. i + 1 \in 1 .. Len(s) /\ i < Len(s)
      <4>1. i \in 1 .. Len(s) /\ Len(s) \in Nat /\ i # Len(s)
        BY <1>1, <2>3
      <4>2. QED
        BY <4>1
    <3>2. t[i + 1] = s[i + 1]
      BY <1>5, <3>1
    <3>3. QED
      BY <2>1, <3>1, <3>2 DEF FailedPairAt
  <2>4. QED
    BY <2>2, <2>3
<1>8. FailedPairAt(t, Len(s) + 1) <=> a.failed
  <2>1. (Len(s) + 1) + 1 = Len(s) + 2 /\ Len(s) + 1 < Len(t)
    BY <1>1, <1>3
  <2>2. QED
    BY <1>3, <1>5, <2>1 DEF FailedPairAt
<1>9. FailedPairAt(t, Len(s) + 2) <=> a.failed
  BY <1>3 DEF FailedPairAt
<1>10. \A i \in 1 .. Len(s) : i \in kept(s) <=> i \in kept(t)
  BY <1>1, <1>4, <1>7
<1>11. (Len(s) + 1 \in kept(t) <=> ~a.failed) /\ (Len(s) + 2 \in kept(t) <=> ~a.failed)
  BY <1>1, <1>4, <1>8, <1>9
<1>12. PICK K : K = kept(s)
  OBVIOUS
<1>13. PICK L : L = kept(t)
  OBVIOUS
<1>14. PICK p : p = plain(s)
  OBVIOUS
<1>15. /\ ToModel(s) = Selected(p, K)
       /\ ToModel(t) = Selected(Append(Append(p, Plain(u)), Plain(a)), L)
  BY <1>6, <1>12, <1>13, <1>14 DEF ToModel
<1>16. p \in Seq(Messages) /\ Len(p) = Len(s) /\ Plain(u) \in Messages /\ Plain(a) \in Messages
  BY <1>14, PlainSeq, PlainType
<1>a. \A i \in 1 .. Len(p) : i \in K <=> i \in L
  BY <1>10, <1>12, <1>13, <1>16
<1>b. (Len(s) + 1 \in L <=> ~a.failed) /\ (Len(s) + 2 \in L <=> ~a.failed)
  BY <1>11, <1>13
<1> HIDE DEF plain, kept
<1>17. Selected(Append(p, Plain(u)), L) =
         IF a.failed THEN Selected(p, K) ELSE Append(Selected(p, K), Plain(u))
  <2>1. Selected(Append(p, Plain(u)), L) =
          IF Len(p) + 1 \in L THEN Append(Selected(p, K), Plain(u)) ELSE Selected(p, K)
    BY <1>16, <1>a, SelectedAppend
  <2>2. QED
    BY <1>16, <1>b, <2>1
<1>18. Selected(Append(Append(p, Plain(u)), Plain(a)), L) =
         IF a.failed THEN Selected(Append(p, Plain(u)), L)
                     ELSE Append(Selected(Append(p, Plain(u)), L), Plain(a))
  <2>1. PICK r : r = Append(p, Plain(u))
    OBVIOUS
  <2>2. r \in Seq(Messages) /\ Len(r) = Len(s) + 1
    BY <1>16, <2>1, AppendProperties
  <2>3. \A i \in 1 .. Len(r) : i \in L <=> i \in L
    OBVIOUS
  <2>4. Selected(Append(r, Plain(a)), L) =
          IF Len(r) + 1 \in L THEN Append(Selected(r, L), Plain(a)) ELSE Selected(r, L)
    BY <1>16, <2>2, <2>3, SelectedAppend
  <2>5. Len(r) + 1 = Len(s) + 2
    BY <1>1, <2>2
  <2>6. QED
    BY <1>b, <2>1, <2>4, <2>5
<1>19. QED
  BY <1>15, <1>17, <1>18 DEF t, su

(* The answers among the messages, one message further.                    *)
LEMMA AnswersAppend ==
  ASSUME NEW s \in Seq(Messages), NEW m \in Messages
  PROVE  AnswersOf(Append(s, m)) =
           IF m.role = "agent" THEN Append(AnswersOf(s), m) ELSE AnswersOf(s)
<1>1. /\ Append(s, m) \in Seq(Messages) /\ Len(Append(s, m)) = Len(s) + 1
      /\ Append(s, m)[Len(s) + 1] = m /\ \A i \in 1 .. Len(s) : Append(s, m)[i] = s[i]
      /\ Len(s) \in Nat /\ DOMAIN s = 1 .. Len(s)
  BY AppendProperties, LenProperties
<1>2. DOMAIN Append(s, m) = 1 .. Len(s) + 1
  BY <1>1, LenProperties
<1>3. PICK K : K = {i \in DOMAIN s : s[i].role = "agent"}
  OBVIOUS
<1>4. PICK L : L = {i \in DOMAIN Append(s, m) : Append(s, m)[i].role = "agent"}
  OBVIOUS
<1>5. AnswersOf(s) = Selected(s, K) /\ AnswersOf(Append(s, m)) = Selected(Append(s, m), L)
  BY <1>3, <1>4 DEF AnswersOf
<1>6. \A i \in 1 .. Len(s) : i \in K <=> i \in L
  BY <1>1, <1>2, <1>3, <1>4
<1>7. Len(s) + 1 \in L <=> m.role = "agent"
  BY <1>1, <1>2, <1>4
<1>8. Selected(Append(s, m), L) =
        IF Len(s) + 1 \in L THEN Append(Selected(s, K), m) ELSE Selected(s, K)
  BY <1>6, SelectedAppend
<1>9. QED
  BY <1>5, <1>7, <1>8

-----------------------------------------------------------------------------
(* Sequences of messages: their questions, their failures and their ends.  *)

(* The questions of a sequence: none of them is q, none is later than the  *)
(* n-th turn, each is asked once; a failure stands under its question.     *)
Unasked(s, q) == \A i \in DOMAIN s : s[i].role = "user" => s[i].to # q
AskedBy(s, n) == \A i \in DOMAIN s : s[i].role = "user" => s[i].to <= n
AskedApart(s) ==
  \A i, j \in DOMAIN s :
    s[i].role = "user" /\ s[j].role = "user" /\ s[i].to = s[j].to => i = j
FailuresPaired(s) == \A i \in DOMAIN s : s[i].failed => i > 1 /\ s[i] = Failure(s[i - 1].to)

Sound(s) == AskedApart(s) /\ FailuresPaired(s)

(* The two messages s ends in are those r ends in.                         *)
SameEnd(s, r) ==
  \A k \in {0, 1} : k < Len(s) => k < Len(r) /\ s[Len(s) - k] = r[Len(r) - k]

(* The facts of Append and of its domain in one place.                     *)
LEMMA AppendFacts ==
  ASSUME NEW s \in Seq(Messages), NEW m \in Messages
  PROVE  /\ Len(s) \in Nat /\ DOMAIN s = 1 .. Len(s)
         /\ \A i \in DOMAIN s : s[i] \in Messages
         /\ Append(s, m) \in Seq(Messages) /\ Len(Append(s, m)) = Len(s) + 1
         /\ DOMAIN Append(s, m) = 1 .. Len(s) + 1
         /\ Append(s, m)[Len(s) + 1] = m
         /\ \A i \in 1 .. Len(s) : Append(s, m)[i] = s[i]
<1>1. /\ Append(s, m) \in Seq(Messages) /\ Len(Append(s, m)) = Len(s) + 1
      /\ Append(s, m)[Len(s) + 1] = m /\ \A i \in 1 .. Len(s) : Append(s, m)[i] = s[i]
  BY AppendProperties
<1>2. Len(s) \in Nat /\ DOMAIN s = 1 .. Len(s) /\ \A i \in 1 .. Len(s) : s[i] \in Messages
  BY LenProperties
<1>3. DOMAIN Append(s, m) = 1 .. Len(s) + 1
  BY <1>1, LenProperties
<1>4. QED
  BY <1>1, <1>2, <1>3

(* What one message more does to the questions.                            *)
LEMMA AskedAppend ==
  ASSUME NEW s \in Seq(Messages), NEW m \in Messages
  PROVE  /\ \A n, k \in Nat : AskedBy(s, n) /\ n <= k /\ (m.role = "user" => m.to <= k)
                                => AskedBy(Append(s, m), k)
         /\ \A q : Unasked(s, q) /\ (m.role = "user" => m.to # q) => Unasked(Append(s, m), q)
         /\ AskedApart(s) /\ (m.role = "user" => Unasked(s, m.to)) => AskedApart(Append(s, m))
<1>1. /\ Len(s) \in Nat /\ DOMAIN s = 1 .. Len(s) /\ DOMAIN Append(s, m) = 1 .. Len(s) + 1
      /\ Append(s, m)[Len(s) + 1] = m /\ \A i \in 1 .. Len(s) : Append(s, m)[i] = s[i]
      /\ \A i \in DOMAIN s : s[i].to \in Numbers
  BY AppendFacts DEF Messages
<1>2. PICK t : t = Append(s, m)
  OBVIOUS
<1>3. \A i \in DOMAIN t : (i \in DOMAIN s /\ t[i] = s[i]) \/ (i = Len(s) + 1 /\ t[i] = m)
  BY <1>1, <1>2
<1>4. ASSUME NEW n \in Nat, NEW k \in Nat, AskedBy(s, n), n <= k, m.role = "user" => m.to <= k
      PROVE  AskedBy(t, k)
  BY <1>1, <1>3, <1>4, TranscriptAssumption DEF AskedBy, Numbers
<1>5. ASSUME NEW q, Unasked(s, q), m.role = "user" => m.to # q PROVE Unasked(t, q)
  BY <1>3, <1>5 DEF Unasked
<1>6. ASSUME AskedApart(s), m.role = "user" => Unasked(s, m.to) PROVE AskedApart(t)
  <2>1. SUFFICES ASSUME NEW i \in DOMAIN t, NEW j \in DOMAIN t, t[i].role = "user",
                        t[j].role = "user", t[i].to = t[j].to
                 PROVE  i = j
    BY DEF AskedApart
  <2>2. CASE i \in DOMAIN s /\ j \in DOMAIN s /\ t[i] = s[i] /\ t[j] = s[j]
    BY <1>6, <2>1, <2>2 DEF AskedApart
  <2>3. CASE i \in DOMAIN s /\ t[i] = s[i] /\ t[j] = m
    BY <1>6, <2>1, <2>3 DEF Unasked
  <2>4. CASE j \in DOMAIN s /\ t[j] = s[j] /\ t[i] = m
    BY <1>6, <2>1, <2>4 DEF Unasked
  <2>5. CASE i = Len(s) + 1 /\ j = Len(s) + 1
    BY <2>5
  <2>6. QED
    BY <1>3, <2>2, <2>3, <2>4, <2>5
<1>7. QED
  BY <1>2, <1>4, <1>5, <1>6

(* A failure that is written under its question is paired with it.         *)
LEMMA FailuresAppend ==
  ASSUME NEW s \in Seq(Messages), NEW m \in Messages, FailuresPaired(s),
         m.failed => Len(s) >= 1 /\ m = Failure(s[Len(s)].to)
  PROVE  FailuresPaired(Append(s, m))
<1>1. /\ Len(s) \in Nat /\ DOMAIN s = 1 .. Len(s) /\ DOMAIN Append(s, m) = 1 .. Len(s) + 1
      /\ Append(s, m)[Len(s) + 1] = m /\ \A i \in 1 .. Len(s) : Append(s, m)[i] = s[i]
  BY AppendFacts
<1>2. ASSUME NEW i \in 1 .. Len(s) + 1, Append(s, m)[i].failed
      PROVE  i > 1 /\ Append(s, m)[i] = Failure(Append(s, m)[i - 1].to)
  <2>1. CASE i = Len(s) + 1
    <3>1. m.failed /\ Len(s) >= 1 /\ m = Failure(s[Len(s)].to)
      BY <1>1, <1>2, <2>1
    <3>2. Len(s) \in 1 .. Len(s) /\ i - 1 = Len(s) /\ i > 1
      BY <1>1, <2>1, <3>1
    <3>3. QED
      BY <1>1, <2>1, <3>1, <3>2
  <2>2. CASE i # Len(s) + 1
    <3>1. i \in 1 .. Len(s)
      BY <1>1, <2>2
    <3>2. s[i].failed
      BY <1>1, <1>2, <3>1
    <3>3. i > 1 /\ s[i] = Failure(s[i - 1].to)
      BY <1>1, <3>1, <3>2 DEF FailuresPaired
    <3>4. i - 1 \in 1 .. Len(s)
      BY <1>1, <3>1, <3>3
    <3>5. QED
      BY <1>1, <3>1, <3>3, <3>4
  <2>3. QED
    BY <2>1, <2>2
<1>3. QED
  BY <1>1, <1>2 DEF FailuresPaired

(* The pair a transcript ends in, and what stands before it.               *)
LEMMA LastPair ==
  ASSUME NEW s \in Seq(Messages), Len(s) >= 2
  PROVE  /\ WithoutLastPair(s) \in Seq(Messages)
         /\ Len(WithoutLastPair(s)) = Len(s) - 2
         /\ \A i \in 1 .. Len(s) - 2 : WithoutLastPair(s)[i] = s[i]
         /\ s[Len(s) - 1] \in Messages /\ s[Len(s)] \in Messages
         /\ s = Append(Append(WithoutLastPair(s), s[Len(s) - 1]), s[Len(s)])
<1>1. Len(s) \in Nat /\ DOMAIN s = 1 .. Len(s) /\ \A i \in 1 .. Len(s) : s[i] \in Messages
  BY LenProperties
<1>2. PICK w : w = WithoutLastPair(s)
  OBVIOUS
<1>3. /\ w \in Seq(Messages) /\ Len(w) = Len(s) - 2
      /\ \A i \in 1 .. Len(s) - 2 : w[i] = s[i]
  <2>1. \A i \in 1 .. Len(s) - 2 : s[i] \in Messages
    BY <1>1
  <2>2. 1 \in Int /\ Len(s) - 2 \in Int /\ (Len(s) - 2) - 1 + 1 = Len(s) - 2
    BY <1>1
  <2>3. /\ SubSeq(s, 1, Len(s) - 2) \in Seq(Messages)
        /\ Len(SubSeq(s, 1, Len(s) - 2)) = IF 1 <= Len(s) - 2 THEN (Len(s) - 2) - 1 + 1 ELSE 0
        /\ \A i \in 1 .. (Len(s) - 2) - 1 + 1 : SubSeq(s, 1, Len(s) - 2)[i] = s[1 + i - 1]
    BY <2>1, <2>2, SubSeqProperties
  <2>4. (IF 1 <= Len(s) - 2 THEN (Len(s) - 2) - 1 + 1 ELSE 0) = Len(s) - 2
    BY <1>1
  <2>5. \A i \in 1 .. Len(s) - 2 : 1 + i - 1 = i
    BY <1>1
  <2>6. QED
    BY <1>2, <2>2, <2>3, <2>4, <2>5 DEF WithoutLastPair
<1>4. Len(s) - 1 \in 1 .. Len(s) /\ Len(s) \in 1 .. Len(s)
  BY <1>1
<1>5. s[Len(s) - 1] \in Messages /\ s[Len(s)] \in Messages
  BY <1>1, <1>4
<1>6. PICK v : v = Append(w, s[Len(s) - 1])
  OBVIOUS
<1>7. /\ v \in Seq(Messages) /\ Len(v) = Len(s) - 1 /\ v[Len(s) - 1] = s[Len(s) - 1]
      /\ \A i \in 1 .. Len(s) - 2 : v[i] = w[i]
  <2>1. (Len(s) - 2) + 1 = Len(s) - 1
    BY <1>1
  <2>2. QED
    BY <1>3, <1>5, <1>6, <2>1, AppendProperties
<1>8. PICK t : t = Append(v, s[Len(s)])
  OBVIOUS
<1>9. /\ t \in Seq(Messages) /\ Len(t) = Len(s) /\ t[Len(s)] = s[Len(s)]
      /\ \A i \in 1 .. Len(s) - 1 : t[i] = v[i]
  <2>1. (Len(s) - 1) + 1 = Len(s)
    BY <1>1
  <2>2. QED
    BY <1>5, <1>7, <1>8, <2>1, AppendProperties
<1>10. \A i \in 1 .. Len(s) : i \in 1 .. Len(s) - 2 \/ i = Len(s) - 1 \/ i = Len(s)
  <2>1. \A n \in Nat : \A i \in 1 .. n : i \in 1 .. n - 2 \/ i = n - 1 \/ i = n
    OBVIOUS
  <2>2. QED
    BY <1>1, <2>1
<1>11. \A i \in 1 .. Len(s) - 2 : i \in 1 .. Len(s) - 1
  BY <1>1
<1>a. Len(s) - 1 \in 1 .. Len(s) - 1
  BY <1>1
<1>12. \A i \in 1 .. Len(s) : s[i] = t[i]
  BY <1>3, <1>7, <1>9, <1>10, <1>11, <1>a
<1>13. s = t
  BY <1>9, <1>12, SeqEqual
<1>14. QED
  BY <1>2, <1>3, <1>5, <1>6, <1>8, <1>13

(* Without its last pair a sequence keeps what is said of its questions,   *)
(* and the question of that pair is not among them.                        *)
LEMMA WithoutLastPairKeeps ==
  ASSUME NEW s \in Seq(Messages), Len(s) >= 2
  PROVE  /\ \A n : AskedBy(s, n) => AskedBy(WithoutLastPair(s), n)
         /\ Sound(s) => Sound(WithoutLastPair(s))
         /\ AskedApart(s) /\ s[Len(s) - 1].role = "user"
              => Unasked(WithoutLastPair(s), s[Len(s) - 1].to)
<1>1. Len(s) \in Nat /\ DOMAIN s = 1 .. Len(s)
  BY LenProperties
<1>2. PICK w : w = WithoutLastPair(s)
  OBVIOUS
<1>3. w \in Seq(Messages) /\ Len(w) = Len(s) - 2 /\ \A i \in 1 .. Len(s) - 2 : w[i] = s[i]
  BY <1>2, LastPair
<1>4. DOMAIN w = 1 .. Len(s) - 2
  BY <1>3, LenProperties
<1>5. \A i \in DOMAIN w : i \in DOMAIN s /\ w[i] = s[i]
  BY <1>1, <1>3, <1>4
<1>6. ASSUME NEW n, AskedBy(s, n) PROVE AskedBy(w, n)
  BY <1>5, <1>6 DEF AskedBy
<1>7. AskedApart(s) => AskedApart(w)
  BY <1>5 DEF AskedApart
<1>8. FailuresPaired(s) => FailuresPaired(w)
  <2>1. SUFFICES ASSUME FailuresPaired(s), NEW i \in DOMAIN w, w[i].failed
                 PROVE  i > 1 /\ w[i] = Failure(w[i - 1].to)
    BY DEF FailuresPaired
  <2>2. i > 1 /\ s[i] = Failure(s[i - 1].to)
    BY <1>5, <2>1 DEF FailuresPaired
  <2>3. i - 1 \in DOMAIN w
    BY <1>1, <1>4, <2>1, <2>2
  <2>4. QED
    BY <1>5, <2>1, <2>2, <2>3
<1>9. ASSUME AskedApart(s), s[Len(s) - 1].role = "user"
      PROVE  Unasked(w, s[Len(s) - 1].to)
  <2>1. Len(s) - 1 \in DOMAIN s /\ Len(s) - 1 \notin DOMAIN w
    BY <1>1, <1>4
  <2>2. QED
    BY <1>5, <1>9, <2>1 DEF AskedApart, Unasked
<1>10. QED
  BY <1>2, <1>6, <1>7, <1>8, <1>9 DEF Sound

(* The model is told no question the transcript does not have.             *)
LEMMA ToModelAsks ==
  ASSUME NEW s \in Seq(Messages)
  PROVE  /\ \A n : AskedBy(s, n) => AskedBy(ToModel(s), n)
         /\ \A q : Unasked(s, q) => Unasked(ToModel(s), q)
<1>1. \A k \in DOMAIN ToModel(s) : \E i \in DOMAIN s : ToModel(s)[k] = Plain(s[i])
  BY ToModelType
<1>2. \A i \in DOMAIN s : s[i] \in Messages
  BY LenProperties
<1>3. \A i \in DOMAIN s : Plain(s[i]).role = s[i].role /\ Plain(s[i]).to = s[i].to
  BY <1>2, PlainType
<1>4. QED
  BY <1>1, <1>3 DEF AskedBy, Unasked

(* A turn that has not been yet has asked nothing.                         *)
LEMMA LaterUnasked ==
  ASSUME NEW s \in Seq(Messages), NEW n \in Nat, AskedBy(s, n), NEW q \in Nat, q > n
  PROVE  Unasked(s, q)
<1>1. \A i \in DOMAIN s : s[i].to \in Nat
  <2>1. \A i \in DOMAIN s : s[i] \in Messages
    BY LenProperties
  <2>2. QED
    BY <2>1, TranscriptAssumption DEF Messages, Numbers
<1>2. QED
  BY <1>1 DEF AskedBy, Unasked

(* A sequence ends as it ends.                                             *)
LEMMA SameEndRefl == ASSUME NEW s PROVE SameEnd(s, s)
  BY DEF SameEnd

(* Two sequences the same two messages are written to.                     *)
LEMMA SameEndPair ==
  ASSUME NEW s \in Seq(Messages), NEW r \in Seq(Messages),
         NEW u \in Messages, NEW a \in Messages,
         Len(r) >= 2, r[Len(r) - 1] = u, r[Len(r)] = a
  PROVE  SameEnd(Append(Append(s, u), a), r)
<1>1. PICK v : v = Append(s, u)
  OBVIOUS
<1>2. Len(s) \in Nat /\ v \in Seq(Messages) /\ Len(v) = Len(s) + 1 /\ v[Len(s) + 1] = u
  BY <1>1, AppendFacts
<1>3. PICK t : t = Append(v, a)
  OBVIOUS
<1>4. /\ t \in Seq(Messages) /\ Len(t) = Len(s) + 2 /\ t[Len(s) + 2] = a
      /\ \A i \in 1 .. Len(s) + 1 : t[i] = v[i]
  <2>1. (Len(s) + 1) + 1 = Len(s) + 2
    BY <1>2
  <2>2. QED
    BY <1>2, <1>3, <2>1, AppendFacts
<1>5. t[Len(s) + 1] = u
  BY <1>2, <1>4
<1>6. Len(r) \in Nat
  BY LenProperties
<1>7. ASSUME NEW k \in {0, 1} PROVE k < Len(r) /\ t[Len(t) - k] = r[Len(r) - k]
  <2>1. CASE k = 0
    <3>1. Len(t) - 0 = Len(s) + 2 /\ Len(r) - 0 = Len(r) /\ 0 < Len(r)
      BY <1>2, <1>4, <1>6
    <3>2. QED
      BY <1>4, <2>1, <3>1
  <2>2. CASE k = 1
    <3>1. Len(t) - 1 = Len(s) + 1 /\ 1 < Len(r)
      BY <1>2, <1>4, <1>6
    <3>2. QED
      BY <1>5, <2>2, <3>1
  <2>3. QED
    BY <2>1, <2>2
<1>8. QED
  BY <1>1, <1>3, <1>7 DEF SameEnd

(* s with m in its last bubble.                                            *)
WithLast(s, m) == [s EXCEPT ![Len(s)] = m]

(* Another answer in the last bubble.                                      *)
LEMMA ShowLast ==
  ASSUME NEW s \in Seq(Messages), NEW m \in Messages, Len(s) >= 1,
         m.role = s[Len(s)].role, s[Len(s)].role = "agent", ~m.failed
  PROVE  /\ WithLast(s, m) \in Seq(Messages)
         /\ Len(WithLast(s, m)) = Len(s) /\ WithLast(s, m)[Len(s)] = m
         /\ \A i \in 1 .. Len(s) - 1 : WithLast(s, m)[i] = s[i]
         /\ Len(s) >= 2 => WithoutLastPair(WithLast(s, m)) = WithoutLastPair(s)
         /\ \A n : AskedBy(s, n) => AskedBy(WithLast(s, m), n)
         /\ Sound(s) => Sound(WithLast(s, m))
<1>0. PICK t : t = WithLast(s, m)
  OBVIOUS
<1>1. Len(s) \in Nat /\ DOMAIN s = 1 .. Len(s) /\ Len(s) \in 1 .. Len(s)
  BY LenProperties
<1>2. /\ t \in Seq(Messages) /\ Len(t) = Len(s)
      /\ \A i \in 1 .. Len(s) : t[i] = IF i = Len(s) THEN m ELSE s[i]
  BY <1>0, <1>1, ExceptSeq DEF WithLast
<1>3. DOMAIN t = 1 .. Len(s) /\ t[Len(s)] = m /\ \A i \in 1 .. Len(s) - 1 : t[i] = s[i]
  <2>1. \A i \in 1 .. Len(s) - 1 : i \in 1 .. Len(s) /\ i # Len(s)
    <3>1. \A n \in Nat : \A i \in 1 .. n - 1 : i \in 1 .. n /\ i # n
      OBVIOUS
    <3>2. QED
      BY <1>1, <3>1
  <2>2. QED
    BY <1>1, <1>2, <2>1, LenProperties
<1>4. \A i \in DOMAIN s : t[i].role = s[i].role /\ (s[i].role = "user" => t[i] = s[i])
  BY <1>1, <1>2
<1>5. ASSUME Len(s) >= 2 PROVE WithoutLastPair(t) = WithoutLastPair(s)
  <2>1. /\ WithoutLastPair(t) \in Seq(Messages) /\ Len(WithoutLastPair(t)) = Len(s) - 2
        /\ \A i \in 1 .. Len(s) - 2 : WithoutLastPair(t)[i] = t[i]
    BY <1>2, <1>5, LastPair
  <2>2. /\ WithoutLastPair(s) \in Seq(Messages) /\ Len(WithoutLastPair(s)) = Len(s) - 2
        /\ \A i \in 1 .. Len(s) - 2 : WithoutLastPair(s)[i] = s[i]
    BY <1>5, LastPair
  <2>3. \A i \in 1 .. Len(s) - 2 : i \in 1 .. Len(s) - 1
    BY <1>1
  <2>4. \A i \in 1 .. Len(s) - 2 : WithoutLastPair(t)[i] = WithoutLastPair(s)[i]
    BY <1>3, <2>1, <2>2, <2>3
  <2>5. QED
    BY <2>1, <2>2, <2>4, SeqEqual
<1>6. \A n : AskedBy(s, n) => AskedBy(t, n)
  BY <1>1, <1>3, <1>4 DEF AskedBy
<1>7. AskedApart(s) => AskedApart(t)
  BY <1>1, <1>3, <1>4 DEF AskedApart
<1>8. FailuresPaired(s) => FailuresPaired(t)
  <2>1. SUFFICES ASSUME FailuresPaired(s), NEW i \in DOMAIN t, t[i].failed
                 PROVE  i > 1 /\ t[i] = Failure(t[i - 1].to)
    BY DEF FailuresPaired
  <2>2. i \in 1 .. Len(s) - 1
    <3>1. i \in 1 .. Len(s) /\ i # Len(s)
      BY <1>3, <2>1
    <3>2. \A n \in Nat : \A k \in 1 .. n : k # n => k \in 1 .. n - 1
      OBVIOUS
    <3>3. QED
      BY <1>1, <3>1, <3>2
  <2>3. t[i] = s[i] /\ i \in DOMAIN s
    BY <1>1, <1>3, <2>1, <2>2
  <2>4. i > 1 /\ s[i] = Failure(s[i - 1].to)
    BY <2>1, <2>3 DEF FailuresPaired
  <2>5. i - 1 \in 1 .. Len(s) - 1
    BY <1>1, <2>2, <2>4
  <2>6. QED
    BY <1>3, <2>3, <2>4, <2>5
<1>9. QED
  BY <1>0, <1>2, <1>3, <1>5, <1>6, <1>7, <1>8 DEF Sound

(* The newest answer of rows that are pairs is their last message.         *)
LEMMA NewestIsLast ==
  ASSUME NEW s \in Seq(Messages), NEW a, NEW all, Len(s) >= 1, s[Len(s)].role = "agent"
  PROVE  StoreVariants(s, a, all) = WithLast(s, Showing(s[Len(s)], a, all))
<1> DEFINE agents == {i \in DOMAIN s : s[i].role = "agent"}
           newest == CHOOSE i \in agents : \A j \in agents : j <= i
<1>1. Len(s) \in Nat /\ DOMAIN s = 1 .. Len(s)
  BY LenProperties
<1>2. Len(s) \in agents /\ \A j \in agents : j \in Nat /\ j <= Len(s)
  BY <1>1
<1>3. newest = Len(s)
  <2> HIDE DEF agents
  <2>1. newest \in agents /\ \A j \in agents : j <= newest
    BY <1>2
  <2>2. newest <= Len(s) /\ Len(s) <= newest /\ newest \in Nat
    BY <1>2, <2>1
  <2> HIDE DEF newest
  <2>3. \A i, j \in Nat : i <= j /\ j <= i => i = j
    OBVIOUS
  <2>4. QED
    BY <1>1, <2>2, <2>3
<1>4. StoreVariants(s, a, all) =
        IF agents = {} THEN s ELSE [s EXCEPT ![newest] = Showing(s[newest], a, all)]
  BY DEF StoreVariants
<1> HIDE DEF agents, newest
<1>5. QED
  BY <1>2, <1>3, <1>4 DEF WithLast

(* What is shown in a bubble.                                              *)
LEMMA ShowingFacts ==
  ASSUME NEW m \in Messages, NEW a \in Answers, NEW all \in SUBSET Answers
  PROVE  /\ Showing(m, a, all) \in Messages
         /\ Showing(m, a, all).role = m.role /\ Showing(m, a, all).failed = m.failed
         /\ Showing(m, a, all).variants = all
         /\ Showing(m, a, all).to = a.to /\ Showing(m, a, all).by = a.by
<1>1. /\ m.role \in {"user", "agent"} /\ m.to \in Numbers /\ m.by \in 0 .. MaxTurns
      /\ m.failed \in BOOLEAN /\ m.variants \subseteq Answers
      /\ m = [role |-> m.role, to |-> m.to, by |-> m.by, failed |-> m.failed, variants |-> m.variants]
  BY DEF Messages
<1>2. a.to \in Numbers /\ a.by \in 0 .. MaxTurns
  BY DEF Answers
<1>3. /\ Showing(m, a, all).role = m.role /\ Showing(m, a, all).failed = m.failed
      /\ Showing(m, a, all).variants = all
      /\ Showing(m, a, all).to = a.to /\ Showing(m, a, all).by = a.by
  BY <1>1, <1>2 DEF Showing, Messages
<1>4. QED
  BY <1>3, ShowingType

-----------------------------------------------------------------------------
(* The invariant of the three copies.                                      *)

(* The stages of a turn: it is marked, its question is written and asked,  *)
(* it has its ending, or it asks again.                                    *)
Begun(c) == Working(c) /\ turn[c].kind = "send" /\ turn[c].stage = "begun"
Ended(c) == Working(c) /\ turn[c].kind = "send" /\ turn[c].stage \in {"answered", "failed"}
Answered(c) == Ended(c) /\ turn[c].stage = "answered"

Ending(c) ==
  IF turn[c].stage = "failed" THEN Failure(turn[c].to) ELSE Answer(turn[c].to, turn[c].by)

Staged(c) ==
  Working(c) => /\ Begun(c) \/ Asking(c) \/ Ended(c) \/ AskedAgain(c)
                /\ turn[c].to <= clock

(* A conversation is held for the chat on screen and those that work.      *)
Holding(c) ==
  /\ c \in held => c = screen \/ Working(c)
  /\ c \notin held => transcript[c] = <<>> /\ memory[c] = <<>>

(* No question is of a turn that has not been.                             *)
Counted(c) ==
  AskedBy(rows[c], clock) /\ AskedBy(transcript[c], clock) /\ AskedBy(memory[c], clock)

(* What a turn has written at each of its stages.                          *)
Stored(c) ==
  /\ Sound(rows[c])
  /\ Begun(c) => Unasked(rows[c], turn[c].to)
  /\ Asking(c) => Len(rows[c]) >= 1 /\ rows[c][Len(rows[c])] = Question(turn[c].to)
  /\ Ended(c) => /\ Len(rows[c]) >= 2
                 /\ rows[c][Len(rows[c]) - 1] = Question(turn[c].to)
                 /\ rows[c][Len(rows[c])] = Ending(c)
  /\ AskedAgain(c) => Len(rows[c]) >= 2 /\ ~rows[c][Len(rows[c])].failed

(* The transcript that goes with the rows: it ends as they do wherever a   *)
(* call of the window reads its end, and where no call has reached into a  *)
(* working chat it is the rows, but for what a turn writes when it ends.   *)
Followed(c) ==
  /\ c \in held /\ (AskedAgain(c) \/ (~Working(c) /\ resend = None))
       => SameEnd(transcript[c], rows[c])
  /\ c \in held \ reached =>
       /\ Asking(c) => rows[c] = Append(transcript[c], Question(turn[c].to))
       /\ Ended(c) => rows[c] = Append(Append(transcript[c], Question(turn[c].to)), Ending(c))
       /\ ~Asking(c) /\ ~Ended(c) => rows[c] = transcript[c]
       /\ AskedAgain(c) => rows[c][Len(rows[c]) - 1].to = turn[c].to

(* The memory that goes with the transcript: the answers, and the question *)
(* that is being asked.                                                    *)
AskedLast(c) ==
  /\ Len(memory[c]) >= 1 /\ memory[c][Len(memory[c])] = Question(turn[c].to)
  /\ \A i \in DOMAIN memory[c] :
       memory[c][i].role = "user" /\ memory[c][i].to = turn[c].to => i = Len(memory[c])

Remembered(c) ==
  c \in held \ reached =>
    /\ Answered(c) => AnswersOf(memory[c]) = Append(AnswersOf(ToModel(transcript[c])), Ending(c))
    /\ AskedAgain(c) => AnswersOf(memory[c]) = AnswersOf(ToModel(WithoutLastPair(transcript[c])))
    /\ ~Answered(c) /\ ~AskedAgain(c) => AnswersOf(memory[c]) = AnswersOf(ToModel(transcript[c]))
    /\ Begun(c) => Unasked(memory[c], turn[c].to)
    /\ Asking(c) \/ AskedAgain(c) => AskedLast(c)

(* Between the two halves of a retry nothing works, and the question that  *)
(* is about to be asked again is nowhere.                                  *)
Resent ==
  /\ resend # None => up /\ ~TurnBusy
  /\ resend \in Numbers =>
       /\ resend <= clock /\ Unasked(rows[screen], resend)
       /\ screen \notin reached => Unasked(memory[screen], resend)

Agreed(c) ==
  Staged(c) /\ Holding(c) /\ Counted(c) /\ Stored(c) /\ Followed(c) /\ Remembered(c)

Copies ==
  /\ memory \in [Chats -> Seq(Messages)]
  /\ Resent
  /\ \A c \in Chats : Agreed(c)

CopiesInv == IInv /\ Copies

(* What a chat that is not the matter of a step goes on with.              *)
Untouched(d) ==
  /\ rows'[d] = rows[d] /\ turn'[d] = turn[d]
  /\ \/ /\ d \in held /\ d \in held' /\ (d = screen => d = screen' \/ Working(d))
        /\ transcript'[d] = transcript[d]
        /\ Working(d) \/ (resend' = None => resend = None)
        /\ \/ memory'[d] = memory[d] /\ (d \in reached => d \in reached')
           \/ d \in reached' /\ memory'[d] \in Seq(Messages) /\ AskedBy(memory'[d], clock)
     \/ /\ d \notin held' /\ ~Working(d)
        /\ transcript'[d] = <<>> /\ memory'[d] = <<>>

(* What is said of it stays true.                                          *)
LEMMA UntouchedAgreed ==
  ASSUME CopiesInv, NEW d \in Chats, Untouched(d), clock' \in Nat, clock' >= clock
  PROVE  Agreed(d)'
<1>1. /\ rows[d] \in Seq(Messages) /\ transcript[d] \in Seq(Messages) /\ memory[d] \in Seq(Messages)
      /\ clock \in Nat
  BY TranscriptAssumption DEF CopiesInv, Copies, IInv, StoreTypes
<1>2. /\ Staged(d) /\ Holding(d) /\ Counted(d) /\ Stored(d) /\ Followed(d) /\ Remembered(d)
  BY DEF CopiesInv, Copies, Agreed
<1>3. rows'[d] = rows[d] /\ turn'[d] = turn[d]
  BY DEF Untouched
<1>4. /\ (Working(d)' <=> Working(d)) /\ (Begun(d)' <=> Begun(d)) /\ (Ended(d)' <=> Ended(d))
      /\ (Answered(d)' <=> Answered(d)) /\ (Asking(d)' <=> Asking(d))
      /\ (AskedAgain(d)' <=> AskedAgain(d)) /\ Ending(d)' = Ending(d)
  BY <1>3 DEF Working, Begun, Ended, Answered, Asking, AskedAgain, Ending
<1>5. Begun(d) \/ Ended(d) \/ Answered(d) \/ Asking(d) \/ AskedAgain(d) => Working(d)
  BY DEF Begun, Ended, Answered, Asking, AskedAgain
<1>6. Staged(d)'
  <2>1. Working(d) => turn[d].to \in Nat
    BY TranscriptAssumption DEF CopiesInv, IInv, StoreTypes, Working, Turns, Numbers
  <2>2. Working(d) => turn'[d].to <= clock'
    BY <1>1, <1>2, <1>3, <2>1 DEF Staged
  <2>3. QED
    BY <1>2, <1>4, <2>2 DEF Staged
<1>7. Stored(d)'
  BY <1>2, <1>3, <1>4 DEF Stored
<1>8. /\ DOMAIN <<>> = {} /\ AskedBy(<<>>, clock')
      /\ \A s \in Seq(Messages) : AskedBy(s, clock) => AskedBy(s, clock')
  <2>1. \A s \in Seq(Messages) : \A i \in DOMAIN s : s[i].to \in Nat
    <3>1. \A s \in Seq(Messages) : \A i \in DOMAIN s : s[i] \in Messages
      BY LenProperties
    <3>2. QED
      BY <3>1, TranscriptAssumption DEF Messages, Numbers
  <2>2. \A s \in Seq(Messages) : AskedBy(s, clock) => AskedBy(s, clock')
    BY <1>1, <2>1 DEF AskedBy
  <2>3. DOMAIN <<>> = {}
    OBVIOUS
  <2>4. QED
    BY <2>2, <2>3 DEF AskedBy
<1>9. CASE /\ d \in held /\ d \in held' /\ (d = screen => d = screen' \/ Working(d))
           /\ transcript'[d] = transcript[d]
           /\ Working(d) \/ (resend' = None => resend = None)
           /\ memory'[d] = memory[d] /\ (d \in reached => d \in reached')
  <2>1. Holding(d)'
    BY <1>2, <1>4, <1>9 DEF Holding
  <2>2. Counted(d)'
    BY <1>1, <1>2, <1>3, <1>8, <1>9 DEF Counted
  <2>3. Followed(d)'
    BY <1>2, <1>3, <1>4, <1>9 DEF Followed
  <2>4. AskedLast(d)' <=> AskedLast(d)
    BY <1>3, <1>9 DEF AskedLast
  <2>5. Remembered(d)'
    BY <1>2, <1>3, <1>4, <1>9, <2>4 DEF Remembered
  <2>6. QED
    BY <1>6, <1>7, <2>1, <2>2, <2>3, <2>5 DEF Agreed
<1>10. CASE /\ d \in held /\ d \in held' /\ (d = screen => d = screen' \/ Working(d))
            /\ transcript'[d] = transcript[d]
            /\ Working(d) \/ (resend' = None => resend = None)
            /\ d \in reached' /\ AskedBy(memory'[d], clock) /\ memory'[d] \in Seq(Messages)
  <2>1. Holding(d)'
    BY <1>2, <1>4, <1>10 DEF Holding
  <2>2. Counted(d)'
    BY <1>1, <1>2, <1>3, <1>8, <1>10 DEF Counted
  <2>3. Followed(d)'
    BY <1>2, <1>3, <1>4, <1>10 DEF Followed
  <2>5. Remembered(d)'
    BY <1>10 DEF Remembered
  <2>6. QED
    BY <1>6, <1>7, <2>1, <2>2, <2>3, <2>5 DEF Agreed
<1>11. CASE /\ d \notin held' /\ ~Working(d)
            /\ transcript'[d] = <<>> /\ memory'[d] = <<>>
  <2>1. Holding(d)'
    BY <1>11 DEF Holding
  <2>2. Counted(d)'
    BY <1>1, <1>2, <1>3, <1>8, <1>11 DEF Counted
  <2>3. Followed(d)' /\ Remembered(d)'
    BY <1>11 DEF Followed, Remembered
  <2>4. QED
    BY <1>6, <1>7, <2>1, <2>2, <2>3 DEF Agreed
<1>12. QED
  BY <1>9, <1>10, <1>11 DEF Untouched

(* The types of what is said of a chat.                                    *)
LEMMA CopiesTypes ==
  ASSUME CopiesInv, NEW c \in Chats
  PROVE  /\ rows[c] \in Seq(Messages) /\ transcript[c] \in Seq(Messages)
         /\ memory[c] \in Seq(Messages) /\ clock \in Nat /\ clock \in 0 .. MaxTurns
         /\ rows \in [Chats -> Seq(Messages)] /\ transcript \in [Chats -> Seq(Messages)]
         /\ memory \in [Chats -> Seq(Messages)] /\ turn \in [Chats -> Turns \cup {None}]
         /\ screen \in Chats /\ held \subseteq Chats /\ reached \subseteq held
         /\ Numbers \subseteq Nat /\ None \notin Numbers
         /\ (Working(c) => /\ turn[c] \in Turns /\ turn[c].to \in Numbers
                           /\ turn[c].by \in Numbers /\ c \in held)
         /\ Staged(c) /\ Holding(c) /\ Counted(c) /\ Stored(c) /\ Followed(c) /\ Remembered(c)
         /\ <<>> \in Seq(Messages)
<1>1. /\ rows[c] \in Seq(Messages) /\ transcript[c] \in Seq(Messages)
      /\ clock \in Nat /\ clock \in 0 .. MaxTurns
      /\ rows \in [Chats -> Seq(Messages)] /\ transcript \in [Chats -> Seq(Messages)]
      /\ turn \in [Chats -> Turns \cup {None}]
      /\ screen \in Chats /\ held \subseteq Chats /\ reached \subseteq held
      /\ Numbers \subseteq Nat /\ None \notin Numbers
  BY TranscriptAssumption DEF CopiesInv, IInv, StoreTypes, Numbers
<1>2. memory[c] \in Seq(Messages) /\ memory \in [Chats -> Seq(Messages)]
  BY DEF CopiesInv, Copies
<1>3. Working(c) => /\ turn[c] \in Turns /\ turn[c].to \in Numbers
                    /\ turn[c].by \in Numbers /\ c \in held
  BY <1>1 DEF CopiesInv, IInv, Flags, Working, Turns
<1>4. /\ Staged(c) /\ Holding(c) /\ Counted(c) /\ Stored(c) /\ Followed(c) /\ Remembered(c)
  BY DEF CopiesInv, Copies, Agreed
<1>5. <<>> \in Seq(Messages)
  OBVIOUS
<1>6. QED
  BY <1>1, <1>2, <1>3, <1>4, <1>5

(* Questions that are not later than one turn are not later than the next. *)
LEMMA AskedByLater ==
  ASSUME NEW s \in Seq(Messages), NEW n \in Nat, NEW k \in Nat, n <= k, AskedBy(s, n)
  PROVE  AskedBy(s, k)
<1>1. \A i \in DOMAIN s : s[i].to \in Nat
  <2>1. \A i \in DOMAIN s : s[i] \in Messages
    BY LenProperties
  <2>2. QED
    BY <2>1, TranscriptAssumption DEF Messages, Numbers
<1>2. QED
  BY <1>1 DEF AskedBy

(* A chat that is let go of, or was not held: only its rows are asked.     *)
LEMMA LetGoAgreed ==
  ASSUME NEW d \in Chats, ~Working(d)', d \notin held', transcript'[d] = <<>>, memory'[d] = <<>>,
         Sound(rows'[d]), AskedBy(rows'[d], clock')
  PROVE  Agreed(d)'
<1>1. ~(Begun(d)') /\ ~(Ended(d)') /\ ~(Asking(d)') /\ ~(AskedAgain(d)')
  BY DEF Begun, Ended, Asking, AskedAgain
<1>2. AskedBy(<<>>, clock')
  <2>1. DOMAIN <<>> = {}
    OBVIOUS
  <2>2. QED
    BY <2>1 DEF AskedBy
<1>3. Staged(d)' /\ Holding(d)'
  BY DEF Staged, Holding
<1>4. Counted(d)'
  BY <1>2 DEF Counted
<1>5. Stored(d)'
  BY <1>1 DEF Stored
<1>6. Followed(d)' /\ Remembered(d)'
  BY DEF Followed, Remembered
<1>7. QED
  BY <1>3, <1>4, <1>5, <1>6 DEF Agreed

(* A chat that is on screen and in which nothing is under way.             *)
LEMMA IdleAgreed ==
  ASSUME NEW c \in Chats, ~Working(c)', c \in held', screen' = c,
         Sound(rows'[c]), AskedBy(rows'[c], clock'),
         AskedBy(transcript'[c], clock'), AskedBy(memory'[c], clock'),
         resend' = None => SameEnd(transcript'[c], rows'[c]),
         c \notin reached' => /\ rows'[c] = transcript'[c]
                             /\ AnswersOf(memory'[c]) = AnswersOf(ToModel(transcript'[c]))
  PROVE  Agreed(c)'
<1>1. ~(Begun(c)') /\ ~(Ended(c)') /\ ~(Asking(c)') /\ ~(AskedAgain(c)') /\ ~(Answered(c)')
  BY DEF Begun, Ended, Asking, AskedAgain, Answered
<1>2. Staged(c)' /\ Holding(c)' /\ Counted(c)'
  BY DEF Staged, Holding, Counted
<1>3. Stored(c)'
  BY <1>1 DEF Stored
<1>4. Followed(c)'
  BY <1>1 DEF Followed
<1>5. Remembered(c)'
  BY <1>1 DEF Remembered
<1>6. QED
  BY <1>2, <1>3, <1>4, <1>5 DEF Agreed

(* A turn that begins: its question is new to the rows and to the memory.  *)
LEMMA BeginTurnCopies ==
  ASSUME CopiesInv, up, NEW q \in Numbers, BeginTurn(q), q <= clock + 1, Unasked(rows[screen], q),
         screen \notin reached => Unasked(memory[screen], q), resend' = None,
         UNCHANGED <<up, rows, screen, held, transcript, memory, opened, crashes, reached>>
  PROVE  Copies'
<1>1. /\ screen \in Chats /\ screen \in held /\ clock \in Nat /\ clock \in 0 .. MaxTurns
      /\ turn \in [Chats -> Turns \cup {None}]
  BY CopiesTypes, TranscriptAssumption DEF CopiesInv, IInv, StoreTypes, Flags
<1>2. /\ NewTurn("send", q, "begun") \in Turns /\ NewTurn("send", q, "begun") # None
      /\ NewTurn("send", q, "begun").stage = "begun" /\ NewTurn("send", q, "begun").kind = "send"
      /\ NewTurn("send", q, "begun").to = q
  BY <1>1, NewTurnType DEF BeginTurn, NewTurn
<1>3. /\ turn' = [turn EXCEPT ![screen] = NewTurn("send", q, "begun")] /\ ~Working(screen)
      /\ clock' = clock + 1 /\ clock' \in Nat /\ clock' >= clock
  BY <1>1 DEF BeginTurn
<1>4. ASSUME NEW d \in Chats, d # screen PROVE Agreed(d)'
  <2>1. Holding(d) /\ (Working(d) => d \in held)
    BY CopiesTypes
  <2>2. Untouched(d)
    BY <1>1, <1>3, <1>4, <2>1 DEF Untouched, Holding
  <2>3. QED
    BY <1>3, <2>2, UntouchedAgreed
<1>5. Agreed(screen)'
  <2>1. /\ Counted(screen) /\ Stored(screen) /\ Followed(screen) /\ Remembered(screen)
        /\ rows[screen] \in Seq(Messages) /\ transcript[screen] \in Seq(Messages)
        /\ memory[screen] \in Seq(Messages)
    BY <1>1, CopiesTypes
  <2>2. turn'[screen] = NewTurn("send", q, "begun")
    BY <1>1, <1>3
  <2>3. Working(screen)' /\ Begun(screen)' /\ turn'[screen].to = q
    BY <1>2, <2>2 DEF Working, Begun
  <2>4. ~(Ended(screen)') /\ ~(Asking(screen)') /\ ~(AskedAgain(screen)') /\ ~(Answered(screen)')
    BY <1>2, <2>2 DEF Ended, Asking, AskedAgain, Answered
  <2>5. ~Ended(screen) /\ ~Asking(screen) /\ ~AskedAgain(screen) /\ ~Answered(screen)
    BY <1>3 DEF Ended, Asking, AskedAgain, Answered
  <2>6. Staged(screen)' /\ Holding(screen)'
    BY <1>1, <1>3, <2>3 DEF Staged, Holding
  <2>7. Counted(screen)'
    BY <1>1, <1>3, <2>1, AskedByLater DEF Counted
  <2>8. Stored(screen)'
    BY <2>1, <2>3, <2>4 DEF Stored
  <2>9. Followed(screen)'
    BY <2>1, <2>3, <2>4, <2>5 DEF Followed
  <2>10. Remembered(screen)'
    BY <2>1, <2>3, <2>4, <2>5 DEF Remembered
  <2>11. QED
    BY <2>6, <2>7, <2>8, <2>9, <2>10 DEF Agreed
<1>6. Resent'
  BY TranscriptAssumption DEF Resent
<1>7. memory' \in [Chats -> Seq(Messages)]
  BY DEF CopiesInv, Copies
<1>8. QED
  BY <1>4, <1>5, <1>6, <1>7 DEF Copies

-----------------------------------------------------------------------------
(* The steps of a turn keep it.                                            *)

(* The steps of a turn that works leave the other chats alone, and no call *)
(* of the window is between two of its steps then.                         *)
LEMMA OthersAgreed ==
  ASSUME CopiesInv, NEW c \in Chats, Working(c), NEW d \in Chats, d # c,
         rows'[d] = rows[d], turn'[d] = turn[d], transcript'[d] = transcript[d],
         memory'[d] = memory[d],
         UNCHANGED <<screen, held, resend, clock, reached>>
  PROVE  Agreed(d)'
<1>1. Holding(d) /\ (Working(d) => d \in held) /\ clock \in Nat
  BY CopiesTypes
<1>2. resend = None
  BY DEF CopiesInv, Copies, Resent, TurnBusy
<1>3. Untouched(d)
  BY <1>1, <1>2 DEF Untouched, Holding
<1>4. QED
  BY <1>1, <1>3, UntouchedAgreed

(* Nothing is about to be sent again.                                      *)
LEMMA ResentCalm ==
  ASSUME resend' = None
  PROVE  Resent'
  BY TranscriptAssumption DEF Resent

(* openTurn writes the question and asks it.                               *)
LEMMA OpenTurnCopies ==
  ASSUME CopiesInv, NEW c \in Chats, OpenTurn(c)
  PROVE  Copies'
<1> DEFINE q == turn[c].to
<1>1. /\ Working(c) /\ turn[c].kind = "send" /\ turn[c].stage = "begun"
      /\ turn' = [turn EXCEPT ![c].stage = "running"]
      /\ rows' = [rows EXCEPT ![c] = Append(rows[c], Question(q))]
      /\ memory' = [memory EXCEPT ![c] = Append(memory[c], Question(q))]
      /\ UNCHANGED <<up, screen, held, transcript, resend, clock, crashes, reached>>
  BY CopiesTypes DEF OpenTurn, Advance
<1>2. /\ rows[c] \in Seq(Messages) /\ transcript[c] \in Seq(Messages)
      /\ memory[c] \in Seq(Messages) /\ clock \in Nat
      /\ rows \in [Chats -> Seq(Messages)] /\ memory \in [Chats -> Seq(Messages)]
      /\ turn \in [Chats -> Turns \cup {None}]
      /\ turn[c] \in Turns /\ q \in Numbers /\ turn[c].by \in Numbers /\ c \in held
      /\ Staged(c) /\ Holding(c) /\ Counted(c) /\ Stored(c) /\ Followed(c) /\ Remembered(c)
      /\ Numbers \subseteq Nat
  BY <1>1, CopiesTypes
<1>3. Begun(c) /\ q <= clock /\ q \in Nat
  BY <1>1, <1>2 DEF Begun, Staged
<1>4. ~Asking(c) /\ ~Ended(c) /\ ~AskedAgain(c) /\ ~Answered(c)
  BY <1>1 DEF Asking, Ended, AskedAgain, Answered
<1>5. turn'[c] = [turn[c] EXCEPT !.stage = "running"] /\ turn'[c] \in Turns
  BY <1>1, <1>2 DEF Turns
<1>6. /\ turn'[c].kind = "send" /\ turn'[c].stage = "running" /\ turn'[c].to = q
      /\ turn'[c] # None
  BY <1>1, <1>2, <1>5, TranscriptAssumption DEF Turns
<1>7. Working(c)' /\ Asking(c)'
  BY <1>6 DEF Working, Asking
<1>8. ~(Begun(c)') /\ ~(Ended(c)') /\ ~(AskedAgain(c)') /\ ~(Answered(c)')
  BY <1>6 DEF Begun, Ended, AskedAgain, Answered
<1>9. /\ Question(q) \in Messages /\ Question(q).role = "user" /\ Question(q).to = q
      /\ ~Question(q).failed
  BY <1>2, MessageTypes DEF Question
<1> HIDE DEF q
<1>10. rows'[c] = Append(rows[c], Question(q)) /\ memory'[c] = Append(memory[c], Question(q))
  BY <1>1, <1>2
<1>11. Unasked(rows[c], q) /\ AskedBy(rows[c], clock) /\ Sound(rows[c])
  BY <1>2, <1>3 DEF Stored, Counted, q
<1>12. Sound(rows'[c]) /\ AskedBy(rows'[c], clock)
  BY <1>2, <1>3, <1>9, <1>10, <1>11, AskedAppend, FailuresAppend DEF Sound
<1>13. AskedBy(memory'[c], clock)
  BY <1>2, <1>3, <1>9, <1>10, AskedAppend DEF Counted
<1>14. /\ Len(rows'[c]) >= 1 /\ rows'[c][Len(rows'[c])] = Question(q)
       /\ Len(memory'[c]) >= 1 /\ memory'[c][Len(memory'[c])] = Question(q)
  BY <1>2, <1>9, <1>10, AppendFacts
<1>15. Staged(c)' /\ Holding(c)'
  BY <1>1, <1>2, <1>3, <1>6, <1>7 DEF Staged, Holding
<1>16. Counted(c)'
  BY <1>1, <1>2, <1>12, <1>13 DEF Counted
<1>17. Stored(c)'
  BY <1>6, <1>8, <1>12, <1>14 DEF Stored
<1>18. Followed(c)'
  <2>1. c \notin reached => rows[c] = transcript[c]
    BY <1>2, <1>4 DEF Followed
  <2>2. QED
    BY <1>1, <1>6, <1>7, <1>8, <1>10, <2>1 DEF Followed
<1>19. Remembered(c)'
  <2>1. SUFFICES ASSUME c \notin reached PROVE Remembered(c)'
    BY <1>1 DEF Remembered
  <2>2. /\ AnswersOf(memory[c]) = AnswersOf(ToModel(transcript[c])) /\ Unasked(memory[c], q)
    BY <1>2, <1>3, <1>4, <2>1 DEF Remembered, q
  <2>3. AnswersOf(memory'[c]) = AnswersOf(memory[c])
    BY <1>2, <1>9, <1>10, AnswersAppend
  <2>4. AskedLast(c)'
    <3>1. ASSUME NEW i \in DOMAIN memory'[c], memory'[c][i].role = "user", memory'[c][i].to = q
          PROVE  i = Len(memory'[c])
      <4>1. /\ DOMAIN memory'[c] = 1 .. Len(memory[c]) + 1 /\ Len(memory'[c]) = Len(memory[c]) + 1
            /\ DOMAIN memory[c] = 1 .. Len(memory[c]) /\ Len(memory[c]) \in Nat
            /\ \A k \in 1 .. Len(memory[c]) : memory'[c][k] = memory[c][k]
        BY <1>2, <1>9, <1>10, AppendFacts
      <4>2. CASE i \in 1 .. Len(memory[c])
        BY <2>2, <3>1, <4>1, <4>2 DEF Unasked
      <4>3. CASE i \notin 1 .. Len(memory[c])
        BY <3>1, <4>1, <4>3
      <4>4. QED
        BY <4>2, <4>3
    <3>2. QED
      BY <1>6, <1>14, <3>1 DEF AskedLast
  <2>5. QED
    BY <1>1, <1>8, <2>2, <2>3, <2>4 DEF Remembered
<1>20. Agreed(c)'
  BY <1>15, <1>16, <1>17, <1>18, <1>19 DEF Agreed
<1>21. ASSUME NEW d \in Chats, d # c PROVE Agreed(d)'
  <2>1. rows'[d] = rows[d] /\ memory'[d] = memory[d] /\ turn'[d] = turn[d]
    BY <1>1, <1>2, <1>21
  <2>2. QED
    BY <1>1, <1>21, <2>1, OthersAgreed
<1>22. Resent'
  <2>1. resend' = None
    BY <1>1 DEF CopiesInv, Copies, Resent, TurnBusy
  <2>2. QED
    BY <2>1, ResentCalm
<1>23. memory' \in [Chats -> Seq(Messages)]
  <2>1. Append(memory[c], Question(q)) \in Seq(Messages)
    BY <1>2, <1>9, AppendFacts
  <2>2. QED
    BY <1>1, <1>2, <2>1
<1>24. QED
  BY <1>20, <1>21, <1>22, <1>23 DEF Copies

(* appendTurn and appendFailedTurn write its ending under the question.    *)
LEMMA EndingCopies ==
  ASSUME CopiesInv, NEW c \in Chats, NEW stage \in {"answered", "failed"}, NEW ending \in Messages,
         Advance(c, "running", stage),
         ending = IF stage = "failed" THEN Failure(turn[c].to) ELSE Answer(turn[c].to, turn[c].by),
         rows' = [rows EXCEPT ![c] = Append(rows[c], ending)],
         memory' = IF stage = "failed" THEN memory ELSE [memory EXCEPT ![c] = Append(memory[c], ending)],
         UNCHANGED <<up, screen, held, transcript, resend, clock, crashes, reached>>
  PROVE  Copies'
<1> DEFINE q == turn[c].to
<1>1. /\ Working(c) /\ turn[c].kind = "send" /\ turn[c].stage = "running"
      /\ turn' = [turn EXCEPT ![c].stage = stage]
  BY DEF Advance
<1>2. /\ rows[c] \in Seq(Messages) /\ transcript[c] \in Seq(Messages)
      /\ memory[c] \in Seq(Messages) /\ clock \in Nat
      /\ rows \in [Chats -> Seq(Messages)] /\ memory \in [Chats -> Seq(Messages)]
      /\ turn \in [Chats -> Turns \cup {None}]
      /\ turn[c] \in Turns /\ q \in Numbers /\ turn[c].by \in Numbers /\ c \in held
      /\ Staged(c) /\ Holding(c) /\ Counted(c) /\ Stored(c) /\ Followed(c) /\ Remembered(c)
      /\ Numbers \subseteq Nat
  BY <1>1, CopiesTypes
<1>3. Asking(c) /\ q <= clock
  BY <1>1, <1>2 DEF Asking, Staged
<1>4. ~Begun(c) /\ ~Ended(c) /\ ~AskedAgain(c) /\ ~Answered(c)
  BY <1>1 DEF Begun, Ended, AskedAgain, Answered
<1>5. turn'[c] = [turn[c] EXCEPT !.stage = stage] /\ turn'[c] \in Turns
  BY <1>1, <1>2 DEF Turns
<1>6. /\ turn'[c].kind = "send" /\ turn'[c].stage = stage /\ turn'[c].to = q
      /\ turn'[c].by = turn[c].by /\ turn'[c] # None
  BY <1>1, <1>2, <1>5, TranscriptAssumption DEF Turns
<1>7. /\ Working(c)' /\ Ended(c)' /\ Ending(c)' = ending
      /\ (Answered(c)' <=> stage = "answered")
  BY <1>6 DEF Working, Ended, Ending, Answered, q
<1>8. ~(Begun(c)') /\ ~(Asking(c)') /\ ~(AskedAgain(c)')
  BY <1>6 DEF Begun, Asking, AskedAgain
<1>9. /\ ending.role = "agent" /\ (ending.failed => ending = Failure(q))
      /\ Question(q) \in Messages /\ Question(q).to = q
  BY <1>2, MessageTypes DEF Question, Answer, Failure
<1> HIDE DEF q
<1>10. rows'[c] = Append(rows[c], ending)
  BY <1>2
<1>11. /\ AskedBy(rows[c], clock) /\ Sound(rows[c])
       /\ Len(rows[c]) >= 1 /\ rows[c][Len(rows[c])] = Question(q)
  BY <1>2, <1>3 DEF Stored, Counted, q
<1>12. Sound(rows'[c]) /\ AskedBy(rows'[c], clock)
  BY <1>2, <1>9, <1>10, <1>11, AskedAppend, FailuresAppend DEF Sound
<1>13. memory'[c] = IF stage = "failed" THEN memory[c] ELSE Append(memory[c], ending)
  BY <1>2
<1>14. AskedBy(memory'[c], clock)
  BY <1>2, <1>9, <1>13, AskedAppend DEF Counted
<1>15. /\ Len(rows'[c]) >= 2 /\ rows'[c][Len(rows'[c])] = ending
       /\ rows'[c][Len(rows'[c]) - 1] = Question(q)
  <2>1. /\ Len(rows'[c]) = Len(rows[c]) + 1 /\ rows'[c][Len(rows[c]) + 1] = ending
        /\ \A i \in 1 .. Len(rows[c]) : rows'[c][i] = rows[c][i] /\ Len(rows[c]) \in Nat
    BY <1>2, <1>10, AppendFacts
  <2>2. Len(rows[c]) \in 1 .. Len(rows[c]) /\ Len(rows'[c]) - 1 = Len(rows[c])
    BY <1>2, <1>11, <2>1, LenProperties
  <2>3. QED
    BY <1>11, <2>1, <2>2
<1>16. Staged(c)' /\ Holding(c)'
  BY <1>2, <1>3, <1>6, <1>7 DEF Staged, Holding
<1>17. Counted(c)'
  BY <1>2, <1>12, <1>14 DEF Counted
<1>18. Stored(c)'
  BY <1>6, <1>7, <1>8, <1>12, <1>15 DEF Stored
<1>19. Followed(c)'
  <2>1. c \notin reached => rows[c] = Append(transcript[c], Question(q))
    BY <1>2, <1>3 DEF Followed, q
  <2>2. QED
    BY <1>6, <1>7, <1>8, <1>10, <2>1 DEF Followed
<1>20. Remembered(c)'
  <2>1. SUFFICES ASSUME c \notin reached PROVE Remembered(c)'
    BY DEF Remembered
  <2>2. AnswersOf(memory[c]) = AnswersOf(ToModel(transcript[c]))
    BY <1>2, <1>3, <1>4, <2>1 DEF Remembered
  <2>3. AnswersOf(Append(memory[c], ending)) = Append(AnswersOf(memory[c]), ending)
    BY <1>2, <1>9, AnswersAppend
  <2>4. QED
    BY <1>7, <1>8, <1>13, <2>2, <2>3 DEF Remembered
<1>21. Agreed(c)'
  BY <1>16, <1>17, <1>18, <1>19, <1>20 DEF Agreed
<1>22. ASSUME NEW d \in Chats, d # c PROVE Agreed(d)'
  <2>1. rows'[d] = rows[d] /\ memory'[d] = memory[d] /\ turn'[d] = turn[d]
    BY <1>1, <1>2, <1>22
  <2>2. QED
    BY <1>1, <1>22, <2>1, OthersAgreed
<1>23. Resent'
  <2>1. resend' = None
    BY <1>1 DEF CopiesInv, Copies, Resent, TurnBusy
  <2>2. QED
    BY <2>1, ResentCalm
<1>24. memory' \in [Chats -> Seq(Messages)]
  <2>1. Append(memory[c], ending) \in Seq(Messages)
    BY <1>2, AppendFacts
  <2>2. QED
    BY <1>2, <2>1
<1>25. QED
  BY <1>21, <1>22, <1>23, <1>24 DEF Copies

(* Another answer in the last bubble of two sequences that end alike.      *)
LEMMA SameEndShow ==
  ASSUME NEW s \in Seq(Messages), NEW r \in Seq(Messages), SameEnd(s, r), NEW m \in Messages,
         Len(s) >= 1
  PROVE  SameEnd(WithLast(s, m), WithLast(r, m))
<1>0. PICK t, v : t = WithLast(s, m) /\ v = WithLast(r, m)
  OBVIOUS
<1>1. Len(s) \in Nat /\ Len(r) \in Nat
  BY LenProperties
<1>2. Len(r) >= 1 /\ (1 < Len(s) => 1 < Len(r) /\ s[Len(s) - 1] = r[Len(r) - 1])
  BY <1>1 DEF SameEnd
<1>3. Len(s) \in 1 .. Len(s) /\ Len(r) \in 1 .. Len(r)
  BY <1>1, <1>2
<1>4. /\ Len(t) = Len(s) /\ \A i \in 1 .. Len(s) : t[i] = IF i = Len(s) THEN m ELSE s[i]
      /\ Len(v) = Len(r) /\ \A i \in 1 .. Len(r) : v[i] = IF i = Len(r) THEN m ELSE r[i]
  BY <1>0, <1>3, ExceptSeq DEF WithLast
<1>5. \A n \in Nat : 1 < n => n - 1 \in 1 .. n /\ n - 1 # n
  OBVIOUS
<1>6. 1 < Len(s) => t[Len(s) - 1] = s[Len(s) - 1] /\ v[Len(r) - 1] = r[Len(r) - 1]
  BY <1>1, <1>2, <1>4, <1>5
<1>7. t[Len(s) - 0] = m /\ v[Len(r) - 0] = m
  BY <1>1, <1>3, <1>4
<1>8. QED
  BY <1>0, <1>1, <1>2, <1>4, <1>6, <1>7 DEF SameEnd

(* endTurn leaves behind a chat that is idle, or let go of.                *)
LEMMA EndTurnCopies ==
  ASSUME CopiesInv, NEW c \in Chats, Working(c), NEW texts, NEW astray,
         NEW minds \in [Chats -> Seq(Messages)], EndTurn(c, texts, minds, astray),
         \A d \in Chats : d # c =>
           /\ rows'[d] = rows[d] /\ texts[d] = transcript[d]
           /\ \/ minds[d] = memory[d] /\ (d \in reached => d \in astray)
              \/ d \in astray /\ AskedBy(minds[d], clock)
              \/ /\ d = screen /\ ~Working(d) /\ AskedBy(minds[d], clock)
                 /\ minds[d] = ToModel(transcript[d]) /\ (d \in reached => d \in astray),
         Sound(rows'[c]), AskedBy(rows'[c], clock),
         c = screen => /\ AskedBy(texts[c], clock) /\ AskedBy(minds[c], clock)
                       /\ SameEnd(texts[c], rows'[c])
                       /\ c \notin astray =>
                            /\ rows'[c] = texts[c]
                            /\ AnswersOf(minds[c]) = AnswersOf(ToModel(texts[c])),
         UNCHANGED <<up, screen, opened, resend, clock, crashes>>
  PROVE  Copies'
<1>1. /\ turn' = [turn EXCEPT ![c] = None]
      /\ held' = IF c = screen THEN held ELSE held \ {c}
      /\ \A d \in Chats : /\ d \in held' => transcript'[d] = texts[d] /\ memory'[d] = minds[d]
                          /\ d \notin held' => transcript'[d] = <<>> /\ memory'[d] = <<>>
      /\ memory' = [d \in Chats |-> IF d \in held' THEN minds[d] ELSE <<>>]
      /\ reached' = astray \cap held'
  BY DEF EndTurn
<1>2. /\ turn \in [Chats -> Turns \cup {None}] /\ c \in held /\ clock \in Nat
      /\ screen \in Chats /\ <<>> \in Seq(Messages)
  BY CopiesTypes
<1>3. turn'[c] = None /\ ~Working(c)' /\ \A d \in Chats : d # c => turn'[d] = turn[d]
  BY <1>1, <1>2 DEF Working
<1>4. resend = None /\ resend' = None
  BY DEF CopiesInv, Copies, Resent, TurnBusy
<1>5. ASSUME NEW d \in Chats, d # c PROVE Agreed(d)'
  <2>1. Holding(d) /\ (Working(d) => d \in held)
    BY CopiesTypes
  <2>2. /\ rows'[d] = rows[d] /\ texts[d] = transcript[d] /\ turn'[d] = turn[d]
        /\ \/ minds[d] = memory[d] /\ (d \in reached => d \in astray)
           \/ d \in astray /\ AskedBy(minds[d], clock)
           \/ /\ d = screen /\ ~Working(d) /\ AskedBy(minds[d], clock)
              /\ minds[d] = ToModel(transcript[d]) /\ (d \in reached => d \in astray)
    BY <1>3, <1>5
  <2>3. minds[d] \in Seq(Messages)
    OBVIOUS
  <2>7. CASE /\ d = screen /\ ~Working(d) /\ AskedBy(minds[d], clock) /\ d \in held
             /\ minds[d] = ToModel(transcript[d]) /\ (d \in reached => d \in astray)
    <3>1. d \in held' /\ transcript'[d] = transcript[d] /\ memory'[d] = minds[d]
      BY <1>1, <1>5, <2>2, <2>7
    <3>2. ~Working(d)' /\ screen' = d /\ (d \notin reached' => d \notin reached) /\ clock' = clock
      BY <1>1, <1>3, <1>5, <2>7, <3>1 DEF Working
    <3>3. Counted(d) /\ Stored(d) /\ Followed(d)
      BY <2>7, CopiesTypes
    <3>4. ~Asking(d) /\ ~Ended(d) /\ ~AskedAgain(d)
      BY <2>7 DEF Asking, Ended, AskedAgain
    <3>5. /\ SameEnd(transcript[d], rows[d]) /\ (d \notin reached => rows[d] = transcript[d])
      BY <1>4, <2>7, <3>3, <3>4 DEF Followed
    <3>6. Sound(rows[d]) /\ AskedBy(rows[d], clock) /\ AskedBy(transcript[d], clock)
      BY <3>3 DEF Counted, Stored
    <3>7. /\ Sound(rows'[d]) /\ AskedBy(rows'[d], clock') /\ AskedBy(transcript'[d], clock')
          /\ AskedBy(memory'[d], clock') /\ SameEnd(transcript'[d], rows'[d])
          /\ AnswersOf(memory'[d]) = AnswersOf(ToModel(transcript'[d]))
          /\ (d \notin reached' => rows'[d] = transcript'[d])
      BY <2>2, <2>7, <3>1, <3>2, <3>5, <3>6
    <3>8. QED
      BY <3>1, <3>2, <3>7, IdleAgreed
  <2>4. CASE /\ d \in held
             /\ \/ minds[d] = memory[d] /\ (d \in reached => d \in astray)
                \/ d \in astray /\ AskedBy(minds[d], clock)
    <3>1. d \in held' /\ transcript'[d] = transcript[d] /\ memory'[d] = minds[d]
      BY <1>1, <1>5, <2>2, <2>4
    <3>2. Untouched(d)
      BY <1>1, <1>4, <2>2, <2>3, <2>4, <3>1 DEF Untouched
    <3>3. QED
      BY <1>2, <3>2, UntouchedAgreed
  <2>5. CASE d \notin held
    <3>1. d \notin held' /\ ~Working(d) /\ transcript'[d] = <<>> /\ memory'[d] = <<>>
      BY <1>1, <2>1, <2>5
    <3>2. Untouched(d)
      BY <2>2, <3>1 DEF Untouched
    <3>3. QED
      BY <1>2, <3>2, UntouchedAgreed
  <2>6. QED
    BY <2>2, <2>4, <2>5, <2>7
<1>6. ASSUME c = screen PROVE Agreed(c)'
  <2>1. c \in held' /\ transcript'[c] = texts[c] /\ memory'[c] = minds[c] /\ screen' = c
    BY <1>1, <1>2, <1>6
  <2>2. c \notin reached' => c \notin astray
    BY <1>1, <2>1
  <2>3. QED
    BY <1>3, <1>6, <2>1, <2>2, IdleAgreed
<1>7. ASSUME c # screen PROVE Agreed(c)'
  <2>1. c \notin held' /\ transcript'[c] = <<>> /\ memory'[c] = <<>>
    BY <1>1, <1>7
  <2>2. QED
    BY <1>3, <2>1, LetGoAgreed
<1>8. Agreed(c)'
  BY <1>6, <1>7
<1>9. memory' \in [Chats -> Seq(Messages)]
  BY <1>1, <1>2
<1>10. QED
  BY <1>4, <1>5, <1>8, <1>9, ResentCalm DEF Copies

(* The plain form of a question and of an answer is itself.                *)
LEMMA PlainSelf ==
  ASSUME NEW q \in Numbers, NEW n \in Numbers
  PROVE  Plain(Question(q)) = Question(q) /\ Plain(Answer(q, n)) = Answer(q, n)
<1>1. \A m, k \in Messages :
        /\ m.role = k.role /\ m.to = k.to /\ m.by = k.by /\ m.failed = k.failed
        /\ m.variants = k.variants
        => m = k
  BY DEF Messages
<1>2. /\ Question(q) \in Messages /\ Question(q).variants = {}
      /\ Answer(q, n) \in Messages /\ Answer(q, n).variants = {}
  BY MessageTypes DEF Question, Answer
<1>3. \A m \in Messages : m.variants = {} => Plain(m) = m
  BY <1>1, PlainType
<1>4. QED
  BY <1>2, <1>3

(* A pair that is added to a transcript, and what it adds to the answers.  *)
LEMMA PairAdded ==
  ASSUME NEW s \in Seq(Messages), NEW q \in Numbers, NEW a \in Messages, a.role = "agent"
  PROVE  /\ s \o <<Question(q), a>> = Append(Append(s, Question(q)), a)
         /\ AnswersOf(ToModel(Append(Append(s, Question(q)), a))) =
              IF a.failed THEN AnswersOf(ToModel(s)) ELSE Append(AnswersOf(ToModel(s)), Plain(a))
         /\ \A n \in Nat : AskedBy(s, n) /\ q <= n => AskedBy(Append(Append(s, Question(q)), a), n)
<1>1. /\ Question(q) \in Messages /\ Question(q).role = "user" /\ Question(q).to = q
  <2>1. \E n : n \in Numbers
    OBVIOUS
  <2>2. QED
    BY <2>1, MessageTypes DEF Question
<1>2. s \o <<Question(q), a>> = Append(Append(s, Question(q)), a)
  BY <1>1
<1>3. /\ Append(s, Question(q)) \in Seq(Messages)
      /\ Append(Append(s, Question(q)), a) \in Seq(Messages)
  BY <1>1, AppendFacts
<1>4. ToModel(Append(Append(s, Question(q)), a)) =
        IF a.failed THEN ToModel(s) ELSE Append(Append(ToModel(s), Plain(Question(q))), Plain(a))
  BY <1>1, ToModelPair
<1>5. ToModel(s) \in Seq(Messages)
  BY ToModelType
<1>6. /\ Plain(a) \in Messages /\ Plain(a).role = "agent"
      /\ Plain(Question(q)) = Question(q)
  BY PlainType, PlainSelf, <1>1
<1>7. AnswersOf(Append(Append(ToModel(s), Question(q)), Plain(a)))
        = Append(AnswersOf(ToModel(s)), Plain(a))
  <2>1. Append(ToModel(s), Question(q)) \in Seq(Messages)
    BY <1>1, <1>5, AppendFacts
  <2>2. AnswersOf(Append(ToModel(s), Question(q))) = AnswersOf(ToModel(s))
    BY <1>1, <1>5, AnswersAppend
  <2>3. QED
    BY <1>6, <2>1, <2>2, AnswersAppend
<1>8. ASSUME NEW n \in Nat, AskedBy(s, n), q <= n
      PROVE  AskedBy(Append(Append(s, Question(q)), a), n)
  <2>1. n <= n
    OBVIOUS
  <2>2. AskedBy(Append(s, Question(q)), n)
    BY <1>1, <1>8, <2>1, AskedAppend
  <2>3. QED
    BY <1>3, <2>1, <2>2, AskedAppend
<1>9. QED
  BY <1>2, <1>4, <1>6, <1>7, <1>8

(* The turn that ends hands its pair to the transcript.                    *)
LEMMA FinishCopies ==
  ASSUME CopiesInv, NEW c \in Chats, Finish(c)
  PROVE  Copies'
<1> DEFINE q == turn[c].to
           ending == IF turn[c].stage = "failed" THEN Failure(q) ELSE Answer(q, turn[c].by)
           texts == [transcript EXCEPT ![c] = @ \o <<Question(q), ending>>]
<1>1. /\ Working(c) /\ turn[c].stage \in {"answered", "failed"}
      /\ EndTurn(c, texts, memory, reached)
      /\ UNCHANGED <<up, rows, screen, opened, resend, clock, crashes>>
  BY DEF Finish
<1>2. /\ rows[c] \in Seq(Messages) /\ transcript[c] \in Seq(Messages) /\ clock \in Nat
      /\ transcript \in [Chats -> Seq(Messages)] /\ memory \in [Chats -> Seq(Messages)]
      /\ q \in Numbers /\ turn[c].by \in Numbers /\ c \in held
      /\ Staged(c) /\ Counted(c) /\ Stored(c) /\ Followed(c) /\ Remembered(c)
  BY <1>1, CopiesTypes
<1>3. Ended(c) /\ q <= clock /\ (Answered(c) <=> turn[c].stage = "answered")
  BY <1>1, <1>2 DEF Staged, Begun, Asking, Ended, AskedAgain, Answered
<1>4. ~Asking(c) /\ ~AskedAgain(c)
  BY <1>1 DEF Asking, AskedAgain
<1>5. /\ ending \in Messages /\ ending.role = "agent" /\ Ending(c) = ending
      /\ (ending.failed <=> turn[c].stage = "failed")
      /\ (turn[c].stage = "answered" => Plain(ending) = ending)
      /\ Question(q) \in Messages
  BY <1>1, <1>2, MessageTypes, PlainSelf DEF Answer, Failure, Ending
<1>6. /\ Sound(rows[c]) /\ AskedBy(rows[c], clock) /\ AskedBy(transcript[c], clock)
      /\ AskedBy(memory[c], clock) /\ Len(rows[c]) >= 2
      /\ rows[c][Len(rows[c]) - 1] = Question(q) /\ rows[c][Len(rows[c])] = ending
  BY <1>2, <1>3, <1>5 DEF Stored, Counted
<1>7. /\ texts[c] = transcript[c] \o <<Question(q), ending>>
      /\ \A d \in Chats : d # c => texts[d] = transcript[d]
  BY <1>2
<1>8. /\ (c \notin reached => rows[c] = Append(Append(transcript[c], Question(q)), ending))
      /\ (c \notin reached => /\ Answered(c) => AnswersOf(memory[c])
                                   = Append(AnswersOf(ToModel(transcript[c])), ending)
                              /\ ~Answered(c) => AnswersOf(memory[c])
                                   = AnswersOf(ToModel(transcript[c])))
  BY <1>2, <1>3, <1>4, <1>5 DEF Followed, Remembered
<1> HIDE DEF q, ending, texts
<1>9. texts[c] = Append(Append(transcript[c], Question(q)), ending) /\ AskedBy(texts[c], clock)
  <2>1. transcript[c] \o <<Question(q), ending>> = Append(Append(transcript[c], Question(q)), ending)
    BY <1>2, <1>5, PairAdded
  <2>2. AskedBy(Append(Append(transcript[c], Question(q)), ending), clock)
    BY <1>2, <1>3, <1>5, <1>6, PairAdded
  <2>3. QED
    BY <1>7, <2>1, <2>2
<1>10. SameEnd(texts[c], rows[c])
  BY <1>2, <1>5, <1>6, <1>9, SameEndPair
<1>11. AnswersOf(ToModel(texts[c])) = IF ending.failed THEN AnswersOf(ToModel(transcript[c]))
                                     ELSE Append(AnswersOf(ToModel(transcript[c])), Plain(ending))
  <2>1. AnswersOf(ToModel(Append(Append(transcript[c], Question(q)), ending)))
          = IF ending.failed THEN AnswersOf(ToModel(transcript[c]))
            ELSE Append(AnswersOf(ToModel(transcript[c])), Plain(ending))
    BY <1>2, <1>5, PairAdded
  <2>2. QED
    BY <1>9, <2>1
<1>12. c \notin reached => /\ rows[c] = texts[c]
                           /\ AnswersOf(memory[c]) = AnswersOf(ToModel(texts[c]))
  BY <1>1, <1>3, <1>5, <1>8, <1>9, <1>11
<1>13. QED
  <2>1. \A d \in Chats : d # c => rows'[d] = rows[d] /\ texts[d] = transcript[d]
    BY <1>1, <1>7
  <2>2. rows'[c] = rows[c]
    BY <1>1
  <2>3. /\ Sound(rows'[c]) /\ AskedBy(rows'[c], clock) /\ SameEnd(texts[c], rows'[c])
        /\ c \notin reached => /\ rows'[c] = texts[c]
                               /\ AnswersOf(memory[c]) = AnswersOf(ToModel(texts[c]))
    BY <1>6, <1>10, <1>12, <2>2
  <2>4. /\ EndTurn(c, texts, memory, reached) /\ Working(c)
        /\ memory \in [Chats -> Seq(Messages)] /\ AskedBy(texts[c], clock) /\ AskedBy(memory[c], clock)
        /\ UNCHANGED <<up, screen, opened, resend, clock, crashes>>
    BY <1>1, <1>2, <1>6, <1>9
  <2>5. QED
    BY <2>1, <2>3, <2>4, EndTurnCopies

(* What a chat that asks again has: pairs, the last one answered.          *)
LEMMA AskedAgainEnd ==
  ASSUME CopiesInv, NEW c \in Chats, AskedAgain(c)
  PROVE  /\ Working(c) /\ turn[c].to \in Numbers /\ turn[c].by \in Numbers /\ c \in held
         /\ rows[c] \in Seq(Messages) /\ Len(rows[c]) >= 2 /\ Len(rows[c]) \in Nat
         /\ rows[c][Len(rows[c]) - 1].role = "user"
         /\ rows[c][Len(rows[c])].role = "agent" /\ ~rows[c][Len(rows[c])].failed
         /\ rows[c][Len(rows[c])] \in Messages
         /\ SameEnd(transcript[c], rows[c])
         /\ c \notin reached => /\ rows[c] = transcript[c]
                                /\ AnswersOf(memory[c])
                                     = AnswersOf(ToModel(WithoutLastPair(transcript[c])))
                                /\ rows[c][Len(rows[c]) - 1].to = turn[c].to
<1>1. Working(c)
  BY DEF AskedAgain
<1>2. /\ turn[c].to \in Numbers /\ turn[c].by \in Numbers /\ c \in held
      /\ rows[c] \in Seq(Messages) /\ Stored(c) /\ Followed(c) /\ Remembered(c)
  BY <1>1, CopiesTypes
<1>3. ~Asking(c) /\ ~Ended(c) /\ ~Answered(c)
  BY DEF AskedAgain, Asking, Ended, Answered
<1>4. Len(rows[c]) >= 2 /\ ~rows[c][Len(rows[c])].failed
  BY <1>2 DEF Stored
<1>5. /\ Len(rows[c]) \in Nat /\ DOMAIN rows[c] = 1 .. Len(rows[c])
      /\ \A i \in 1 .. Len(rows[c]) : rows[c][i] \in Messages
  BY <1>2, LenProperties
<1>6. ~(Len(rows[c]) % 2 = 1) /\ Alternates(rows[c])
  <2>1. up
    BY <1>2 DEF CopiesInv, IInv, Flags
  <2>2. QED
    BY <1>3, <2>1 DEF CopiesInv, IInv, RowsArePairs
<1>7. /\ Len(rows[c]) \in 1 .. Len(rows[c]) /\ Len(rows[c]) - 1 \in 1 .. Len(rows[c])
      /\ (Len(rows[c]) - 1) % 2 = 1
  <2>1. \A n \in Nat : n >= 2 /\ ~(n % 2 = 1) => n \in 1 .. n /\ n - 1 \in 1 .. n /\ (n - 1) % 2 = 1
    OBVIOUS
  <2>2. QED
    BY <1>4, <1>5, <1>6, <2>1
<1>8. rows[c][Len(rows[c]) - 1].role = "user" /\ rows[c][Len(rows[c])].role = "agent"
  <2>1. rows[c][Len(rows[c]) - 1].role = IF (Len(rows[c]) - 1) % 2 = 1 THEN "user" ELSE "agent"
    BY <1>5, <1>6, <1>7 DEF Alternates
  <2>2. rows[c][Len(rows[c])].role = IF Len(rows[c]) % 2 = 1 THEN "user" ELSE "agent"
    BY <1>5, <1>6, <1>7 DEF Alternates
  <2>3. QED
    BY <1>6, <1>7, <2>1, <2>2
<1>9. SameEnd(transcript[c], rows[c])
  BY <1>2 DEF Followed
<1>10. c \notin reached => /\ rows[c] = transcript[c]
                           /\ AnswersOf(memory[c])
                                = AnswersOf(ToModel(WithoutLastPair(transcript[c])))
                           /\ rows[c][Len(rows[c]) - 1].to = turn[c].to
  BY <1>2, <1>3 DEF Followed, Remembered
<1>11. QED
  BY <1>1, <1>2, <1>4, <1>5, <1>7, <1>8, <1>9, <1>10

(* The call that panics changes nothing but the turn.                      *)
LEMMA PanicAgainCopies ==
  ASSUME CopiesInv, NEW c \in Chats, PanicAgain(c)
  PROVE  Copies'
<1>1. /\ AskedAgain(c) /\ transcript[screen] = <<>>
      /\ EndTurn(c, transcript, memory, reached)
      /\ UNCHANGED <<up, rows, screen, opened, resend, clock, crashes>>
  BY DEF PanicAgain
<1>2. /\ Counted(c) /\ Stored(c) /\ memory \in [Chats -> Seq(Messages)]
  BY CopiesTypes
<1>3. /\ Working(c) /\ Len(rows[c]) >= 2 /\ SameEnd(transcript[c], rows[c])
      /\ (c \notin reached => rows[c] = transcript[c])
  BY <1>1, AskedAgainEnd
<1>4. c = screen => c \in reached
  <2>1. ~(Len(<<>>) >= 2)
    OBVIOUS
  <2>2. QED
    BY <1>1, <1>3, <2>1
<1>5. /\ Sound(rows[c]) /\ AskedBy(rows[c], clock) /\ AskedBy(transcript[c], clock)
      /\ AskedBy(memory[c], clock)
  BY <1>2 DEF Stored, Counted
<1>6. QED
  BY <1>1, <1>2, <1>3, <1>4, <1>5, EndTurnCopies

(* The request that fails puts a memory back.                              *)
LEMMA FailAgainCopies ==
  ASSUME CopiesInv, NEW c \in Chats, FailAgain(c)
  PROVE  Copies'
<1> DEFINE minds == [memory EXCEPT ![screen] = ToModel(transcript[screen])]
           astray == IF c # screen /\ Working(screen) THEN reached \cup {screen} ELSE reached
<1>1. /\ AskedAgain(c) /\ EndTurn(c, transcript, minds, astray)
      /\ UNCHANGED <<up, rows, screen, opened, resend, clock, crashes>>
  BY DEF FailAgain
<1>2. /\ Counted(c) /\ Stored(c) /\ memory \in [Chats -> Seq(Messages)] /\ screen \in Chats
      /\ transcript[screen] \in Seq(Messages)
  BY CopiesTypes DEF CopiesInv, IInv, StoreTypes
<1>3. /\ Working(c) /\ SameEnd(transcript[c], rows[c])
      /\ (c \notin reached => rows[c] = transcript[c])
  BY <1>1, AskedAgainEnd
<1>4. /\ Sound(rows[c]) /\ AskedBy(rows[c], clock) /\ AskedBy(transcript[c], clock)
  BY <1>2 DEF Stored, Counted
<1>5. ToModel(transcript[screen]) \in Seq(Messages) /\ AskedBy(ToModel(transcript[screen]), clock)
  <2>1. AskedBy(transcript[screen], clock)
    BY <1>2, CopiesTypes DEF Counted
  <2>2. QED
    BY <1>2, <2>1, ToModelType, ToModelAsks
<1>6. /\ minds \in [Chats -> Seq(Messages)] /\ minds[screen] = ToModel(transcript[screen])
      /\ \A d \in Chats : d # screen => minds[d] = memory[d]
  BY <1>2, <1>5
<1>7. /\ \A d \in reached : d \in astray
      /\ (c # screen /\ Working(screen) => screen \in astray) /\ (c = screen => astray = reached)
  OBVIOUS
<1> HIDE DEF minds, astray
<1>8. \A d \in Chats : d # c =>
        \/ minds[d] = memory[d] /\ (d \in reached => d \in astray)
        \/ d \in astray /\ AskedBy(minds[d], clock)
        \/ /\ d = screen /\ ~Working(d) /\ AskedBy(minds[d], clock)
           /\ minds[d] = ToModel(transcript[d]) /\ (d \in reached => d \in astray)
  <2>1. SUFFICES ASSUME NEW d \in Chats, d # c
                 PROVE  \/ minds[d] = memory[d] /\ (d \in reached => d \in astray)
                        \/ d \in astray /\ AskedBy(minds[d], clock)
                        \/ /\ d = screen /\ ~Working(d) /\ AskedBy(minds[d], clock)
                           /\ minds[d] = ToModel(transcript[d]) /\ (d \in reached => d \in astray)
    OBVIOUS
  <2>2. CASE d # screen
    BY <1>6, <1>7, <2>2
  <2>3. CASE d = screen
    BY <1>5, <1>6, <1>7, <2>1, <2>3
  <2>4. QED
    BY <2>2, <2>3
<1>9. c = screen => /\ AskedBy(minds[c], clock)
                    /\ AnswersOf(minds[c]) = AnswersOf(ToModel(transcript[c]))
                    /\ c \notin astray => rows[c] = transcript[c]
  BY <1>3, <1>5, <1>6, <1>7
<1>10. QED
  BY <1>1, <1>3, <1>4, <1>6, <1>8, <1>9, EndTurnCopies

(* A pair at the end whose answer is shown anew.                           *)
LEMMA ShownPair ==
  ASSUME NEW s \in Seq(Messages), Len(s) >= 2, NEW m \in Messages, m.role = "agent", ~m.failed,
         s[Len(s) - 1].role = "user", s[Len(s)].role = "agent"
  PROVE  AnswersOf(ToModel(WithLast(s, m))) = Append(AnswersOf(ToModel(WithoutLastPair(s))), Plain(m))
<1>0. PICK t : t = WithLast(s, m)
  OBVIOUS
<1>1. Len(s) - 1 \in 1 .. Len(s) - 1 /\ Len(s) >= 1
  <2>1. \A n \in Nat : n >= 2 => n - 1 \in 1 .. n - 1 /\ n >= 1
    OBVIOUS
  <2>2. QED
    BY <2>1, LenProperties
<1>2. /\ t \in Seq(Messages) /\ Len(t) = Len(s) /\ t[Len(s)] = m
      /\ t[Len(s) - 1] = s[Len(s) - 1] /\ WithoutLastPair(t) = WithoutLastPair(s)
  BY <1>0, <1>1, ShowLast
<1>3. PICK w, u : w = WithoutLastPair(s) /\ u = s[Len(s) - 1]
  OBVIOUS
<1>4. /\ w \in Seq(Messages) /\ u \in Messages /\ u.role = "user"
      /\ t = Append(Append(w, u), m)
  BY <1>2, <1>3, LastPair
<1>5. ToModel(t) = Append(Append(ToModel(w), Plain(u)), Plain(m))
  BY <1>4, ToModelPair
<1>6. /\ ToModel(w) \in Seq(Messages)
      /\ Plain(u) \in Messages /\ Plain(u).role = "user"
      /\ Plain(m) \in Messages /\ Plain(m).role = "agent"
  BY <1>4, ToModelType, PlainType
<1>7. Append(ToModel(w), Plain(u)) \in Seq(Messages)
  BY <1>6, AppendFacts
<1>8. AnswersOf(Append(ToModel(w), Plain(u))) = AnswersOf(ToModel(w))
  BY <1>6, AnswersAppend
<1>9. AnswersOf(ToModel(t)) = Append(AnswersOf(ToModel(w)), Plain(m))
  BY <1>5, <1>6, <1>7, <1>8, AnswersAppend
<1>10. QED
  BY <1>0, <1>3, <1>9

(* The second answer goes into the bubble the rows end in.                 *)
LEMMA StoreAgainCopies ==
  ASSUME CopiesInv, NEW c \in Chats, StoreAgain(c)
  PROVE  Copies'
<1>1. PICK shown, new, live, all :
        /\ shown = transcript[screen] /\ new = [to |-> turn[c].to, by |-> turn[c].by]
        /\ live = shown[Len(shown)] /\ all = VariantsOf(live) \cup {new}
  OBVIOUS
<1>2. PICK texts, minds :
        /\ texts = [transcript EXCEPT ![c] = [@ EXCEPT ![Len(@)] = Showing(live, new, all)]]
        /\ minds = [memory EXCEPT ![c] = Append(@, Answer(turn[c].to, turn[c].by))]
  OBVIOUS
<1>3. /\ AskedAgain(c) /\ shown # <<>>
      /\ rows' = [rows EXCEPT ![c] = StoreVariants(@, new, all)]
      /\ EndTurn(c, texts, minds, reached)
      /\ UNCHANGED <<up, screen, opened, resend, clock, crashes>>
  BY <1>1, <1>2 DEF StoreAgain
<1>4. /\ Working(c) /\ turn[c].to \in Numbers /\ turn[c].by \in Numbers /\ c \in held
      /\ rows[c] \in Seq(Messages) /\ Len(rows[c]) >= 2 /\ Len(rows[c]) \in Nat
      /\ rows[c][Len(rows[c]) - 1].role = "user"
      /\ rows[c][Len(rows[c])].role = "agent" /\ ~rows[c][Len(rows[c])].failed
      /\ rows[c][Len(rows[c])] \in Messages
      /\ SameEnd(transcript[c], rows[c])
      /\ (c \notin reached => /\ rows[c] = transcript[c]
                              /\ AnswersOf(memory[c])
                                   = AnswersOf(ToModel(WithoutLastPair(transcript[c]))))
  BY <1>3, AskedAgainEnd
<1>5. /\ transcript[c] \in Seq(Messages) /\ memory[c] \in Seq(Messages) /\ clock \in Nat
      /\ rows \in [Chats -> Seq(Messages)] /\ transcript \in [Chats -> Seq(Messages)]
      /\ memory \in [Chats -> Seq(Messages)] /\ screen \in Chats
      /\ Counted(c) /\ Stored(c)
  BY CopiesTypes
<1>6. /\ shown \in Seq(Messages) /\ Len(shown) \in 1 .. Len(shown) /\ Len(shown) >= 1
  <2>1. shown \in Seq(Messages)
    BY <1>1, <1>5
  <2>2. Len(shown) \in Nat /\ Len(shown) # 0
    BY <1>3, <2>1, EmptySeq, LenProperties
  <2>3. QED
    BY <2>1, <2>2
<1>7. live \in Messages
  BY <1>1, <1>6, LenProperties
<1>8. new \in Answers /\ new.to = turn[c].to /\ new.by = turn[c].by
  BY <1>1, <1>4, TranscriptAssumption DEF Answers, Numbers
<1>9. all \in SUBSET Answers
  BY <1>1, <1>7, <1>8, ShowingType
<1>10. PICK last, m : last = rows[c][Len(rows[c])] /\ m = Showing(last, new, all)
  OBVIOUS
<1>11. m \in Messages /\ m.role = "agent" /\ ~m.failed /\ m.to = turn[c].to /\ m.by = turn[c].by
  BY <1>4, <1>8, <1>9, <1>10, ShowingFacts
<1>12. Plain(m) = Answer(turn[c].to, turn[c].by)
  <2>1. /\ Plain(m) \in Messages /\ Plain(m).role = "agent" /\ Plain(m).to = turn[c].to
        /\ Plain(m).by = turn[c].by /\ Plain(m).failed = m.failed /\ Plain(m).variants = {}
        /\ m.failed \in BOOLEAN
    BY <1>11, PlainType DEF Messages
  <2>2. Plain(m) = [role |-> Plain(m).role, to |-> Plain(m).to, by |-> Plain(m).by,
                    failed |-> Plain(m).failed, variants |-> Plain(m).variants]
    BY <2>1 DEF Messages
  <2>3. Plain(m).failed = FALSE
    BY <1>11, <2>1
  <2>4. QED
    BY <2>1, <2>2, <2>3 DEF Answer
<1>13. rows'[c] = WithLast(rows[c], m)
  <2>1. StoreVariants(rows[c], new, all) = WithLast(rows[c], m)
    BY <1>4, <1>10, NewestIsLast
  <2>2. QED
    BY <1>3, <1>5, <2>1
<1>14. /\ Sound(rows[c]) /\ AskedBy(rows[c], clock) /\ AskedBy(transcript[c], clock)
       /\ AskedBy(memory[c], clock)
  BY <1>5 DEF Stored, Counted
<1>15. Sound(rows'[c]) /\ AskedBy(rows'[c], clock)
  <2>1. Len(rows[c]) >= 1
    BY <1>4
  <2>2. QED
    BY <1>4, <1>11, <1>13, <1>14, <2>1, ShowLast
<1>16. \A d \in Chats : d # c => /\ rows'[d] = rows[d] /\ texts[d] = transcript[d]
                                 /\ minds[d] = memory[d] /\ (d \in reached => d \in reached)
  BY <1>2, <1>3, <1>5
<1>17. /\ Answer(turn[c].to, turn[c].by) \in Messages
       /\ Answer(turn[c].to, turn[c].by).role = "agent"
  BY <1>4, MessageTypes
<1>18. minds[c] = Append(memory[c], Answer(turn[c].to, turn[c].by))
  BY <1>2, <1>5
<1>19. minds[c] \in Seq(Messages) /\ minds \in [Chats -> Seq(Messages)] /\ AskedBy(minds[c], clock)
  <2>1. minds[c] \in Seq(Messages)
    BY <1>5, <1>17, <1>18, AppendFacts
  <2>2. AskedBy(minds[c], clock)
    <3>1. clock <= clock
      BY <1>5
    <3>2. QED
      BY <1>5, <1>14, <1>17, <1>18, <3>1, AskedAppend
  <2>3. minds \in [Chats -> Seq(Messages)]
    BY <1>2, <1>5, <1>18, <2>1
  <2>4. QED
    BY <2>1, <2>2, <2>3
<1>20. ASSUME c = screen
       PROVE  /\ AskedBy(texts[c], clock) /\ SameEnd(texts[c], rows'[c])
              /\ c \notin reached => /\ rows'[c] = texts[c]
                                     /\ AnswersOf(minds[c]) = AnswersOf(ToModel(texts[c]))
  <2>1. live = last
    <3>1. 0 < Len(shown)
      BY <1>6
    <3>2. transcript[c][Len(transcript[c]) - 0] = rows[c][Len(rows[c]) - 0]
      BY <1>1, <1>4, <1>20, <3>1 DEF SameEnd
    <3>3. Len(transcript[c]) - 0 = Len(transcript[c]) /\ Len(rows[c]) - 0 = Len(rows[c])
      BY <1>1, <1>4, <1>6, <1>20
    <3>4. QED
      BY <1>1, <1>10, <1>20, <3>2, <3>3
  <2>2. texts[c] = WithLast(transcript[c], m)
    BY <1>2, <1>5, <1>10, <2>1 DEF WithLast
  <2>3. /\ Len(transcript[c]) >= 1 /\ transcript[c][Len(transcript[c])].role = "agent"
    BY <1>1, <1>4, <1>6, <1>10, <1>20, <2>1
  <2>4. AskedBy(texts[c], clock)
    <3>1. m.role = transcript[c][Len(transcript[c])].role
      BY <1>11, <2>3
    <3>2. AskedBy(WithLast(transcript[c], m), clock)
      BY <1>5, <1>11, <1>14, <2>3, <3>1, ShowLast
    <3>3. QED
      BY <2>2, <3>2
  <2>5. SameEnd(texts[c], rows'[c])
    BY <1>4, <1>5, <1>11, <1>13, <2>2, <2>3, SameEndShow
  <2>6. ASSUME c \notin reached
        PROVE  rows'[c] = texts[c] /\ AnswersOf(minds[c]) = AnswersOf(ToModel(texts[c]))
    <3>1. rows[c] = transcript[c]
      BY <1>4, <2>6
    <3>2. AnswersOf(ToModel(texts[c]))
            = Append(AnswersOf(ToModel(WithoutLastPair(rows[c]))), Plain(m))
      BY <1>4, <1>11, <2>2, <3>1, ShownPair
    <3>3. AnswersOf(minds[c]) = Append(AnswersOf(memory[c]), Answer(turn[c].to, turn[c].by))
      BY <1>5, <1>17, <1>18, AnswersAppend
    <3>4. AnswersOf(memory[c]) = AnswersOf(ToModel(WithoutLastPair(transcript[c])))
      BY <1>4, <2>6
    <3>5. QED
      BY <1>12, <1>13, <2>2, <3>1, <3>2, <3>3, <3>4
  <2>7. QED
    BY <2>4, <2>5, <2>6
<1>21. QED
  BY <1>3, <1>4, <1>15, <1>16, <1>19, <1>20, EndTurnCopies

-----------------------------------------------------------------------------
(* The calls of the window keep it.                                        *)

(* A question that comes to a memory it is not in is the last one there.   *)
LEMMA AskedLastAppend ==
  ASSUME NEW s \in Seq(Messages), NEW q \in Numbers, Unasked(s, q)
  PROVE  /\ Append(s, Question(q)) \in Seq(Messages)
         /\ AnswersOf(Append(s, Question(q))) = AnswersOf(s)
         /\ Len(Append(s, Question(q))) >= 1
         /\ Append(s, Question(q))[Len(Append(s, Question(q)))] = Question(q)
         /\ \A i \in DOMAIN Append(s, Question(q)) :
              Append(s, Question(q))[i].role = "user" /\ Append(s, Question(q))[i].to = q
                => i = Len(Append(s, Question(q)))
<1>1. Question(q) \in Messages /\ Question(q).role = "user"
  BY MessageTypes
<1>2. PICK t : t = Append(s, Question(q))
  OBVIOUS
<1>3. /\ t \in Seq(Messages) /\ Len(t) = Len(s) + 1 /\ t[Len(s) + 1] = Question(q)
      /\ DOMAIN t = 1 .. Len(s) + 1 /\ Len(s) \in Nat /\ DOMAIN s = 1 .. Len(s)
      /\ \A i \in 1 .. Len(s) : t[i] = s[i]
  BY <1>1, <1>2, AppendFacts
<1>4. AnswersOf(t) = AnswersOf(s)
  BY <1>1, <1>2, AnswersAppend
<1>5. ASSUME NEW i \in DOMAIN t, t[i].role = "user", t[i].to = q PROVE i = Len(t)
  <2>1. CASE i \in 1 .. Len(s)
    BY <1>3, <1>5, <2>1 DEF Unasked
  <2>2. CASE i \notin 1 .. Len(s)
    BY <1>3, <1>5, <2>2
  <2>3. QED
    BY <2>1, <2>2
<1>6. Len(t) >= 1 /\ t[Len(t)] = Question(q)
  BY <1>3
<1>7. QED
  BY <1>2, <1>3, <1>4, <1>5, <1>6

(* What the window finds in the chat on screen when nothing works there.   *)
LEMMA IdleScreen ==
  ASSUME CopiesInv, up, ~Working(screen)
  PROVE  /\ screen \in Chats /\ screen \in held /\ clock \in Nat
         /\ rows[screen] \in Seq(Messages) /\ transcript[screen] \in Seq(Messages)
         /\ memory[screen] \in Seq(Messages) /\ Len(rows[screen]) \in Nat
         /\ Sound(rows[screen]) /\ AskedBy(rows[screen], clock)
         /\ AskedBy(transcript[screen], clock) /\ AskedBy(memory[screen], clock)
         /\ Alternates(rows[screen]) /\ Len(rows[screen]) % 2 = 0
         /\ resend = None => SameEnd(transcript[screen], rows[screen])
         /\ screen \notin reached =>
              /\ rows[screen] = transcript[screen]
              /\ AnswersOf(memory[screen]) = AnswersOf(ToModel(transcript[screen]))
<1>1. screen \in Chats
  BY DEF CopiesInv, IInv, StoreTypes
<1>2. /\ rows[screen] \in Seq(Messages) /\ transcript[screen] \in Seq(Messages)
      /\ memory[screen] \in Seq(Messages) /\ clock \in Nat
      /\ Counted(screen) /\ Stored(screen) /\ Followed(screen) /\ Remembered(screen)
  BY <1>1, CopiesTypes
<1>3. screen \in held
  BY DEF CopiesInv, IInv, Flags
<1>4. ~Asking(screen) /\ ~Ended(screen) /\ ~Answered(screen) /\ ~AskedAgain(screen)
  BY DEF Asking, Ended, Answered, AskedAgain
<1>5. Alternates(rows[screen]) /\ ~(Len(rows[screen]) % 2 = 1)
  BY <1>1, <1>4 DEF CopiesInv, IInv, RowsArePairs
<1>6. Len(rows[screen]) \in Nat /\ Len(rows[screen]) % 2 = 0
  BY <1>2, <1>5, LenProperties, Parity
<1>7. /\ Sound(rows[screen]) /\ AskedBy(rows[screen], clock)
      /\ AskedBy(transcript[screen], clock) /\ AskedBy(memory[screen], clock)
  BY <1>2 DEF Counted, Stored
<1>8. /\ resend = None => SameEnd(transcript[screen], rows[screen])
      /\ screen \notin reached => /\ rows[screen] = transcript[screen]
                                  /\ AnswersOf(memory[screen])
                                       = AnswersOf(ToModel(transcript[screen]))
  BY <1>2, <1>3, <1>4 DEF Followed, Remembered
<1>9. QED
  BY <1>1, <1>2, <1>3, <1>5, <1>6, <1>7, <1>8

(* A transcript that ends in a pair shows the pair the rows end in.        *)
LEMMA EndSeen ==
  ASSUME NEW s \in Seq(Messages), NEW r \in Seq(Messages), SameEnd(s, r), Len(s) >= 1
  PROVE  /\ Len(r) >= 1 /\ s[Len(s)] = r[Len(r)]
         /\ s[Len(s)] \in Messages
         /\ Len(s) >= 2 => /\ Len(r) >= 2 /\ s[Len(s) - 1] = r[Len(r) - 1]
                           /\ s[Len(s) - 1] \in Messages
<1>1. Len(s) \in Nat /\ Len(r) \in Nat /\ \A i \in 1 .. Len(s) : s[i] \in Messages
  BY LenProperties
<1>2. \A n \in Nat : n - 0 = n /\ (n >= 1 => n \in 1 .. n) /\ (n >= 2 => n - 1 \in 1 .. n)
  OBVIOUS
<1>3. 0 < Len(r) /\ s[Len(s) - 0] = r[Len(r) - 0]
  BY <1>1 DEF SameEnd
<1>4. Len(s) >= 2 => 1 < Len(r) /\ s[Len(s) - 1] = r[Len(r) - 1]
  BY <1>1 DEF SameEnd
<1>5. QED
  BY <1>1, <1>2, <1>3, <1>4

(* Chats that are not on screen, when the window writes to the one that is.*)
LEMMA OffScreenAgreed ==
  ASSUME CopiesInv, NEW d \in Chats, d # screen, rows'[d] = rows[d], turn'[d] = turn[d],
         transcript'[d] = transcript[d], memory'[d] = memory[d], clock' \in Nat, clock' >= clock,
         Working(d) \/ (resend' = None => resend = None) \/ ~TurnBusy,
         UNCHANGED <<screen, held, reached>>
  PROVE  Agreed(d)'
<1>1. Holding(d) /\ (Working(d) => d \in held)
  BY CopiesTypes
<1>2. CASE Working(d)
  <2>1. Untouched(d)
    BY <1>1, <1>2 DEF Untouched
  <2>2. QED
    BY <2>1, UntouchedAgreed
<1>3. CASE ~Working(d)
  <2>1. d \notin held /\ transcript[d] = <<>> /\ memory[d] = <<>>
    BY <1>1, <1>3 DEF Holding
  <2>2. Untouched(d)
    BY <1>3, <2>1 DEF Untouched
  <2>3. QED
    BY <2>2, UntouchedAgreed
<1>4. QED
  BY <1>2, <1>3

(* dropLastTurnRows and restoreContext take the last pair out of all three.*)
LEMMA DropLastTurnCopies ==
  ASSUME CopiesInv, up, resend = None, ~TurnBusy, DropLastTurn, Len(transcript[screen]) >= 2,
         resend' \in Numbers \cup {0},
         resend' # 0 => /\ transcript[screen][Len(transcript[screen])].failed
                        /\ resend' = transcript[screen][Len(transcript[screen])].to,
         UNCHANGED <<up, screen, held, opened, turn, clock, crashes, reached>>
  PROVE  Copies'
<1>1. PICK s, r : s = transcript[screen] /\ r = rows[screen]
  OBVIOUS
<1>2. /\ screen \in Chats /\ screen \in held /\ clock \in Nat /\ ~Working(screen)
      /\ s \in Seq(Messages) /\ r \in Seq(Messages) /\ Len(r) \in Nat /\ Len(s) \in Nat
      /\ Sound(r) /\ AskedBy(r, clock) /\ AskedBy(s, clock) /\ SameEnd(s, r)
      /\ Alternates(r) /\ Len(r) % 2 = 0 /\ (screen \notin reached => r = s)
  <2>1. screen \in Chats /\ ~Working(screen)
    BY DEF CopiesInv, IInv, StoreTypes, TurnBusy
  <2>2. QED
    BY <1>1, <2>1, IdleScreen, LenProperties
<1>3. /\ rows \in [Chats -> Seq(Messages)] /\ transcript \in [Chats -> Seq(Messages)]
      /\ memory \in [Chats -> Seq(Messages)]
  BY CopiesTypes, <1>2
<1>4. /\ Len(s) >= 2 /\ Len(r) >= 2 /\ s[Len(s)] = r[Len(r)] /\ s[Len(s) - 1] = r[Len(r) - 1]
      /\ s[Len(s)] \in Messages
  <2>1. Len(s) >= 2 /\ Len(s) >= 1
    BY <1>1, <1>2
  <2>2. QED
    BY <1>2, <2>1, EndSeen
<1>5. /\ rows'[screen] = WithoutLastPair(r) /\ transcript'[screen] = WithoutLastPair(s)
      /\ memory'[screen] = ToModel(WithoutLastPair(s))
      /\ \A d \in Chats : d # screen => /\ rows'[d] = rows[d] /\ transcript'[d] = transcript[d]
                                        /\ memory'[d] = memory[d]
      /\ memory' = [memory EXCEPT ![screen] = ToModel(WithoutLastPair(s))]
  BY <1>1, <1>2, <1>3 DEF DropLastTurn
<1>6. /\ WithoutLastPair(s) \in Seq(Messages) /\ WithoutLastPair(r) \in Seq(Messages)
      /\ AskedBy(WithoutLastPair(s), clock) /\ AskedBy(WithoutLastPair(r), clock)
      /\ Sound(WithoutLastPair(r))
  BY <1>2, <1>4, LastPair, WithoutLastPairKeeps
<1>7. /\ ToModel(WithoutLastPair(s)) \in Seq(Messages)
      /\ AskedBy(ToModel(WithoutLastPair(s)), clock)
  BY <1>6, ToModelType, ToModelAsks
<1>8. Agreed(screen)'
  <2>1. ~(Working(screen)') /\ resend' # None
    BY <1>2, TranscriptAssumption DEF Working
  <2>2. screen \notin reached' => /\ rows'[screen] = transcript'[screen]
                                  /\ AnswersOf(memory'[screen])
                                       = AnswersOf(ToModel(transcript'[screen]))
    BY <1>2, <1>5
  <2>3. QED
    BY <1>2, <1>5, <1>6, <1>7, <2>1, <2>2, IdleAgreed
<1>9. ASSUME NEW d \in Chats, d # screen PROVE Agreed(d)'
  <2>1. /\ rows'[d] = rows[d] /\ transcript'[d] = transcript[d] /\ memory'[d] = memory[d]
        /\ turn'[d] = turn[d] /\ clock' \in Nat /\ clock' >= clock
    BY <1>2, <1>5, <1>9
  <2>2. QED
    BY <1>9, <2>1, OffScreenAgreed
<1>10. Resent'
  <2>1. up' /\ ~(TurnBusy')
    BY DEF TurnBusy, Working
  <2>2. ASSUME resend' \in Numbers
        PROVE  /\ resend' <= clock' /\ Unasked(rows'[screen], resend')
               /\ screen \notin reached' => Unasked(memory'[screen], resend')
    <3>1. resend' # 0 /\ resend' = r[Len(r)].to /\ r[Len(r)].failed
      BY <1>1, <1>4, <2>2, TranscriptAssumption DEF Numbers
    <3>2. /\ Len(r) \in DOMAIN r /\ Len(r) - 1 \in DOMAIN r /\ (Len(r) - 1) % 2 = 1
          /\ DOMAIN r = 1 .. Len(r)
      <4>1. \A n \in Nat : n >= 2 /\ n % 2 = 0 =>
                             n \in 1 .. n /\ n - 1 \in 1 .. n /\ (n - 1) % 2 = 1
        OBVIOUS
      <4>2. DOMAIN r = 1 .. Len(r)
        BY <1>2, LenProperties
      <4>3. QED
        BY <1>2, <1>4, <4>1, <4>2
    <3>3. r[Len(r)] = Failure(r[Len(r) - 1].to)
      BY <1>2, <3>1, <3>2 DEF Sound, FailuresPaired
    <3>4. resend' = r[Len(r) - 1].to /\ r[Len(r) - 1].role = "user"
      <4>1. resend' = r[Len(r) - 1].to
        BY <3>1, <3>3 DEF Failure
      <4>2. r[Len(r) - 1].role = IF (Len(r) - 1) % 2 = 1 THEN "user" ELSE "agent"
        BY <1>2, <3>2 DEF Alternates
      <4>3. QED
        BY <3>2, <4>1, <4>2
    <3>5. resend' <= clock'
      BY <1>2, <3>2, <3>4 DEF AskedBy
    <3>6. Unasked(rows'[screen], resend')
      BY <1>2, <1>4, <1>5, <3>4, WithoutLastPairKeeps DEF Sound
    <3>7. screen \notin reached' => Unasked(memory'[screen], resend')
      <4>1. SUFFICES ASSUME screen \notin reached PROVE Unasked(memory'[screen], resend')
        OBVIOUS
      <4>2. Unasked(WithoutLastPair(s), resend')
        BY <1>2, <1>5, <3>6, <4>1
      <4>3. QED
        BY <1>5, <1>6, <4>2, ToModelAsks
    <3>8. QED
      BY <3>5, <3>6, <3>7
  <2>3. QED
    BY <2>1, <2>2 DEF Resent
<1>11. memory' \in [Chats -> Seq(Messages)]
  BY <1>3, <1>5, <1>7
<1>12. QED
  BY <1>8, <1>9, <1>10, <1>11 DEF Copies

(* RegenerateReply takes the last pair out of the memory and asks its      *)
(* question again.                                                         *)
LEMMA RegenerateCopies ==
  ASSUME CopiesInv, RegenerateReply
  PROVE  Copies'
<1>1. PICK s, r, q : s = transcript[screen] /\ r = rows[screen] /\ q = s[Len(s) - 1].to
  OBVIOUS
<1>2. /\ up /\ resend = None /\ ~Working(screen) /\ clock < MaxTurns
      /\ Len(s) >= 2 /\ s[Len(s) - 1].role = "user" /\ s[Len(s)].role = "agent"
      /\ ~s[Len(s)].failed
      /\ turn' = [turn EXCEPT ![screen] = NewTurn("again", q, "running")]
      /\ clock' = clock + 1
      /\ memory' = [memory EXCEPT ![screen] = Append(ToModel(WithoutLastPair(s)), Question(q))]
      /\ UNCHANGED <<up, rows, screen, held, transcript, opened, resend, crashes, reached>>
  BY <1>1 DEF RegenerateReply, Calm, EndsInPair
<1>3. /\ screen \in Chats /\ screen \in held /\ clock \in Nat
      /\ s \in Seq(Messages) /\ r \in Seq(Messages) /\ Len(r) \in Nat /\ Len(s) \in Nat
      /\ Sound(r) /\ AskedBy(r, clock) /\ AskedBy(s, clock) /\ SameEnd(s, r)
      /\ (screen \notin reached => r = s)
  BY <1>1, <1>2, IdleScreen, LenProperties
<1>4. /\ turn \in [Chats -> Turns \cup {None}] /\ memory \in [Chats -> Seq(Messages)]
      /\ clock \in 0 .. MaxTurns /\ Numbers \subseteq Nat
  BY CopiesTypes, <1>3
<1>5. /\ Len(r) >= 2 /\ s[Len(s)] = r[Len(r)] /\ s[Len(s) - 1] = r[Len(r) - 1]
      /\ s[Len(s) - 1] \in Messages
  <2>1. Len(s) >= 1
    BY <1>2, <1>3
  <2>2. QED
    BY <1>2, <1>3, <2>1, EndSeen
<1>6. q \in Numbers /\ q \in Nat
  BY <1>1, <1>4, <1>5 DEF Messages
<1>7. q <= clock
  <2>1. Len(s) - 1 \in DOMAIN s
    <3>1. \A n \in Nat : n >= 2 => n - 1 \in 1 .. n
      OBVIOUS
    <3>2. QED
      BY <1>2, <1>3, <3>1, LenProperties
  <2>2. QED
    BY <1>1, <1>2, <1>3, <2>1 DEF AskedBy
<1>8. /\ NewTurn("again", q, "running") \in Turns /\ NewTurn("again", q, "running") # None
      /\ NewTurn("again", q, "running").kind = "again"
      /\ NewTurn("again", q, "running").stage = "running"
      /\ NewTurn("again", q, "running").to = q
  BY <1>2, <1>4, <1>6, NewTurnType DEF NewTurn
<1>9. turn'[screen] = NewTurn("again", q, "running")
  BY <1>2, <1>3, <1>4
<1>10. Working(screen)' /\ AskedAgain(screen)' /\ turn'[screen].to = q
  BY <1>2, <1>8, <1>9 DEF Working, AskedAgain
<1>11. ~(Begun(screen)') /\ ~(Ended(screen)') /\ ~(Asking(screen)') /\ ~(Answered(screen)')
  BY <1>2, <1>8, <1>9 DEF Begun, Ended, Asking, Answered
<1>12. PICK w : w = ToModel(WithoutLastPair(s))
  OBVIOUS
<1>13. /\ WithoutLastPair(s) \in Seq(Messages) /\ w \in Seq(Messages) /\ AskedBy(w, clock)
  <2>1. WithoutLastPair(s) \in Seq(Messages) /\ AskedBy(WithoutLastPair(s), clock)
    BY <1>2, <1>3, LastPair, WithoutLastPairKeeps
  <2>2. QED
    BY <1>12, <2>1, ToModelType, ToModelAsks
<1>14. memory'[screen] = Append(w, Question(q)) /\ Question(q) \in Messages /\ Question(q).to = q
  BY <1>2, <1>3, <1>4, <1>6, <1>12, MessageTypes DEF Question
<1>15. memory'[screen] \in Seq(Messages) /\ AskedBy(memory'[screen], clock')
  <2>1. clock <= clock + 1 /\ clock + 1 \in Nat /\ q <= clock + 1
    BY <1>3, <1>6, <1>7
  <2>2. QED
    <3>1. Append(w, Question(q)) \in Seq(Messages)
      BY <1>13, <1>14, AppendFacts
    <3>2. AskedBy(Append(w, Question(q)), clock + 1)
      BY <1>3, <1>13, <1>14, <2>1, AskedAppend
    <3>3. QED
      BY <1>2, <1>14, <3>1, <3>2
<1>16. Agreed(screen)'
  <2>1. Staged(screen)' /\ Holding(screen)'
    BY <1>2, <1>3, <1>6, <1>7, <1>10 DEF Staged, Holding
  <2>2. Counted(screen)'
    <3>1. clock <= clock + 1 /\ clock + 1 \in Nat
      BY <1>3
    <3>2. AskedBy(r, clock') /\ AskedBy(s, clock')
      BY <1>2, <1>3, <3>1, AskedByLater
    <3>3. QED
      BY <1>1, <1>2, <1>15, <3>2 DEF Counted
  <2>3. Stored(screen)'
    BY <1>1, <1>2, <1>3, <1>5, <1>11 DEF Stored
  <2>4. Followed(screen)'
    BY <1>1, <1>2, <1>3, <1>5, <1>10, <1>11 DEF Followed
  <2>5. Remembered(screen)'
    <3>1. SUFFICES ASSUME screen \notin reached PROVE Remembered(screen)'
      BY <1>2 DEF Remembered
    <3>2. r = s /\ AskedApart(s)
      BY <1>3, <3>1 DEF Sound
    <3>3. Unasked(WithoutLastPair(s), q)
      BY <1>1, <1>2, <1>3, <3>2, WithoutLastPairKeeps
    <3>4. Unasked(w, q)
      BY <1>12, <1>13, <3>3, ToModelAsks
    <3>5. AskedLast(screen)' /\ AnswersOf(memory'[screen]) = AnswersOf(w)
      <4>1. AnswersOf(memory'[screen]) = AnswersOf(w)
        BY <1>6, <1>13, <1>14, <3>4, AskedLastAppend
      <4>2. AskedLast(screen)'
        <5>1. screen' = screen
          BY <1>2
        <5>2. PICK t : t = Append(w, Question(q))
          OBVIOUS
        <5>3. /\ Len(t) >= 1 /\ t[Len(t)] = Question(q)
              /\ \A i \in DOMAIN t : t[i].role = "user" /\ t[i].to = q => i = Len(t)
          BY <1>6, <1>13, <3>4, <5>2, AskedLastAppend
        <5>4. QED
          BY <1>10, <1>14, <5>1, <5>2, <5>3 DEF AskedLast
      <4>3. QED
        BY <4>1, <4>2
    <3>6. QED
      BY <1>1, <1>2, <1>10, <1>11, <1>12, <3>5 DEF Remembered
  <2>6. QED
    BY <2>1, <2>2, <2>3, <2>4, <2>5 DEF Agreed
<1>17. ASSUME NEW d \in Chats, d # screen PROVE Agreed(d)'
  <2>1. /\ rows'[d] = rows[d] /\ transcript'[d] = transcript[d] /\ memory'[d] = memory[d]
        /\ turn'[d] = turn[d] /\ clock' \in Nat /\ clock' >= clock
    BY <1>2, <1>3, <1>4, <1>17
  <2>2. QED
    BY <1>2, <1>17, <2>1, OffScreenAgreed
<1>18. memory' \in [Chats -> Seq(Messages)]
  BY <1>2, <1>4, <1>14, <1>15
<1>19. QED
  BY <1>2, <1>16, <1>17, <1>18, ResentCalm DEF Copies

(* SwitchVariant shows another answer in the bubble, and tells the memory. *)
LEMMA SwitchVariantCopies ==
  ASSUME CopiesInv, NEW a \in Answers, SwitchVariant(a)
  PROVE  Copies'
<1>1. PICK s, r, live, m : /\ s = transcript[screen] /\ r = rows[screen] /\ live = s[Len(s)]
                           /\ m = Showing(live, a, live.variants)
  OBVIOUS
<1>2. /\ up /\ resend = None /\ ~TurnBusy /\ s # <<>> /\ live.role = "agent" /\ a \in live.variants
      /\ transcript' = [transcript EXCEPT ![screen] = WithLast(@, m)]
      /\ rows' = [rows EXCEPT ![screen] = StoreVariants(@, a, live.variants)]
      /\ memory' = [memory EXCEPT ![screen] = ToModel(transcript'[screen])]
      /\ UNCHANGED <<up, screen, held, opened, turn, resend, clock, crashes, reached>>
  BY <1>1 DEF SwitchVariant, Calm, WithLast
<1>3. screen \in Chats /\ ~Working(screen)
  BY <1>2 DEF CopiesInv, IInv, StoreTypes, TurnBusy
<1>4. /\ screen \in held /\ clock \in Nat
      /\ s \in Seq(Messages) /\ r \in Seq(Messages) /\ Len(r) \in Nat /\ Len(s) \in Nat
      /\ Sound(r) /\ AskedBy(r, clock) /\ AskedBy(s, clock) /\ SameEnd(s, r)
      /\ (screen \notin reached => r = s)
  BY <1>1, <1>2, <1>3, IdleScreen, LenProperties
<1>5. /\ rows \in [Chats -> Seq(Messages)] /\ transcript \in [Chats -> Seq(Messages)]
      /\ memory \in [Chats -> Seq(Messages)]
  BY CopiesTypes, <1>3
<1>6. Len(s) >= 1
  <2>1. Len(s) # 0
    BY <1>2, <1>4, EmptySeq
  <2>2. QED
    BY <1>4, <2>1
<1>7. /\ Len(r) >= 1 /\ live = r[Len(r)] /\ live \in Messages
  BY <1>1, <1>4, <1>6, EndSeen
<1>8. ~live.failed
  <2>1. SUFFICES ASSUME live.failed PROVE FALSE
    OBVIOUS
  <2>2. Len(r) \in DOMAIN r
    BY <1>4, <1>7, LenProperties
  <2>3. live = Failure(r[Len(r) - 1].to)
    BY <1>4, <1>7, <2>1, <2>2 DEF Sound, FailuresPaired
  <2>4. live.variants = {}
    BY <2>3 DEF Failure
  <2>5. QED
    BY <1>2, <2>4
<1>9. live.variants \in SUBSET Answers
  BY <1>7 DEF Messages
<1>10. m \in Messages /\ m.role = "agent" /\ ~m.failed
  BY <1>1, <1>2, <1>7, <1>8, <1>9, ShowingFacts
<1>11. rows'[screen] = WithLast(r, m)
  <2>1. StoreVariants(r, a, live.variants) = WithLast(r, m)
    <3>1. r[Len(r)].role = "agent" /\ m = Showing(r[Len(r)], a, live.variants)
      BY <1>1, <1>2, <1>7
    <3>2. QED
      BY <1>4, <1>7, <3>1, NewestIsLast
  <2>2. QED
    BY <1>1, <1>2, <1>3, <1>5, <2>1
<1>12. transcript'[screen] = WithLast(s, m)
  BY <1>1, <1>2, <1>3, <1>5
<1>13. memory'[screen] = ToModel(transcript'[screen])
  BY <1>2, <1>3, <1>5
<1>14. /\ Sound(rows'[screen]) /\ AskedBy(rows'[screen], clock)
       /\ transcript'[screen] \in Seq(Messages) /\ AskedBy(transcript'[screen], clock)
  <2>1. Sound(WithLast(r, m)) /\ AskedBy(WithLast(r, m), clock)
    BY <1>2, <1>4, <1>7, <1>8, <1>10, ShowLast
  <2>2. WithLast(s, m) \in Seq(Messages) /\ AskedBy(WithLast(s, m), clock)
    BY <1>1, <1>2, <1>4, <1>6, <1>10, ShowLast
  <2>3. QED
    BY <1>11, <1>12, <2>1, <2>2
<1>15. SameEnd(transcript'[screen], rows'[screen])
  BY <1>4, <1>6, <1>10, <1>11, <1>12, SameEndShow
<1>16. memory'[screen] \in Seq(Messages) /\ AskedBy(memory'[screen], clock)
  BY <1>13, <1>14, ToModelType, ToModelAsks
<1>17. Agreed(screen)'
  <2>1. ~(Working(screen)')
    BY <1>2, <1>3 DEF Working
  <2>2. screen \notin reached' => /\ rows'[screen] = transcript'[screen]
                                  /\ AnswersOf(memory'[screen])
                                       = AnswersOf(ToModel(transcript'[screen]))
    BY <1>2, <1>4, <1>11, <1>12, <1>13
  <2>3. QED
    BY <1>2, <1>3, <1>4, <1>14, <1>15, <1>16, <2>1, <2>2, IdleAgreed
<1>18. ASSUME NEW d \in Chats, d # screen PROVE Agreed(d)'
  <2>1. /\ rows'[d] = rows[d] /\ transcript'[d] = transcript[d] /\ memory'[d] = memory[d]
        /\ turn'[d] = turn[d] /\ clock' \in Nat /\ clock' >= clock
    BY <1>2, <1>4, <1>5, <1>18
  <2>2. QED
    BY <1>2, <1>18, <2>1, OffScreenAgreed
<1>19. memory' \in [Chats -> Seq(Messages)]
  BY <1>2, <1>5, <1>13, <1>16
<1>20. QED
  BY <1>2, <1>17, <1>18, <1>19, ResentCalm DEF Copies

(* A question of its own, or one that is sent again.                       *)
LEMMA SendCopies ==
  ASSUME CopiesInv, SendMessage \/ Resend
  PROVE  Copies'
<1>1. /\ up /\ ~Working(screen) /\ clock < MaxTurns /\ resend' = None
      /\ UNCHANGED <<up, rows, screen, held, transcript, memory, opened, crashes, reached>>
  BY DEF SendMessage, Resend, Calm, BeginTurn
<1>2. /\ screen \in Chats /\ clock \in Nat
      /\ rows[screen] \in Seq(Messages) /\ memory[screen] \in Seq(Messages)
      /\ AskedBy(rows[screen], clock) /\ AskedBy(memory[screen], clock)
  BY <1>1, IdleScreen
<1>3. clock + 1 \in Numbers /\ clock + 1 \in Nat /\ clock + 1 > clock /\ clock + 1 <= clock + 1
  BY <1>1, <1>2, TranscriptAssumption DEF Numbers
<1>4. Unasked(rows[screen], clock + 1) /\ Unasked(memory[screen], clock + 1)
  BY <1>2, <1>3, LaterUnasked
<1>5. CASE BeginTurn(clock + 1)
  BY <1>1, <1>3, <1>4, <1>5, BeginTurnCopies
<1>6. CASE Resend /\ resend # 0
  <2>1. BeginTurn(resend) /\ resend \in Numbers /\ resend <= clock + 1
    <3>1. BeginTurn(resend) /\ resend \in Numbers
      BY <1>6 DEF Resend, CopiesInv, IInv, StoreTypes
    <3>2. resend <= clock /\ resend \in Nat
      BY <3>1, TranscriptAssumption DEF CopiesInv, Copies, Resent, Numbers
    <3>3. QED
      BY <1>2, <3>1, <3>2
  <2>2. /\ Unasked(rows[screen], resend)
        /\ screen \notin reached => Unasked(memory[screen], resend)
    BY <2>1 DEF CopiesInv, Copies, Resent
  <2>3. QED
    BY <1>1, <2>1, <2>2, BeginTurnCopies
<1>7. QED
  BY <1>5, <1>6 DEF SendMessage, Resend

(* What is said of a chat holds of an empty one.                           *)
LEMMA EmptySound ==
  /\ Sound(<<>>) /\ (\A n : AskedBy(<<>>, n)) /\ SameEnd(<<>>, <<>>)
  /\ AnswersOf(<<>>) = AnswersOf(ToModel(<<>>))
<1>1. DOMAIN <<>> = {}
  OBVIOUS
<1>2. Sound(<<>>) /\ (\A n : AskedBy(<<>>, n))
  BY <1>1 DEF Sound, AskedApart, FailuresPaired, AskedBy
<1>3. QED
  BY <1>2, SameEndRefl, ToModelEmpty

(* showConversation leaves the chats that work as they are, and lets go of *)
(* one that is left idle.                                                  *)
LEMMA ShowCopies ==
  ASSUME CopiesInv, up, resend = None, NEW c \in Chats, NEW texts, NEW astray,
         NEW minds \in [Chats -> Seq(Messages)], Show(c, texts, minds, astray),
         \A d \in Chats : d # c =>
           /\ rows'[d] = rows[d] \/ (rows'[d] = <<>> /\ ~Working(d))
           /\ texts[d] = transcript[d] /\ minds[d] = memory[d] /\ (d \in reached => d \in astray),
         Agreed(c)',
         UNCHANGED <<up, turn, resend, clock>>
  PROVE  Copies'
<1>1. /\ screen' = c /\ held' = {c} \cup IF Working(screen) THEN held ELSE held \ {screen}
      /\ \A d \in Chats : /\ d \in held' => transcript'[d] = texts[d] /\ memory'[d] = minds[d]
                          /\ d \notin held' => transcript'[d] = <<>> /\ memory'[d] = <<>>
      /\ memory' = [d \in Chats |-> IF d \in held' THEN minds[d] ELSE <<>>]
      /\ reached' = astray \cap held'
  BY DEF Show
<1>2. clock \in Nat /\ <<>> \in Seq(Messages) /\ clock' \in Nat /\ clock' >= clock
  BY CopiesTypes
<1>3. ASSUME NEW d \in Chats, d # c PROVE Agreed(d)'
  <2>1. /\ Holding(d) /\ Stored(d) /\ (Working(d) => d \in held)
        /\ turn'[d] = turn[d] /\ (Working(d)' <=> Working(d))
    BY CopiesTypes DEF Working
  <2>2. CASE d \in held'
    <3>1. d \in held /\ Working(d)
      BY <1>1, <1>3, <2>1, <2>2 DEF Holding
    <3>2. /\ transcript'[d] = transcript[d] /\ memory'[d] = memory[d] /\ rows'[d] = rows[d]
          /\ (d \in reached => d \in reached')
      BY <1>1, <1>3, <2>2, <3>1
    <3>3. Untouched(d)
      BY <2>1, <2>2, <3>1, <3>2 DEF Untouched
    <3>4. QED
      BY <1>2, <3>3, UntouchedAgreed
  <2>3. CASE d \notin held'
    <3>1. ~Working(d)
      BY <1>1, <1>3, <2>1, <2>3
    <3>2. transcript'[d] = <<>> /\ memory'[d] = <<>>
      BY <1>1, <2>3
    <3>3. CASE rows'[d] = rows[d]
      <4>1. Untouched(d)
        BY <2>1, <2>3, <3>1, <3>2, <3>3 DEF Untouched
      <4>2. QED
        BY <1>2, <4>1, UntouchedAgreed
    <3>4. CASE rows'[d] = <<>>
      BY <2>1, <2>3, <3>1, <3>2, <3>4, LetGoAgreed, EmptySound
    <3>5. QED
      BY <1>3, <3>3, <3>4
  <2>4. QED
    BY <2>2, <2>3
<1>4. memory' \in [Chats -> Seq(Messages)]
  BY <1>1, <1>2
<1>5. QED
  BY <1>3, <1>4, ResentCalm DEF Copies

(* A chat is opened from its rows.                                         *)
LEMMA LoadSessionCopies ==
  ASSUME CopiesInv, NEW c \in Chats, LoadSession(c)
  PROVE  Copies'
<1>1. PICK texts, minds : /\ texts = [transcript EXCEPT ![c] = rows[c]]
                          /\ minds = [memory EXCEPT ![c] = ToModel(rows[c])]
  OBVIOUS
<1>2. /\ up /\ resend = None /\ c \notin held /\ Show(c, texts, minds, reached)
      /\ UNCHANGED <<up, rows, turn, resend, clock, crashes>>
  BY <1>1 DEF LoadSession, Calm
<1>3. /\ rows[c] \in Seq(Messages) /\ clock \in Nat /\ (Working(c) => c \in held)
      /\ transcript \in [Chats -> Seq(Messages)] /\ memory \in [Chats -> Seq(Messages)]
      /\ Counted(c) /\ Stored(c)
  BY CopiesTypes
<1>4. Sound(rows[c]) /\ AskedBy(rows[c], clock)
  BY <1>3 DEF Counted, Stored
<1>5. ToModel(rows[c]) \in Seq(Messages) /\ AskedBy(ToModel(rows[c]), clock)
  BY <1>3, <1>4, ToModelType, ToModelAsks
<1>6. /\ minds \in [Chats -> Seq(Messages)]
      /\ texts[c] = rows[c] /\ minds[c] = ToModel(rows[c])
      /\ \A d \in Chats : d # c => texts[d] = transcript[d] /\ minds[d] = memory[d]
  BY <1>1, <1>3, <1>5
<1>7. Agreed(c)'
  <2>1. screen' = c /\ c \in held' /\ transcript'[c] = rows[c] /\ memory'[c] = ToModel(rows[c])
    BY <1>2, <1>6 DEF Show
  <2>2. ~(Working(c)')
    BY <1>2, <1>3 DEF Working
  <2>3. SameEnd(transcript'[c], rows'[c]) /\ rows'[c] = rows[c] /\ clock' = clock
    BY <1>2, <2>1, SameEndRefl
  <2>4. /\ Sound(rows'[c]) /\ AskedBy(rows'[c], clock') /\ AskedBy(transcript'[c], clock')
        /\ AskedBy(memory'[c], clock') /\ rows'[c] = transcript'[c]
        /\ AnswersOf(memory'[c]) = AnswersOf(ToModel(transcript'[c]))
    BY <1>4, <1>5, <2>1, <2>3
  <2>5. QED
    BY <2>1, <2>2, <2>3, <2>4, IdleAgreed
<1>8. QED
  BY <1>2, <1>6, <1>7, ShowCopies

(* A chat that is held is shown again: from its rows, its agent as it is.  *)
LEMMA AttachCopies ==
  ASSUME CopiesInv, NEW c \in Chats, Attach(c)
  PROVE  Copies'
<1>1. PICK texts, astray : /\ texts = [transcript EXCEPT ![c] = rows[c]]
                           /\ astray = IF Working(c) THEN reached \cup {c} ELSE reached
  OBVIOUS
<1>2. /\ up /\ resend = None /\ c \in held /\ Show(c, texts, memory, astray)
      /\ UNCHANGED <<up, rows, turn, resend, clock, crashes>>
  BY <1>1 DEF Attach, Calm
<1>3. /\ rows[c] \in Seq(Messages) /\ clock \in Nat
      /\ transcript \in [Chats -> Seq(Messages)] /\ memory \in [Chats -> Seq(Messages)]
      /\ Staged(c) /\ Holding(c) /\ Counted(c) /\ Stored(c) /\ Followed(c) /\ Remembered(c)
  BY CopiesTypes
<1>4. /\ Sound(rows[c]) /\ AskedBy(rows[c], clock) /\ AskedBy(memory[c], clock)
  BY <1>3 DEF Counted, Stored
<1>5. /\ texts[c] = rows[c] /\ (\A d \in Chats : d # c => texts[d] = transcript[d])
      /\ (\A d \in reached : d \in astray) /\ (~Working(c) => astray = reached)
      /\ (Working(c) => c \in astray)
  BY <1>1, <1>3
<1>6. /\ screen' = c /\ c \in held' /\ transcript'[c] = rows[c] /\ memory'[c] = memory[c]
      /\ reached' = astray \cap held'
  BY <1>2, <1>5 DEF Show
<1>7. /\ rows'[c] = rows[c] /\ turn'[c] = turn[c] /\ clock' = clock
      /\ SameEnd(transcript'[c], rows'[c])
  BY <1>2, <1>6, SameEndRefl
<1>8. ASSUME ~Working(c) PROVE Agreed(c)'
  <2>1. ~(Working(c)') /\ c = screen
    BY <1>2, <1>3, <1>7, <1>8 DEF Working, Holding
  <2>2. c \notin reached => /\ rows[c] = transcript[c]
                            /\ AnswersOf(memory[c]) = AnswersOf(ToModel(transcript[c]))
    BY <1>2, <1>8, <2>1, IdleScreen
  <2>3. c \notin reached' => c \notin reached
    BY <1>5, <1>6
  <2>4. c \notin reached' => /\ rows'[c] = transcript'[c]
                             /\ AnswersOf(memory'[c]) = AnswersOf(ToModel(transcript'[c]))
    BY <1>6, <1>7, <2>2, <2>3
  <2>5. /\ Sound(rows'[c]) /\ AskedBy(rows'[c], clock') /\ AskedBy(transcript'[c], clock')
        /\ AskedBy(memory'[c], clock')
    BY <1>4, <1>6, <1>7
  <2>6. QED
    BY <1>6, <1>7, <2>1, <2>4, <2>5, IdleAgreed
<1>9. ASSUME Working(c) PROVE Agreed(c)'
  <2>1. c \in reached'
    BY <1>5, <1>6, <1>9
  <2>2. /\ (Working(c)' <=> Working(c)) /\ (Begun(c)' <=> Begun(c)) /\ (Ended(c)' <=> Ended(c))
        /\ (Asking(c)' <=> Asking(c)) /\ (AskedAgain(c)' <=> AskedAgain(c))
        /\ Ending(c)' = Ending(c)
    BY <1>7 DEF Working, Begun, Ended, Asking, AskedAgain, Ending
  <2>3. Staged(c)' /\ Holding(c)'
    BY <1>3, <1>6, <1>7, <2>2 DEF Staged, Holding
  <2>4. Counted(c)'
    BY <1>4, <1>6, <1>7 DEF Counted
  <2>5. Stored(c)'
    BY <1>3, <1>7, <2>2 DEF Stored
  <2>6. Followed(c)' /\ Remembered(c)'
    BY <1>7, <2>1 DEF Followed, Remembered
  <2>7. QED
    BY <2>3, <2>4, <2>5, <2>6 DEF Agreed
<1>10. Agreed(c)'
  BY <1>8, <1>9
<1>11. QED
  BY <1>2, <1>3, <1>5, <1>10, ShowCopies

(* A chat nothing has been said in.                                        *)
LEMMA SpareCopies ==
  ASSUME CopiesInv, up, resend = None, NEW c \in Spare, Show(c, transcript, memory, reached),
         \A d \in Chats : rows'[d] = rows[d] \/ (rows'[d] = <<>> /\ ~Working(d)),
         UNCHANGED <<up, turn, resend, clock>>
  PROVE  Copies'
<1>1. c \in Chats /\ rows[c] = <<>> /\ c \notin held
  BY DEF Spare
<1>2. /\ memory \in [Chats -> Seq(Messages)] /\ Holding(c) /\ (Working(c) => c \in held)
  BY <1>1, CopiesTypes
<1>3. transcript[c] = <<>> /\ memory[c] = <<>> /\ rows'[c] = <<>>
  BY <1>1, <1>2 DEF Holding
<1>4. screen' = c /\ c \in held' /\ transcript'[c] = <<>> /\ memory'[c] = <<>>
  BY <1>1, <1>3 DEF Show
<1>5. ~(Working(c)')
  BY <1>1, <1>2 DEF Working
<1>6. Agreed(c)'
  BY <1>1, <1>3, <1>4, <1>5, EmptySound, IdleAgreed
<1>7. QED
  BY <1>1, <1>2, <1>6, ShowCopies

(* A chat that is deleted is empty, and a new one takes its place on       *)
(* screen.                                                                 *)
LEMMA DeleteSessionCopies ==
  ASSUME CopiesInv, NEW c \in Chats, DeleteSession(c)
  PROVE  Copies'
<1>1. /\ up /\ resend = None /\ ~Working(c) /\ rows' = [rows EXCEPT ![c] = <<>>]
      /\ UNCHANGED <<up, turn, resend, clock, crashes>>
  BY DEF DeleteSession, Calm
<1>2. /\ rows \in [Chats -> Seq(Messages)] /\ memory \in [Chats -> Seq(Messages)]
      /\ Holding(c) /\ clock \in Nat
  BY CopiesTypes
<1>3. rows'[c] = <<>> /\ \A d \in Chats : d # c => rows'[d] = rows[d]
  BY <1>1, <1>2
<1>4. CASE c = screen
  <2>1. PICK d \in Spare : Show(d, transcript, memory, reached)
    BY <1>4 DEF DeleteSession
  <2>2. \A e \in Chats : rows'[e] = rows[e] \/ (rows'[e] = <<>> /\ ~Working(e))
    BY <1>1, <1>3
  <2>3. QED
    BY <1>1, <2>1, <2>2, SpareCopies
<1>5. CASE c # screen
  <2>1. UNCHANGED <<screen, held, transcript, memory, opened, reached>>
    BY <1>5 DEF DeleteSession
  <2>2. c \notin held /\ transcript[c] = <<>> /\ memory[c] = <<>>
    BY <1>1, <1>2, <1>5 DEF Holding
  <2>3. Agreed(c)'
    <3>1. ~(Working(c)')
      BY <1>1 DEF Working
    <3>2. QED
      BY <1>3, <2>1, <2>2, <3>1, EmptySound, LetGoAgreed
  <2>4. ASSUME NEW d \in Chats, d # c PROVE Agreed(d)'
    <3>1. rows'[d] = rows[d] /\ turn'[d] = turn[d] /\ Holding(d) /\ (Working(d) => d \in held)
      BY <1>1, <1>3, <2>4, CopiesTypes
    <3>2. Untouched(d)
      BY <1>1, <2>1, <3>1 DEF Untouched, Holding
    <3>3. clock' \in Nat /\ clock' >= clock
      BY <1>1, <1>2
    <3>4. QED
      BY <3>2, <3>3, UntouchedAgreed
  <2>5. memory' \in [Chats -> Seq(Messages)] /\ resend' = None
    BY <1>1, <1>2, <2>1
  <2>6. QED
    BY <2>3, <2>4, <2>5, ResentCalm DEF Copies
<1>6. QED
  BY <1>4, <1>5

-----------------------------------------------------------------------------
(* So do a crash and a launch, and every step.                             *)

LEMMA InitCopies == Init => Copies
<1> SUFFICES ASSUME Init PROVE Copies
  OBVIOUS
<1>1. /\ <<>> \in Seq(Messages) /\ screen \in held /\ clock = 0 /\ resend = None
      /\ reached = {} /\ held = {screen}
      /\ \A c \in Chats : rows[c] = <<>> /\ transcript[c] = <<>> /\ memory[c] = <<>> /\ ~Working(c)
  BY DEF Init, Working
<1>2. memory \in [Chats -> Seq(Messages)]
  BY <1>1 DEF Init
<1>3. Resent
  BY <1>1, TranscriptAssumption DEF Resent
<1>4. ASSUME NEW c \in Chats PROVE Agreed(c)
  <2>1. ~Begun(c) /\ ~Ended(c) /\ ~Asking(c) /\ ~AskedAgain(c) /\ ~Answered(c)
    BY <1>1 DEF Begun, Ended, Asking, AskedAgain, Answered
  <2>2. Staged(c) /\ Holding(c)
    BY <1>1 DEF Staged, Holding
  <2>3. Counted(c) /\ Stored(c)
    BY <1>1, <2>1, EmptySound DEF Counted, Stored
  <2>4. Followed(c) /\ Remembered(c)
    BY <1>1, <2>1, EmptySound DEF Followed, Remembered
  <2>5. QED
    BY <2>2, <2>3, <2>4 DEF Agreed
<1>5. QED
  BY <1>2, <1>3, <1>4 DEF Copies

(* What dies with the process leaves rows that are sound.                  *)
LEMMA CrashCopies ==
  ASSUME CopiesInv, Crash
  PROVE  Copies'
<1>1. /\ held' = {} /\ resend' = None /\ rows' = rows /\ clock' = clock
      /\ \A c \in Chats : /\ transcript'[c] = <<>> /\ memory'[c] = <<>> /\ ~(Working(c)')
      /\ memory' = [c \in Chats |-> <<>>]
  BY DEF Crash, Working
<1>2. ASSUME NEW c \in Chats PROVE Agreed(c)'
  <2>1. Sound(rows[c]) /\ AskedBy(rows[c], clock)
    BY CopiesTypes DEF Stored, Counted
  <2>2. QED
    BY <1>1, <2>1, LetGoAgreed
<1>3. memory' \in [Chats -> Seq(Messages)]
  <2>1. <<>> \in Seq(Messages)
    OBVIOUS
  <2>2. QED
    BY <1>1, <2>1
<1>4. QED
  BY <1>1, <1>2, <1>3, ResentCalm DEF Copies

(* The next launch finds nothing in memory, and closes what was cut off.   *)
LEMMA LaunchCopies ==
  ASSUME CopiesInv, Launch
  PROVE  Copies'
<1>1. /\ ~up /\ rows' = InterruptedTurnsClosed /\ screen' \in Spare /\ held' = {screen'}
      /\ UNCHANGED <<transcript, memory, opened, turn, resend, clock, crashes, reached>>
  BY DEF Launch
<1>2. held = {} /\ resend = None
  BY <1>1 DEF CopiesInv, IInv, Flags, Copies, Resent
<1>3. ASSUME NEW c \in Chats
      PROVE  /\ ~(Working(c)') /\ transcript'[c] = <<>> /\ memory'[c] = <<>>
             /\ Sound(rows'[c]) /\ AskedBy(rows'[c], clock')
  <2>1. /\ Holding(c) /\ Stored(c) /\ Counted(c) /\ (Working(c) => c \in held)
        /\ rows[c] \in Seq(Messages) /\ clock \in Nat
    BY CopiesTypes
  <2>2. ~(Working(c)') /\ transcript'[c] = <<>> /\ memory'[c] = <<>>
    BY <1>1, <1>2, <2>1 DEF Working, Holding
  <2>3. Sound(rows[c]) /\ AskedBy(rows[c], clock)
    BY <2>1 DEF Stored, Counted
  <2>4. PICK q : q = rows[c][Len(rows[c])].to
    OBVIOUS
  <2>5. CASE rows'[c] = rows[c]
    BY <1>1, <2>2, <2>3, <2>5
  <2>6. CASE rows[c] # <<>> /\ rows'[c] = Append(rows[c], Failure(q))
    <3>1. Len(rows[c]) >= 1 /\ q \in Numbers
      <4>1. Len(rows[c]) \in Nat /\ Len(rows[c]) # 0
        BY <2>1, <2>6, EmptySeq, LenProperties
      <4>2. rows[c][Len(rows[c])] \in Messages
        BY <2>1, <4>1, LenProperties
      <4>3. QED
        BY <2>4, <4>1, <4>2 DEF Messages
    <3>2. Failure(q) \in Messages /\ Failure(q).role = "agent"
      BY <3>1, MessageTypes
    <3>3. AskedBy(Append(rows[c], Failure(q)), clock)
      <4>1. clock <= clock
        BY <2>1
      <4>2. QED
        BY <2>1, <2>3, <3>2, <4>1, AskedAppend
    <3>4. AskedApart(Append(rows[c], Failure(q)))
      BY <2>1, <2>3, <3>2, AskedAppend DEF Sound
    <3>5. FailuresPaired(Append(rows[c], Failure(q)))
      BY <2>1, <2>3, <2>4, <3>1, <3>2, FailuresAppend DEF Sound
    <3>6. QED
      BY <1>1, <2>2, <2>6, <3>3, <3>4, <3>5 DEF Sound
  <2>7. QED
    BY <1>1, <2>4, <2>5, <2>6 DEF InterruptedTurnsClosed
<1>4. ASSUME NEW c \in Chats PROVE Agreed(c)'
  <2>1. CASE c # screen'
    <3>1. c \notin held'
      BY <1>1, <2>1
    <3>2. QED
      BY <1>3, <3>1, LetGoAgreed
  <2>2. CASE c = screen'
    <3>1. rows'[c] = <<>> /\ c \in held'
      BY <1>1, <2>2 DEF Spare, InterruptedTurnsClosed
    <3>2. QED
      BY <1>3, <2>2, <3>1, EmptySound, IdleAgreed
  <2>3. QED
    BY <2>1, <2>2
<1>5. memory' \in [Chats -> Seq(Messages)]
  BY <1>1 DEF CopiesInv, Copies
<1>6. resend' = None
  BY <1>1, <1>2
<1>7. QED
  BY <1>4, <1>5, <1>6, ResentCalm DEF Copies

(* appendTurn and appendFailedTurn.                                        *)
LEMMA AppendCopies ==
  ASSUME CopiesInv, NEW c \in Chats, AppendTurn(c) \/ AppendFailedTurn(c)
  PROVE  Copies'
<1>1. /\ Working(c) /\ turn[c].kind = "send" /\ turn[c].stage = "running"
      /\ UNCHANGED <<up, screen, held, transcript, resend, clock, crashes, reached>>
  BY DEF AppendTurn, AppendFailedTurn, Advance
<1>2. /\ turn[c].to \in Numbers /\ turn[c].by \in Numbers /\ rows[c] \in Seq(Messages)
      /\ rows \in [Chats -> Seq(Messages)] /\ memory \in [Chats -> Seq(Messages)]
  BY <1>1, CopiesTypes
<1>3. Answer(turn[c].to, turn[c].by) \in Messages /\ Failure(turn[c].to) \in Messages
  BY <1>2, MessageTypes
<1>4. CASE AppendTurn(c)
  <2>1. c \in opened
    BY <1>1 DEF CopiesInv, IInv, Flags, Asking
  <2>2. Append(Pending(c), Answer(turn[c].to, turn[c].by)) = <<Answer(turn[c].to, turn[c].by)>>
    BY <2>1 DEF Pending
  <2>3. rows[c] \o <<Answer(turn[c].to, turn[c].by)>>
          = Append(rows[c], Answer(turn[c].to, turn[c].by))
    BY <1>2, <1>3
  <2>4. PICK a : a = Answer(turn[c].to, turn[c].by)
    OBVIOUS
  <2>5. /\ rows' = [rows EXCEPT ![c] = Append(rows[c], a)]
        /\ memory' = [memory EXCEPT ![c] = Append(memory[c], a)]
        /\ Advance(c, "running", "answered")
    BY <1>2, <1>4, <2>2, <2>3, <2>4 DEF AppendTurn
  <2>6. a \in Messages /\ "answered" # "failed"
    BY <1>3, <2>4
  <2>7. QED
    BY <1>1, <2>4, <2>5, <2>6, EndingCopies
<1>5. CASE AppendFailedTurn(c)
  <2>1. PICK a : a = Failure(turn[c].to)
    OBVIOUS
  <2>2. /\ rows' = [rows EXCEPT ![c] = Append(rows[c], a)] /\ memory' = memory
        /\ Advance(c, "running", "failed") /\ a \in Messages
    BY <1>2, <1>3, <1>5, <2>1 DEF AppendFailedTurn
  <2>3. QED
    BY <1>1, <2>1, <2>2, EndingCopies
<1>6. QED
  BY <1>4, <1>5

(* RetryFailedTurn and ResendEdited.                                       *)
LEMMA DropCopies ==
  ASSUME CopiesInv, RetryFailedTurn \/ ResendEdited
  PROVE  Copies'
<1>1. /\ up /\ resend = None /\ ~TurnBusy /\ DropLastTurn /\ Len(transcript[screen]) >= 2
      /\ UNCHANGED <<up, screen, held, opened, turn, clock, crashes, reached>>
  BY DEF RetryFailedTurn, ResendEdited, Calm, EndsInFailure, EndsInPair
<1>2. CASE resend' = 0
  BY <1>1, <1>2, DropLastTurnCopies
<1>3. CASE RetryFailedTurn /\ resend' # 0
  <2>1. /\ transcript[screen][Len(transcript[screen])].failed
        /\ resend' = transcript[screen][Len(transcript[screen])].to
    BY <1>3 DEF RetryFailedTurn, EndsInFailure
  <2>2. resend' \in Numbers
    <3>1. transcript[screen] \in Seq(Messages)
      BY DEF CopiesInv, IInv, StoreTypes
    <3>2. transcript[screen][Len(transcript[screen])] \in Messages
      BY <1>1, <3>1, LenProperties
    <3>3. QED
      BY <2>1, <3>2 DEF Messages
  <2>3. QED
    BY <1>1, <2>1, <2>2, DropLastTurnCopies
<1>4. QED
  BY <1>2, <1>3 DEF ResendEdited

(* Every step keeps the three copies of every chat together.               *)
LEMMA StepCopies == CopiesInv /\ [Next]_vars => Copies'
<1> SUFFICES ASSUME CopiesInv, [Next]_vars PROVE Copies'
  OBVIOUS
<1>1. CASE WindowStep
  <2>1. ASSUME NEW c \in Chats, NewSession(c) PROVE Copies'
    <3>1. /\ up /\ resend = None /\ c \in Spare /\ Show(c, transcript, memory, reached)
          /\ UNCHANGED <<up, rows, turn, resend, clock, crashes>>
      BY <2>1 DEF NewSession, Calm
    <3>2. QED
      BY <3>1, SpareCopies
  <2>2. QED
    BY <1>1, <2>1, SendCopies, DropCopies, RegenerateCopies, SwitchVariantCopies,
       LoadSessionCopies, AttachCopies, DeleteSessionCopies DEF WindowStep
<1>2. CASE Resend
  BY <1>2, SendCopies
<1>3. ASSUME NEW c \in Chats, TurnStep(c) PROVE Copies'
  BY <1>3, OpenTurnCopies, AppendCopies, FinishCopies, StoreAgainCopies, PanicAgainCopies,
     FailAgainCopies DEF TurnStep
<1>4. CASE Crash
  BY <1>4, CrashCopies
<1>5. CASE Launch
  BY <1>5, LaunchCopies
<1>6. CASE UNCHANGED vars
  BY <1>6 DEF vars, inMemory, CopiesInv, Copies, Resent, TurnBusy, Agreed, Staged, Holding, Counted,
     Stored, Followed, Remembered, AskedLast, Begun, Ended, Answered, Asking, AskedAgain, Ending,
     Working
<1>7. QED
  BY <1>1, <1>2, <1>3, <1>4, <1>5, <1>6 DEF Next

(* The invariant holds.                                                    *)
LEMMA CopiesHold == Spec => []CopiesInv
<1>1. Init => CopiesInv
  BY InitIInv, InitCopies DEF CopiesInv
<1>2. CopiesInv /\ [Next]_vars => CopiesInv'
  BY StepIInv, StepCopies DEF CopiesInv
<1>3. QED
  BY <1>1, <1>2, PTL DEF Spec

-----------------------------------------------------------------------------
(* What is kept of the answers.                                            *)

(* The answers a sequence of messages keeps, one by one.                   *)
LEMMA KeptMember ==
  ASSUME NEW s, NEW v
  PROVE  v \in Kept(s) <=> \E i \in DOMAIN s : /\ s[i].role = "agent" /\ ~s[i].failed
                                               /\ v \in VariantsOf(s[i])
  BY DEF Kept

(* What is appended takes no answer away.                                  *)
LEMMA KeptAppend ==
  ASSUME NEW s \in Seq(Messages), NEW m \in Messages
  PROVE  Kept(s) \subseteq Kept(Append(s, m))
<1>1. PICK t : t = Append(s, m)
  OBVIOUS
<1>2. \A i \in DOMAIN s : i \in DOMAIN t /\ t[i] = s[i]
  BY <1>1, AppendFacts
<1>3. QED
  BY <1>1, <1>2, KeptMember

(* Nor is one taken with a pair that failed.                               *)
LEMMA KeptWithoutFailure ==
  ASSUME NEW s \in Seq(Messages), Len(s) >= 2, s[Len(s)].failed, s[Len(s) - 1].role = "user"
  PROVE  Kept(s) \subseteq Kept(WithoutLastPair(s))
<1>1. PICK w : w = WithoutLastPair(s)
  OBVIOUS
<1>2. w \in Seq(Messages) /\ Len(w) = Len(s) - 2 /\ \A i \in 1 .. Len(s) - 2 : w[i] = s[i]
  BY <1>1, LastPair
<1>3. DOMAIN w = 1 .. Len(s) - 2 /\ DOMAIN s = 1 .. Len(s) /\ Len(s) \in Nat
  BY <1>2, LenProperties
<1>4. ASSUME NEW i \in DOMAIN s, s[i].role = "agent", ~s[i].failed PROVE i \in DOMAIN w
  <2>1. i # Len(s) /\ i # Len(s) - 1
    BY <1>4
  <2>2. \A n \in Nat : \A k \in 1 .. n : k # n /\ k # n - 1 => k \in 1 .. n - 2
    OBVIOUS
  <2>3. QED
    BY <1>3, <2>1, <2>2
<1>5. \A i \in DOMAIN s : s[i].role = "agent" /\ ~s[i].failed => i \in DOMAIN w /\ w[i] = s[i]
  BY <1>2, <1>3, <1>4
<1>6. QED
  BY <1>1, <1>5, KeptMember

(* Nor by another answer in the last bubble, if it brings the list.        *)
LEMMA KeptShown ==
  ASSUME NEW s \in Seq(Messages), NEW m \in Messages, Len(s) >= 1, s[Len(s)].role = "agent",
         m.role = "agent", ~m.failed, VariantsOf(s[Len(s)]) \subseteq VariantsOf(m)
  PROVE  Kept(s) \subseteq Kept(WithLast(s, m))
<1>1. PICK t : t = WithLast(s, m)
  OBVIOUS
<1>2. t \in Seq(Messages) /\ Len(t) = Len(s) /\ t[Len(s)] = m /\ \A i \in 1 .. Len(s) - 1 : t[i] = s[i]
  BY <1>1, ShowLast
<1>3. DOMAIN t = 1 .. Len(s) /\ DOMAIN s = 1 .. Len(s) /\ Len(s) \in Nat
  BY <1>2, LenProperties
<1>4. \A i \in DOMAIN s : i \in DOMAIN t /\ (i = Len(s) \/ t[i] = s[i])
  <2>1. \A n \in Nat : \A k \in 1 .. n : k # n => k \in 1 .. n - 1
    OBVIOUS
  <2>2. QED
    BY <1>2, <1>3, <2>1
<1>5. ASSUME NEW v \in Kept(s) PROVE v \in Kept(t)
  <2>1. PICK i \in DOMAIN s : s[i].role = "agent" /\ ~s[i].failed /\ v \in VariantsOf(s[i])
    BY <1>5, KeptMember
  <2>2. t[i].role = "agent" /\ ~t[i].failed /\ v \in VariantsOf(t[i]) /\ i \in DOMAIN t
    BY <1>2, <1>4, <2>1
  <2>3. QED
    BY <2>2, KeptMember
<1>6. QED
  BY <1>1, <1>5

(* What a turn writes, and what the repair writes, is appended.            *)
LEMMA WritingKeeps ==
  ASSUME CopiesInv, NEW c \in Chats,
         OpenTurn(c) \/ AppendTurn(c) \/ AppendFailedTurn(c) \/ Launch
  PROVE  \A d \in Chats : AnswersStay(d)
<1>1. \A d \in Chats : rows[d] \in Seq(Messages)
  BY DEF CopiesInv, IInv, StoreTypes
<1>2. \A d \in Chats : rows'[d] = rows[d] \/ \E m \in Messages : rows'[d] = Append(rows[d], m)
  <2>1. ASSUME ~Launch
        PROVE  \E m \in Messages : rows' = [rows EXCEPT ![c] = Append(rows[c], m)]
    <3>1. /\ Working(c) /\ turn[c].kind = "send"
          /\ (~OpenTurn(c) => turn[c].stage = "running")
      BY <2>1 DEF OpenTurn, AppendTurn, AppendFailedTurn, Advance
    <3>2. turn[c].to \in Numbers /\ turn[c].by \in Numbers
      BY <3>1, CopiesTypes
    <3>3. /\ Question(turn[c].to) \in Messages /\ Failure(turn[c].to) \in Messages
          /\ Answer(turn[c].to, turn[c].by) \in Messages
      BY <3>2, MessageTypes
    <3>4. CASE OpenTurn(c)
      BY <3>3, <3>4 DEF OpenTurn
    <3>5. CASE AppendTurn(c)
      <4>1. c \in opened
        BY <3>1, <3>5 DEF AppendTurn, Advance, CopiesInv, IInv, Flags, Asking
      <4>2. Append(Pending(c), Answer(turn[c].to, turn[c].by)) = <<Answer(turn[c].to, turn[c].by)>>
        BY <4>1 DEF Pending
      <4>3. rows[c] \o <<Answer(turn[c].to, turn[c].by)>>
              = Append(rows[c], Answer(turn[c].to, turn[c].by))
        BY <1>1, <3>3
      <4>4. QED
        BY <3>3, <3>5, <4>2, <4>3 DEF AppendTurn
    <3>6. CASE AppendFailedTurn(c)
      BY <3>3, <3>6 DEF AppendFailedTurn
    <3>7. QED
      BY <2>1, <3>4, <3>5, <3>6
  <2>2. ASSUME Launch, NEW d \in Chats
        PROVE  rows'[d] = rows[d] \/ \E m \in Messages : rows'[d] = Append(rows[d], m)
    <3>1. rows' = InterruptedTurnsClosed
      BY <2>2 DEF Launch
    <3>2. CASE rows[d] # <<>>
      <4>1. Len(rows[d]) \in Nat /\ Len(rows[d]) # 0
        BY <1>1, <3>2, EmptySeq, LenProperties
      <4>2. rows[d][Len(rows[d])] \in Messages
        BY <1>1, <4>1, LenProperties
      <4>3. Failure(rows[d][Len(rows[d])].to) \in Messages
        BY <4>2, MessageTypes DEF Messages
      <4>4. QED
        BY <3>1, <4>3 DEF InterruptedTurnsClosed
    <3>3. CASE rows[d] = <<>>
      BY <3>1, <3>3 DEF InterruptedTurnsClosed
    <3>4. QED
      BY <3>2, <3>3
  <2>3. QED
    BY <2>1, <2>2 DEF CopiesInv, IInv, StoreTypes
<1>3. QED
  BY <1>1, <1>2, KeptAppend DEF AnswersStay

(* What a retry takes out of the rows is a pair that failed.               *)
LEMMA RetryKeeps ==
  ASSUME CopiesInv, RetryFailedTurn
  PROVE  \A d \in Chats : AnswersStay(d)
<1>1. PICK s, r : s = transcript[screen] /\ r = rows[screen]
  OBVIOUS
<1>2. /\ up /\ resend = None /\ ~TurnBusy /\ Len(s) >= 2 /\ s[Len(s)].failed
      /\ rows' = [rows EXCEPT ![screen] = WithoutLastPair(r)]
  BY <1>1 DEF RetryFailedTurn, Calm, EndsInFailure, DropLastTurn
<1>3. screen \in Chats /\ ~Working(screen)
  BY <1>2 DEF CopiesInv, IInv, StoreTypes, TurnBusy
<1>4. /\ s \in Seq(Messages) /\ r \in Seq(Messages) /\ Len(r) \in Nat /\ Len(s) \in Nat
      /\ SameEnd(s, r) /\ Alternates(r) /\ Len(r) % 2 = 0
  BY <1>1, <1>2, <1>3, IdleScreen, LenProperties
<1>5. Len(r) >= 2 /\ r[Len(r)].failed
  <2>1. Len(s) >= 1
    BY <1>2, <1>4
  <2>2. QED
    BY <1>2, <1>4, <2>1, EndSeen
<1>6. r[Len(r) - 1].role = "user"
  <2>1. \A n \in Nat : n >= 2 /\ n % 2 = 0 => n - 1 \in 1 .. n /\ (n - 1) % 2 = 1
    OBVIOUS
  <2>2. Len(r) - 1 \in DOMAIN r /\ (Len(r) - 1) % 2 = 1
    BY <1>4, <1>5, <2>1, LenProperties
  <2>3. QED
    BY <1>4, <2>2 DEF Alternates
<1>7. Kept(r) \subseteq Kept(WithoutLastPair(r))
  BY <1>4, <1>5, <1>6, KeptWithoutFailure
<1>8. rows \in [Chats -> Seq(Messages)]
  BY DEF CopiesInv, IInv, StoreTypes
<1>9. QED
  BY <1>1, <1>2, <1>3, <1>7, <1>8 DEF AnswersStay

(* A bubble that shows another answer has the list it was chosen from.     *)
LEMMA SwitchKeeps ==
  ASSUME CopiesInv, NEW a \in Answers, SwitchVariant(a)
  PROVE  \A d \in Chats : AnswersStay(d)
<1>1. PICK s, r, live, m : /\ s = transcript[screen] /\ r = rows[screen] /\ live = s[Len(s)]
                           /\ m = Showing(live, a, live.variants)
  OBVIOUS
<1>2. /\ up /\ resend = None /\ ~TurnBusy /\ s # <<>> /\ live.role = "agent" /\ a \in live.variants
      /\ rows' = [rows EXCEPT ![screen] = StoreVariants(r, a, live.variants)]
  BY <1>1 DEF SwitchVariant, Calm
<1>3. screen \in Chats /\ ~Working(screen) /\ rows \in [Chats -> Seq(Messages)]
  BY <1>2 DEF CopiesInv, IInv, StoreTypes, TurnBusy
<1>4. /\ s \in Seq(Messages) /\ r \in Seq(Messages) /\ Len(r) \in Nat /\ Len(s) \in Nat
      /\ SameEnd(s, r) /\ Sound(r)
  BY <1>1, <1>2, <1>3, IdleScreen, LenProperties
<1>5. Len(r) >= 1 /\ live = r[Len(r)] /\ live \in Messages
  <2>1. Len(s) >= 1
    BY <1>2, <1>4, EmptySeq
  <2>2. QED
    BY <1>1, <1>4, <2>1, EndSeen
<1>6. ~live.failed
  <2>1. SUFFICES ASSUME live.failed PROVE FALSE
    OBVIOUS
  <2>2. Len(r) \in DOMAIN r
    BY <1>4, <1>5, LenProperties
  <2>3. live = Failure(r[Len(r) - 1].to)
    BY <1>4, <1>5, <2>1, <2>2 DEF Sound, FailuresPaired
  <2>4. live.variants = {}
    BY <2>3 DEF Failure
  <2>5. QED
    BY <1>2, <2>4
<1>7. live.variants \in SUBSET Answers
  BY <1>5 DEF Messages
<1>8. m \in Messages /\ m.role = "agent" /\ ~m.failed /\ m.variants = live.variants
  BY <1>1, <1>2, <1>5, <1>6, <1>7, ShowingFacts
<1>9. StoreVariants(r, a, live.variants) = WithLast(r, m)
  <2>1. r[Len(r)].role = "agent" /\ m = Showing(r[Len(r)], a, live.variants)
    BY <1>1, <1>2, <1>5
  <2>2. QED
    BY <1>4, <1>5, <2>1, NewestIsLast
<1>10. VariantsOf(r[Len(r)]) \subseteq VariantsOf(m)
  BY <1>2, <1>5, <1>8 DEF VariantsOf
<1>11. Kept(r) \subseteq Kept(WithLast(r, m))
  BY <1>2, <1>4, <1>5, <1>8, <1>10, KeptShown
<1>12. QED
  BY <1>1, <1>2, <1>3, <1>9, <1>11 DEF AnswersStay

(* A second answer on screen is put beside the first.                      *)
LEMMA StoreAgainKeeps ==
  ASSUME CopiesInv, StoreAgain(screen)
  PROVE  \A d \in Chats : AnswersStay(d)
<1>1. PICK s, r, new, live, all, m :
        /\ s = transcript[screen] /\ r = rows[screen]
        /\ new = [to |-> turn[screen].to, by |-> turn[screen].by]
        /\ live = s[Len(s)] /\ all = VariantsOf(live) \cup {new} /\ m = Showing(live, new, all)
  OBVIOUS
<1>2. /\ AskedAgain(screen) /\ s # <<>>
      /\ rows' = [rows EXCEPT ![screen] = StoreVariants(r, new, all)]
  BY <1>1 DEF StoreAgain
<1>3. screen \in Chats /\ rows \in [Chats -> Seq(Messages)] /\ s \in Seq(Messages)
  BY <1>1 DEF CopiesInv, IInv, StoreTypes
<1>4. /\ turn[screen].to \in Numbers /\ turn[screen].by \in Numbers
      /\ r \in Seq(Messages) /\ Len(r) >= 2 /\ Len(r) \in Nat
      /\ r[Len(r)].role = "agent" /\ ~r[Len(r)].failed /\ SameEnd(s, r)
  BY <1>1, <1>2, <1>3, AskedAgainEnd
<1>5. Len(r) >= 1 /\ live = r[Len(r)] /\ live \in Messages
  <2>1. Len(s) >= 1
    BY <1>2, <1>3, EmptySeq, LenProperties
  <2>2. QED
    BY <1>1, <1>3, <1>4, <2>1, EndSeen
<1>6. new \in Answers
  BY <1>1, <1>4, TranscriptAssumption DEF Answers, Numbers
<1>7. all \in SUBSET Answers
  BY <1>1, <1>5, <1>6, ShowingType
<1>8. m \in Messages /\ m.role = "agent" /\ ~m.failed /\ m.variants = all
  BY <1>1, <1>4, <1>5, <1>6, <1>7, ShowingFacts
<1>9. StoreVariants(r, new, all) = WithLast(r, m)
  <2>1. m = Showing(r[Len(r)], new, all)
    BY <1>1, <1>5
  <2>2. QED
    BY <1>4, <1>5, <2>1, NewestIsLast
<1>10. VariantsOf(r[Len(r)]) \subseteq VariantsOf(m)
  <2>1. all # {}
    BY <1>1
  <2>2. VariantsOf(m) = all
    BY <1>8, <2>1 DEF VariantsOf
  <2>3. QED
    BY <1>1, <1>5, <2>2
<1>11. Kept(r) \subseteq Kept(WithLast(r, m))
  BY <1>4, <1>5, <1>8, <1>10, KeptShown
<1>12. QED
  BY <1>1, <1>2, <1>3, <1>9, <1>11 DEF AnswersStay

-----------------------------------------------------------------------------
(* The theorems.                                                           *)

(***************************************************************************)
(* What the store, the conversations and the turns of Transcript hold is   *)
(* what the calls of the engine can put there.                             *)
(***************************************************************************)
THEOREM TranscriptTyping == Spec => []StoreTypes
<1>1. IInv => StoreTypes
  BY DEF IInv
<1>2. QED
  BY InitIInv, StepIInv, <1>1, PTL DEF Spec

(***************************************************************************)
(* Whatever is retried, edited, answered again, left, deleted or cut off   *)
(* by a crash, the rows of every session are pairs of a question and its   *)
(* ending, but for the question a turn is answering: the pairing every     *)
(* reader of the store relies on (appendFailedTurn, lastQuestion).         *)
(***************************************************************************)
THEOREM PairsInTheStore == Spec => []RowsArePairs
<1>1. IInv => RowsArePairs
  BY DEF IInv
<1>2. QED
  BY InitIInv, StepIInv, <1>1, PTL DEF Spec

(***************************************************************************)
(* In a chat where nothing is under way the transcript is what the rows    *)
(* say, and the answers the agent remembers are those it shows: the three  *)
(* copies the engine keeps agree through retries, edits, second answers,   *)
(* failures, closed windows and crashes, however many chats and turns      *)
(* there are (restoreContext, LoadSession, endTurn). Excepted are the      *)
(* chats another call reached into while their turn worked.                *)
(***************************************************************************)
THEOREM CopiesAgree == Spec => []ThreeCopiesAgree
<1>1. ASSUME CopiesInv PROVE ThreeCopiesAgree
  <2>1. SUFFICES ASSUME NEW c \in held \ reached, ~Working(c)
                 PROVE  /\ transcript[c] = rows[c]
                        /\ AnswersOf(memory[c]) = AnswersOf(ToModel(transcript[c]))
    BY DEF ThreeCopiesAgree
  <2>2. c \in Chats
    BY <1>1 DEF CopiesInv, IInv, StoreTypes
  <2>3. Followed(c) /\ Remembered(c)
    BY <1>1, <2>2, CopiesTypes
  <2>4. ~Asking(c) /\ ~Ended(c) /\ ~Answered(c) /\ ~AskedAgain(c)
    BY <2>1 DEF Asking, Ended, Answered, AskedAgain
  <2>5. QED
    BY <2>3, <2>4 DEF Followed, Remembered
<1>2. QED
  BY CopiesHold, <1>1, PTL

(***************************************************************************)
(* A question stands in the memory its turn is answered from exactly once, *)
(* whether it is new, sent again after a failure, edited or asked for a    *)
(* second answer (OpenTurn, RegenerateReply, dropLastTurnRows). Excepted   *)
(* are the chats another call reached into while their turn worked: one    *)
(* read again (Attach), or one whose memory the failed second answer of    *)
(* another chat rebuilt (FailAgain), which may lose the question.          *)
(***************************************************************************)
THEOREM AskedOnceUnlessReached == Spec => []AskedOnce
<1>1. ASSUME CopiesInv PROVE AskedOnce
  <2>1. SUFFICES ASSUME NEW c \in Chats \ reached, Working(c), turn[c].stage = "running"
                 PROVE  Cardinality({i \in DOMAIN memory[c] :
                                       memory[c][i] = Question(turn[c].to)}) = 1
    BY DEF AskedOnce
  <2>2. /\ Staged(c) /\ Remembered(c) /\ c \in held /\ turn[c].to \in Numbers
        /\ memory[c] \in Seq(Messages)
    BY <1>1, <2>1, CopiesTypes
  <2>3. AskedLast(c)
    BY <2>1, <2>2 DEF Staged, Remembered, Begun, Ended
  <2>4. Question(turn[c].to).role = "user" /\ Question(turn[c].to).to = turn[c].to
    BY DEF Question
  <2>5. Len(memory[c]) \in DOMAIN memory[c]
    BY <2>2, <2>3, LenProperties DEF AskedLast
  <2>6. {i \in DOMAIN memory[c] : memory[c][i] = Question(turn[c].to)} = {Len(memory[c])}
    BY <2>3, <2>4, <2>5 DEF AskedLast
  <2>7. QED
    BY <2>6, FS_Singleton
<1>2. QED
  BY CopiesHold, <1>1, PTL

(***************************************************************************)
(* No step but an edit, a deletion and a second answer that comes while    *)
(* another chat is on screen takes an answer out of the store: what a      *)
(* retry drops never held one (dropLastTurnRows, storeVariants).           *)
(***************************************************************************)
THEOREM AnswersAreNotLost == Spec => AnswersAreKept
<1>1. ASSUME CopiesInv, [Next]_vars
      PROVE  [\/ ResendEdited \/ \E c \in Chats : DeleteSession(c)
              \/ \E c \in Chats \ {screen} : StoreAgain(c)
              \/ \A c \in Chats : AnswersStay(c)]_vars
  <2>1. SUFFICES ASSUME ~ResendEdited, \A c \in Chats : ~DeleteSession(c),
                        \A c \in Chats \ {screen} : ~StoreAgain(c)
                 PROVE  \A c \in Chats : AnswersStay(c)
    OBVIOUS
  <2>2. CASE rows' = rows
    BY <2>2 DEF AnswersStay
  <2>3. CASE RetryFailedTurn
    BY <1>1, <2>3, RetryKeeps
  <2>4. ASSUME NEW a \in Answers, SwitchVariant(a) PROVE \A c \in Chats : AnswersStay(c)
    BY <1>1, <2>4, SwitchKeeps
  <2>5. ASSUME NEW c \in Chats, OpenTurn(c) \/ AppendTurn(c) \/ AppendFailedTurn(c)
        PROVE  \A d \in Chats : AnswersStay(d)
    BY <1>1, <2>5, WritingKeeps
  <2>6. ASSUME NEW c \in Chats, StoreAgain(c) PROVE \A d \in Chats : AnswersStay(d)
    BY <1>1, <2>1, <2>6, StoreAgainKeeps
  <2>7. CASE Launch
    <3>1. PICK c \in Chats : TRUE
      BY TranscriptAssumption
    <3>2. QED
      BY <1>1, <2>7, <3>1, WritingKeeps
  <2>8. \/ rows' = rows \/ RetryFailedTurn \/ Launch
        \/ \E a \in Answers : SwitchVariant(a)
        \/ \E c \in Chats : OpenTurn(c) \/ AppendTurn(c) \/ AppendFailedTurn(c) \/ StoreAgain(c)
    <3>1. CASE WindowStep
      BY <2>1, <3>1 DEF WindowStep, SendMessage, RegenerateReply, LoadSession, Attach, NewSession
    <3>2. CASE Resend \/ Crash \/ UNCHANGED vars
      BY <3>2 DEF Resend, Crash, vars
    <3>3. ASSUME NEW c \in Chats, TurnStep(c)
          PROVE  \/ rows' = rows
                 \/ OpenTurn(c) \/ AppendTurn(c) \/ AppendFailedTurn(c) \/ StoreAgain(c)
      BY <3>3 DEF TurnStep, Finish, PanicAgain, FailAgain
    <3>4. QED
      BY <1>1, <3>1, <3>2, <3>3 DEF Next
  <2>9. QED
    BY <2>2, <2>3, <2>4, <2>5, <2>6, <2>7, <2>8
<1>2. QED
  BY CopiesHold, <1>1, PTL DEF Spec, AnswersAreKept

=============================================================================
