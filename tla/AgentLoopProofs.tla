--------------------------- MODULE AgentLoopProofs ---------------------------
(***************************************************************************)
(* What is proved of AgentLoop for every value of its constants: words of  *)
(* the person keep one place (WordInv), parked work is kept for the call   *)
(* that asks after it (CallInv, ParkInv), results follow their calls       *)
(* (HistInv), a turn ends with all of its last answer and with nothing     *)
(* else (AnswerInv), and under Stop every step brings it nearer to its end *)
(* and there always is one (Distance, Goes). Boundary and GroupEnd take a  *)
(* least or a greatest place: that there is one follows from the naturals  *)
(* being well founded.                                                     *)
(***************************************************************************)
EXTENDS AgentLoop, SequenceTheorems, FiniteSetTheorems, WellFoundedInduction, TLAPS

(* A set of naturals has a least element, and a bounded one a greatest.    *)
LEMMA MinIsIn ==
  ASSUME NEW S \in SUBSET Nat, S # {}
  PROVE  Min(S) \in S /\ \A y \in S : Min(S) <= y
<1>1. \E x \in S : \A y \in S : ~ (<<y, x>> \in OpToRel(<, Nat))
  BY NatLessThanWellFounded, WFMin
<1>2. PICK x \in S : \A y \in S : ~ (<<y, x>> \in OpToRel(<, Nat))
  BY <1>1
<1>3. ASSUME NEW y \in S PROVE x <= y
  <2>1. ~ (<<y, x>> \in OpToRel(<, Nat)) /\ x \in Nat /\ y \in Nat
    BY <1>2
  <2>2. y < x => <<y, x>> \in OpToRel(<, Nat)
    BY <2>1 DEF OpToRel
  <2>3. ~ (y < x)
    BY <2>1, <2>2, Zenon
  <2>4. x \in Nat /\ y \in Nat
    BY <2>1, Zenon
  <2>5. QED
    BY <2>3, <2>4
<1>4. QED
  BY <1>3 DEF Min

LEMMA MaxIsIn ==
  ASSUME NEW S \in SUBSET Nat, S # {}, NEW b \in Nat, \A x \in S : x <= b
  PROVE  Max(S) \in S /\ \A y \in S : y <= Max(S)
<1> DEFINE T == {n \in Nat : \E x \in S : n = b - x}
<1>1. \A x \in S : b - x \in T
  OBVIOUS
<1>2. T \in SUBSET Nat /\ T # {}
  BY <1>1
<1>3. Min(T) \in T /\ \A m \in T : Min(T) <= m
  BY <1>2, MinIsIn
<1>4. PICK x \in S : Min(T) = b - x
  BY <1>3
<1>5. ASSUME NEW y \in S PROVE y <= x
  <2>1. b - x <= b - y
    BY <1>1, <1>3, <1>4
  <2>2. QED
    BY <2>1
<1>6. QED
  BY <1>5 DEF Max

-----------------------------------------------------------------------------
(* The words of the person.                                                *)

WordTypes ==
  /\ typed \in 0 .. MaxWords
  /\ interjection \in Seq(1 .. MaxWords) /\ folded \in Seq(1 .. MaxWords)
  /\ handed \subseteq 1 .. MaxWords /\ dropped \subseteq 1 .. MaxWords

(* What a request or an answer that is not the last one takes in.          *)
Folds == folded' = folded \o interjection /\ interjection' = <<>> /\ UNCHANGED <<typed, handed, dropped>>

(* Four steps touch what was typed.                                        *)
LEMMA WordSteps ==
  ASSUME [Next]_vars
  PROVE  UNCHANGED words \/ Interject \/ Stop \/ HandBack \/ Folds
<1>1. CASE UNCHANGED vars
  BY <1>1 DEF vars, words
<1>2. CASE Begin
  BY <1>2 DEF Begin, words
<1>3. CASE Leave \/ Waited \/ TurnEnds
  BY <1>3 DEF Leave, Waited, TurnEnds, words
<1>4. CASE Ask
  BY <1>4 DEF Ask, Folds
<1>5. CASE Fails \/ PlainAnswer
  BY <1>5 DEF Fails, AskAgain, NudgeBlank, TooLong, Refused, Failing, PlainAnswer, words
<1>6. CASE Cut \/ Leaked \/ Blank
  BY <1>6 DEF Cut, Leaked, Blank, Nudge, Answered, words
<1>7. CASE \E x \in Kinds : KeptAlive(x) \/ SentBack(x) \/ Final(x)
  BY <1>7 DEF KeptAlive, SentBack, Final, Answered, words, Folds
<1>8. CASE Calls
  BY <1>8 DEF Calls, Call, Truncated, Answered, words
<1>9. CASE Runs
  BY <1>9 DEF Runs, BeginGroup, DoomLoop, Write, WriteLast, RunCall, words
<1>10. CASE WorkStep
  BY <1>10 DEF WorkStep, words
<1>11. QED
  BY <1>1, <1>2, <1>3, <1>4, <1>5, <1>6, <1>7, <1>8, <1>9, <1>10 DEF Next, LoopStep, Returns, Says

WordInv == WordTypes /\ WordsHaveOnePlace

(* What Stop and the end of a turn take out of the buffer was in it.       *)
LEMMA TakenOut ==
  ASSUME WordInv
  PROVE  LET gone == {interjection[i] : i \in DOMAIN interjection}
             kept == {folded[i] : i \in DOMAIN folded}
         IN /\ kept \cup gone \cup handed \cup dropped = 1 .. typed
            /\ kept \cap gone = {} /\ (kept \cup gone) \cap (handed \cup dropped) = {}
            /\ handed \cap dropped = {}
            /\ \A i, j \in DOMAIN folded : i < j => folded[i] < folded[j]
            /\ gone \subseteq 1 .. MaxWords
<1> DEFINE said == folded \o interjection
           gone == {interjection[i] : i \in DOMAIN interjection}
           kept == {folded[i] : i \in DOMAIN folded}
           placed == {said[i] : i \in DOMAIN said}
<1>1. /\ Len(folded) \in Nat /\ DOMAIN folded = 1 .. Len(folded)
      /\ Len(interjection) \in Nat /\ DOMAIN interjection = 1 .. Len(interjection)
      /\ \A i \in DOMAIN folded : folded[i] \in 1 .. MaxWords
      /\ \A i \in DOMAIN interjection : interjection[i] \in 1 .. MaxWords
  BY LenProperties, ElementOfSeq DEF WordInv, WordTypes
<1>2. /\ DOMAIN said = 1 .. Len(folded) + Len(interjection)
      /\ \A i \in 1 .. Len(folded) : said[i] = folded[i]
      /\ \A i \in 1 .. Len(interjection) : said[Len(folded) + i] = interjection[i]
  <2>1. /\ said \in Seq(1 .. MaxWords)
        /\ Len(said) = Len(folded) + Len(interjection)
        /\ \A i \in 1 .. Len(folded) + Len(interjection) :
             said[i] = IF i <= Len(folded) THEN folded[i] ELSE interjection[i - Len(folded)]
    BY ConcatProperties DEF WordInv, WordTypes
  <2>2. DOMAIN said = 1 .. Len(said)
    BY <2>1, LenProperties
  <2>3. QED
    BY <1>1, <2>1, <2>2
<1> HIDE DEF said
<1>3. placed = kept \cup gone
  <2>1. ASSUME NEW i \in DOMAIN said PROVE said[i] \in kept \cup gone
    <3>1. CASE i <= Len(folded)
      <4>1. i \in DOMAIN folded /\ said[i] = folded[i]
        BY <1>1, <1>2, <3>1
      <4>2. QED
        BY <4>1
    <3>2. CASE ~ (i <= Len(folded))
      <4>1. i - Len(folded) \in DOMAIN interjection /\ i = Len(folded) + (i - Len(folded))
        BY <1>1, <1>2, <3>2
      <4>2. said[i] = interjection[i - Len(folded)]
        BY <1>1, <1>2, <4>1
      <4>3. QED
        BY <4>1, <4>2
    <3>3. QED
      BY <3>1, <3>2
  <2>2. ASSUME NEW i \in DOMAIN folded PROVE folded[i] \in placed
    <3>1. i \in DOMAIN said /\ said[i] = folded[i]
      BY <1>1, <1>2
    <3>2. QED
      BY <3>1
  <2>3. ASSUME NEW i \in DOMAIN interjection PROVE interjection[i] \in placed
    <3>1. Len(folded) + i \in DOMAIN said /\ said[Len(folded) + i] = interjection[i]
      BY <1>1, <1>2
    <3>2. QED
      BY <3>1
  <2>4. QED
    BY <2>1, <2>2, <2>3
<1>4. /\ placed \cup handed \cup dropped = 1 .. typed
      /\ handed \cap dropped = {} /\ placed \cap (handed \cup dropped) = {}
      /\ \A i, j \in DOMAIN said : i < j => said[i] < said[j]
  BY DEF WordInv, WordsHaveOnePlace, said
<1>5. kept \cap gone = {}
  <2>1. ASSUME NEW i \in DOMAIN folded, NEW j \in DOMAIN interjection
        PROVE  folded[i] # interjection[j]
    <3>1. /\ i \in DOMAIN said /\ Len(folded) + j \in DOMAIN said /\ i < Len(folded) + j
          /\ said[i] = folded[i] /\ said[Len(folded) + j] = interjection[j]
      BY <1>1, <1>2
    <3>2. folded[i] < interjection[j]
      BY <1>4, <3>1
    <3>3. QED
      BY <1>1, <3>2
  <2>2. QED
    BY <2>1
<1>6. \A i, j \in DOMAIN folded : i < j => folded[i] < folded[j]
  BY <1>1, <1>2, <1>4
<1>7. gone \subseteq 1 .. MaxWords
  BY <1>1
<1>8. QED
  BY <1>3, <1>4, <1>5, <1>6, <1>7

OnePlace(said, n, h, d) ==
  /\ {said[i] : i \in DOMAIN said} \cup h \cup d = 1 .. n
  /\ h \cap d = {} /\ {said[i] : i \in DOMAIN said} \cap (h \cup d) = {}
  /\ \A i, j \in DOMAIN said : i < j => said[i] < said[j]

(* The next word behind those that were typed.                             *)
LEMMA NextWord ==
  ASSUME NEW n \in Nat, NEW h, NEW d, NEW said \in Seq(1 .. MaxWords), OnePlace(said, n, h, d),
         n + 1 \in 1 .. MaxWords
  PROVE  OnePlace(Append(said, n + 1), n + 1, h, d)
<1> DEFINE t == Append(said, n + 1)
<1>1. /\ Len(said) \in Nat /\ DOMAIN said = 1 .. Len(said)
      /\ t \in Seq(1 .. MaxWords) /\ Len(t) = Len(said) + 1
      /\ \A i \in 1 .. Len(said) : t[i] = said[i]
      /\ t[Len(said) + 1] = n + 1
  BY LenProperties, AppendProperties
<1>2. DOMAIN t = 1 .. Len(said) + 1
  BY <1>1, LenProperties
<1> HIDE DEF t
<1>3. {t[i] : i \in DOMAIN t} = {said[i] : i \in DOMAIN said} \cup {n + 1}
  <2>1. ASSUME NEW i \in DOMAIN t PROVE t[i] \in {said[j] : j \in DOMAIN said} \cup {n + 1}
    BY <1>1, <1>2
  <2>2. ASSUME NEW i \in DOMAIN said PROVE said[i] \in {t[j] : j \in DOMAIN t}
    <3>1. i \in DOMAIN t /\ said[i] = t[i]
      BY <1>1, <1>2
    <3>2. QED
      BY <3>1
  <2>3. n + 1 \in {t[j] : j \in DOMAIN t}
    <3>1. Len(said) + 1 \in DOMAIN t
      BY <1>1, <1>2
    <3>2. QED
      BY <1>1, <3>1
  <2>4. QED
    BY <2>1, <2>2, <2>3
<1>4. {said[i] : i \in DOMAIN said} \cup h \cup d = 1 .. n
  BY DEF OnePlace
<1>5. 1 .. n + 1 = (1 .. n) \cup {n + 1} /\ n + 1 \notin 1 .. n
  OBVIOUS
<1>6. {t[i] : i \in DOMAIN t} \cup h \cup d = 1 .. n + 1
  BY <1>3, <1>4, <1>5
<1>7. h \cap d = {} /\ {t[i] : i \in DOMAIN t} \cap (h \cup d) = {}
  BY <1>3, <1>4, <1>5 DEF OnePlace
<1>8. ASSUME NEW i \in DOMAIN t, NEW j \in DOMAIN t, i < j PROVE t[i] < t[j]
  <2>1. i \in DOMAIN said /\ t[i] = said[i]
    BY <1>1, <1>2, <1>8
  <2>2. said[i] \in 1 .. n
    BY <1>4, <2>1
  <2>3. CASE j = Len(said) + 1
    BY <1>1, <2>1, <2>2, <2>3
  <2>4. CASE j # Len(said) + 1
    <3>1. j \in DOMAIN said /\ t[j] = said[j]
      BY <1>1, <1>2, <2>4
    <3>2. QED
      BY <1>8, <2>1, <3>1 DEF OnePlace
  <2>5. QED
    BY <2>3, <2>4
<1>9. QED
  BY <1>6, <1>7, <1>8 DEF OnePlace, t

LEMMA WordStep == WordInv /\ [Next]_vars => WordInv'
<1> SUFFICES ASSUME WordInv, [Next]_vars PROVE WordInv'
  OBVIOUS
<1> DEFINE gone == {interjection[i] : i \in DOMAIN interjection}
           kept == {folded[i] : i \in DOMAIN folded}
<1>0. /\ typed \in 0 .. MaxWords /\ MaxWords \in Nat
      /\ interjection \in Seq(1 .. MaxWords) /\ folded \in Seq(1 .. MaxWords)
      /\ handed \subseteq 1 .. MaxWords /\ dropped \subseteq 1 .. MaxWords
  BY AgentLoopAssumption DEF WordInv, WordTypes
<1>1. CASE UNCHANGED words
  BY <1>1 DEF words, WordInv, WordTypes, WordsHaveOnePlace
<1>2. CASE Folds
  <2>1. folded \o interjection \in Seq(1 .. MaxWords)
    BY <1>0, ConcatProperties
  <2>2. folded' \o interjection' = folded \o interjection
    BY <1>2, <2>1, ConcatEmptySeq DEF Folds
  <2>3. <<>> \in Seq(1 .. MaxWords)
    OBVIOUS
  <2>4. WordTypes'
    BY <1>0, <1>2, <2>1, <2>3 DEF Folds, WordTypes
  <2>5. WordsHaveOnePlace'
    BY <1>2, <2>2, Zenon DEF Folds, WordInv, WordsHaveOnePlace
  <2>6. QED
    BY <2>4, <2>5 DEF WordInv
<1>3. ASSUME interjection' = <<>>, UNCHANGED <<typed, folded>>,
             \/ handed' = handed \cup gone /\ dropped' = dropped
             \/ dropped' = dropped \cup gone /\ handed' = handed
      PROVE  WordInv'
  <2>1. /\ kept \cup gone \cup handed \cup dropped = 1 .. typed
        /\ kept \cap gone = {} /\ (kept \cup gone) \cap (handed \cup dropped) = {}
        /\ handed \cap dropped = {}
        /\ \A i, j \in DOMAIN folded : i < j => folded[i] < folded[j]
        /\ gone \subseteq 1 .. MaxWords
    BY TakenOut
  <2>2. folded' \o interjection' = folded
    BY <1>0, <1>3, ConcatEmptySeq
  <2>3. <<>> \in Seq(1 .. MaxWords)
    OBVIOUS
  <2>4. WordTypes'
    <3>1. handed' \subseteq 1 .. MaxWords /\ dropped' \subseteq 1 .. MaxWords
      BY <1>0, <1>3, <2>1
    <3>2. QED
      BY <1>0, <1>3, <2>3, <3>1 DEF WordTypes
  <2>5. /\ kept \cup handed' \cup dropped' = 1 .. typed
        /\ handed' \cap dropped' = {} /\ kept \cap (handed' \cup dropped') = {}
    BY <1>3, <2>1
  <2>6. WordsHaveOnePlace'
    <3> HIDE DEF gone
    <3> QED BY <1>3, <2>1, <2>2, <2>5 DEF WordsHaveOnePlace
  <2>7. QED
    BY <2>4, <2>6 DEF WordInv
<1>4. CASE Stop
  BY <1>3, <1>4 DEF Stop
<1>5. CASE HandBack
  BY <1>3, <1>5 DEF HandBack
<1>6. CASE Interject
  <2> DEFINE said == folded \o interjection
  <2>1. /\ typed' = typed + 1 /\ typed + 1 \in 1 .. MaxWords /\ typed' \in 0 .. MaxWords
        /\ interjection' = Append(interjection, typed + 1)
        /\ UNCHANGED <<folded, handed, dropped>>
    BY <1>0, <1>6 DEF Interject
  <2>2. /\ said \in Seq(1 .. MaxWords) /\ said' = Append(said, typed + 1)
        /\ interjection' \in Seq(1 .. MaxWords)
    <3>1. said \in Seq(1 .. MaxWords)
      BY <1>0, ConcatProperties
    <3>2. interjection' \in Seq(1 .. MaxWords)
      BY <1>0, <2>1, AppendProperties
    <3>3. Append(interjection, typed + 1) = interjection \o <<typed + 1>>
      BY <1>0, <2>1, AppendIsConcat
    <3>4. Append(said, typed + 1) = said \o <<typed + 1>>
      BY <2>1, <3>1, AppendIsConcat
    <3>5. <<typed + 1>> \in Seq(1 .. MaxWords)
      BY <2>1
    <3>6. folded \o (interjection \o <<typed + 1>>) = (folded \o interjection) \o <<typed + 1>>
      BY <1>0, <3>5, ConcatAssociative
    <3>7. QED
      BY <2>1, <3>1, <3>2, <3>3, <3>4, <3>6
  <2>3. OnePlace(said, typed, handed, dropped)
    BY DEF WordInv, WordsHaveOnePlace, OnePlace
  <2>4. OnePlace(Append(said, typed + 1), typed + 1, handed, dropped)
    <3>1. typed \in Nat /\ typed + 1 \in 1 .. MaxWords
      BY <1>0, <2>1
    <3> HIDE DEF said
    <3>2. QED
      BY <2>2, <2>3, <3>1, NextWord
  <2>5. OnePlace(folded' \o interjection', typed', handed', dropped')
    <3>1. folded' \o interjection' = Append(said, typed + 1)
      BY <2>2
    <3>2. typed' = typed + 1 /\ handed' = handed /\ dropped' = dropped
      BY <2>1
    <3> HIDE DEF said
    <3>3. QED
      BY <2>4, <3>1, <3>2, Zenon
  <2>6. WordTypes'
    BY <1>0, <2>1, <2>2 DEF WordTypes
  <2>7. WordsHaveOnePlace'
    BY <2>5 DEF WordsHaveOnePlace, OnePlace
  <2>8. QED
    BY <2>6, <2>7 DEF WordInv
<1>7. QED
  BY <1>1, <1>2, <1>4, <1>5, <1>6, WordSteps

LEMMA InitWords == Init => WordInv
<1> SUFFICES ASSUME Init PROVE WordInv
  OBVIOUS
<1>1. typed = 0 /\ interjection = <<>> /\ folded = <<>> /\ handed = {} /\ dropped = {}
  BY DEF Init
<1>2. WordTypes
  BY <1>1, AgentLoopAssumption DEF WordTypes
<1>3. folded \o interjection = <<>>
  BY <1>1, <1>2, ConcatEmptySeq DEF WordTypes
<1>4. DOMAIN (folded \o interjection) = {}
  BY <1>3
<1>5. 1 .. typed = {}
  BY <1>1
<1>6. QED
  BY <1>1, <1>2, <1>4, <1>5 DEF WordInv, WordsHaveOnePlace

(* Interject, the loop's drains, CancelTurn and what runTurn hands back at *)
(* the end share one buffer: no word of the person is lost between them or *)
(* reaches the model and the window both.                                  *)
THEOREM WordsKept == Spec => []WordsHaveOnePlace
<1>1. WordInv => WordsHaveOnePlace
  BY DEF WordInv
<1>2. QED
  BY <1>1, InitWords, WordStep, PTL DEF Spec

-----------------------------------------------------------------------------
(* The calls of an answer, and what they were told.                        *)

(* The places of the calls that are running, and the group's bounds.       *)
GroupTypes ==
  /\ calls \in CallLists \cup {<<>>}
  /\ IF pc = "running"
     THEN calls \in CallLists /\ first \in 1 .. Len(calls) /\ last \in first - 1 .. Len(calls)
     ELSE calls = <<>> /\ first = 1 /\ last = 0 /\ pictures = 0
  /\ \A i \in Places : i \notin first .. last => stage[i] = "none"
  /\ \A i \in Places : (stage[i] = "waits") <=> (holds[i] # None)

CallInv == CallTypes /\ GroupTypes

LEMMA CallFacts ==
  ASSUME NEW ks \in CallLists
  PROVE  /\ ks \in Seq(Keys) /\ Len(ks) \in Nat /\ Len(ks) \in 1 .. MaxCalls
         /\ \A i \in 1 .. Len(ks) : ks[i] \in Keys /\ i \in Places
         /\ Places = 1 .. MaxCalls /\ MaxCalls \in Nat
<1>1. ks \in Seq(Keys) /\ Len(ks) \in 1 .. MaxCalls
  BY AgentLoopAssumption DEF Places
<1>2. Len(ks) \in Nat /\ \A i \in 1 .. Len(ks) : ks[i] \in Keys
  BY <1>1, LenProperties, ElementOfSeq
<1>3. MaxCalls \in Nat
  BY ToolCallsAssumption
<1>4. QED
  BY <1>1, <1>2, <1>3 DEF Places

(* parallelGroup: a group ends within the calls.                           *)
LEMMA GroupEndIn ==
  ASSUME calls \in CallLists, first \in 1 .. Len(calls)
  PROVE  GroupEnd \in first .. Len(calls)
<1> DEFINE together == {j \in first .. Len(calls) :
                          j < first + 5 /\ \A i \in first .. j : calls[i] \in Reads}
<1>1. Len(calls) \in Nat /\ first \in Nat /\ first <= Len(calls)
  BY CallFacts
<1>2. CASE together = {}
  BY <1>1, <1>2 DEF GroupEnd
<1>3. CASE together # {}
  <2>1. together \in SUBSET Nat /\ \A x \in together : x <= Len(calls)
    BY <1>1
  <2>2. Max(together) \in together
    BY <1>1, <1>3, <2>1, MaxIsIn
  <2>3. GroupEnd = Max(together)
    BY <1>3 DEF GroupEnd
  <2>4. QED
    BY <2>2, <2>3
<1>4. QED
  BY <1>2, <1>3

(* What is kept of the works is what they were, or nothing.                *)
LEMMA KeptWorks ==
  ASSUME NEW wk \in [Works -> {"free", "runs", "doomed"} \cup Ended], NEW pd, NEW hd, NEW td
  PROVE  /\ Kept(wk, pd, hd, td) \in [Works -> {"free", "runs", "doomed"} \cup Ended]
         /\ \A w \in Works : Kept(wk, pd, hd, td)[w] \in {wk[w], "free"}
         /\ \A k \in Keys : pd[k] \in Works => Kept(wk, pd, hd, td)[pd[k]] = wk[pd[k]]
         /\ \A k \in Keys : td[k] \in Works => Kept(wk, pd, hd, td)[td[k]] = wk[td[k]]
  BY DEF Kept

(* The steps of a call.                                                    *)
LEMMA CallStepInv ==
  ASSUME CallInv, NEW i \in Places, RunCall(i)
  PROVE  CallInv'
<1> DEFINE k == calls[i]
<1>0. /\ calls \in CallLists /\ i \in first .. last /\ pc = "running"
      /\ first \in 1 .. Len(calls) /\ last \in first - 1 .. Len(calls)
  BY DEF RunCall, CallInv, GroupTypes
<1>1. k \in Keys
  <2>1. i \in 1 .. Len(calls)
    BY <1>0, CallFacts
  <2>2. QED
    BY <1>0, <2>1, CallFacts
<1>2. UNCHANGED <<pc, calls, first, last, pictures>>
  BY DEF RunCall, group
<1>3. None \notin Works /\ None \notin Keys
  BY ToolCallsAssumption
<1> HIDE DEF k
<1>4. CallTypes /\ CallStep(i, k)
  BY DEF RunCall, CallInv, k
<1>5. \A j \in Places : (stage[j] = "waits") <=> (holds[j] # None)
  BY DEF CallInv, GroupTypes
<1>6. /\ CallTypes'
      /\ \A j \in Places \ {i} : stage'[j] = stage[j] /\ holds'[j] = holds[j]
      /\ (stage'[i] = "waits") <=> (holds'[i] # None)
  <2>1. CASE Join(i, k)
    <3>1. holds' \in [Places -> Works \cup {None}] /\ stage' \in [Places -> Stages]
      BY <1>1, <1>4, <2>1 DEF Join, CallTypes, Stages
    <3>2. QED
      BY <1>1, <1>3, <1>4, <2>1, <3>1 DEF Join, InFlight, CallTypes
  <2>2. CASE Start(i, k)
    <3> DEFINE w == CHOOSE w \in Works : work[w] = "free"
               pd == [pending EXCEPT ![k] = w]
               hd == [holds EXCEPT ![i] = w]
               wk == [work EXCEPT ![w] = IF stopped THEN "doomed" ELSE "runs"]
    <3>1. w \in Works
      BY <2>2 DEF Start
    <3>2. /\ pending' = pd /\ holds' = hd /\ work' = Kept(wk, pd, hd, told)
          /\ stage' = [stage EXCEPT ![i] = "waits"] /\ UNCHANGED <<stopped, told>>
      BY <2>2, Zenon DEF Start
    <3> HIDE DEF w
    <3>3. wk \in [Works -> {"free", "runs", "doomed"} \cup Ended]
      BY <1>4, <3>1 DEF CallTypes
    <3>4. work' \in [Works -> {"free", "runs", "doomed"} \cup Ended]
      BY <3>2, <3>3, KeptWorks
    <3>5. pending' \in [Keys -> Works \cup {None}] /\ holds' \in [Places -> Works \cup {None}]
          /\ stage' \in [Places -> Stages] /\ told' \in [Keys -> Works \cup {None}]
          /\ stopped' \in BOOLEAN
      BY <1>1, <1>4, <3>1, <3>2 DEF CallTypes, Stages
    <3>6. CallTypes'
      BY <3>4, <3>5 DEF CallTypes
    <3>7. QED
      BY <1>3, <1>4, <3>1, <3>2, <3>6 DEF CallTypes
  <2>3. PICK as \in Back, pd \in [Keys -> Works \cup {None}], td \in [Keys -> Works \cup {None}] :
          Join(i, k) \/ Start(i, k) \/ Comes(i, as, pd, td)
    <3> DEFINE free == Without(pending, k)
               unsaid == IF told[k] = holds[i] THEN Without(told, k) ELSE told
               said == [told EXCEPT ![k] = holds[i]]
    <3>1. /\ free \in [Keys -> Works \cup {None}] /\ unsaid \in [Keys -> Works \cup {None}]
          /\ said \in [Keys -> Works \cup {None}]
          /\ pending \in [Keys -> Works \cup {None}] /\ told \in [Keys -> Works \cup {None}]
      BY <1>4 DEF CallTypes, Without
    <3>2. \/ Join(i, k) \/ Start(i, k)
          \/ \E as \in Back : Comes(i, as, free, unsaid)
          \/ \E as \in Back : Comes(i, as, free, told)
          \/ \E as \in Back : Comes(i, as, pending, said)
      BY <1>4 DEF CallStep, Collect, GiveUp, Overrun, Back
    <3> HIDE DEF free, unsaid, said
    <3>3. "done" \in Back
      BY DEF Back
    <3>4. QED
      BY <3>1, <3>2, <3>3, Zenon
  <2>4. CASE Comes(i, as, pd, td)
    <3>1. work' \in [Works -> {"free", "runs", "doomed"} \cup Ended]
      BY <1>4, <2>4, KeptWorks DEF CallTypes, Comes
    <3>2. QED
      BY <1>4, <2>4, <3>1 DEF Comes, Without, CallTypes, Stages, Back
  <2>5. QED
    BY <2>1, <2>2, <2>3, <2>4
<1>7. QED
  BY <1>0, <1>2, <1>5, <1>6 DEF CallInv, GroupTypes

(* The steps between which no call runs.                                   *)
LEMMA AtRest ==
  ASSUME CallInv, pc # "running", pc' # "running",
         UNCHANGED <<calls, first, last, pictures, stage, holds>>, CallTypes'
  PROVE  CallInv'
  BY DEF CallInv, GroupTypes

LEMMA CallInvStep == CallInv /\ [Next]_vars => CallInv'
<1> SUFFICES ASSUME CallInv, [Next]_vars PROVE CallInv'
  OBVIOUS
<1>0. CallTypes
  BY DEF CallInv
<1>1. CASE UNCHANGED vars
  BY <1>1 DEF CallInv, CallTypes, GroupTypes, vars, callVars, group
<1>2. CASE Begin \/ Leave \/ Ask \/ Waited \/ HandBack \/ Fails \/ PlainAnswer
  <2>1. /\ pc # "running" /\ pc' # "running" /\ UNCHANGED <<calls, first, last, pictures, callVars>>
    BY <1>2 DEF Begin, Leave, Ask, Waited, HandBack, Fails, AskAgain, NudgeBlank, TooLong, Refused, Failing,
                PlainAnswer, group
  <2>2. QED
    BY <1>0, <2>1, AtRest DEF callVars, CallTypes
<1>3. CASE Says
  <2>1. /\ pc # "running" /\ pc' # "running" /\ UNCHANGED <<calls, first, last, pictures, callVars>>
    BY <1>3 DEF Says, Cut, Leaked, Blank, Nudge, KeptAlive, SentBack, Final, Answered, group
  <2>2. QED
    BY <1>0, <2>1, AtRest DEF callVars, CallTypes
<1>4. ASSUME NEW ks \in CallLists, Truncated(ks) PROVE CallInv'
  <2>1. /\ pc # "running" /\ pc' # "running" /\ UNCHANGED <<calls, first, last, pictures, callVars>>
    BY <1>4 DEF Truncated, Answered, group
  <2>2. QED
    BY <1>0, <2>1, AtRest DEF callVars, CallTypes
<1>5. ASSUME NEW ks \in CallLists, Call(ks) PROVE CallInv'
  <2>1. /\ pc = "asking" /\ pc' = "running" /\ calls' = ks /\ first' = 1 /\ last' = 0
        /\ UNCHANGED callVars
    BY <1>5 DEF Call
  <2>2. 1 \in 1 .. Len(ks) /\ 0 \in 1 - 1 .. Len(ks) /\ first .. last = {} /\ first' .. last' = {}
    BY <2>1, CallFacts DEF CallInv, GroupTypes
  <2>3. QED
    BY <1>0, <2>1, <2>2 DEF CallInv, GroupTypes, CallTypes, callVars
<1>6. CASE BeginGroup
  <2>1. /\ pc = "running" /\ pc' = pc /\ last < first /\ last' = GroupEnd
        /\ stage' = [i \in Places |-> IF i \in first .. GroupEnd THEN "due" ELSE "none"]
        /\ UNCHANGED <<stopped, pending, work, holds, told, calls, first, pictures>>
    BY <1>6 DEF BeginGroup
  <2>2. calls \in CallLists /\ first \in 1 .. Len(calls)
    BY <2>1 DEF CallInv, GroupTypes
  <2>3. GroupEnd \in first .. Len(calls) /\ Len(calls) \in Nat
    BY <2>2, GroupEndIn, CallFacts
  <2>4. first .. last = {}
    BY <2>1, <2>2, <2>3 DEF CallInv, GroupTypes
  <2>5. \A i \in Places : stage[i] = "none" /\ holds[i] = None
    BY <2>4 DEF CallInv, GroupTypes
  <2>6. CallTypes'
    <3>1. stage' \in [Places -> Stages]
      BY <2>1 DEF Stages
    <3>2. QED
      BY <1>0, <2>1, <3>1 DEF CallTypes
  <2>7. \A i \in Places : stage'[i] # "waits" /\ holds'[i] = None /\ (i \notin first' .. last' => stage'[i] = "none")
    BY <2>1, <2>5
  <2>8. last' \in first' - 1 .. Len(calls')
    BY <2>1, <2>2, <2>3
  <2>9. QED
    BY <2>1, <2>2, <2>6, <2>7, <2>8 DEF CallInv, GroupTypes
<1>7. CASE DoomLoop
  <2>1. /\ pc = "running" /\ pc' = "ending" /\ last < first
        /\ calls' = <<>> /\ first' = 1 /\ last' = 0 /\ pictures' = 0 /\ UNCHANGED callVars
    BY <1>7 DEF DoomLoop, NoCalls
  <2>2. calls \in CallLists /\ first \in 1 .. Len(calls) /\ Len(calls) \in Nat /\ last \in first - 1 .. Len(calls)
    BY <2>1, CallFacts DEF CallInv, GroupTypes
  <2>3. first .. last = {} /\ first' .. last' = {}
    BY <2>1, <2>2
  <2>4. QED
    BY <1>0, <2>1, <2>3 DEF CallInv, GroupTypes, CallTypes, callVars
<1>8. ASSUME NEW i \in Places, RunCall(i) PROVE CallInv'
  BY <1>8, CallStepInv
<1>9. CASE Write \/ WriteLast
  <2>1. /\ pc = "running" /\ \A i \in first .. last : stage[i] \in Back
        /\ stage' = [i \in Places |-> "none"] /\ UNCHANGED <<stopped, pending, work, holds, told>>
    BY <1>9 DEF Write, WriteLast, GroupBack, Clear
  <2>2. \A i \in Places : holds[i] = None
    BY <2>1 DEF CallInv, GroupTypes, Back
  <2>3. CallTypes'
    <3>1. stage' \in [Places -> Stages]
      BY <2>1 DEF Stages
    <3>2. QED
      BY <1>0, <2>1, <3>1 DEF CallTypes
  <2>4. calls \in CallLists /\ first \in 1 .. Len(calls) /\ Len(calls) \in Nat /\ last \in first - 1 .. Len(calls)
    BY <2>1, CallFacts DEF CallInv, GroupTypes
  <2>5. CASE Write
    <3>1. /\ last < Len(calls) /\ first' = last + 1 /\ UNCHANGED <<pc, calls, last>>
      BY <2>5 DEF Write
    <3>2. first' \in 1 .. Len(calls) /\ last' \in first' - 1 .. Len(calls)
      BY <2>4, <3>1
    <3>3. QED
      BY <2>1, <2>2, <2>3, <2>4, <3>1, <3>2 DEF CallInv, GroupTypes
  <2>6. CASE WriteLast
    <3>1. pc' # "running" /\ calls' = <<>> /\ first' = 1 /\ last' = 0 /\ pictures' = 0
      BY <2>6 DEF WriteLast, NoCalls
    <3>2. QED
      BY <2>1, <2>2, <2>3, <3>1 DEF CallInv, GroupTypes
  <2>7. QED
    BY <1>9, <2>5, <2>6
<1>10. CASE Interject
  BY <1>10 DEF Interject, CallInv, CallTypes, GroupTypes, callVars, group
<1>11. CASE Stop
  <2>1. /\ UNCHANGED <<pc, calls, first, last, pictures, stage, holds, pending, told>>
        /\ stopped' \in BOOLEAN /\ Cancel
    BY <1>11 DEF Stop, group
  <2>2. CallTypes'
    BY <1>0, <2>1 DEF CallTypes, Cancel
  <2>3. QED
    BY <2>1, <2>2 DEF CallInv, GroupTypes
<1>12. CASE TurnEnds
  <2>1. /\ pc # "running" /\ pc' # "running"
        /\ UNCHANGED <<calls, first, last, pictures, stage, holds, pending>>
        /\ stopped' \in BOOLEAN /\ Cancel /\ told' = [k \in Keys |-> None]
    BY <1>12 DEF TurnEnds, group
  <2>2. CallTypes'
    BY <1>0, <2>1 DEF CallTypes, Cancel
  <2>3. QED
    BY <2>1, <2>2, AtRest
<1>13. CASE WorkStep
  <2>1. PICK w \in Works : WorkEnds(w)
    BY <1>13 DEF WorkStep
  <2>2. UNCHANGED <<pc, calls, first, last, pictures, stopped, pending, stage, holds, told>>
    BY <1>13 DEF WorkStep, WorkEnds, group
  <2>3. work' \in [Works -> {"free", "runs", "doomed"} \cup Ended]
    BY <1>0, <2>1 DEF WorkEnds, CallTypes, Ended
  <2>4. CallTypes'
    BY <1>0, <2>2, <2>3 DEF CallTypes
  <2>5. QED
    BY <2>2, <2>4 DEF CallInv, GroupTypes
<1>14. QED
  BY <1>1, <1>2, <1>3, <1>4, <1>5, <1>6, <1>7, <1>8, <1>9, <1>10, <1>11, <1>12, <1>13
     DEF Next, LoopStep, Returns, Calls, Runs

(* No answer makes the same call twice.                                    *)
DistinctCalls == \A ks \in CallLists : \A i, j \in DOMAIN ks : ks[i] = ks[j] => i = j

(* A call waits for the work its key is answered with; under Stop no work  *)
(* runs; and what the register or an answer refers to is not forgotten.    *)
ParkInv ==
  /\ \A i \in Places : stage[i] = "waits" => pending[calls[i]] = holds[i]
  /\ stopped => \A w \in Works : work[w] # "runs"
  /\ \A k \in Keys : pending[k] # None => work[pending[k]] # "free"
  /\ \A k \in Keys : told[k] # None => work[told[k]] # "free"
  /\ ParkedIsKept

(* A step that leaves the calls and the register alone may end works and   *)
(* begin none.                                                             *)
LEMMA WorksEnd ==
  ASSUME CallInv, ParkInv, UNCHANGED <<pending, told>>,
         \A i \in Places : stage'[i] = "waits" => stage[i] = "waits" /\ calls'[i] = calls[i] /\ holds'[i] = holds[i],
         \A w \in Works : work'[w] = "runs" => work[w] = "runs",
         \A w \in Works : work'[w] = "free" => work[w] = "free",
         stopped' => stopped \/ \A w \in Works : work'[w] # "runs"
  PROVE  ParkInv'
<1>1. pending \in [Keys -> Works \cup {None}] /\ told \in [Keys -> Works \cup {None}]
  BY DEF CallInv, CallTypes
<1>2. ParkedIsKept'
  BY <1>1 DEF ParkInv, ParkedIsKept
<1>3. QED
  BY <1>1, <1>2 DEF ParkInv

(* The steps of a call.                                                    *)
LEMMA CallStepPark ==
  ASSUME DistinctCalls, CallInv, ParkInv, NEW i \in Places, RunCall(i)
  PROVE  ParkInv'
<1> DEFINE k == calls[i]
<1>0. /\ calls \in CallLists /\ i \in first .. last /\ pc = "running"
      /\ first \in 1 .. Len(calls) /\ last \in first - 1 .. Len(calls)
  BY DEF RunCall, CallInv, GroupTypes
<1>1. /\ k \in Keys /\ DOMAIN calls = 1 .. Len(calls) /\ i \in DOMAIN calls
  <2>1. i \in 1 .. Len(calls) /\ DOMAIN calls = 1 .. Len(calls)
    BY <1>0, CallFacts, LenProperties
  <2>2. QED
    BY <1>0, <2>1, CallFacts
<1>2. UNCHANGED calls
  BY DEF RunCall, group
<1>3. None \notin Works
  BY ToolCallsAssumption
(* Another call that waits has another key.                                *)
<1>4. \A j \in Places : stage[j] = "waits" /\ j # i => calls[j] \in Keys \ {k}
  <2>1. ASSUME NEW j \in Places, stage[j] = "waits", j # i PROVE calls[j] \in Keys \ {k}
    <3>1. j \in first .. last
      BY <2>1 DEF CallInv, GroupTypes
    <3>2. j \in 1 .. Len(calls)
      BY <1>0, <3>1, CallFacts
    <3>3. QED
      BY <1>0, <1>1, <2>1, <3>2, CallFacts DEF DistinctCalls
  <2>2. QED
    BY <2>1
<1>5. /\ pending \in [Keys -> Works \cup {None}] /\ told \in [Keys -> Works \cup {None}]
      /\ holds \in [Places -> Works \cup {None}] /\ stage \in [Places -> Stages]
      /\ work \in [Works -> {"free", "runs", "doomed"} \cup Ended]
      /\ CallStep(i, k)
  BY DEF RunCall, CallInv, CallTypes
<1>6. /\ \A j \in Places : stage[j] = "waits" => pending[calls[j]] = holds[j]
      /\ stopped => \A w \in Works : work[w] # "runs"
      /\ \A c \in Keys : pending[c] # None => work[pending[c]] # "free"
      /\ \A c \in Keys : told[c] # None => work[told[c]] # "free"
      /\ \A c \in Keys : told[c] # None /\ work[told[c]] = "runs" => pending[c] = told[c]
  BY DEF ParkInv, ParkedIsKept
<1>7. k = calls[i]
  OBVIOUS
<1> HIDE DEF k
<1>8. CASE Join(i, k)
  <2>1. /\ stage' = [stage EXCEPT ![i] = "waits"] /\ holds' = [holds EXCEPT ![i] = pending[k]]
        /\ UNCHANGED <<stopped, pending, work, told>>
    BY <1>8 DEF Join
  <2>2. \A j \in Places : stage'[j] = "waits" => pending'[calls'[j]] = holds'[j]
    BY <1>2, <1>5, <1>6, <1>7, <2>1
  <2>3. QED
    BY <1>6, <2>1, <2>2 DEF ParkInv, ParkedIsKept
<1>9. CASE Start(i, k)
  <2> DEFINE w == CHOOSE w \in Works : work[w] = "free"
             pd == [pending EXCEPT ![k] = w]
             hd == [holds EXCEPT ![i] = w]
             wk == [work EXCEPT ![w] = IF stopped THEN "doomed" ELSE "runs"]
  <2>1. w \in Works /\ work[w] = "free" /\ ~InFlight(k)
    BY <1>9 DEF Start
  <2>2. /\ pending' = pd /\ holds' = hd /\ work' = Kept(wk, pd, hd, told)
        /\ stage' = [stage EXCEPT ![i] = "waits"] /\ UNCHANGED <<stopped, told>>
    BY <1>9, Zenon DEF Start
  <2> HIDE DEF w
  <2>3. wk \in [Works -> {"free", "runs", "doomed"} \cup Ended]
    BY <1>5, <2>1
  <2>4. /\ \A v \in Works : work'[v] \in {wk[v], "free"}
        /\ \A c \in Keys : pd[c] \in Works => work'[pd[c]] = wk[pd[c]]
        /\ \A c \in Keys : told[c] \in Works => work'[told[c]] = wk[told[c]]
    <3>1. /\ \A v \in Works : Kept(wk, pd, hd, told)[v] \in {wk[v], "free"}
          /\ \A c \in Keys : pd[c] \in Works => Kept(wk, pd, hd, told)[pd[c]] = wk[pd[c]]
          /\ \A c \in Keys : told[c] \in Works => Kept(wk, pd, hd, told)[told[c]] = wk[told[c]]
      <4> HIDE DEF pd, hd, wk
      <4> QED BY <2>3, KeptWorks
    <3> HIDE DEF pd, hd, wk
    <3>2. QED
      BY <2>2, <3>1, Zenon
  <2>5. \A v \in Works : wk[v] = IF v = w THEN (IF stopped THEN "doomed" ELSE "runs") ELSE work[v]
    BY <1>5, <2>1
  <2>6. \A c \in Keys : pd[c] = IF c = k THEN w ELSE pending[c]
    BY <1>5
  <2>7. \A c \in Keys : told[c] # None => told[c] \in Works /\ told[c] # w /\ work'[told[c]] = work[told[c]]
    BY <1>5, <1>6, <2>1, <2>4, <2>5
  <2>8. \A j \in Places : stage'[j] = "waits" => pending'[calls'[j]] = holds'[j]
    BY <1>1, <1>2, <1>4, <1>5, <1>6, <1>7, <2>2, <2>6
  <2>9. ASSUME stopped', NEW v \in Works PROVE work'[v] # "runs"
    <3>1. stopped /\ work[v] # "runs"
      BY <1>6, <2>2, <2>9
    <3>2. wk[v] # "runs"
      <4> HIDE DEF wk
      <4> QED BY <2>5, <3>1
    <3> HIDE DEF wk
    <3>3. QED
      BY <2>4, <3>2
  <2>10. \A c \in Keys : pending'[c] # None => work'[pending'[c]] # "free"
    <3>1. ASSUME NEW c \in Keys, pd[c] # None PROVE work'[pd[c]] # "free"
      <4>1. CASE c = k
        BY <1>1, <2>1, <2>4, <2>5, <2>6, <4>1
      <4>2. CASE c # k
        <5>1. pd[c] = pending[c] /\ pending[c] \in Works /\ work[pending[c]] # "free" /\ pending[c] # w
          BY <1>5, <1>6, <2>1, <2>6, <3>1, <4>2
        <5>2. QED
          BY <2>4, <2>5, <5>1
      <4>3. QED
        BY <4>1, <4>2
    <3> HIDE DEF pd
    <3>2. QED
      BY <2>2, <3>1
  <2>11. ASSUME NEW c \in Keys, told[c] # None, work'[told[c]] = "runs" PROVE pd[c] = told[c]
    <3>1. work[told[c]] = "runs" /\ pending[c] = told[c]
      BY <1>6, <2>7, <2>11
    <3>2. c # k
      BY <2>1, <2>11, <3>1 DEF InFlight
    <3>3. QED
      BY <2>6, <3>1, <3>2
  <2>12. ParkedIsKept'
    <3> HIDE DEF pd, hd, wk
    <3>1. QED
      BY <2>2, <2>11 DEF ParkedIsKept
  <2>13. \A c \in Keys : told'[c] # None => work'[told'[c]] # "free"
    BY <1>6, <2>2, <2>7
  <2>14. QED
    BY <2>8, <2>9, <2>10, <2>12, <2>13 DEF ParkInv
(* A call that comes back leaves the other keys as they are.               *)
<1>10. ASSUME NEW as \in Back, NEW pd \in [Keys -> Works \cup {None}], NEW td \in [Keys -> Works \cup {None}],
              Comes(i, as, pd, td), stage[i] = "waits",
              \A c \in Keys : pd[c] \in {pending[c], None} /\ (c # k => pd[c] = pending[c]),
              \A c \in Keys : td[c] # None => td[c] = told[c] \/ (c = k /\ td[c] = pd[c]),
              td[k] # None /\ work[td[k]] = "runs" => pd[k] = td[k]
       PROVE  ParkInv'
  <2>1. /\ stage' = [stage EXCEPT ![i] = as] /\ holds' = Without(holds, i)
        /\ pending' = pd /\ work' = Kept(work, pd, Without(holds, i), td) /\ told' = td
        /\ UNCHANGED stopped
    BY <1>10 DEF Comes
  <2>2. /\ \A v \in Works : work'[v] \in {work[v], "free"}
        /\ \A c \in Keys : pd[c] \in Works => work'[pd[c]] = work[pd[c]]
        /\ \A c \in Keys : td[c] \in Works => work'[td[c]] = work[td[c]]
    BY <1>5, <2>1, KeptWorks
  <2>3. \A j \in Places : stage'[j] = "waits" => j # i /\ stage[j] = "waits" /\ holds'[j] = holds[j]
    BY <1>5, <2>1 DEF Without, Back
  <2>4. ASSUME NEW j \in Places, stage'[j] = "waits" PROVE pending'[calls'[j]] = holds'[j]
    <3>1. j # i /\ stage[j] = "waits" /\ holds'[j] = holds[j]
      BY <2>3, <2>4
    <3>2. calls[j] \in Keys /\ calls[j] # k
      BY <1>4, <3>1
    <3>3. pd[calls[j]] = pending[calls[j]]
      BY <1>10, <3>2, Zenon
    <3>4. pending[calls[j]] = holds[j]
      BY <1>6, <3>1
    <3>5. pending' = pd /\ calls' = calls
      BY <1>2, <2>1
    <3>6. QED
      BY <3>1, <3>3, <3>4, <3>5, Zenon
  <2>5. stopped' => \A v \in Works : work'[v] # "runs"
    BY <1>6, <2>1, <2>2
  <2>6. \A c \in Keys : pending'[c] # None => work'[pending'[c]] # "free"
    BY <1>6, <1>10, <2>1, <2>2
  <2>7. \A c \in Keys : told'[c] # None => work'[told'[c]] # "free"
    BY <1>6, <1>10, <2>1, <2>2, <2>6
  <2>8. ASSUME NEW c \in Keys, td[c] # None, work'[td[c]] = "runs" PROVE pd[c] = td[c]
    <3>1. work[td[c]] = "runs"
      BY <2>2, <2>8
    <3>2. QED
      BY <1>6, <1>10, <2>8, <3>1
  <2>9. ParkedIsKept'
    BY <2>1, <2>8 DEF ParkedIsKept
  <2>10. QED
    BY <2>4, <2>5, <2>6, <2>7, <2>9 DEF ParkInv
<1>11. CASE Collect(i, k)
  <2> DEFINE pd == Without(pending, k)
             td == IF told[k] = holds[i] THEN Without(told, k) ELSE told
  <2>1. stage[i] = "waits" /\ \E as \in Back : Comes(i, as, pd, td)
    BY <1>11 DEF Collect, Back
  <2>2. pending[k] = holds[i] /\ holds[i] # None
    BY <1>6, <1>7, <2>1 DEF CallInv, GroupTypes
  <2>3. pd \in [Keys -> Works \cup {None}] /\ td \in [Keys -> Works \cup {None}]
    BY <1>5 DEF Without
  <2>4. \A c \in Keys : pd[c] \in {pending[c], None} /\ (c # k => pd[c] = pending[c])
    BY <1>5 DEF Without
  <2>5. \A c \in Keys : td[c] # None => td[c] = told[c]
    BY <1>5 DEF Without
  <2>6. td[k] # None => ~ (work[td[k]] = "runs")
    BY <1>1, <1>5, <1>6, <2>2 DEF Without
  <2> HIDE DEF pd, td
  <2>7. PICK as \in Back : Comes(i, as, pd, td)
    BY <2>1
  <2>8. QED
    BY <1>10, <2>1, <2>3, <2>4, <2>5, <2>6, <2>7
<1>12. CASE GiveUp(i, k)
  <2> DEFINE pd == Without(pending, k)
  <2>1. stage[i] = "waits" /\ stopped /\ Comes(i, "failed", pd, told) /\ "failed" \in Back
    BY <1>12 DEF GiveUp, Back
  <2>2. pd \in [Keys -> Works \cup {None}]
    BY <1>5 DEF Without
  <2>3. \A c \in Keys : pd[c] \in {pending[c], None} /\ (c # k => pd[c] = pending[c])
    BY <1>5 DEF Without
  <2>4. told[k] # None => ~ (work[told[k]] = "runs")
    BY <1>1, <1>5, <1>6, <2>1
  <2> HIDE DEF pd
  <2>5. QED
    BY <1>5, <1>10, <2>1, <2>2, <2>3, <2>4
<1>13. CASE Overrun(i, k)
  <2> DEFINE td == [told EXCEPT ![k] = holds[i]]
  <2>1. stage[i] = "waits" /\ Comes(i, "parked", pending, td) /\ "parked" \in Back
    BY <1>13 DEF Overrun, Back
  <2>2. td \in [Keys -> Works \cup {None}]
    BY <1>5
  <2>3. td[k] = pending[k] /\ \A c \in Keys : c # k => td[c] = told[c]
    BY <1>1, <1>5, <1>6, <1>7, <2>1
  <2> HIDE DEF td
  <2>4. \A c \in Keys : td[c] # None => td[c] = told[c] \/ (c = k /\ td[c] = pending[c])
    BY <2>3
  <2>5. QED
    BY <1>5, <1>10, <2>1, <2>2, <2>3, <2>4
<1>14. QED
  BY <1>5, <1>8, <1>9, <1>11, <1>12, <1>13 DEF CallStep


LEMMA ParkStep == DistinctCalls /\ CallInv /\ ParkInv /\ [Next]_vars => ParkInv'
<1> SUFFICES ASSUME DistinctCalls, CallInv, ParkInv, [Next]_vars PROVE ParkInv'
  OBVIOUS
<1>0. /\ stopped \in BOOLEAN /\ work \in [Works -> {"free", "runs", "doomed"} \cup Ended]
      /\ \A i \in Places : i \notin first .. last => stage[i] = "none"
  BY DEF CallInv, CallTypes, GroupTypes
<1>1. CASE UNCHANGED <<callVars, calls>>
  BY <1>1 DEF ParkInv, ParkedIsKept, callVars
<1>2. CASE Begin \/ Leave \/ Ask \/ Waited \/ HandBack \/ Fails \/ PlainAnswer \/ Interject \/ UNCHANGED vars
  <2>1. UNCHANGED <<callVars, calls>>
    BY <1>2 DEF Begin, Leave, Ask, Waited, HandBack, Fails, AskAgain, NudgeBlank, TooLong, Refused, Failing,
                PlainAnswer, Interject, vars, group
  <2>2. QED
    BY <1>1, <2>1
<1>3. CASE Says
  <2>1. UNCHANGED <<callVars, calls>>
    BY <1>3 DEF Says, Cut, Leaked, Blank, Nudge, KeptAlive, SentBack, Final, Answered, group
  <2>2. QED
    BY <1>1, <2>1
<1>4. ASSUME NEW ks \in CallLists, Truncated(ks) PROVE ParkInv'
  <2>1. UNCHANGED <<callVars, calls>>
    BY <1>4 DEF Truncated, Answered, group
  <2>2. QED
    BY <1>1, <2>1
(* Steps after which no call waits.                                        *)
<1>5. ASSUME UNCHANGED <<stopped, pending, work, told>>, \A i \in Places : stage'[i] # "waits" PROVE ParkInv'
  BY <1>5, WorksEnd
<1>6. ASSUME NEW ks \in CallLists, Call(ks) PROVE ParkInv'
  <2>1. pc # "running" /\ UNCHANGED callVars
    BY <1>6 DEF Call
  <2>2. \A i \in Places : stage[i] = "none"
    <3>1. first .. last = {}
      BY <2>1 DEF CallInv, GroupTypes
    <3>2. QED
      BY <1>0, <3>1
  <2>3. QED
    BY <1>5, <2>1, <2>2 DEF callVars
<1>7. CASE BeginGroup
  <2>1. /\ stage' = [i \in Places |-> IF i \in first .. GroupEnd THEN "due" ELSE "none"]
        /\ UNCHANGED <<stopped, pending, work, told>>
    BY <1>7 DEF BeginGroup
  <2>2. QED
    BY <1>5, <2>1
<1>8. CASE DoomLoop
  <2>1. pc = "running" /\ last < first /\ UNCHANGED callVars
    BY <1>8 DEF DoomLoop
  <2>2. \A i \in Places : stage[i] = "none"
    <3>1. first \in Nat /\ last \in Int
      <4>1. calls \in CallLists /\ first \in 1 .. Len(calls) /\ last \in first - 1 .. Len(calls)
        BY <2>1 DEF CallInv, GroupTypes
      <4>2. QED
        BY <4>1, CallFacts
    <3>2. first .. last = {}
      BY <2>1, <3>1
    <3>3. QED
      BY <1>0, <3>2
  <2>3. QED
    BY <1>5, <2>1, <2>2 DEF callVars
<1>9. CASE Write \/ WriteLast
  <2>1. stage' = [i \in Places |-> "none"] /\ UNCHANGED <<stopped, pending, work, told>>
    BY <1>9 DEF Write, WriteLast, Clear
  <2>2. QED
    BY <1>5, <2>1
<1>10. ASSUME NEW i \in Places, RunCall(i) PROVE ParkInv'
  BY <1>10, CallStepPark
<1>11. Cancel => /\ \A w \in Works : work'[w] = "runs" => work[w] = "runs"
                 /\ \A w \in Works : work'[w] = "free" => work[w] = "free"
                 /\ \A w \in Works : work'[w] # "runs"
  BY <1>0 DEF Cancel
<1>12. CASE Stop
  BY <1>11, <1>12, WorksEnd DEF Stop, group
<1>13. CASE TurnEnds
  <2>1. /\ pending' = pending /\ UNCHANGED <<stage, holds, calls>> /\ stopped' = FALSE /\ Cancel
        /\ told' = [k \in Keys |-> None]
    BY <1>13 DEF TurnEnds, group
  <2>2. \A k \in Keys : told'[k] = None
    BY <2>1
  <2>3. pending \in [Keys -> Works \cup {None}]
    BY DEF CallInv, CallTypes
  <2>4. \A k \in Keys : pending'[k] # None => work'[pending'[k]] # "free"
    BY <1>11, <2>1, <2>3 DEF ParkInv
  <2>5. ParkedIsKept'
    BY <2>2 DEF ParkedIsKept
  <2>6. QED
    BY <2>1, <2>2, <2>4, <2>5 DEF ParkInv
<1>14. CASE WorkStep
  <2>1. PICK w \in Works : WorkEnds(w)
    BY <1>14 DEF WorkStep
  <2>2. /\ UNCHANGED <<stopped, pending, stage, holds, told, calls>>
        /\ \E e \in Ended : work' = [work EXCEPT ![w] = e]
        /\ work[w] # "free"
    BY <1>14, <2>1 DEF WorkStep, WorkEnds, group, Ended
  <2>3. /\ \A v \in Works : work'[v] = "runs" => work[v] = "runs"
        /\ \A v \in Works : work'[v] = "free" => work[v] = "free"
    BY <1>0, <2>2 DEF Ended
  <2>4. QED
    BY <2>2, <2>3, WorksEnd
<1>15. QED
  BY <1>2, <1>3, <1>4, <1>6, <1>7, <1>8, <1>9, <1>10, <1>12, <1>13, <1>14
     DEF Next, LoopStep, Returns, Calls, Runs

LEMMA InitCalls == Init => CallInv /\ ParkInv
<1> SUFFICES ASSUME Init PROVE CallInv /\ ParkInv
  OBVIOUS
<1>1. /\ pc = "idle" /\ calls = <<>> /\ first = 1 /\ last = 0 /\ pictures = 0 /\ CallInit
  BY DEF Init
<1>2. CallTypes
  BY <1>1 DEF CallInit, CallTypes, Stages
<1>3. GroupTypes
  BY <1>1 DEF CallInit, GroupTypes
<1>4. ParkInv
  BY <1>1 DEF CallInit, ParkInv, ParkedIsKept
<1>5. QED
  BY <1>2, <1>3, <1>4 DEF CallInv

(* A call whose deadline passed is answered "still running": while the     *)
(* model was last told so of a tool with its arguments, and the work has   *)
(* neither ended nor gone with its turn, the register `pending` still      *)
(* holds that work, so that the same call made again looks in on it and    *)
(* starts no second one. It is so as long as one answer does not make the  *)
(* same call twice.                                                        *)
THEOREM ParkedStays == ASSUME DistinctCalls PROVE Spec => []ParkedIsKept
<1>1. ParkInv => ParkedIsKept
  BY DEF ParkInv
<1>2. CallInv /\ ParkInv /\ [Next]_vars => (CallInv /\ ParkInv)'
  BY CallInvStep, ParkStep
<1>3. QED
  BY <1>1, <1>2, InitCalls, PTL DEF Spec

-----------------------------------------------------------------------------
(* The history.                                                            *)

LEMMA MessageKinds ==
  /\ \A x \in UserWords : User(x) \in Messages /\ User(x).role = "user" /\ User(x).of = 0
  /\ \A a \in 1 .. MaxRequests, n \in 0 .. MaxCalls, x \in {"text", "alone"} :
       /\ Assistant(a, n, x) \in Messages
       /\ Assistant(a, n, x).role = "assistant" /\ Assistant(a, n, x).of = a /\ Assistant(a, n, x).n = n
  /\ \A a \in 1 .. MaxRequests, i \in Places :
       /\ Result(a, i) \in Messages
       /\ Result(a, i).role = "tool" /\ Result(a, i).of = a /\ Result(a, i).n = i
  /\ \A m \in Messages :
       /\ m.role \in {"user", "assistant", "tool"} /\ m.of \in Nat /\ m.n \in Nat
       /\ (m.of = 0) <=> (m.role = "user")
<1>1. MaxRequests \in Nat /\ MaxCalls \in Nat
  BY AgentLoopAssumption, ToolCallsAssumption
<1>2. \A x \in UserWords : User(x) \in Messages /\ User(x).role = "user" /\ User(x).of = 0
  BY DEF User, Messages
<1>3. \A a \in 1 .. MaxRequests, n \in 0 .. MaxCalls, x \in {"text", "alone"} :
       /\ Assistant(a, n, x) \in Messages
       /\ Assistant(a, n, x).role = "assistant" /\ Assistant(a, n, x).of = a /\ Assistant(a, n, x).n = n
  BY DEF Assistant, Messages
<1>4. \A a \in 1 .. MaxRequests, i \in Places :
       /\ Result(a, i) \in Messages
       /\ Result(a, i).role = "tool" /\ Result(a, i).of = a /\ Result(a, i).n = i
  BY DEF Result, Messages
<1>5. ASSUME NEW m \in Messages
      PROVE  /\ m.role \in {"user", "assistant", "tool"} /\ m.of \in Nat /\ m.n \in Nat
             /\ (m.of = 0) <=> (m.role = "user")
  BY <1>1 DEF Messages, Places
<1>6. QED
  BY <1>2, <1>3, <1>4, <1>5

(* A history whose messages are of the answers up to a.                    *)
HistoryUpTo(h, a) == h \in Seq(Messages) /\ \A j \in DOMAIN h : h[j].of <= a

(* Every result stands behind its answer, with nothing but results of the  *)
(* same answer between the two.                                            *)
OwnedAt(h, j) ==
  \E i \in 1 .. j - 1 :
    /\ h[i].role = "assistant" /\ h[i].n >= h[j].n
    /\ \A m \in i .. j : h[m].of = h[j].of

Owned(h) == \A j \in DOMAIN h : h[j].role = "tool" => OwnedAt(h, j)

(* The answer at place i has all of its results behind it.                 *)
Served(h, i) == \A k \in 1 .. h[i].n : i + k <= Len(h) /\ h[i + k] = Result(h[i].of, k)

(* All answers after the one numbered s have, ...                          *)
Whole(h, s) == \A i \in DOMAIN h : h[i].role = "assistant" /\ h[i].of > s => Served(h, i)

(* ... or all but the last one, of which the first m of n are there.       *)
Open(h, a, n, m, s) ==
  \E p \in DOMAIN h :
    /\ h[p] = Assistant(a, n, "text") /\ Len(h) = p + m
    /\ \A k \in 1 .. m : h[p + k] = Result(a, k)
    /\ \A i \in 1 .. p - 1 : h[i].role = "assistant" /\ h[i].of > s => Served(h, i)

(* Places of a history that goes on.                                       *)
LEMMA Longer ==
  ASSUME NEW h \in Seq(Messages), NEW e \in Seq(Messages)
  PROVE  /\ h \o e \in Seq(Messages)
         /\ Len(h) \in Nat /\ Len(e) \in Nat /\ Len(h \o e) = Len(h) + Len(e)
         /\ DOMAIN h = 1 .. Len(h) /\ DOMAIN e = 1 .. Len(e)
         /\ DOMAIN (h \o e) = 1 .. Len(h) + Len(e)
         /\ \A i \in 1 .. Len(h) : (h \o e)[i] = h[i] /\ h[i] \in Messages
         /\ \A i \in 1 .. Len(e) : (h \o e)[Len(h) + i] = e[i] /\ e[i] \in Messages
         /\ \A j \in 1 .. Len(h) + Len(e) : j \notin 1 .. Len(h) =>
              j - Len(h) \in 1 .. Len(e) /\ (h \o e)[j] = e[j - Len(h)]
<1>1. /\ h \o e \in Seq(Messages) /\ Len(h \o e) = Len(h) + Len(e)
      /\ \A i \in 1 .. Len(h) + Len(e) : (h \o e)[i] = IF i <= Len(h) THEN h[i] ELSE e[i - Len(h)]
  BY ConcatProperties
<1>2. /\ Len(h) \in Nat /\ Len(e) \in Nat /\ DOMAIN h = 1 .. Len(h) /\ DOMAIN e = 1 .. Len(e)
  BY LenProperties
<1>3. DOMAIN (h \o e) = 1 .. Len(h) + Len(e)
  BY <1>1, LenProperties
<1>4. /\ \A i \in 1 .. Len(h) : h[i] \in Messages
      /\ \A i \in 1 .. Len(e) : e[i] \in Messages
  BY ElementOfSeq
<1>5. ASSUME NEW i \in 1 .. Len(h) PROVE (h \o e)[i] = h[i]
  BY <1>1, <1>2
<1>6. ASSUME NEW i \in 1 .. Len(e) PROVE (h \o e)[Len(h) + i] = e[i]
  <2>1. Len(h) + i \in 1 .. Len(h) + Len(e) /\ ~ (Len(h) + i <= Len(h)) /\ (Len(h) + i) - Len(h) = i
    BY <1>2
  <2>2. QED
    BY <1>1, <2>1
<1>7. ASSUME NEW j \in 1 .. Len(h) + Len(e), j \notin 1 .. Len(h)
      PROVE  j - Len(h) \in 1 .. Len(e) /\ (h \o e)[j] = e[j - Len(h)]
  <2>1. ~ (j <= Len(h)) /\ j - Len(h) \in 1 .. Len(e)
    BY <1>2, <1>7
  <2>2. QED
    BY <1>1, <2>1
<1>8. QED
  BY <1>1, <1>2, <1>3, <1>4, <1>5, <1>6, <1>7

LEMMA LongerUpTo ==
  ASSUME NEW h, NEW e \in Seq(Messages), NEW a \in Nat, NEW b \in Nat, a <= b, HistoryUpTo(h, a),
         \A i \in DOMAIN e : e[i].of <= b
  PROVE  HistoryUpTo(h \o e, b)
<1>1. h \in Seq(Messages) /\ \A i \in DOMAIN h : h[i].of <= a
  BY DEF HistoryUpTo
<1>2. ASSUME NEW j \in DOMAIN (h \o e) PROVE (h \o e)[j].of <= b
  <2>1. CASE j \in 1 .. Len(h)
    <3>1. (h \o e)[j] = h[j] /\ h[j] \in Messages /\ j \in DOMAIN h
      BY <1>1, <2>1, Longer
    <3>2. h[j].of \in Nat /\ h[j].of <= a
      BY <1>1, <3>1, MessageKinds
    <3>3. QED
      BY <3>1, <3>2
  <2>2. CASE j \notin 1 .. Len(h)
    <3>1. j - Len(h) \in DOMAIN e /\ (h \o e)[j] = e[j - Len(h)]
      BY <1>1, <2>2, Longer
    <3>2. QED
      BY <3>1
  <2>3. QED
    BY <2>1, <2>2
<1>3. QED
  BY <1>1, <1>2, Longer DEF HistoryUpTo

(* What was owned, or served, stays so.                                    *)
LEMMA StaysOwned ==
  ASSUME NEW h \in Seq(Messages), NEW e \in Seq(Messages), Owned(h),
         NEW j \in 1 .. Len(h), h[j].role = "tool"
  PROVE  OwnedAt(h \o e, j)
<1>1. j \in DOMAIN h /\ Len(h) \in Nat
  BY Longer
<1>2. PICK i \in 1 .. j - 1 :
        /\ h[i].role = "assistant" /\ h[i].n >= h[j].n
        /\ \A m \in i .. j : h[m].of = h[j].of
  BY <1>1 DEF Owned, OwnedAt
<1>3. i \in 1 .. Len(h) /\ j \in 1 .. Len(h) /\ \A m \in i .. j : m \in 1 .. Len(h)
  BY <1>1
<1>4. (h \o e)[i] = h[i] /\ (h \o e)[j] = h[j] /\ \A m \in i .. j : (h \o e)[m] = h[m]
  BY <1>3, Longer
<1>5. QED
  BY <1>2, <1>4 DEF OwnedAt

LEMMA StaysServed ==
  ASSUME NEW h \in Seq(Messages), NEW e \in Seq(Messages), NEW i \in 1 .. Len(h), Served(h, i)
  PROVE  Served(h \o e, i)
<1>1. (h \o e)[i] = h[i] /\ h[i] \in Messages /\ Len(h) \in Nat /\ Len(e) \in Nat /\ Len(h \o e) = Len(h) + Len(e)
  BY Longer
<1>2. h[i].n \in Nat
  BY <1>1, MessageKinds
<1>3. ASSUME NEW k \in 1 .. h[i].n
      PROVE  i + k <= Len(h \o e) /\ (h \o e)[i + k] = Result(h[i].of, k)
  <2>1. i + k <= Len(h) /\ h[i + k] = Result(h[i].of, k)
    BY <1>3 DEF Served
  <2>2. i + k \in 1 .. Len(h)
    BY <1>1, <1>2, <2>1
  <2>3. (h \o e)[i + k] = h[i + k]
    BY <2>2, Longer
  <2>4. QED
    BY <1>1, <2>1, <2>2, <2>3
<1>4. QED
  BY <1>1, <1>3 DEF Served

(* Messages that are no results leave the results what they were, ...      *)
LEMMA OthersMore ==
  ASSUME NEW h \in Seq(Messages), NEW e \in Seq(Messages), Owned(h), \A i \in DOMAIN e : e[i].role # "tool"
  PROVE  Owned(h \o e)
<1>1. ASSUME NEW j \in DOMAIN (h \o e), (h \o e)[j].role = "tool"
      PROVE  OwnedAt(h \o e, j)
  <2>1. CASE j \in 1 .. Len(h)
    <3>1. h[j].role = "tool"
      BY <1>1, <2>1, Longer
    <3>2. QED
      BY <2>1, <3>1, StaysOwned
  <2>2. CASE j \notin 1 .. Len(h)
    <3>1. j - Len(h) \in DOMAIN e /\ (h \o e)[j] = e[j - Len(h)]
      BY <2>2, Longer
    <3>2. QED
      BY <1>1, <3>1
  <2>3. QED
    BY <2>1, <2>2
<1>2. QED
  BY <1>1 DEF Owned

(* ... and answers too, when they call for none.                           *)
Plain(m, b) == m.of <= b /\ (m.role = "user" \/ (m.role = "assistant" /\ m.n = 0))

LEMMA PlainMore ==
  ASSUME NEW h, NEW e \in Seq(Messages), NEW s \in Nat, NEW a \in Nat, NEW b \in Nat, a <= b,
         HistoryUpTo(h, a), Owned(h), \A i \in DOMAIN e : Plain(e[i], b)
  PROVE  /\ HistoryUpTo(h \o e, b) /\ Owned(h \o e)
         /\ Whole(h, s) => Whole(h \o e, s)
<1>1. h \in Seq(Messages)
  BY DEF HistoryUpTo
<1>2. HistoryUpTo(h \o e, b)
  BY LongerUpTo DEF Plain
<1>3. Owned(h \o e)
  BY <1>1, OthersMore DEF Plain
<1>4. ASSUME Whole(h, s) PROVE Whole(h \o e, s)
  <2>1. ASSUME NEW i \in DOMAIN (h \o e), (h \o e)[i].role = "assistant", (h \o e)[i].of > s
        PROVE  Served(h \o e, i)
    <3>1. CASE i \in 1 .. Len(h)
      <4>1. (h \o e)[i] = h[i] /\ i \in DOMAIN h
        BY <1>1, <3>1, Longer
      <4>2. Served(h, i)
        BY <1>4, <2>1, <4>1 DEF Whole
      <4>3. QED
        BY <1>1, <3>1, <4>2, StaysServed
    <3>2. CASE i \notin 1 .. Len(h)
      <4>1. i - Len(h) \in DOMAIN e /\ (h \o e)[i] = e[i - Len(h)]
        BY <1>1, <3>2, Longer
      <4>2. (h \o e)[i].n = 0
        BY <2>1, <4>1 DEF Plain
      <4>3. QED
        BY <4>2 DEF Served
    <3>3. QED
      BY <3>1, <3>2
  <2>2. QED
    BY <2>1 DEF Whole
<1>5. QED
  BY <1>2, <1>3, <1>4

(* Results behind the last answer.                                         *)
LEMMA ResultsMore ==
  ASSUME NEW h \in Seq(Messages), NEW e \in Seq(Messages), Owned(h), NEW p \in 1 .. Len(h),
         h[p].role = "assistant", \A m \in p .. Len(h) : h[m].of = h[p].of,
         \A i \in DOMAIN e : e[i].role = "tool" /\ e[i].of = h[p].of /\ e[i].n <= h[p].n
  PROVE  Owned(h \o e)
<1>1. ASSUME NEW j \in DOMAIN (h \o e), (h \o e)[j].role = "tool"
      PROVE  OwnedAt(h \o e, j)
  <2>1. CASE j \in 1 .. Len(h)
    <3>1. h[j].role = "tool"
      BY <1>1, <2>1, Longer
    <3>2. QED
      BY <2>1, <3>1, StaysOwned
  <2>2. CASE j \notin 1 .. Len(h)
    <3>1. /\ j - Len(h) \in DOMAIN e /\ (h \o e)[j] = e[j - Len(h)] /\ j \in 1 .. Len(h) + Len(e)
          /\ Len(h) \in Nat /\ Len(e) \in Nat /\ DOMAIN e = 1 .. Len(e)
      BY <2>2, Longer
    <3>2. /\ (h \o e)[j].of = h[p].of /\ (h \o e)[j].n <= h[p].n /\ e[j - Len(h)] \in Messages /\ h[p] \in Messages
      BY <3>1, Longer
    <3>3. p \in 1 .. j - 1 /\ (h \o e)[p] = h[p]
      BY <2>2, <3>1, Longer
    <3>4. ASSUME NEW m \in p .. j PROVE (h \o e)[m].of = h[p].of
      <4>1. CASE m \in 1 .. Len(h)
        <5>1. m \in p .. Len(h) /\ (h \o e)[m] = h[m]
          BY <4>1, Longer
        <5>2. QED
          BY <5>1
      <4>2. CASE m \notin 1 .. Len(h)
        <5>1. m \in 1 .. Len(h) + Len(e)
          BY <3>1
        <5>2. m - Len(h) \in DOMAIN e /\ (h \o e)[m] = e[m - Len(h)]
          BY <3>1, <4>2, <5>1, Longer
        <5>3. QED
          BY <5>2
      <4>3. QED
        BY <4>1, <4>2
    <3>5. (h \o e)[p].n >= (h \o e)[j].n
      <4>1. h[p].n \in Nat /\ (h \o e)[j].n \in Nat
        BY <3>1, <3>2, MessageKinds
      <4>2. QED
        BY <3>2, <3>3, <4>1
    <3>6. QED
      BY <3>2, <3>3, <3>4, <3>5 DEF OwnedAt
  <2>3. QED
    BY <2>1, <2>2
<1>2. QED
  BY <1>1 DEF Owned

LEMMA OpenNew ==
  ASSUME NEW h \in Seq(Messages), NEW s \in Nat, Whole(h, s), NEW a \in 1 .. MaxRequests, NEW n \in 0 .. MaxCalls
  PROVE  Open(h \o <<Assistant(a, n, "text")>>, a, n, 0, s)
<1> DEFINE e == <<Assistant(a, n, "text")>>
           q == h \o e
<1>1. Assistant(a, n, "text") \in Messages
  BY MessageKinds
<1>2. e \in Seq(Messages) /\ Len(e) = 1 /\ e[1] = Assistant(a, n, "text")
  BY <1>1
<1> HIDE DEF e
<1>3. /\ Len(h) \in Nat /\ DOMAIN q = 1 .. Len(h) + 1 /\ Len(q) = Len(h) + 1
      /\ DOMAIN h = 1 .. Len(h) /\ q[Len(h) + 1] = Assistant(a, n, "text")
      /\ \A i \in 1 .. Len(h) : q[i] = h[i]
  <2>1. /\ Len(h) \in Nat /\ DOMAIN h = 1 .. Len(h) /\ Len(q) = Len(h) + Len(e)
        /\ DOMAIN q = 1 .. Len(h) + Len(e) /\ \A i \in 1 .. Len(h) : q[i] = h[i]
        /\ \A i \in 1 .. Len(e) : q[Len(h) + i] = e[i]
    BY <1>2, Longer
  <2>2. 1 \in 1 .. Len(e)
    BY <1>2
  <2>3. q[Len(h) + 1] = e[1]
    BY <2>1, <2>2
  <2> HIDE DEF q
  <2>4. QED
    BY <1>2, <2>1, <2>3
<1>4. ASSUME NEW i \in 1 .. Len(h), q[i].role = "assistant", q[i].of > s PROVE Served(q, i)
  <2>1. Served(h, i)
    BY <1>3, <1>4 DEF Whole
  <2>2. QED
    BY <1>2, <2>1, StaysServed
<1>5. (Len(h) + 1) - 1 = Len(h) /\ (Len(h) + 1) + 0 = Len(h) + 1 /\ Len(h) + 1 \in DOMAIN q /\ 1 .. 0 = {}
  BY <1>3
<1> HIDE DEF q
<1>6. \E p \in DOMAIN q :
        /\ q[p] = Assistant(a, n, "text") /\ Len(q) = p + 0
        /\ \A k \in 1 .. 0 : q[p + k] = Result(a, k)
        /\ \A i \in 1 .. p - 1 : q[i].role = "assistant" /\ q[i].of > s => Served(q, i)
  <2>1. \A i \in 1 .. (Len(h) + 1) - 1 : q[i].role = "assistant" /\ q[i].of > s => Served(q, i)
    BY <1>4, <1>5
  <2>2. \A k \in 1 .. 0 : q[(Len(h) + 1) + k] = Result(a, k)
    BY <1>5
  <2>3. QED
    BY <1>3, <1>5, <2>1, <2>2
<1>7. QED
  BY <1>6 DEF Open, q, e

LEMMA OpenOwned ==
  ASSUME NEW h \in Seq(Messages), NEW e \in Seq(Messages), NEW a \in 1 .. MaxRequests, NEW n \in 0 .. MaxCalls,
         NEW m \in 0 .. n, NEW s, Open(h, a, n, m, s), Owned(h),
         \A i \in DOMAIN e : e[i].role = "tool" /\ e[i].of = a /\ e[i].n <= n
  PROVE  Owned(h \o e)
<1>1. PICK p \in DOMAIN h :
        /\ h[p] = Assistant(a, n, "text") /\ Len(h) = p + m
        /\ \A k \in 1 .. m : h[p + k] = Result(a, k)
  BY DEF Open
<1>2. p \in 1 .. Len(h) /\ Len(h) \in Nat
  BY Longer
<1>3. h[p].role = "assistant" /\ h[p].of = a /\ h[p].n = n
  BY <1>1, MessageKinds
<1>4. ASSUME NEW j \in p .. Len(h) PROVE h[j].of = h[p].of
  <2>1. CASE j = p
    BY <2>1
  <2>2. CASE j # p
    <3>1. j - p \in 1 .. m /\ p + (j - p) = j
      BY <1>1, <1>2, <2>2
    <3>2. h[j] = Result(a, j - p)
      BY <1>1, <3>1
    <3>3. QED
      BY <1>3, <3>2 DEF Result
  <2>3. QED
    BY <2>1, <2>2
<1>5. QED
  BY <1>2, <1>3, <1>4, ResultsMore

LEMMA OpenMore ==
  ASSUME NEW h \in Seq(Messages), NEW a \in 1 .. MaxRequests, NEW n \in 0 .. MaxCalls, NEW m \in 0 .. n,
         NEW s \in Nat, Open(h, a, n, m, s), NEW r \in 0 .. n - m,
         NEW e \in Seq(Messages), Len(e) = r, \A i \in 1 .. r : e[i] = Result(a, m + i)
  PROVE  Open(h \o e, a, n, m + r, s)
<1> DEFINE q == h \o e
<1>1. PICK p \in DOMAIN h :
        /\ h[p] = Assistant(a, n, "text") /\ Len(h) = p + m
        /\ \A k \in 1 .. m : h[p + k] = Result(a, k)
        /\ \A i \in 1 .. p - 1 : h[i].role = "assistant" /\ h[i].of > s => Served(h, i)
  BY DEF Open
<1>2. /\ p \in 1 .. Len(h) /\ Len(h) \in Nat /\ Len(q) = Len(h) + r /\ DOMAIN q = 1 .. Len(h) + r
      /\ \A i \in 1 .. Len(h) : q[i] = h[i]
      /\ \A i \in 1 .. r : q[Len(h) + i] = Result(a, m + i)
  BY Longer
<1>3. p \in DOMAIN q /\ q[p] = Assistant(a, n, "text") /\ Len(q) = p + (m + r)
  BY <1>1, <1>2
<1>4. ASSUME NEW k \in 1 .. m + r PROVE q[p + k] = Result(a, k)
  <2>1. CASE k <= m
    <3>1. k \in 1 .. m /\ p + k \in 1 .. Len(h)
      BY <1>1, <1>2, <2>1
    <3>2. QED
      BY <1>1, <1>2, <3>1
  <2>2. CASE ~ (k <= m)
    <3>1. k - m \in 1 .. r /\ Len(h) + (k - m) = p + k /\ m + (k - m) = k
      BY <1>1, <1>2, <2>2
    <3>2. q[Len(h) + (k - m)] = Result(a, m + (k - m))
      BY <1>2, <3>1
    <3>3. QED
      BY <3>1, <3>2
  <2>3. QED
    BY <2>1, <2>2
<1>5. ASSUME NEW i \in 1 .. p - 1, q[i].role = "assistant", q[i].of > s PROVE Served(q, i)
  <2>1. i \in 1 .. Len(h) /\ q[i] = h[i]
    BY <1>2
  <2>2. Served(h, i)
    BY <1>1, <1>5, <2>1
  <2>3. QED
    BY <2>1, <2>2, StaysServed
<1> HIDE DEF q
<1>6. Open(q, a, n, m + r, s)
  BY <1>3, <1>4, <1>5 DEF Open
<1>7. QED
  BY <1>6 DEF q

LEMMA OpenWhole ==
  ASSUME NEW h \in Seq(Messages), NEW a \in 1 .. MaxRequests, NEW n \in 0 .. MaxCalls, NEW s \in Nat,
         Open(h, a, n, n, s)
  PROVE  Whole(h, s)
<1>1. PICK p \in DOMAIN h :
        /\ h[p] = Assistant(a, n, "text") /\ Len(h) = p + n
        /\ \A k \in 1 .. n : h[p + k] = Result(a, k)
        /\ \A i \in 1 .. p - 1 : h[i].role = "assistant" /\ h[i].of > s => Served(h, i)
  BY DEF Open
<1>2. p \in 1 .. Len(h) /\ Len(h) \in Nat /\ DOMAIN h = 1 .. Len(h)
  BY Longer
<1>3. ASSUME NEW i \in DOMAIN h, h[i].role = "assistant", h[i].of > s PROVE Served(h, i)
  <2>1. CASE i < p
    <3>1. i \in 1 .. p - 1
      BY <1>2, <2>1
    <3>2. QED
      BY <1>1, <1>3, <3>1
  <2>2. CASE i = p
    <3>1. h[i].of = a /\ h[i].n = n
      BY <1>1, <2>2, MessageKinds
    <3>2. ASSUME NEW k \in 1 .. n PROVE i + k <= Len(h) /\ h[i + k] = Result(a, k)
      BY <1>1, <1>2, <2>2
    <3>3. QED
      BY <3>1, <3>2 DEF Served
  <2>3. CASE i > p
    <3>1. i - p \in 1 .. n /\ p + (i - p) = i
      BY <1>1, <1>2, <2>3
    <3>2. h[i] = Result(a, i - p)
      BY <1>1, <3>1
    <3>3. QED
      BY <1>3, <3>2 DEF Result
  <2>4. QED
    BY <1>2, <2>1, <2>2, <2>3
<1>4. QED
  BY <1>3 DEF Whole

(* compactionBoundary: a user message.                                     *)
LEMMA BoundaryIsUser ==
  ASSUME NEW h \in Seq(Messages), Boundary(h) # 0
  PROVE  Boundary(h) \in 1 .. Len(h) /\ h[Boundary(h)].role = "user"
<1> DEFINE users == {i \in DOMAIN h : h[i].role = "user"}
           later == {i \in users : i > Len(h) - KeepRecent}
           before == {i \in users : 1 < i /\ i <= Len(h) - KeepRecent}
<1>1. Len(h) \in Nat /\ DOMAIN h = 1 .. Len(h)
  BY LenProperties
<1>2. /\ users \in SUBSET Nat /\ later \in SUBSET Nat /\ before \in SUBSET Nat
      /\ later \subseteq users /\ before \subseteq users /\ \A i \in before : i <= Len(h)
  BY <1>1
<1>3. CASE later # {}
  <2>1. Min(later) \in later
    BY <1>2, <1>3, MinIsIn
  <2>2. Boundary(h) = Min(later)
    BY <1>3 DEF Boundary
  <2>3. QED
    BY <1>1, <1>2, <2>1, <2>2
<1>4. CASE later = {}
  <2>1. before # {} /\ Boundary(h) = Max(before)
    BY <1>4 DEF Boundary
  <2>2. Max(before) \in before
    BY <1>1, <1>2, <2>1, MaxIsIn
  <2>3. QED
    BY <1>1, <1>2, <2>1, <2>2
<1>5. QED
  BY <1>3, <1>4


(* Where a message of a summarised history was before.                     *)
LEMMA SummaryPlaces ==
  ASSUME NEW h \in Seq(Messages), Boundary(h) # 0
  PROVE  /\ Boundary(h) \in 1 .. Len(h) /\ h[Boundary(h)].role = "user"
         /\ Summarised(h) \in Seq(Messages) /\ Len(Summarised(h)) = Len(h) - Boundary(h) + 2
         /\ DOMAIN Summarised(h) = 1 .. Len(h) - Boundary(h) + 2
         /\ Summarised(h)[1] = User("summary")
         /\ \A i \in 2 .. Len(h) - Boundary(h) + 2 : Summarised(h)[i] = h[i + Boundary(h) - 2]
<1> DEFINE b == Boundary(h)
           q == Summarised(h)
           t == SubSeq(h, b, Len(h))
           u == <<User("summary")>>
<1>1. b \in 1 .. Len(h) /\ h[b].role = "user" /\ Len(h) \in Nat /\ DOMAIN h = 1 .. Len(h)
      /\ \A i \in 1 .. Len(h) : h[i] \in Messages
  BY BoundaryIsUser, LenProperties, ElementOfSeq
<1> HIDE DEF b
<1>2. /\ t \in Seq(Messages) /\ Len(t) = Len(h) - b + 1
      /\ \A i \in 1 .. Len(h) - b + 1 : t[i] = h[b + i - 1]
  <2>1. \A i \in b .. Len(h) : h[i] \in Messages
    BY <1>1
  <2>2. QED
    BY <1>1, <2>1, SubSeqProperties
<1>3. User("summary") \in Messages /\ User("summary").role = "user" /\ User("summary").of = 0
  BY MessageKinds DEF UserWords
<1>4. u \in Seq(Messages) /\ Len(u) = 1 /\ u[1] = User("summary")
  BY <1>3
<1>5. q = u \o t
  BY DEF Summarised, b
<1> HIDE DEF q, t, u
<1>6. /\ q \in Seq(Messages) /\ Len(q) = Len(h) - b + 2 /\ DOMAIN q = 1 .. Len(h) - b + 2
      /\ q[1] = User("summary")
      /\ \A i \in 2 .. Len(h) - b + 2 : q[i] = h[i + b - 2]
  <2>1. /\ u \o t \in Seq(Messages) /\ Len(u \o t) = Len(u) + Len(t) /\ DOMAIN (u \o t) = 1 .. Len(u) + Len(t)
        /\ \A i \in 1 .. Len(u) : (u \o t)[i] = u[i]
        /\ \A i \in 1 .. Len(t) : (u \o t)[Len(u) + i] = t[i]
    BY <1>2, <1>4, Longer
  <2>2. 1 \in 1 .. Len(u) /\ Len(u) + Len(t) = Len(h) - b + 2
    BY <1>1, <1>2, <1>4
  <2>3. ASSUME NEW i \in 2 .. Len(h) - b + 2 PROVE q[i] = h[i + b - 2]
    <3>1. i - 1 \in 1 .. Len(t) /\ Len(u) + (i - 1) = i /\ b + (i - 1) - 1 = i + b - 2
      BY <1>1, <1>2, <1>4
    <3>2. (u \o t)[Len(u) + (i - 1)] = t[i - 1] /\ t[i - 1] = h[b + (i - 1) - 1]
      BY <1>2, <2>1, <3>1
    <3>3. QED
      BY <1>5, <3>1, <3>2
  <2>4. QED
    BY <1>4, <1>5, <2>1, <2>2, <2>3
<1>7. QED
  BY <1>1, <1>6 DEF q, b

(* A summary and what it leaves alone.                                     *)
LEMMA SummaryKeeps ==
  ASSUME NEW h \in Seq(Messages), Boundary(h) # 0
  PROVE  /\ Summarised(h) \in Seq(Messages)
         /\ Owned(h) => Owned(Summarised(h))
         /\ \A s \in Nat : Whole(h, s) => Whole(Summarised(h), s)
         /\ \A a \in Nat : HistoryUpTo(h, a) => HistoryUpTo(Summarised(h), a)
<1> DEFINE b == Boundary(h)
           q == Summarised(h)
<1>1. b \in 1 .. Len(h) /\ h[b].role = "user" /\ Len(h) \in Nat /\ DOMAIN h = 1 .. Len(h)
      /\ \A i \in 1 .. Len(h) : h[i] \in Messages
  BY BoundaryIsUser, LenProperties, ElementOfSeq
<1>2. User("summary").role = "user"
  BY MessageKinds DEF UserWords
<1>3. /\ q \in Seq(Messages) /\ Len(q) = Len(h) - b + 2 /\ DOMAIN q = 1 .. Len(h) - b + 2
      /\ q[1] = User("summary")
      /\ \A i \in 2 .. Len(h) - b + 2 : q[i] = h[i + b - 2]
  BY SummaryPlaces
<1> HIDE DEF b, q
<1>4. ASSUME NEW i \in DOMAIN q, q[i].role # "user"
      PROVE  i \in 2 .. Len(q) /\ i + b - 2 \in DOMAIN h /\ q[i] = h[i + b - 2]
  <2>1. i # 1
    BY <1>2, <1>3, <1>4
  <2>2. i \in 2 .. Len(h) - b + 2
    BY <1>1, <1>3, <2>1
  <2>3. q[i] = h[i + b - 2]
    BY <1>3, <2>2
  <2>4. i \in 2 .. Len(q)
    BY <1>3, <2>2
  <2>5. i + b - 2 \in 1 .. Len(h)
    BY <1>1, <2>2
  <2>6. QED
    BY <1>1, <2>3, <2>4, <2>5
<1>5. ASSUME Owned(h) PROVE Owned(q)
  <2>1. ASSUME NEW j \in DOMAIN q, q[j].role = "tool" PROVE OwnedAt(q, j)
    <3>1. /\ j \in 2 .. Len(q) /\ j + b - 2 \in DOMAIN h /\ q[j] = h[j + b - 2]
      BY <1>4, <2>1
    <3>2. PICK i \in 1 .. (j + b - 2) - 1 :
            /\ h[i].role = "assistant" /\ h[i].n >= h[j + b - 2].n
            /\ \A m \in i .. j + b - 2 : h[m].of = h[j + b - 2].of
      BY <1>5, <2>1, <3>1 DEF Owned, OwnedAt
    <3>3. h[b].of = 0 /\ h[j + b - 2].of # 0
      BY <1>1, <2>1, <3>1, MessageKinds
    <3>4. i > b
      <4>1. b \notin i .. j + b - 2
        BY <3>2, <3>3
      <4>2. QED
        BY <1>1, <1>3, <3>1, <3>2, <4>1
    <3>5. /\ i - b + 2 \in 1 .. j - 1 /\ i - b + 2 \in 2 .. Len(h) - b + 2 /\ (i - b + 2) + b - 2 = i
      BY <1>1, <1>3, <3>1, <3>2, <3>4
    <3>6. q[i - b + 2] = h[i]
      BY <1>3, <3>5
    <3>7. ASSUME NEW m \in (i - b + 2) .. j PROVE q[m].of = q[j].of
      <4>1. m \in 2 .. Len(h) - b + 2 /\ m + b - 2 \in i .. j + b - 2
        BY <1>1, <1>3, <3>1, <3>2, <3>4
      <4>2. q[m] = h[m + b - 2]
        BY <1>3, <4>1
      <4>3. QED
        BY <3>1, <3>2, <4>1, <4>2
    <3>8. QED
      BY <3>1, <3>2, <3>5, <3>6, <3>7 DEF OwnedAt
  <2>2. QED
    BY <2>1 DEF Owned
<1>6. ASSUME NEW s \in Nat, Whole(h, s) PROVE Whole(q, s)
  <2>1. ASSUME NEW i \in DOMAIN q, q[i].role = "assistant", q[i].of > s PROVE Served(q, i)
    <3>1. i \in 2 .. Len(q) /\ i + b - 2 \in DOMAIN h /\ q[i] = h[i + b - 2]
      BY <1>4, <2>1
    <3>2. Served(h, i + b - 2)
      BY <1>6, <2>1, <3>1 DEF Whole
    <3>3. q[i].n \in Nat
      BY <1>1, <3>1, MessageKinds
    <3>4. ASSUME NEW k \in 1 .. q[i].n PROVE i + k <= Len(q) /\ q[i + k] = Result(q[i].of, k)
      <4>1. (i + b - 2) + k <= Len(h) /\ h[(i + b - 2) + k] = Result(q[i].of, k)
        BY <3>1, <3>2, <3>4 DEF Served
      <4>2. i + k \in 2 .. Len(h) - b + 2 /\ (i + k) + b - 2 = (i + b - 2) + k
        BY <1>1, <1>3, <3>1, <3>3, <4>1, SMTT(30)
      <4>3. q[i + k] = h[(i + k) + b - 2]
        BY <1>3, <4>2
      <4>4. QED
        BY <1>1, <1>3, <4>1, <4>2, <4>3
    <3>5. QED
      BY <3>4 DEF Served
  <2>2. QED
    BY <2>1 DEF Whole
<1>7. ASSUME NEW a \in Nat, HistoryUpTo(h, a) PROVE HistoryUpTo(q, a)
  <2>1. ASSUME NEW i \in DOMAIN q PROVE q[i].of <= a
    <3>1. CASE q[i].role = "user"
      <4>1. q[i] \in Messages
        BY <1>3, LenProperties, ElementOfSeq
      <4>2. q[i].of = 0
        BY <3>1, <4>1, MessageKinds
      <4>3. QED
        BY <4>2
    <3>2. CASE q[i].role # "user"
      BY <1>4, <1>7, <3>2 DEF HistoryUpTo
    <3>3. QED
      BY <3>1, <3>2
  <2>2. QED
    BY <1>3, <2>1 DEF HistoryUpTo
<1>8. QED
  BY <1>3, <1>5, <1>6, <1>7 DEF q

LEMMA MayBeSummarised ==
  ASSUME NEW h \in Seq(Messages), NEW g \in Compactions(h), NEW s \in Nat, NEW a \in Nat,
         HistoryUpTo(h, a), Owned(h)
  PROVE  HistoryUpTo(g, a) /\ Owned(g) /\ (Whole(h, s) => Whole(g, s))
<1>1. g = h \/ (Boundary(h) # 0 /\ g = Summarised(h))
  BY DEF Compactions
<1>2. QED
  BY <1>1, SummaryKeeps

(* A turn that begins owes nothing to the answers before it.               *)
LEMMA NothingOwed ==
  ASSUME NEW h, NEW a \in Nat, HistoryUpTo(h, a)
  PROVE  Whole(h, a)
<1>1. ASSUME NEW i \in DOMAIN h, h[i].of > a PROVE FALSE
  <2>1. h[i] \in Messages /\ h[i].of <= a
    BY ElementOfSeq, LenProperties DEF HistoryUpTo
  <2>2. h[i].of \in Nat
    BY <2>1, MessageKinds
  <2>3. QED
    BY <1>1, <2>1, <2>2
<1>2. QED
  BY <1>1 DEF Whole

(* Sequences of one, two or three messages, of one message over and over,  *)
(* and of results.                                                         *)
LEMMA FewMessages ==
  ASSUME NEW x \in Messages, NEW y \in Messages, NEW z \in Messages, NEW b \in Nat
  PROVE  /\ <<x>> \in Seq(Messages) /\ (Plain(x, b) => \A i \in DOMAIN <<x>> : Plain(<<x>>[i], b))
         /\ <<x, y>> \in Seq(Messages)
         /\ Plain(x, b) /\ Plain(y, b) => \A i \in DOMAIN <<x, y>> : Plain(<<x, y>>[i], b)
         /\ <<x, y, z>> \in Seq(Messages)
         /\ Plain(x, b) /\ Plain(y, b) /\ Plain(z, b) =>
              \A i \in DOMAIN <<x, y, z>> : Plain(<<x, y, z>>[i], b)
<1> HIDE DEF Plain
<1>1. <<x>> \in Seq(Messages) /\ (Plain(x, b) => \A i \in DOMAIN <<x>> : Plain(<<x>>[i], b))
  OBVIOUS
<1>2. /\ <<x, y>> \in Seq(Messages)
      /\ Plain(x, b) /\ Plain(y, b) => \A i \in DOMAIN <<x, y>> : Plain(<<x, y>>[i], b)
  OBVIOUS
<1>3. /\ <<x, y, z>> \in Seq(Messages)
      /\ Plain(x, b) /\ Plain(y, b) /\ Plain(z, b) =>
           \A i \in DOMAIN <<x, y, z>> : Plain(<<x, y, z>>[i], b)
  OBVIOUS
<1>4. QED
  BY <1>1, <1>2, <1>3

LEMMA TimesIs ==
  ASSUME NEW n \in Nat, NEW m \in Messages
  PROVE  Times(n, m) \in Seq(Messages) /\ DOMAIN Times(n, m) = 1 .. n /\ \A i \in 1 .. n : Times(n, m)[i] = m
<1>1. \A i \in 1 .. n : m \in Messages
  OBVIOUS
<1>2. [i \in 1 .. n |-> m] \in Seq(Messages)
  BY IsASeq
<1>3. QED
  BY <1>2 DEF Times

ResultsOf(a, m, r) == [i \in 1 .. r |-> Result(a, m + i)]

LEMMA ResultSeq ==
  ASSUME NEW a \in 1 .. MaxRequests, NEW n \in 0 .. MaxCalls, NEW m \in 0 .. n, NEW r \in 0 .. n - m
  PROVE  LET e == ResultsOf(a, m, r) IN
         /\ e \in Seq(Messages) /\ Len(e) = r /\ DOMAIN e = 1 .. r
         /\ \A i \in 1 .. r : e[i] = Result(a, m + i)
         /\ \A i \in DOMAIN e : e[i].role = "tool" /\ e[i].of = a /\ e[i].n <= n
<1> DEFINE e == ResultsOf(a, m, r)
<1>1. MaxRequests \in Nat /\ MaxCalls \in Nat /\ r \in Nat /\ m \in Nat /\ n \in Nat
  BY AgentLoopAssumption, ToolCallsAssumption
<1>2. ASSUME NEW i \in 1 .. r
      PROVE  /\ Result(a, m + i) \in Messages /\ Result(a, m + i).role = "tool" /\ Result(a, m + i).of = a
             /\ Result(a, m + i).n <= n
  <2>1. m + i \in Places /\ m + i <= n
    BY <1>1 DEF Places
  <2>2. QED
    BY <2>1, MessageKinds
<1>3. e \in Seq(Messages)
  <2>1. \A i \in 1 .. r : Result(a, m + i) \in Messages
    BY <1>2
  <2>2. [i \in 1 .. r |-> Result(a, m + i)] \in Seq(Messages)
    BY <1>1, <2>1, IsASeq
  <2>3. QED
    BY <2>2 DEF ResultsOf
<1>4. DOMAIN e = 1 .. r
  BY DEF ResultsOf
<1>5. Len(e) = r
  BY <1>1, <1>3, <1>4, LenProperties
<1>6. \A i \in 1 .. r : e[i] = Result(a, m + i)
  BY DEF ResultsOf
<1>7. QED
  BY <1>2, <1>3, <1>4, <1>5, <1>6

(* Between two requests of a turn every call of it has its result; while   *)
(* the calls of an answer run, those of the groups before this one have.   *)
HistShape ==
  /\ asked \in 0 .. MaxRequests /\ since \in Nat /\ pictures \in Nat
  /\ pc \in {"asking", "running"} => asked # 0
  /\ HistoryUpTo(history, asked)

HistInv ==
  /\ HistShape
  /\ Owned(history)
  /\ pc \in {"top", "asking", "waiting"} => Whole(history, since)
  /\ pc = "running" => Open(history, asked, Len(calls), first - 1, since)

(* What is written behind the history, or behind its summary, without a    *)
(* call.                                                                   *)
LEMMA GrowStep ==
  ASSUME HistInv, NEW g, HistoryUpTo(g, asked), Owned(g),
         pc \in {"top", "asking", "waiting"} => Whole(g, since),
         NEW e \in Seq(Messages), \A i \in DOMAIN e : Plain(e[i], asked'),
         history' = g \o e, asked' \in asked .. MaxRequests, since' = since, pictures' = pictures,
         pc' \in {"top", "asking"} => pc \in {"top", "asking", "waiting"},
         pc' \in {"top", "asking", "ending"}, pc' = "asking" => asked' # 0
  PROVE  HistInv'
<1>1. asked \in Nat /\ asked' \in Nat /\ asked <= asked' /\ asked' \in 0 .. MaxRequests /\ since \in Nat
  BY AgentLoopAssumption DEF HistInv, HistShape
<1> HIDE DEF Plain
<1>2. /\ HistoryUpTo(history', asked') /\ Owned(history')
      /\ Whole(g, since) => Whole(history', since')
  BY <1>1, PlainMore
<1>3. pc' \notin {"running", "waiting"}
  OBVIOUS
<1>4. HistShape'
  BY <1>1, <1>2, <1>3 DEF HistInv, HistShape
<1>5. pc' \in {"top", "asking", "waiting"} => Whole(history', since')
  BY <1>2, <1>3
<1>6. QED
  BY <1>2, <1>3, <1>4, <1>5 DEF HistInv

(* Steps that leave the history alone.                                     *)
LEMMA QuietStep ==
  ASSUME HistInv, UNCHANGED <<history, asked, since, pictures, calls, first>>,
         \/ pc' = pc
         \/ pc' \in {"ending", "closing", "idle"}
         \/ pc' \in {"top", "waiting"} /\ pc \in {"asking", "waiting"}
  PROVE  HistInv'
<1>1. HistShape'
  BY DEF HistInv, HistShape
<1>2. pc' = "running" => pc = "running"
  OBVIOUS
<1>3. pc' \in {"top", "asking", "waiting"} => pc \in {"top", "asking", "waiting"}
  OBVIOUS
<1>4. QED
  BY <1>1, <1>2, <1>3 DEF HistInv

LEMMA CallHist ==
  ASSUME CallInv, HistInv, NEW ks \in CallLists, Call(ks) \/ Truncated(ks)
  PROVE  HistInv'
<1> DEFINE n == Len(ks)
           x == <<Assistant(asked, n, "text")>>
           g == history \o x
<1>1. /\ pc = "asking" /\ asked' = asked /\ since' = since
      /\ asked \in 1 .. MaxRequests /\ since \in Nat /\ HistoryUpTo(history, asked) /\ history \in Seq(Messages)
      /\ Owned(history) /\ Whole(history, since) /\ pictures = 0
  BY AgentLoopAssumption DEF Call, Truncated, Answered, HistInv, HistShape, HistoryUpTo, CallInv, GroupTypes
<1>2. n \in 0 .. MaxCalls /\ n \in Nat /\ 0 \in 0 .. n /\ n \in 0 .. n - 0
  BY CallFacts
<1>3. /\ Assistant(asked, n, "text") \in Messages
      /\ Assistant(asked, n, "text").role = "assistant" /\ Assistant(asked, n, "text").of = asked
  BY <1>1, <1>2, MessageKinds
<1>4. x \in Seq(Messages) /\ \A i \in DOMAIN x : x[i].role # "tool" /\ x[i].of <= asked
  BY <1>1, <1>3
<1>5. Append(history, Assistant(asked, n, "text")) = g
  BY <1>1, <1>3, AppendIsConcat
<1>6. Open(g, asked, n, 0, since)
  BY <1>1, <1>2, OpenNew
<1> HIDE DEF n, x
<1>7. g \in Seq(Messages) /\ Owned(g) /\ HistoryUpTo(g, asked)
  <2>1. Owned(g)
    BY <1>1, <1>4, OthersMore
  <2>2. HistoryUpTo(g, asked)
    BY <1>1, <1>4, LongerUpTo
  <2>3. QED
    BY <2>1, <2>2 DEF HistoryUpTo
<1> HIDE DEF g
<1>8. CASE Call(ks)
  <2>1. /\ pc' = "running" /\ history' = g /\ calls' = ks /\ first' = 1 /\ pictures' = 0
    BY <1>5, <1>8 DEF Call, n
  <2>2. HistShape'
    BY <1>1, <1>7, <2>1, AgentLoopAssumption DEF HistInv, HistShape
  <2>3. Open(history', asked', Len(calls'), first' - 1, since')
    BY <1>1, <1>6, <2>1 DEF n
  <2>4. QED
    BY <1>7, <2>1, <2>2, <2>3 DEF HistInv
<1>9. CASE Truncated(ks)
  <2> DEFINE e == [i \in 1 .. n |-> Result(asked, i)]
  <2>1. pc' = "top" /\ history' = g \o e /\ UNCHANGED <<calls, first, pictures>>
    BY <1>5, <1>9 DEF Truncated, Answered, n, group
  <2>2. e = ResultsOf(asked, 0, n)
    <3>1. \A i \in 1 .. n : 0 + i = i
      BY <1>2
    <3>2. QED
      BY <3>1 DEF ResultsOf
  <2>3. /\ e \in Seq(Messages) /\ Len(e) = n /\ \A i \in 1 .. n : e[i] = Result(asked, 0 + i)
        /\ \A i \in DOMAIN e : e[i].role = "tool" /\ e[i].of = asked /\ e[i].n <= n
    <3> HIDE DEF e
    <3>1. LET z == ResultsOf(asked, 0, n) IN
          /\ z \in Seq(Messages) /\ Len(z) = n /\ \A i \in 1 .. n : z[i] = Result(asked, 0 + i)
          /\ \A i \in DOMAIN z : z[i].role = "tool" /\ z[i].of = asked /\ z[i].n <= n
      BY <1>1, <1>2, ResultSeq, ZenonT(40)
    <3>2. QED
      BY <2>2, <3>1
  <2> HIDE DEF e
  <2>4. Owned(g \o e)
    BY <1>1, <1>2, <1>6, <1>7, <2>3, OpenOwned
  <2>5. HistoryUpTo(g \o e, asked)
    BY <1>1, <1>7, <2>3, LongerUpTo
  <2>6. Open(g \o e, asked, n, 0 + n, since)
    BY <1>1, <1>2, <1>6, <1>7, <2>3, OpenMore
  <2>7. Whole(g \o e, since)
    <3>1. 0 + n = n /\ g \o e \in Seq(Messages)
      BY <1>2, <2>5 DEF HistoryUpTo
    <3>2. QED
      BY <1>1, <1>2, <2>6, <3>1, OpenWhole
  <2>8. HistShape'
    BY <1>1, <2>1, <2>5, AgentLoopAssumption DEF HistInv, HistShape
  <2>9. QED
    BY <1>1, <2>1, <2>4, <2>7, <2>8 DEF HistInv
<1>10. QED
  BY <1>8, <1>9

LEMMA RunHist ==
  ASSUME CallInv, HistInv, DoomLoop \/ Write \/ WriteLast
  PROVE  HistInv'
<1> DEFINE n == Len(calls)
           m == first - 1
<1>1. /\ pc = "running" /\ asked' = asked /\ since' = since
      /\ calls \in CallLists /\ first \in 1 .. n /\ last \in first - 1 .. n
  BY DEF DoomLoop, Write, WriteLast, GroupBack, CallInv, GroupTypes
<1>2. /\ asked \in 1 .. MaxRequests /\ since \in Nat /\ pictures \in Nat /\ HistoryUpTo(history, asked)
      /\ history \in Seq(Messages) /\ Owned(history) /\ Open(history, asked, n, m, since)
  BY <1>1, AgentLoopAssumption DEF HistInv, HistShape, HistoryUpTo
<1>3. n \in 1 .. MaxCalls /\ n \in 0 .. MaxCalls /\ n \in Nat /\ Places = 1 .. MaxCalls
      /\ MaxCalls \in Nat
  BY <1>1, CallFacts
<1>4. m \in 0 .. n /\ m \in Nat /\ first \in Nat /\ first >= 1 /\ last \in Nat
  BY <1>1, <1>3
<1> HIDE DEF n
(* Results of the open answer, and the pictures behind them.               *)
<1>5. ASSUME NEW e \in Seq(Messages), \A i \in DOMAIN e : e[i].role = "tool" /\ e[i].of = asked /\ e[i].n <= n
      PROVE  Owned(history \o e) /\ HistoryUpTo(history \o e, asked) /\ history \o e \in Seq(Messages)
  <2> HIDE DEF m
  <2>1. Owned(history \o e)
    BY <1>2, <1>3, <1>4, <1>5, OpenOwned
  <2>2. HistoryUpTo(history \o e, asked)
    BY <1>2, <1>5, LongerUpTo
  <2>3. QED
    BY <2>1, <2>2 DEF HistoryUpTo
<1>6. ASSUME NEW g \in Seq(Messages), HistoryUpTo(g, asked), Owned(g), NEW k \in Nat
      PROVE  /\ HistoryUpTo(g \o Times(k, User("picture")), asked) /\ Owned(g \o Times(k, User("picture")))
             /\ Whole(g, since) => Whole(g \o Times(k, User("picture")), since)
  <2>1. User("picture") \in Messages /\ Plain(User("picture"), asked)
    BY <1>2, MessageKinds DEF UserWords, Plain
  <2>2. /\ Times(k, User("picture")) \in Seq(Messages)
        /\ \A i \in DOMAIN Times(k, User("picture")) : Plain(Times(k, User("picture"))[i], asked)
    <3> HIDE DEF Plain
    <3>1. QED
      BY <2>1, TimesIs
  <2> HIDE DEF Plain
  <2>3. QED
    BY <1>2, <1>6, <2>2, PlainMore
<1>7. CASE DoomLoop
  <2> DEFINE j == Min(Looping)
             e == <<Result(asked, j)>>
  <2>1. /\ pc' = "ending" /\ pictures' = 0
        /\ history' = Append(history, Result(asked, j)) \o Times(pictures, User("picture"))
    BY <1>7 DEF DoomLoop, NoCalls
  <2>2. j \in first .. n
    <3>1. GroupEnd \in first .. n
      BY <1>1, GroupEndIn DEF n
    <3>2. Looping \in SUBSET Nat /\ Looping # {} /\ Looping \subseteq first .. n
      BY <1>3, <1>4, <1>7, <3>1 DEF Looping, DoomLoop
    <3> HIDE DEF j
    <3>3. Min(Looping) \in Looping
      BY <3>2, MinIsIn
    <3>4. QED
      BY <3>2, <3>3 DEF j
  <2> HIDE DEF j
  <2>3. j \in Places /\ j <= n
    <3>1. j \in Nat /\ j >= 1 /\ j <= n /\ n <= MaxCalls
      BY <1>3, <1>4, <2>2
    <3>2. QED
      BY <1>3, <3>1
  <2>4. /\ Result(asked, j) \in Messages /\ Result(asked, j).role = "tool"
        /\ Result(asked, j).of = asked /\ Result(asked, j).n = j
    BY <1>2, <2>3, MessageKinds
  <2>5. e \in Seq(Messages) /\ \A i \in DOMAIN e : e[i].role = "tool" /\ e[i].of = asked /\ e[i].n <= n
    BY <2>3, <2>4
  <2>6. Append(history, Result(asked, j)) = history \o e
    BY <1>2, <2>4, AppendIsConcat
  <2> HIDE DEF e
  <2>7. Owned(history') /\ HistoryUpTo(history', asked)
    BY <1>2, <1>5, <1>6, <2>1, <2>5, <2>6
  <2>8. HistShape'
    BY <1>1, <1>2, <2>1, <2>7, AgentLoopAssumption DEF HistInv, HistShape
  <2>9. QED
    BY <2>1, <2>7, <2>8 DEF HistInv
<1>8. CASE Write \/ WriteLast
  <2> DEFINE r == last - first + 1
  <2>1. r \in 0 .. n - m /\ m + r = last
    BY <1>1, <1>3, <1>4
  <2>2. Results = ResultsOf(asked, m, r)
    <3>1. \A i \in 1 .. r : first + i - 1 = m + i
      BY <1>4
    <3>2. QED
      BY <3>1 DEF Results, ResultsOf, InOrder
  <2> HIDE DEF r, m
  <2>3. /\ Results \in Seq(Messages) /\ Len(Results) = r /\ \A i \in 1 .. r : Results[i] = Result(asked, m + i)
        /\ \A i \in DOMAIN Results : Results[i].role = "tool" /\ Results[i].of = asked /\ Results[i].n <= n
    <3>1. LET z == ResultsOf(asked, m, r) IN
          /\ z \in Seq(Messages) /\ Len(z) = r /\ \A i \in 1 .. r : z[i] = Result(asked, m + i)
          /\ \A i \in DOMAIN z : z[i].role = "tool" /\ z[i].of = asked /\ z[i].n <= n
      BY <1>2, <1>3, <1>4, <2>1, ResultSeq, ZenonT(40)
    <3>2. QED
      BY <2>2, <3>1
  <2> DEFINE g == history \o Results
  <2>4. Owned(g) /\ HistoryUpTo(g, asked) /\ g \in Seq(Messages)
    BY <1>5, <2>3
  <2>5. Open(g, asked, n, last, since)
    BY <1>2, <1>3, <1>4, <2>1, <2>3, OpenMore
  <2> HIDE DEF g
  <2>6. Shot \in Nat
    <3> DEFINE F == {i \in first .. last : stage[i] = "done" /\ calls[i] \in Cameras}
    <3>1. IsFiniteSet(first .. last)
      BY <1>4, FS_Interval
    <3>2. IsFiniteSet(F)
      BY <3>1, FS_Subset
    <3> HIDE DEF F
    <3>3. Cardinality(F) \in Nat
      BY <3>2, FS_CardinalityType
    <3>4. QED
      BY <3>3 DEF Shot, F
  <2>7. pictures + Shot \in Nat
    BY <1>2, <2>6
  <2>8. CASE Write
    <3>1. /\ pc' = pc /\ calls' = calls /\ history' = g /\ pictures' = pictures + Shot /\ first' = last + 1
      BY <2>8 DEF Write, g
    <3>2. HistShape'
      BY <1>1, <1>2, <2>4, <2>7, <3>1, AgentLoopAssumption DEF HistInv, HistShape
    <3>3. first' - 1 = last
      BY <1>4, <3>1
    <3>4. Open(history', asked', Len(calls'), first' - 1, since')
      BY <1>1, <2>5, <3>1, <3>3 DEF n
    <3>5. QED
      BY <1>1, <2>4, <3>1, <3>2, <3>4 DEF HistInv
  <2>9. CASE WriteLast
    <3> DEFINE h == g \o Times(pictures + Shot, User("picture"))
    <3>1. /\ pictures' = 0 /\ history' = h /\ pc' \in {"ending", "top"}
          /\ pc' = "top" => last = n
      BY <2>9 DEF WriteLast, NoCalls, g, n
    <3> HIDE DEF h
    <3>2. HistoryUpTo(h, asked) /\ Owned(h) /\ (Whole(g, since) => Whole(h, since))
      BY <1>6, <2>4, <2>7 DEF h
    <3>3. last = n => Whole(h, since)
      BY <1>2, <1>3, <2>4, <2>5, <3>2, OpenWhole
    <3>4. HistShape'
      BY <1>1, <1>2, <3>1, <3>2, AgentLoopAssumption DEF HistInv, HistShape
    <3>5. QED
      BY <1>1, <3>1, <3>2, <3>3, <3>4 DEF HistInv
  <2>10. QED
    BY <1>8, <2>8, <2>9
<1>9. QED
  BY <1>7, <1>8

LEMMA FailsHist ==
  ASSUME CallInv, HistInv, Fails
  PROVE  HistInv'
<1>1. /\ pc = "asking" /\ asked' = asked /\ since' = since /\ pictures' = pictures /\ calls' = calls /\ first' = first
      /\ pc' \in {"top", "waiting", "ending"}
  BY DEF Fails, AskAgain, NudgeBlank, TooLong, Refused, Failing, group
<1>2. /\ asked \in asked .. MaxRequests /\ asked \in Nat /\ since \in Nat /\ HistoryUpTo(history, asked)
      /\ history \in Seq(Messages) /\ Owned(history) /\ Whole(history, since)
  BY <1>1, AgentLoopAssumption DEF HistInv, HistShape, HistoryUpTo
<1>3. CASE (\E t \in Troubles : AskAgain(t)) \/ Refused
  <2>1. history' = history
    BY <1>3 DEF AskAgain, Refused
  <2>2. QED
    BY <1>1, <2>1, QuietStep
<1>4. CASE NudgeBlank
  <2> DEFINE e == <<User("blank")>>
  <2>1. User("blank") \in Messages /\ Plain(User("blank"), asked)
    BY <1>2, MessageKinds DEF UserWords, Plain
  <2>2. history' = history \o e /\ pc' = "top"
    BY <1>2, <1>4, <2>1, AppendIsConcat DEF NudgeBlank, Failing
  <2>3. e \in Seq(Messages) /\ \A i \in DOMAIN e : Plain(e[i], asked)
    BY <1>2, <2>1, FewMessages
  <2> HIDE DEF e
  <2>4. QED
    BY <1>1, <1>2, <2>2, <2>3, GrowStep
<1>5. CASE TooLong
  <2>1. Boundary(history) # 0 /\ history' = Summarised(history) /\ pc' = "top"
    BY <1>5 DEF TooLong, Failing
  <2>2. HistoryUpTo(history', asked) /\ Owned(history') /\ Whole(history', since)
    BY <1>2, <2>1, SummaryKeeps
  <2>3. HistShape'
    BY <1>1, <2>1, <2>2 DEF HistInv, HistShape
  <2>4. QED
    BY <1>1, <2>1, <2>2, <2>3 DEF HistInv
<1>6. QED
  BY <1>3, <1>4, <1>5 DEF Fails

LEMMA AskHist ==
  ASSUME HistInv, WordInv, Begin \/ Ask
  PROVE  HistInv'
<1>1. /\ pictures' = pictures /\ asked \in 0 .. MaxRequests /\ asked \in Nat /\ since \in Nat /\ pictures \in Nat
      /\ HistoryUpTo(history, asked) /\ history \in Seq(Messages) /\ Owned(history)
  BY AgentLoopAssumption DEF Begin, Ask, group, HistInv, HistShape, HistoryUpTo
<1>2. CASE Begin
  <2>1. PICK h \in Compactions(history) : history' = Append(h, User("question"))
    BY <1>2 DEF Begin
  <2>2. pc' = "top" /\ since' = asked /\ asked' = asked
    BY <1>2 DEF Begin
  <2>3. HistoryUpTo(h, asked) /\ Owned(h) /\ h \in Seq(Messages)
    BY <1>1, MayBeSummarised DEF HistoryUpTo
  <2> DEFINE e == <<User("question")>>
  <2>4. User("question") \in Messages /\ Plain(User("question"), asked)
    BY <1>1, MessageKinds DEF UserWords, Plain
  <2>5. history' = h \o e
    BY <2>1, <2>3, <2>4, AppendIsConcat
  <2>6. e \in Seq(Messages) /\ \A i \in DOMAIN e : Plain(e[i], asked)
    BY <1>1, <2>4, FewMessages
  <2> HIDE DEF e
  <2>7. HistoryUpTo(h \o e, asked) /\ Owned(h \o e)
    BY <1>1, <2>3, <2>6, PlainMore
  <2>8. Whole(h \o e, asked)
    BY <1>1, <2>7, NothingOwed
  <2>9. HistShape'
    BY <1>1, <2>2, <2>5, <2>7 DEF HistInv, HistShape
  <2>10. QED
    BY <2>2, <2>5, <2>7, <2>8, <2>9 DEF HistInv
<1>3. CASE Ask
  <2> DEFINE n == Len(interjection)
             e == Times(n, User("word"))
  <2>1. PICK h \in IF round > 0 THEN Compactions(history) ELSE {history} : history' = h \o e
    BY <1>3 DEF Ask
  <2>2. pc = "top" /\ pc' = "asking" /\ since' = since /\ asked' = asked + 1 /\ asked < MaxRequests
    BY <1>3 DEF Ask
  <2>3. asked' \in asked .. MaxRequests /\ asked' # 0 /\ asked' \in Nat
    BY <1>1, <2>2, AgentLoopAssumption
  <2>4. h = history \/ h \in Compactions(history)
    OBVIOUS
  <2>5. HistoryUpTo(h, asked) /\ Owned(h) /\ Whole(h, since)
    BY <1>1, <2>2, <2>4, MayBeSummarised DEF HistInv
  <2>6. User("word") \in Messages /\ Plain(User("word"), asked')
    BY <2>3, MessageKinds DEF UserWords, Plain
  <2>7. n \in Nat
    BY LenProperties DEF WordInv, WordTypes
  <2>8. e \in Seq(Messages) /\ \A i \in DOMAIN e : Plain(e[i], asked')
    <3> HIDE DEF Plain
    <3>1. QED
      BY <2>6, <2>7, TimesIs
  <2> HIDE DEF e
  <2>9. QED
    BY <1>1, <2>1, <2>2, <2>3, <2>5, <2>8, GrowStep
<1>4. QED
  BY <1>2, <1>3

LEMMA SaysHist ==
  ASSUME CallInv, HistInv, WordInv, PlainAnswer \/ Says
  PROVE  HistInv'
<1> DEFINE A(x) == Assistant(asked, 0, x)
<1>1. /\ pc = "asking" /\ asked' = asked /\ since' = since /\ pictures' = pictures
      /\ pc' \in {"top", "ending"}
  BY DEF PlainAnswer, Says, Cut, Leaked, Blank, Nudge, KeptAlive, SentBack, Final, Answered, group
<1>2. /\ asked \in 1 .. MaxRequests /\ asked \in asked .. MaxRequests /\ asked \in Nat /\ since \in Nat
      /\ HistoryUpTo(history, asked) /\ history \in Seq(Messages) /\ Owned(history) /\ Whole(history, since)
  BY <1>1, AgentLoopAssumption DEF HistInv, HistShape, HistoryUpTo
<1>3. \A x \in {"text", "alone"} : A(x) \in Messages /\ Plain(A(x), asked)
  <2>1. MaxCalls \in Nat /\ 0 \in 0 .. MaxCalls
    BY ToolCallsAssumption
  <2>2. QED
    BY <1>2, <2>1, MessageKinds DEF Plain
<1>4. \A x \in UserWords : User(x) \in Messages /\ Plain(User(x), asked)
  BY <1>2, MessageKinds DEF Plain
<1> HIDE DEF A, Plain
(* One, two or three messages are written behind the history.              *)
<1>5. ASSUME NEW e \in Seq(Messages), \A i \in DOMAIN e : Plain(e[i], asked), history' = history \o e
      PROVE  HistInv'
  BY <1>1, <1>2, <1>5, GrowStep
<1>6. ASSUME NEW m \in Messages, Plain(m, asked), history' = Append(history, m) PROVE HistInv'
  <2>1. history' = history \o <<m>>
    BY <1>2, <1>6, AppendIsConcat
  <2>2. <<m>> \in Seq(Messages) /\ \A i \in DOMAIN <<m>> : Plain(<<m>>[i], asked)
    BY <1>2, <1>6, FewMessages
  <2>3. QED
    BY <1>5, <2>1, <2>2
<1>7. CASE PlainAnswer
  <2>1. history' = Append(history, A("alone"))
    BY <1>7 DEF PlainAnswer, A
  <2>2. QED
    BY <1>3, <1>6, <2>1
<1>8. CASE Cut
  <2>1. history' = history \o <<A("text"), User("more")>>
    BY <1>8 DEF Cut, Answered, A
  <2>2. A("text") \in Messages /\ User("more") \in Messages /\ Plain(A("text"), asked) /\ Plain(User("more"), asked)
    BY <1>3, <1>4 DEF UserWords
  <2>3. /\ <<A("text"), User("more")>> \in Seq(Messages)
        /\ \A i \in DOMAIN <<A("text"), User("more")>> : Plain(<<A("text"), User("more")>>[i], asked)
    BY <1>2, <2>2, FewMessages
  <2>4. QED
    BY <1>5, <2>1, <2>3
<1>9. CASE Leaked \/ Blank
  <2>1. PICK b \in {"leak", "blank"} : history' = Append(history, User(b))
    BY <1>9 DEF Leaked, Blank, Nudge, Answered
  <2>2. User(b) \in Messages /\ Plain(User(b), asked)
    BY <1>4 DEF UserWords
  <2>3. QED
    BY <1>6, <2>1, <2>2
<1>10. ASSUME NEW x \in Kinds, KeptAlive(x) \/ SentBack(x) \/ Final(x) PROVE HistInv'
  <2>1. x \in {"text", "alone"}
    BY DEF Kinds
  <2>2. A(x) \in Messages /\ Plain(A(x), asked)
    BY <1>3, <2>1
  <2>3. CASE Final(x)
    <3>1. history' = Append(history, A(x))
      BY <2>3 DEF Final, Answered, A
    <3>2. QED
      BY <1>6, <2>2, <3>1
  <2>4. CASE SentBack(x)
    <3> DEFINE e == <<A(x), A(x), User("verdict")>>
    <3>1. history' = history \o e
      BY <2>4 DEF SentBack, Answered, A
    <3>2. User("verdict") \in Messages /\ Plain(User("verdict"), asked)
      BY <1>4 DEF UserWords
    <3>3. e \in Seq(Messages) /\ \A i \in DOMAIN e : Plain(e[i], asked)
      BY <1>2, <2>2, <3>2, FewMessages
    <3> HIDE DEF e
    <3>4. QED
      BY <1>5, <3>1, <3>3
  <2>5. CASE KeptAlive(x)
    <3> DEFINE d == <<A(x)>>
               g == history \o d
               e == Times(Len(interjection), User("word"))
    <3>1. /\ d \in Seq(Messages) /\ \A i \in DOMAIN d : Plain(d[i], asked)
      BY <1>2, <2>2, FewMessages
    <3>2. Append(history, A(x)) = g
      BY <1>2, <2>2, AppendIsConcat
    <3> HIDE DEF d
    <3>3. HistoryUpTo(g, asked) /\ Owned(g) /\ Whole(g, since)
      <4>1. asked <= asked
        BY <1>2
      <4>2. QED
        BY <1>2, <3>1, <4>1, PlainMore, Zenon
    <3> HIDE DEF g
    <3>4. history' = g \o e
      BY <2>5, <3>2 DEF KeptAlive, Answered, A
    <3>5. Len(interjection) \in Nat
      BY LenProperties DEF WordInv, WordTypes
    <3>6. User("word") \in Messages /\ Plain(User("word"), asked)
      BY <1>4 DEF UserWords
    <3>7. e \in Seq(Messages) /\ \A i \in DOMAIN e : Plain(e[i], asked)
      BY <3>5, <3>6, TimesIs
    <3> HIDE DEF e
    <3>8. QED
      BY <1>1, <1>2, <3>3, <3>4, <3>7, GrowStep
  <2>6. QED
    BY <1>10, <2>3, <2>4, <2>5
<1>11. QED
  BY <1>7, <1>8, <1>9, <1>10 DEF Says

LEMMA HistStep == CallInv /\ WordInv /\ HistInv /\ [Next]_vars => HistInv'
<1> SUFFICES ASSUME CallInv, WordInv, HistInv, [Next]_vars PROVE HistInv'
  OBVIOUS
<1>1. CASE UNCHANGED vars
  BY <1>1, QuietStep DEF vars, group
<1>2. CASE Begin \/ Ask
  BY <1>2, AskHist
<1>3. CASE Fails
  BY <1>3, FailsHist
<1>4. CASE PlainAnswer \/ Says
  BY <1>4, SaysHist
<1>5. CASE Calls
  BY <1>5, CallHist DEF Calls
<1>6. CASE DoomLoop \/ Write \/ WriteLast
  BY <1>6, RunHist
<1>7. CASE Leave \/ Waited \/ HandBack \/ TurnEnds
  <2>1. /\ UNCHANGED <<history, asked, since, pictures, calls, first>>
        /\ pc' \in {"ending", "closing", "idle"} \/ (pc' = "top" /\ pc = "waiting")
    BY <1>7 DEF Leave, Waited, HandBack, TurnEnds, group
  <2>2. QED
    BY <2>1, QuietStep
<1>8. CASE BeginGroup \/ Interject \/ Stop \/ WorkStep \/ \E i \in Places : RunCall(i)
  <2>1. UNCHANGED <<history, asked, since, pictures, calls, first, pc>>
    BY <1>8 DEF BeginGroup, Interject, Stop, WorkStep, RunCall, group
  <2>2. QED
    BY <2>1, QuietStep
<1>9. QED
  BY <1>1, <1>2, <1>3, <1>4, <1>5, <1>6, <1>7, <1>8 DEF Next, LoopStep, Returns, Runs

LEMMA InitHist == Init => HistInv
<1> SUFFICES ASSUME Init PROVE HistInv
  OBVIOUS
<1>1. pc = "idle" /\ history = <<>> /\ asked = 0 /\ since = 0 /\ pictures = 0
  BY DEF Init
<1>2. MaxRequests \in Nat
  BY AgentLoopAssumption
<1>3. HistoryUpTo(history, asked) /\ Owned(history)
  BY <1>1 DEF HistoryUpTo, Owned
<1>4. QED
  BY <1>1, <1>2, <1>3 DEF HistInv, HistShape

(* A provider refuses a request in which a tool call has no result or a    *)
(* result has no call: when runToolGroup's parallel calls, summaries,      *)
(* nudges, pictures and the person's words are all written into one        *)
(* history, each result stands behind its answer, and at each request      *)
(* every call of the turn has its result, in the order of the calls.       *)
THEOREM ResultsInOrder == Spec => []ResultsFollowCalls
<1>1. HistInv => ResultsFollowCalls
  <2> SUFFICES ASSUME HistInv PROVE ResultsFollowCalls
    OBVIOUS
  <2>1. \A j \in DOMAIN history : history[j].role = "tool" => OwnedAt(history, j)
    BY DEF HistInv, Owned
  <2>2. pc = "asking" => \A i \in DOMAIN history :
           history[i].role = "assistant" /\ history[i].of > since => Served(history, i)
    BY DEF HistInv, Whole
  <2>3. QED
    BY <2>1, <2>2 DEF ResultsFollowCalls, OwnedAt, Served
<1>2. CallInv /\ WordInv /\ HistInv /\ [Next]_vars => (CallInv /\ WordInv /\ HistInv)'
  BY CallInvStep, WordStep, HistStep
<1>3. Init => CallInv /\ WordInv /\ HistInv
  BY InitCalls, InitWords, InitHist
<1>4. QED
  BY <1>1, <1>2, <1>3, PTL DEF Spec

-----------------------------------------------------------------------------
(* The types of what is left.                                              *)

RestTypes ==
  /\ pc \in {"idle", "top", "asking", "waiting", "running", "ending", "closing"}
  /\ round \in Nat /\ turns \in 0 .. MaxTurns
  /\ spent \in [Budgets -> Nat]
  /\ carried \in Seq(1 .. MaxRequests) /\ reply \in Seq(1 .. MaxRequests)
  /\ lastKey \in Keys \cup {None} /\ repeats \in Nat

LEMMA RepeatsTyped ==
  ASSUME NEW j \in Nat, first \in Nat, repeats \in Nat
  PROVE  RepeatsAt(j) \in Nat
<1> DEFINE same == {m \in first .. j : \A i \in m .. j : calls[i] = calls[j]}
<1>1. IsFiniteSet(first .. j)
  BY FS_Interval
<1>2. IsFiniteSet(same)
  BY <1>1, FS_Subset
<1> HIDE DEF same
<1>3. Cardinality(same) \in Nat
  BY <1>2, FS_CardinalityType
<1>4. RepeatsAt(j) \in {Cardinality(same), repeats + Cardinality(same)}
  BY DEF RepeatsAt, same
<1>5. QED
  BY <1>3, <1>4

LEMMA RestStep == CallInv /\ HistInv /\ RestTypes /\ [Next]_vars => RestTypes'
<1> SUFFICES ASSUME CallInv, HistInv, RestTypes, [Next]_vars PROVE RestTypes'
  OBVIOUS
<1>1. CASE UNCHANGED vars
  BY <1>1 DEF RestTypes, vars, answer, guard
<1>2. CASE Begin
  <2>1. turns' \in 0 .. MaxTurns
    BY <1>2, AgentLoopAssumption DEF RestTypes, Begin
  <2>2. QED
    BY <1>2, <2>1 DEF RestTypes, Begin, answer, guard
<1>3. CASE Leave \/ Ask \/ Waited \/ HandBack \/ Interject \/ Stop \/ WorkStep \/ (\E i \in Places : RunCall(i)) \/ Write
  BY <1>3 DEF RestTypes, Leave, Ask, Waited, HandBack, Interject, Stop, WorkStep, RunCall, Write, answer, guard
<1>4. CASE TurnEnds
  <2>1. spent' \in [Budgets -> Nat]
    BY <1>4 DEF TurnEnds, NoTurn
  <2>2. QED
    BY <1>4, <2>1 DEF RestTypes, TurnEnds, NoTurn
<1>5. ASSUME NEW b \in Budgets, Spend(b) PROVE spent' \in [Budgets -> Nat]
  BY <1>5 DEF Spend, RestTypes
<1>6. CASE Fails
  <2>1. spent' \in [Budgets -> Nat]
    <3>1. CASE Refused
      BY <1>6, <3>1 DEF Refused, RestTypes
    <3>2. CASE ~ Refused
      <4>1. \E b \in Budgets : Spend(b)
        BY <1>6, <3>2 DEF Fails, AskAgain, NudgeBlank, TooLong, Budgets
      <4>2. QED
        BY <1>5, <4>1
    <3>3. QED
      BY <3>1, <3>2
  <2>2. pc' \in {"top", "waiting", "ending"} /\ UNCHANGED <<round, turns, answer, guard>>
    BY <1>6 DEF Fails, AskAgain, NudgeBlank, TooLong, Refused, Failing
  <2>3. QED
    BY <2>1, <2>2 DEF RestTypes, answer, guard
<1>7. CASE PlainAnswer \/ Says \/ Calls
  <2>1. pc = "asking" /\ asked \in 1 .. MaxRequests
    <3>1. pc = "asking"
      BY <1>7 DEF PlainAnswer, Says, Cut, Leaked, Blank, Nudge, KeptAlive, SentBack, Final, Answered, Calls,
                  Call, Truncated
    <3>2. QED
      BY <3>1, AgentLoopAssumption DEF HistInv, HistShape
  <2>2. /\ <<>> \in Seq(1 .. MaxRequests) /\ <<asked>> \in Seq(1 .. MaxRequests)
        /\ Append(carried, asked) \in Seq(1 .. MaxRequests) /\ round + 1 \in Nat
    <3>1. Append(carried, asked) \in Seq(1 .. MaxRequests)
      BY <2>1, AppendProperties DEF RestTypes
    <3>2. QED
      BY <2>1, <3>1 DEF RestTypes
  <2>3. spent' \in [Budgets -> Nat]
    <3>1. CASE Cut \/ Leaked \/ Blank
      <4>1. \E b \in Budgets : Spend(b)
        BY <3>1 DEF Cut, Leaked, Blank, Nudge, Budgets
      <4>2. QED
        BY <1>5, <4>1
    <3>2. CASE ~ (Cut \/ Leaked \/ Blank)
      <4>1. spent' = spent
        BY <1>7, <3>2 DEF PlainAnswer, Says, KeptAlive, SentBack, Final, Answered, Calls, Call, Truncated
      <4>2. QED
        BY <4>1 DEF RestTypes
    <3>3. QED
      BY <3>1, <3>2
  <2>4. round' \in {round, round + 1} /\ pc' \in {"top", "ending", "running"} /\ UNCHANGED <<turns, guard>>
    BY <1>7 DEF PlainAnswer, Says, Cut, Leaked, Blank, Nudge, KeptAlive, SentBack, Final, Answered, NextRound,
                Calls, Call, Truncated, guard
  <2>5. /\ carried' \in {carried, <<>>, Append(carried, asked)}
        /\ reply' \in {reply, <<asked>>, Append(carried, asked)}
    BY <1>7 DEF PlainAnswer, Says, Cut, Leaked, Blank, Nudge, KeptAlive, SentBack, Final, Answered, Consumed,
                Content, Calls, Call, Truncated
  <2>6. QED
    BY <2>2, <2>3, <2>4, <2>5 DEF RestTypes, guard
<1>8. CASE BeginGroup \/ DoomLoop
  <2>1. calls \in CallLists /\ first \in 1 .. Len(calls) /\ Len(calls) \in Nat
    BY <1>8, CallFacts DEF BeginGroup, DoomLoop, CallInv, GroupTypes
  <2>2. GroupEnd \in first .. Len(calls)
    BY <2>1, GroupEndIn
  <2>3. PICK j \in 1 .. Len(calls) : lastKey' = calls[j] /\ repeats' = RepeatsAt(j)
    <3>1. CASE BeginGroup
      <4>1. GroupEnd \in 1 .. Len(calls)
        BY <2>1, <2>2
      <4>2. QED
        BY <3>1, <4>1 DEF BeginGroup
    <3>2. CASE DoomLoop
      <4>1. Looping \in SUBSET Nat /\ Looping # {} /\ Looping \subseteq first .. Len(calls)
        BY <2>1, <2>2, <3>2 DEF Looping, DoomLoop
      <4>2. Min(Looping) \in Looping
        BY <4>1, MinIsIn
      <4>3. Min(Looping) \in first .. Len(calls)
        BY <4>1, <4>2
      <4>4. ASSUME NEW j \in first .. Len(calls) PROVE j \in 1 .. Len(calls)
        BY <2>1
      <4>5. Min(Looping) \in 1 .. Len(calls)
        BY <4>3, <4>4
      <4>6. QED
        BY <3>2, <4>5 DEF DoomLoop
    <3>3. QED
      BY <1>8, <3>1, <3>2
  <2>4. lastKey' \in Keys /\ repeats' \in Nat
    <3>1. calls[j] \in Keys
      BY <2>1, CallFacts
    <3>2. j \in Nat /\ first \in Nat /\ repeats \in Nat
      BY <2>1 DEF RestTypes
    <3>3. QED
      BY <2>3, <3>1, <3>2, RepeatsTyped
  <2>5. UNCHANGED <<round, turns, spent, answer>> /\ pc' \in {"running", "ending"}
    BY <1>8 DEF BeginGroup, DoomLoop
  <2>6. QED
    BY <2>4, <2>5 DEF RestTypes, answer
<1>9. CASE WriteLast
  <2>1. round' \in {round, round + 1} /\ pc' \in {"top", "ending"} /\ UNCHANGED <<turns, spent, answer, guard>>
    BY <1>9 DEF WriteLast, NextRound
  <2>2. QED
    BY <2>1 DEF RestTypes, answer, guard
<1>10. QED
  BY <1>1, <1>2, <1>3, <1>4, <1>6, <1>7, <1>8, <1>9 DEF Next, LoopStep, Returns, Runs

LEMMA InitRest == Init => RestTypes
<1> SUFFICES ASSUME Init PROVE RestTypes
  OBVIOUS
<1>1. /\ pc = "idle" /\ round = 0 /\ turns = 0 /\ spent = [b \in Budgets |-> 0]
      /\ carried = <<>> /\ reply = <<>> /\ lastKey = None /\ repeats = 0
  BY DEF Init
<1>2. MaxTurns \in Nat
  BY AgentLoopAssumption
<1>3. QED
  BY <1>1, <1>2 DEF RestTypes

(* The loop's variables keep their types: a group of calls stays within    *)
(* the calls of its answer, and everything counted stays a number.         *)
THEOREM LoopTyping == Spec => []TypeOK
<1>1. CallInv /\ WordInv /\ HistInv /\ RestTypes => TypeOK
  <2> SUFFICES ASSUME CallInv, WordInv, HistInv, RestTypes PROVE TypeOK
    OBVIOUS
  <2>1. MaxCalls \in Nat
    BY ToolCallsAssumption
  <2>2. calls \in Seq(Keys) /\ Len(calls) <= MaxCalls /\ first \in 1 .. MaxCalls + 1 /\ last \in 0 .. MaxCalls
    <3>1. CASE pc = "running"
      <4>1. calls \in CallLists /\ first \in 1 .. Len(calls) /\ last \in first - 1 .. Len(calls)
        BY <3>1 DEF CallInv, GroupTypes
      <4>2. QED
        BY <2>1, <4>1, CallFacts
    <3>2. CASE pc # "running"
      <4>1. calls = <<>> /\ first = 1 /\ last = 0
        BY <3>2 DEF CallInv, GroupTypes
      <4>2. QED
        BY <2>1, <4>1
    <3>3. QED
      BY <3>1, <3>2
  <2>3. QED
    BY <2>2 DEF TypeOK, LoopTypes, CallInv, WordInv, WordTypes, HistInv, HistShape, HistoryUpTo, RestTypes
<1>2. Init => CallInv /\ WordInv /\ HistInv /\ RestTypes
  BY InitRest, InitCalls, InitWords, InitHist
<1>3. CallInv /\ WordInv /\ HistInv /\ RestTypes /\ [Next]_vars => (CallInv /\ WordInv /\ HistInv /\ RestTypes)'
  BY CallInvStep, WordStep, HistStep, RestStep
<1>4. QED
  BY <1>1, <1>2, <1>3, PTL DEF Spec

-----------------------------------------------------------------------------
(* The answer a turn ends with.                                            *)

AnswersIn(h) == {i \in DOMAIN h : h[i].role = "assistant"}

(* What may stand between two pieces of an answer.                         *)
Quiet(m) == m.role = "user" /\ m.says \notin {"leak", "question"}

(* The history ends in the middle of the answer at place i, ...            *)
GoesOn(h, i) ==
  /\ i < Len(h) /\ h[i + 1] = User("more")
  /\ \A m \in i + 1 .. Len(h) : Quiet(h[m])

(* ... and the answer at place j is the rest of that at place i.           *)
JoinedIn(h, i, j) ==
  /\ h[i + 1] = User("more") /\ h[j].says = "text"
  /\ \A m \in i + 1 .. j - 1 : Quiet(h[m])

(* Between answers: the next one will be no rest of an earlier one.        *)
Unjoined(h) == \A i \in AnswersIn(h) : ~ GoesOn(h, i)

(* The pieces c are those of one answer, from its first on.                *)
Chained(h, c) ==
  /\ \A k \in 1 .. Len(c) - 1 : \A i, j \in AnswersIn(h) :
       h[i].of = c[k] /\ h[j].of = c[k + 1] => i < j /\ JoinedIn(h, i, j)
  /\ \A i, j \in AnswersIn(h) : h[j].of = c[1] /\ i < j => ~ JoinedIn(h, i, j)

(* The next answer will be the rest of the last piece of c.                *)
Awaited(h, c) == \A i \in AnswersIn(h) : h[i].of = c[Len(c)] => GoesOn(h, i)

Fits(h, c) == IF c = <<>> THEN Unjoined(h) ELSE Chained(h, c) /\ Awaited(h, c)

(* The turn ends with the pieces r.                                        *)
Shown(h, r) ==
  /\ Chained(h, r) /\ h # <<>>
  /\ h[Len(h)].role = "assistant" /\ h[Len(h)].of = r[Len(r)]

AnswerInv ==
  /\ pc \in {"idle", "running"} => carried = <<>>
  /\ pc \in {"idle", "top", "asking", "waiting", "running"} => reply = <<>>
  /\ pc \in {"top", "asking", "waiting", "running"} => Fits(history, carried)
  /\ \A k \in DOMAIN carried : carried[k] <= asked /\ (pc = "asking" => carried[k] < asked)
  /\ pc = "asking" => \A i \in DOMAIN history : history[i].of < asked
  /\ pc = "ending" /\ reply # <<>> => Shown(history, reply)

(* A message that is no quiet one ends whatever went before it.            *)
LEMMA LoudEnds ==
  ASSUME NEW h \in Seq(Messages), NEW m \in Messages, ~ Quiet(m)
  PROVE  Unjoined(h \o <<m>>)
<1> DEFINE e == <<m>>
           g == h \o e
<1>1. e \in Seq(Messages) /\ Len(e) = 1 /\ e[1] = m
  OBVIOUS
<1> HIDE DEF e
<1>2. Len(h) \in Nat /\ Len(g) = Len(h) + 1 /\ g[Len(h) + 1] = m /\ DOMAIN g = 1 .. Len(h) + 1
  <2>1. /\ Len(h) \in Nat /\ Len(g) = Len(h) + Len(e) /\ DOMAIN g = 1 .. Len(h) + Len(e)
        /\ \A i \in 1 .. Len(e) : g[Len(h) + i] = e[i]
    BY <1>1, Longer
  <2> HIDE DEF g
  <2>2. QED
    BY <1>1, <2>1
<1> HIDE DEF g
<1>3. ASSUME NEW i \in AnswersIn(g), GoesOn(g, i) PROVE FALSE
  <2>1. i \in 1 .. Len(h) + 1 /\ i < Len(g)
    BY <1>2, <1>3 DEF AnswersIn, GoesOn
  <2>2. Len(g) \in i + 1 .. Len(g)
    BY <1>2, <2>1
  <2>3. Quiet(g[Len(g)])
    BY <1>3, <2>2 DEF GoesOn
  <2>4. QED
    BY <1>2, <2>3
<1>4. Unjoined(g)
  BY <1>3 DEF Unjoined
<1>5. QED
  BY <1>4 DEF g, e

(* What is no answer, and asks for no rest, joins nothing.                 *)
LEMMA StaysUnjoined ==
  ASSUME NEW h \in Seq(Messages), NEW e \in Seq(Messages), Unjoined(h),
         \A i \in DOMAIN e : e[i].role # "assistant" /\ e[i] # User("more")
  PROVE  Unjoined(h \o e)
<1> DEFINE g == h \o e
<1>1. /\ Len(h) \in Nat /\ Len(e) \in Nat /\ Len(g) = Len(h) + Len(e) /\ DOMAIN h = 1 .. Len(h)
      /\ DOMAIN e = 1 .. Len(e) /\ DOMAIN g = 1 .. Len(h) + Len(e)
      /\ \A i \in 1 .. Len(h) : g[i] = h[i]
      /\ \A j \in 1 .. Len(h) + Len(e) : j \notin 1 .. Len(h) =>
           j - Len(h) \in 1 .. Len(e) /\ g[j] = e[j - Len(h)]
  BY Longer
<1> HIDE DEF g
<1>2. \A j \in 1 .. Len(h) + Len(e) : j \notin 1 .. Len(h) => g[j].role # "assistant" /\ g[j] # User("more")
  BY <1>1
<1>3. ASSUME NEW i \in AnswersIn(g), GoesOn(g, i) PROVE FALSE
  <2>1. i \in 1 .. Len(h) /\ g[i] = h[i] /\ i \in AnswersIn(h)
    <3>1. i \in 1 .. Len(h) + Len(e) /\ g[i].role = "assistant"
      BY <1>1 DEF AnswersIn
    <3>2. i \in 1 .. Len(h)
      BY <1>2, <3>1
    <3>3. QED
      BY <1>1, <3>1, <3>2 DEF AnswersIn
  <2>2. i + 1 \in 1 .. Len(h) + Len(e) /\ g[i + 1] = User("more")
    BY <1>1, <1>3, <2>1 DEF GoesOn
  <2>3. i + 1 \in 1 .. Len(h)
    BY <1>2, <2>2
  <2>4. i < Len(h) /\ h[i + 1] = User("more")
    BY <1>1, <2>1, <2>2, <2>3
  <2>5. ASSUME NEW m \in i + 1 .. Len(h) PROVE Quiet(h[m])
    <3>1. m \in 1 .. Len(h) /\ m \in i + 1 .. Len(g)
      BY <1>1, <2>1
    <3>2. QED
      BY <1>1, <1>3, <3>1 DEF GoesOn
  <2>6. GoesOn(h, i)
    BY <2>4, <2>5 DEF GoesOn
  <2>7. QED
    BY <2>1, <2>6 DEF Unjoined
<1>4. QED
  BY <1>3 DEF Unjoined, g

(* Two answers are joined by what stands between them.                     *)
LEMMA JoinedStays ==
  ASSUME NEW h \in Seq(Messages), NEW e \in Seq(Messages), NEW i \in DOMAIN h, NEW j \in DOMAIN h, i < j
  PROVE  JoinedIn(h \o e, i, j) <=> JoinedIn(h, i, j)
<1>1. Len(h) \in Nat /\ DOMAIN h = 1 .. Len(h) /\ \A m \in 1 .. Len(h) : (h \o e)[m] = h[m]
  BY Longer
<1>2. i + 1 \in 1 .. Len(h) /\ \A m \in i + 1 .. j - 1 : m \in 1 .. Len(h)
  BY <1>1
<1>3. (h \o e)[i + 1] = h[i + 1] /\ (h \o e)[j] = h[j] /\ \A m \in i + 1 .. j - 1 : (h \o e)[m] = h[m]
  BY <1>1, <1>2
<1>4. QED
  BY <1>3 DEF JoinedIn

LEMMA ChainedStays ==
  ASSUME NEW h \in Seq(Messages), NEW e \in Seq(Messages), NEW c, Chained(h, c),
         \A i \in DOMAIN e : e[i].role # "assistant"
  PROVE  Chained(h \o e, c)
<1> DEFINE g == h \o e
<1>1. \A i \in AnswersIn(g) : i \in AnswersIn(h) /\ i \in DOMAIN h /\ g[i] = h[i]
  <2>1. /\ DOMAIN h = 1 .. Len(h) /\ DOMAIN e = 1 .. Len(e) /\ DOMAIN g = 1 .. Len(h) + Len(e)
        /\ \A i \in 1 .. Len(h) : g[i] = h[i]
        /\ \A j \in 1 .. Len(h) + Len(e) : j \notin 1 .. Len(h) =>
             j - Len(h) \in 1 .. Len(e) /\ g[j] = e[j - Len(h)]
    BY Longer
  <2> HIDE DEF g
  <2>2. QED
    BY <2>1 DEF AnswersIn
<1>2. \A i, j \in AnswersIn(g) : i < j => (JoinedIn(g, i, j) <=> JoinedIn(h, i, j))
  BY <1>1, JoinedStays
<1> HIDE DEF g
<1>3. ASSUME NEW k \in 1 .. Len(c) - 1, NEW i \in AnswersIn(g), NEW j \in AnswersIn(g),
             g[i].of = c[k], g[j].of = c[k + 1]
      PROVE  i < j /\ JoinedIn(g, i, j)
  <2>1. i < j /\ JoinedIn(h, i, j)
    BY <1>1, <1>3 DEF Chained
  <2>2. QED
    BY <1>2, <2>1
<1>4. ASSUME NEW i \in AnswersIn(g), NEW j \in AnswersIn(g), g[j].of = c[1], i < j
      PROVE  ~ JoinedIn(g, i, j)
  <2>1. ~ JoinedIn(h, i, j)
    BY <1>1, <1>4 DEF Chained
  <2>2. QED
    BY <1>2, <1>4, <2>1
<1>5. QED
  BY <1>3, <1>4 DEF Chained, g

(* What the person says, and a nudge, stand between the pieces.            *)
Aside(m) == m.role = "user" /\ m.says \notin {"leak", "question", "more"}

LEMMA FitsStays ==
  ASSUME NEW h \in Seq(Messages), NEW e \in Seq(Messages), NEW c, Fits(h, c),
         \A i \in DOMAIN e : Aside(e[i])
  PROVE  Fits(h \o e, c)
<1>1. \A m \in Messages : Aside(m) => m.role # "assistant" /\ m # User("more") /\ Quiet(m)
  BY DEF Aside, Quiet, User
<1>2. \A i \in DOMAIN e : e[i] \in Messages /\ e[i].role # "assistant" /\ e[i] # User("more") /\ Quiet(e[i])
  <2>1. \A i \in DOMAIN e : e[i] \in Messages
    BY Longer
  <2>2. QED
    BY <1>1, <2>1
<1>3. CASE c = <<>>
  <2>1. Unjoined(h)
    BY <1>3 DEF Fits
  <2>2. Unjoined(h \o e)
    BY <1>2, <2>1, StaysUnjoined
  <2>3. QED
    BY <1>3, <2>2 DEF Fits
<1>4. CASE c # <<>>
  <2> DEFINE g == h \o e
  <2>1. Chained(h, c) /\ Awaited(h, c)
    BY <1>4 DEF Fits
  <2>2. Chained(g, c)
    BY <1>2, <2>1, ChainedStays
  <2>3. /\ Len(h) \in Nat /\ Len(e) \in Nat /\ Len(g) = Len(h) + Len(e) /\ DOMAIN h = 1 .. Len(h)
        /\ DOMAIN e = 1 .. Len(e) /\ DOMAIN g = 1 .. Len(h) + Len(e)
        /\ \A i \in 1 .. Len(h) : g[i] = h[i]
        /\ \A j \in 1 .. Len(h) + Len(e) : j \notin 1 .. Len(h) =>
             j - Len(h) \in 1 .. Len(e) /\ g[j] = e[j - Len(h)]
    BY Longer
  <2> HIDE DEF g
  <2>4. ASSUME NEW i \in AnswersIn(g), g[i].of = c[Len(c)] PROVE GoesOn(g, i)
    <3>1. i \in 1 .. Len(h) /\ g[i] = h[i] /\ i \in AnswersIn(h)
      BY <1>2, <2>3 DEF AnswersIn
    <3>2. GoesOn(h, i)
      BY <2>1, <2>4, <3>1 DEF Awaited
    <3>3. i < Len(h) /\ h[i + 1] = User("more") /\ i + 1 \in 1 .. Len(h)
      BY <2>3, <3>1, <3>2 DEF GoesOn
    <3>4. i < Len(g) /\ g[i + 1] = User("more")
      BY <2>3, <3>1, <3>3
    <3>5. ASSUME NEW m \in i + 1 .. Len(g) PROVE Quiet(g[m])
      <4>1. m \in 1 .. Len(h) + Len(e)
        BY <2>3, <3>1
      <4>2. CASE m \in 1 .. Len(h)
        <5>1. m \in i + 1 .. Len(h) /\ g[m] = h[m]
          BY <2>3, <3>5, <4>2
        <5>2. QED
          BY <3>2, <5>1 DEF GoesOn
      <4>3. CASE m \notin 1 .. Len(h)
        BY <1>2, <2>3, <4>1, <4>3
      <4>4. QED
        BY <4>2, <4>3
    <3>6. QED
      BY <3>4, <3>5 DEF GoesOn
  <2>5. QED
    BY <1>4, <2>2, <2>4 DEF Fits, Awaited, g
<1>5. QED
  BY <1>3, <1>4

(* A summary cuts off the oldest messages, of a cut answer too.            *)
LEMMA FitsSummary ==
  ASSUME NEW h \in Seq(Messages), Boundary(h) # 0, NEW c, Fits(h, c)
  PROVE  Fits(Summarised(h), c)
<1> DEFINE d == Boundary(h) - 2
           n == Len(h) - Boundary(h) + 2
           g == Summarised(h)
<1>1. Len(h) \in Nat /\ DOMAIN h = 1 .. Len(h)
  BY LenProperties
<1>2. /\ Boundary(h) \in 1 .. Len(h) /\ Len(g) = n /\ DOMAIN g = 1 .. n /\ g[1] = User("summary")
      /\ \A i \in 2 .. n : g[i] = h[i + Boundary(h) - 2]
  BY SummaryPlaces
<1>3. n \in Nat /\ d \in Int /\ n + d = Len(h) /\ 2 + d >= 1
  <2>1. PICK b : b = Boundary(h)
    OBVIOUS
  <2>2. b \in 1 .. Len(h) /\ n = Len(h) - b + 2 /\ d = b - 2
    BY <1>2, <2>1
  <2> HIDE DEF n, d, g
  <2>3. QED
    BY <1>1, <2>2
<1>4. \A i \in 2 .. n : i + d \in 1 .. Len(h) /\ g[i] = h[i + d]
  <2>1. \A i \in 2 .. n : i + Boundary(h) - 2 = i + d
    <3>1. PICK b : b = Boundary(h)
      OBVIOUS
    <3>2. b \in Nat /\ d = b - 2
      BY <1>1, <1>2, <3>1
    <3> HIDE DEF n, d, g
    <3>3. \A i \in 2 .. n : i + b - 2 = i + d
      BY <1>3, <3>2
    <3>4. QED
      BY <3>1, <3>3
  <2>2. \A i \in 2 .. n : g[i] = h[i + d]
    BY <1>2, <2>1
  <2> HIDE DEF n, d, g
  <2>3. \A i \in 2 .. n : i + d \in 1 .. Len(h)
    BY <1>1, <1>3
  <2>4. QED
    BY <2>2, <2>3
<1>5. User("summary").role = "user"
  BY DEF User
<1> HIDE DEF d, n, g
<1>6. ASSUME NEW i \in AnswersIn(g)
      PROVE  i \in 2 .. n /\ i + d \in AnswersIn(h) /\ g[i] = h[i + d]
  <2>1. i \in 1 .. n /\ g[i].role = "assistant"
    BY <1>2 DEF AnswersIn
  <2>2. i \in 2 .. n
    BY <1>2, <1>3, <1>5, <2>1
  <2>3. QED
    BY <1>1, <1>4, <2>1, <2>2 DEF AnswersIn
<1>7. ASSUME NEW i \in AnswersIn(g), NEW j \in AnswersIn(g), i < j
      PROVE  JoinedIn(g, i, j) <=> JoinedIn(h, i + d, j + d)
  <2>1. i \in 2 .. n /\ j \in 2 .. n /\ i + 1 \in 2 .. n /\ (i + 1) + d = (i + d) + 1
    BY <1>3, <1>6, <1>7
  <2>2. g[i + 1] = h[(i + d) + 1] /\ g[j] = h[j + d]
    BY <1>4, <2>1
  <2>3. ASSUME NEW m \in i + 1 .. j - 1 PROVE m + d \in (i + d) + 1 .. (j + d) - 1 /\ g[m] = h[m + d]
    BY <1>3, <1>4, <2>1
  <2>4. ASSUME NEW m \in (i + d) + 1 .. (j + d) - 1 PROVE m - d \in i + 1 .. j - 1 /\ g[m - d] = h[m]
    <3>1. m \in Int /\ m - d \in i + 1 .. j - 1 /\ m - d \in 2 .. n /\ (m - d) + d = m
      BY <1>3, <2>1
    <3>2. QED
      BY <1>4, <3>1
  <2>5. (\A m \in i + 1 .. j - 1 : Quiet(g[m])) <=> (\A m \in (i + d) + 1 .. (j + d) - 1 : Quiet(h[m]))
    BY <2>3, <2>4
  <2>6. QED
    BY <2>2, <2>5 DEF JoinedIn
<1>8. ASSUME NEW i \in AnswersIn(g)
      PROVE  GoesOn(g, i) <=> GoesOn(h, i + d)
  <2>1. i \in 2 .. n /\ (i + 1) + d = (i + d) + 1 /\ (i < n <=> i + d < Len(h))
    BY <1>3, <1>6
  <2>2. ASSUME i < n PROVE g[i + 1] = h[(i + d) + 1]
    <3>1. i + 1 \in 2 .. n
      BY <1>3, <2>1, <2>2
    <3>2. QED
      BY <1>4, <2>1, <3>1
  <2>3. ASSUME NEW m \in i + 1 .. n PROVE m + d \in (i + d) + 1 .. Len(h) /\ g[m] = h[m + d]
    BY <1>3, <1>4, <2>1
  <2>4. ASSUME NEW m \in (i + d) + 1 .. Len(h) PROVE m - d \in i + 1 .. n /\ g[m - d] = h[m]
    <3>1. m \in Int /\ m - d \in i + 1 .. n /\ m - d \in 2 .. n /\ (m - d) + d = m
      BY <1>1, <1>3, <2>1
    <3>2. QED
      BY <1>4, <3>1
  <2>5. (\A m \in i + 1 .. n : Quiet(g[m])) <=> (\A m \in (i + d) + 1 .. Len(h) : Quiet(h[m]))
    BY <2>3, <2>4
  <2>6. QED
    BY <1>2, <2>1, <2>2, <2>5 DEF GoesOn
<1>9. CASE c = <<>>
  <2>1. Unjoined(h)
    BY <1>9 DEF Fits
  <2>2. Unjoined(g)
    BY <1>6, <1>8, <2>1 DEF Unjoined
  <2>3. QED
    BY <1>9, <2>2 DEF Fits, g
<1>10. CASE c # <<>>
  <2>1. Chained(h, c) /\ Awaited(h, c)
    BY <1>10 DEF Fits
  <2>2. Awaited(g, c)
    BY <1>6, <1>8, <2>1 DEF Awaited
  <2>3. \A i, j \in AnswersIn(g) : i < j <=> i + d < j + d
    BY <1>3, <1>6
  <2>4. ASSUME NEW k \in 1 .. Len(c) - 1, NEW i \in AnswersIn(g), NEW j \in AnswersIn(g),
               g[i].of = c[k], g[j].of = c[k + 1]
        PROVE  i < j /\ JoinedIn(g, i, j)
    <3>1. i + d < j + d /\ JoinedIn(h, i + d, j + d)
      BY <1>6, <2>1, <2>4 DEF Chained
    <3>2. QED
      BY <1>7, <2>3, <3>1
  <2>5. ASSUME NEW i \in AnswersIn(g), NEW j \in AnswersIn(g), g[j].of = c[1], i < j
        PROVE  ~ JoinedIn(g, i, j)
    <3>1. i + d < j + d /\ h[j + d].of = c[1] /\ i + d \in AnswersIn(h) /\ j + d \in AnswersIn(h)
      BY <1>6, <2>3, <2>5
    <3>2. ~ JoinedIn(h, i + d, j + d)
      BY <2>1, <3>1 DEF Chained
    <3>3. QED
      BY <1>7, <2>5, <3>2
  <2>6. Chained(g, c)
    BY <2>4, <2>5 DEF Chained
  <2>7. QED
    BY <1>10, <2>2, <2>6 DEF Fits, g
<1>11. QED
  BY <1>9, <1>10

(* The answer numbered a is written behind the pieces c: it is the rest of *)
(* the last of them, or the first of its own.                              *)
LEMMA NextPiece ==
  ASSUME NEW h \in Seq(Messages), NEW a \in 1 .. MaxRequests, NEW c \in Seq(1 .. MaxRequests), Fits(h, c),
         \A i \in DOMAIN h : h[i].of < a, \A k \in DOMAIN c : c[k] < a
  PROVE  Chained(h \o <<Assistant(a, 0, "text")>>, Append(c, a))
<1> DEFINE m == Assistant(a, 0, "text")
           e == <<m>>
           g == h \o e
           n == Len(h) + 1
           b == Append(c, a)
<1>1. a \in Nat /\ m \in Messages /\ m.role = "assistant" /\ m.of = a /\ m.says = "text"
  <2>1. MaxCalls \in Nat /\ MaxRequests \in Nat
    BY AgentLoopAssumption, ToolCallsAssumption
  <2>2. 0 \in 0 .. MaxCalls
    BY <2>1
  <2>3. m \in Messages /\ m.role = "assistant" /\ m.of = a
    BY <2>2, MessageKinds
  <2>4. m.says = "text"
    BY DEF Assistant
  <2>5. QED
    BY <2>1, <2>3, <2>4
<1> HIDE DEF m
<1>2. e \in Seq(Messages) /\ Len(e) = 1 /\ e[1] = m
  BY <1>1
<1> HIDE DEF e
<1>3. /\ Len(h) \in Nat /\ DOMAIN h = 1 .. Len(h) /\ Len(g) = Len(h) + Len(e) /\ DOMAIN g = 1 .. Len(h) + Len(e)
      /\ \A i \in 1 .. Len(h) : g[i] = h[i] /\ h[i] \in Messages
      /\ \A i \in 1 .. Len(e) : g[Len(h) + i] = e[i]
  BY <1>2, Longer
<1> HIDE DEF g
<1>4. n \in Nat /\ Len(g) = n /\ DOMAIN g = 1 .. n /\ g[n] = m /\ \A i \in 1 .. n : i \in 1 .. Len(h) \/ i = n
  BY <1>2, <1>3
<1>5. ASSUME NEW i \in AnswersIn(g), i # n PROVE i \in AnswersIn(h) /\ i \in 1 .. Len(h) /\ g[i] = h[i] /\ g[i].of # a
  <2>1. i \in 1 .. Len(h) /\ g[i] = h[i] /\ g[i].role = "assistant"
    BY <1>3, <1>4, <1>5 DEF AnswersIn
  <2>2. h[i].of \in Nat /\ h[i].of < a
    BY <1>3, <2>1, MessageKinds
  <2>3. QED
    BY <1>1, <1>3, <2>1, <2>2 DEF AnswersIn
<1>6. \A i, j \in 1 .. Len(h) : i < j => (JoinedIn(g, i, j) <=> JoinedIn(h, i, j))
  BY <1>2, <1>3, JoinedStays DEF g
<1>7. ASSUME NEW i \in AnswersIn(h) PROVE GoesOn(h, i) <=> JoinedIn(g, i, n)
  <2>1. i \in 1 .. Len(h)
    BY <1>3 DEF AnswersIn
  <2>2. CASE i = Len(h)
    <3>1. ~ GoesOn(h, i)
      BY <1>3, <2>2 DEF GoesOn
    <3>2. g[i + 1] = m /\ m # User("more")
      BY <1>1, <1>4, <2>2 DEF User
    <3>3. QED
      BY <3>1, <3>2 DEF JoinedIn
  <2>3. CASE i # Len(h)
    <3>1. i < Len(h) /\ i + 1 \in 1 .. Len(h) /\ n - 1 = Len(h)
      BY <1>3, <2>1, <2>3
    <3>2. \A z \in i + 1 .. Len(h) : z \in 1 .. Len(h)
      BY <1>3, <2>1
    <3>3. g[i + 1] = h[i + 1] /\ \A z \in i + 1 .. Len(h) : g[z] = h[z]
      BY <1>3, <3>1, <3>2
    <3>4. g[n].says = "text"
      BY <1>1, <1>4
    <3> HIDE DEF n
    <3>5. QED
      BY <3>1, <3>3, <3>4 DEF GoesOn, JoinedIn
  <2>4. QED
    BY <2>2, <2>3
<1> HIDE DEF n
<1>8. CASE c = <<>>
  <2>1. b = <<a>> /\ Len(b) = 1 /\ b[1] = a
    BY <1>8
  <2> HIDE DEF b
  <2>2. Unjoined(h)
    BY <1>8 DEF Fits
  <2>3. ASSUME NEW i \in AnswersIn(g), NEW j \in AnswersIn(g), g[j].of = b[1], i < j PROVE ~ JoinedIn(g, i, j)
    <3>1. j = n
      BY <1>5, <2>1, <2>3
    <3>2. i # n
      BY <1>4, <2>3, <3>1
    <3>3. ~ GoesOn(h, i)
      BY <1>5, <2>2, <3>2 DEF Unjoined
    <3>4. QED
      BY <1>5, <1>7, <3>1, <3>2, <3>3
  <2>4. \A k \in 1 .. Len(b) - 1 : FALSE
    BY <2>1
  <2>5. Chained(g, b)
    BY <2>3, <2>4 DEF Chained
  <2>6. QED
    BY <2>5 DEF g, b, e, m
<1>9. CASE c # <<>>
  <2>1. /\ Len(c) \in Nat /\ Len(c) >= 1 /\ Len(b) = Len(c) + 1 /\ b[Len(c) + 1] = a
        /\ \A k \in 1 .. Len(c) : b[k] = c[k] /\ c[k] \in Nat /\ c[k] < a
    <3>1. Len(c) \in Nat /\ DOMAIN c = 1 .. Len(c) /\ \A k \in 1 .. Len(c) : c[k] \in 1 .. MaxRequests
      BY LenProperties, ElementOfSeq
    <3>2. Len(c) # 0
      BY <1>9, EmptySeq
    <3>3. Len(b) = Len(c) + 1 /\ b[Len(c) + 1] = a /\ \A k \in 1 .. Len(c) : b[k] = c[k]
      BY AppendProperties
    <3>4. MaxRequests \in Nat
      BY AgentLoopAssumption
    <3> HIDE DEF b
    <3>5. QED
      BY <3>1, <3>2, <3>3, <3>4
  <2> HIDE DEF b
  <2>2. Chained(h, c) /\ Awaited(h, c)
    BY <1>9 DEF Fits
  <2>3. ASSUME NEW k \in 1 .. Len(c), NEW i \in AnswersIn(g), g[i].of = b[k]
        PROVE  i # n /\ i \in AnswersIn(h) /\ i \in 1 .. Len(h) /\ g[i] = h[i] /\ h[i].of = c[k]
    <3>1. g[i].of # a
      BY <1>1, <2>1, <2>3
    <3>2. i # n
      BY <1>1, <1>4, <3>1
    <3>3. QED
      BY <1>5, <2>1, <2>3, <3>2
  <2>4. ASSUME NEW k \in 1 .. Len(b) - 1, NEW i \in AnswersIn(g), NEW j \in AnswersIn(g),
               g[i].of = b[k], g[j].of = b[k + 1]
        PROVE  i < j /\ JoinedIn(g, i, j)
    <3>1. k \in 1 .. Len(c)
      BY <2>1
    <3>2. i \in AnswersIn(h) /\ i \in 1 .. Len(h) /\ g[i] = h[i] /\ h[i].of = c[k]
      BY <2>3, <2>4, <3>1
    <3>3. CASE k = Len(c)
      <4>1. g[j].of = a
        BY <2>1, <2>4, <3>3
      <4>2. j = n
        BY <1>5, <4>1
      <4>3. GoesOn(h, i)
        BY <2>2, <3>2, <3>3 DEF Awaited
      <4>4. i < n
        BY <1>3, <3>2 DEF n
      <4>5. QED
        BY <1>7, <3>2, <4>2, <4>3, <4>4
    <3>4. CASE k # Len(c)
      <4>1. k \in 1 .. Len(c) - 1 /\ k + 1 \in 1 .. Len(c)
        BY <2>1, <3>1, <3>4
      <4>2. j \in AnswersIn(h) /\ j \in 1 .. Len(h) /\ g[j] = h[j] /\ h[j].of = c[k + 1]
        BY <2>3, <2>4, <4>1
      <4>3. i < j /\ JoinedIn(h, i, j)
        BY <2>2, <3>2, <4>1, <4>2 DEF Chained
      <4>4. QED
        BY <1>6, <3>2, <4>2, <4>3
    <3>5. QED
      BY <3>3, <3>4
  <2>5. ASSUME NEW i \in AnswersIn(g), NEW j \in AnswersIn(g), g[j].of = b[1], i < j
        PROVE  ~ JoinedIn(g, i, j)
    <3>1. 1 \in 1 .. Len(c)
      BY <2>1
    <3>2. j # n /\ j \in AnswersIn(h) /\ j \in 1 .. Len(h) /\ g[j] = h[j] /\ h[j].of = c[1]
      BY <2>3, <2>5, <3>1
    <3>3. i # n
      BY <1>3, <2>5, <3>2 DEF n
    <3>4. i \in AnswersIn(h) /\ i \in 1 .. Len(h)
      BY <1>5, <3>3
    <3>5. ~ JoinedIn(h, i, j)
      BY <2>2, <2>5, <3>2, <3>4 DEF Chained
    <3>6. QED
      BY <1>6, <2>5, <3>2, <3>4, <3>5
  <2>6. Chained(g, b)
    BY <2>4, <2>5 DEF Chained
  <2>7. QED
    BY <2>6 DEF g, b, e, m
<1>10. QED
  BY <1>8, <1>9

(* What the answer's property says of the pieces is what Shown does.       *)
LEMMA ShownIs ==
  ASSUME history \in Seq(Messages), reply \in Seq(1 .. MaxRequests),
         pc = "ending" /\ reply # <<>> => Shown(history, reply)
  PROVE  ReplyIsTheAnswer
<1> SUFFICES ASSUME pc = "ending", reply # <<>>, Shown(history, reply)
             PROVE  ReplyIsTheAnswer
  BY DEF ReplyIsTheAnswer
<1> DEFINE text == {i \in DOMAIN history : history[i].role = "assistant"}
           lastOne == CHOOSE i \in text : \A j \in text : j <= i
           Joined(i, j) ==
             /\ history[i + 1] = User("more") /\ history[j].says = "text"
             /\ \A m \in i + 1 .. j - 1 :
                  history[m].role = "user" /\ history[m].says \notin {"leak", "question"}
           Goes(p, i) == i \in text /\ history[i].of = p
<1>1. text = AnswersIn(history) /\ \A i, j : Joined(i, j) <=> JoinedIn(history, i, j)
  BY DEF AnswersIn, JoinedIn, Quiet
<1>2. Len(history) \in Nat /\ DOMAIN history = 1 .. Len(history) /\ history # <<>>
  BY LenProperties DEF Shown
<1>3. Len(history) # 0
  BY <1>2, EmptySeq
<1>4. Len(history) \in text /\ \A j \in text : j <= Len(history)
  BY <1>2, <1>3 DEF Shown
<1>5. \A i \in text : i \in Nat
  BY <1>2
<1>6. lastOne = Len(history)
  <2> HIDE DEF text
  <2>1. \A i \in text : (\A j \in text : j <= i) => i = Len(history)
    BY <1>2, <1>4, <1>5
  <2>2. \E i \in text : \A j \in text : j <= i
    BY <1>4
  <2>3. lastOne \in text /\ \A j \in text : j <= lastOne
    BY <2>2
  <2> HIDE DEF lastOne
  <2>4. QED
    BY <2>1, <2>3
<1>7. Goes(reply[Len(reply)], lastOne)
  BY <1>4, <1>6 DEF Shown
<1> HIDE DEF Joined, text, lastOne
<1>8. \A k \in 1 .. Len(reply) - 1 : \A i, j \in text :
        Goes(reply[k], i) /\ Goes(reply[k + 1], j) => Joined(i, j)
  BY <1>1 DEF Shown, Chained
<1>9. \A i, j \in text : Goes(reply[1], j) /\ i < j => ~ Joined(i, j)
  BY <1>1 DEF Shown, Chained
<1>10. QED
  BY <1>7, <1>8, <1>9 DEF ReplyIsTheAnswer, Joined, text, lastOne

Between == {"top", "asking", "waiting", "running"}

(* Steps that leave the history and the pieces alone.                      *)
LEMMA QuietAnswer ==
  ASSUME AnswerInv, UNCHANGED <<history, asked, answer>>,
         \/ pc' = pc
         \/ pc' = "ending" /\ pc \in Between
         \/ pc' = "closing"
         \/ pc' \in {"top", "waiting"} /\ pc \in {"asking", "waiting"}
  PROVE  AnswerInv'
<1>1. history' = history /\ asked' = asked /\ carried' = carried /\ reply' = reply
  BY DEF answer
<1>2. CASE pc' = pc
  BY <1>1, <1>2 DEF AnswerInv
<1>3. CASE pc' = "ending" /\ pc \in Between
  BY <1>1, <1>3 DEF AnswerInv, Between
<1>4. CASE pc' = "closing"
  BY <1>1, <1>4 DEF AnswerInv
<1>5. CASE pc' \in {"top", "waiting"} /\ pc \in {"asking", "waiting"}
  BY <1>1, <1>5 DEF AnswerInv
<1>6. QED
  BY <1>2, <1>3, <1>4, <1>5

(* A step to the next request, with what is carried then.                  *)
LEMMA ToTop ==
  ASSUME pc' \in {"top", "running"}, reply' = <<>>, Fits(history', carried'),
         pc' = "running" => carried' = <<>>,
         \A k \in DOMAIN carried' : carried'[k] <= asked'
  PROVE  AnswerInv'
BY DEF AnswerInv

(* The request for the next answer, and the question of a turn.            *)
LEMMA AskAnswer ==
  ASSUME HistInv, WordInv, RestTypes, AnswerInv, Begin \/ Ask
  PROVE  AnswerInv'
<1>1. /\ asked \in Nat /\ HistoryUpTo(history, asked) /\ history \in Seq(Messages) /\ Owned(history)
      /\ carried' = carried /\ reply' = reply /\ reply = <<>>
      /\ \A h \in Compactions(history) : h = history \/ (Boundary(history) # 0 /\ h = Summarised(history))
  BY AgentLoopAssumption DEF HistInv, HistShape, HistoryUpTo, AnswerInv, Begin, Ask, answer, Compactions
<1>2. CASE Begin
  <2>1. PICK h \in Compactions(history) : history' = Append(h, User("question"))
    BY <1>2 DEF Begin
  <2>2. h \in Seq(Messages)
    BY <1>1, MayBeSummarised DEF HistoryUpTo
  <2>3. User("question") \in Messages /\ ~ Quiet(User("question"))
    <3>1. User("question") \in Messages
      BY MessageKinds DEF UserWords
    <3>2. ~ Quiet(User("question"))
      BY DEF Quiet, User
    <3>3. QED
      BY <3>1, <3>2
  <2>4. Unjoined(h \o <<User("question")>>)
    BY <2>2, <2>3, LoudEnds
  <2>5. history' = h \o <<User("question")>>
    BY <2>1, <2>2, <2>3, AppendIsConcat
  <2>6. carried' = <<>> /\ pc' = "top"
    BY <1>1, <1>2 DEF Begin, AnswerInv
  <2>7. Fits(history', carried')
    BY <2>4, <2>5, <2>6 DEF Fits
  <2>8. QED
    BY <1>1, <2>6, <2>7, ToTop
<1>3. CASE Ask
  <2> DEFINE n == Len(interjection)
             e == Times(n, User("word"))
  <2>1. PICK h \in IF round > 0 THEN Compactions(history) ELSE {history} : history' = h \o e
    BY <1>3 DEF Ask
  <2>2. pc = "top" /\ pc' = "asking" /\ asked' = asked + 1
    BY <1>3 DEF Ask
  <2>3. h = history \/ (Boundary(history) # 0 /\ h = Summarised(history))
    BY <1>1
  <2>4. Fits(history, carried)
    BY <2>2 DEF AnswerInv
  <2>5. Fits(h, carried)
    BY <1>1, <2>3, <2>4, FitsSummary
  <2>6. HistoryUpTo(h, asked) /\ h \in Seq(Messages)
    BY <1>1, <2>3, SummaryKeeps DEF HistoryUpTo
  <2>7. User("word") \in Messages /\ User("word").of = 0 /\ Aside(User("word"))
    <3>1. User("word") \in Messages /\ User("word").of = 0
      BY MessageKinds DEF UserWords
    <3>2. Aside(User("word"))
      BY DEF Aside, User
    <3>3. QED
      BY <3>1, <3>2
  <2>8. n \in Nat
    BY LenProperties DEF WordInv, WordTypes
  <2>9. e \in Seq(Messages) /\ \A i \in DOMAIN e : e[i] = User("word")
    BY <2>7, <2>8, TimesIs
  <2> HIDE DEF e
  <2>10. Fits(h \o e, carried)
    <3>1. \A i \in DOMAIN e : Aside(e[i])
      BY <2>7, <2>9
    <3>2. QED
      BY <2>5, <2>6, <2>9, <3>1, FitsStays
  <2>11. \A i \in DOMAIN (h \o e) : (h \o e)[i].of < asked + 1
    <3>1. \A i \in DOMAIN e : e[i].of <= asked
      BY <1>1, <2>7, <2>9
    <3>2. asked <= asked
      BY <1>1
    <3>3. HistoryUpTo(h \o e, asked)
      BY <1>1, <2>6, <2>9, <3>1, <3>2, LongerUpTo
    <3>4. ASSUME NEW i \in DOMAIN (h \o e) PROVE (h \o e)[i].of < asked + 1
      <4>1. (h \o e)[i] \in Messages /\ (h \o e)[i].of <= asked
        BY <3>3, LenProperties, ElementOfSeq DEF HistoryUpTo
      <4>2. (h \o e)[i].of \in Nat
        BY <4>1, MessageKinds
      <4>3. QED
        BY <1>1, <4>1, <4>2
    <3>5. QED
      BY <3>4
  <2>12. \A k \in DOMAIN carried' : carried'[k] <= asked' /\ carried'[k] < asked'
    <3>1. \A k \in DOMAIN carried : carried[k] \in Nat /\ carried[k] <= asked
      <4>1. MaxRequests \in Nat
        BY AgentLoopAssumption
      <4>2. \A k \in DOMAIN carried : carried[k] \in 1 .. MaxRequests
        BY LenProperties, ElementOfSeq DEF RestTypes
      <4>3. \A k \in DOMAIN carried : carried[k] <= asked
        BY DEF AnswerInv
      <4>4. QED
        BY <4>1, <4>2, <4>3
    <3>2. QED
      BY <1>1, <2>2, <3>1
  <2>13. QED
    BY <1>1, <2>1, <2>2, <2>10, <2>11, <2>12 DEF AnswerInv
<1>4. QED
  BY <1>2, <1>3

LEMMA FailsAnswer ==
  ASSUME HistInv, AnswerInv, Fails
  PROVE  AnswerInv'
<1>1. /\ pc = "asking" /\ asked' = asked /\ carried' = carried /\ reply' = reply
      /\ pc' \in {"top", "waiting", "ending"} /\ history \in Seq(Messages)
      /\ Fits(history, carried) /\ reply = <<>> /\ \A k \in DOMAIN carried : carried[k] <= asked
  BY DEF Fails, AskAgain, NudgeBlank, TooLong, Refused, Failing, answer, AnswerInv, HistInv, HistShape,
         HistoryUpTo
<1>2. CASE (\E t \in Troubles : AskAgain(t)) \/ Refused
  <2>1. history' = history
    BY <1>2 DEF AskAgain, Refused
  <2>2. QED
    BY <1>1, <2>1, QuietAnswer DEF answer, Between
<1>3. CASE NudgeBlank
  <2> DEFINE e == <<User("blank")>>
  <2>1. User("blank") \in Messages /\ Aside(User("blank"))
    <3>1. User("blank") \in Messages
      BY MessageKinds DEF UserWords
    <3>2. Aside(User("blank"))
      BY DEF Aside, User
    <3>3. QED
      BY <3>1, <3>2
  <2>2. history' = history \o e /\ pc' = "top"
    BY <1>1, <1>3, <2>1, AppendIsConcat DEF NudgeBlank, Failing
  <2>3. e \in Seq(Messages) /\ \A i \in DOMAIN e : Aside(e[i])
    BY <2>1
  <2> HIDE DEF e
  <2>4. Fits(history', carried')
    BY <1>1, <2>2, <2>3, FitsStays
  <2>5. QED
    BY <1>1, <2>2, <2>4, ToTop
<1>4. CASE TooLong
  <2>1. Boundary(history) # 0 /\ history' = Summarised(history) /\ pc' = "top"
    BY <1>4 DEF TooLong, Failing
  <2>2. Fits(history', carried')
    BY <1>1, <2>1, FitsSummary
  <2>3. QED
    BY <1>1, <2>1, <2>2, ToTop
<1>5. QED
  BY <1>2, <1>3, <1>4 DEF Fails

LEMMA SaysAnswer ==
  ASSUME HistInv, WordInv, RestTypes, AnswerInv, PlainAnswer \/ Says
  PROVE  AnswerInv'
<1> DEFINE A(x) == Assistant(asked, 0, x)
<1>1. /\ pc = "asking" /\ asked' = asked /\ pc' \in {"top", "ending"} /\ reply = <<>>
      /\ asked \in 1 .. MaxRequests /\ asked \in Nat /\ history \in Seq(Messages)
      /\ carried \in Seq(1 .. MaxRequests)
      /\ Fits(history, carried) /\ \A k \in DOMAIN carried : carried[k] <= asked /\ carried[k] < asked
      /\ \A i \in DOMAIN history : history[i].of < asked
  <2>1. pc = "asking" /\ asked' = asked /\ pc' \in {"top", "ending"}
    BY DEF PlainAnswer, Says, Cut, Leaked, Blank, Nudge, KeptAlive, SentBack, Final, Answered
  <2>2. asked \in 1 .. MaxRequests /\ asked \in Nat /\ history \in Seq(Messages)
    BY <2>1, AgentLoopAssumption DEF HistInv, HistShape, HistoryUpTo
  <2>3. QED
    BY <2>1, <2>2 DEF AnswerInv, RestTypes
<1>2. \A x \in {"text", "alone"} :
        /\ A(x) \in Messages /\ A(x).role = "assistant" /\ A(x).of = asked /\ A(x).says = x /\ ~ Quiet(A(x))
  <2>1. MaxCalls \in Nat /\ 0 \in 0 .. MaxCalls
    BY ToolCallsAssumption
  <2>2. \A x \in {"text", "alone"} : A(x) \in Messages /\ A(x).role = "assistant" /\ A(x).of = asked
    BY <1>1, <2>1, MessageKinds
  <2>3. \A x : A(x).says = x
    BY DEF Assistant
  <2> HIDE DEF A
  <2>4. QED
    BY <2>2, <2>3 DEF Quiet
<1>3. \A x \in UserWords : User(x) \in Messages /\ User(x).role = "user" /\ User(x).says = x
  <2>1. \A x : User(x).says = x
    BY DEF User
  <2>2. QED
    BY <2>1, MessageKinds
<1> HIDE DEF A
(* An answer written behind the history.                                   *)
<1>4. ASSUME NEW x \in {"text", "alone"}
      PROVE  /\ history \o <<A(x)>> \in Seq(Messages) /\ Append(history, A(x)) = history \o <<A(x)>>
             /\ Unjoined(history \o <<A(x)>>)
             /\ Len(history \o <<A(x)>>) = Len(history) + 1 /\ Len(history) \in Nat
             /\ (history \o <<A(x)>>)[Len(history) + 1] = A(x) /\ history \o <<A(x)>> # <<>>
  <2> DEFINE e == <<A(x)>>
             h == history \o e
  <2>1. A(x) \in Messages /\ ~ Quiet(A(x))
    BY <1>2
  <2>2. e \in Seq(Messages) /\ Len(e) = 1 /\ e[1] = A(x)
    BY <2>1
  <2>3. Unjoined(h)
    BY <1>1, <2>1, LoudEnds
  <2>4. Append(history, A(x)) = h
    BY <1>1, <2>1, AppendIsConcat
  <2> HIDE DEF e
  <2>5. /\ h \in Seq(Messages) /\ Len(h) = Len(history) + Len(e) /\ Len(history) \in Nat
        /\ \A i \in 1 .. Len(e) : h[Len(history) + i] = e[i]
    BY <1>1, <2>2, Longer
  <2> HIDE DEF h
  <2>6. Len(h) = Len(history) + 1 /\ h[Len(history) + 1] = A(x) /\ Len(h) # 0
    BY <2>2, <2>5
  <2>7. h # <<>>
    BY <2>6, EmptySeq
  <2>8. QED
    BY <2>3, <2>4, <2>5, <2>6, <2>7 DEF h, e
(* The turn ends with an answer.                                           *)
<1>5. ASSUME NEW x \in {"text", "alone"}, pc' = "ending", history' = history \o <<A(x)>>,
             reply' = IF x = "text" THEN Append(carried, asked) ELSE <<asked>>,
             carried' \in {carried, <<>>}
      PROVE  AnswerInv'
  <2> DEFINE g == history \o <<A(x)>>
  <2>1. Len(g) = Len(history) + 1 /\ g[Len(history) + 1] = A(x) /\ g # <<>> /\ Len(history) \in Nat
    BY <1>4
  <2>2. Chained(g, reply')
    <3>1. CASE x = "text"
      <4>1. \A k \in DOMAIN carried : carried[k] < asked
        BY <1>1
      <4>2. Chained(g, Append(carried, asked))
        BY <1>1, <3>1, <4>1, NextPiece DEF A
      <4>3. QED
        BY <1>5, <3>1, <4>2
    <3>2. CASE x = "alone"
      <4>1. reply' = <<asked>> /\ Len(<<asked>>) = 1 /\ <<asked>>[1] = asked
        BY <1>5, <3>2
      <4>2. ASSUME NEW i \in AnswersIn(g), NEW j \in AnswersIn(g), g[j].of = asked, i < j
            PROVE  ~ JoinedIn(g, i, j)
        <5>1. j = Len(history) + 1
          <6>1. /\ DOMAIN g = 1 .. Len(history) + 1 /\ DOMAIN history = 1 .. Len(history)
                /\ \A m \in 1 .. Len(history) : g[m] = history[m] /\ history[m] \in Messages
            <7>1. <<A(x)>> \in Seq(Messages) /\ Len(<<A(x)>>) = 1
              BY <1>2
            <7>2. PICK e \in Seq(Messages) : e = <<A(x)>> /\ Len(e) = 1
              BY <7>1
            <7>3. /\ DOMAIN (history \o e) = 1 .. Len(history) + Len(e) /\ DOMAIN history = 1 .. Len(history)
                  /\ \A m \in 1 .. Len(history) : (history \o e)[m] = history[m] /\ history[m] \in Messages
              BY <1>1, Longer
            <7>4. QED
              BY <7>2, <7>3
          <6> HIDE DEF g
          <6>2. j \in 1 .. Len(history) + 1
            BY <6>1 DEF AnswersIn
          <6>3. ASSUME j \in 1 .. Len(history) PROVE FALSE
            <7>1. history[j].of \in Nat /\ history[j].of < asked /\ g[j] = history[j]
              BY <1>1, <6>1, <6>3, MessageKinds
            <7>2. QED
              BY <1>1, <4>2, <7>1
          <6>4. QED
            BY <2>1, <6>2, <6>3
        <5>2. g[j].says = "alone"
          BY <1>2, <2>1, <3>2, <5>1
        <5>3. QED
          BY <5>2 DEF JoinedIn
      <4> HIDE DEF g
      <4>3. PICK c : c = <<asked>> /\ Len(c) = 1 /\ c[1] = asked
        BY <4>1
      <4>4. Chained(g, c)
        BY <4>2, <4>3 DEF Chained
      <4>5. QED
        BY <4>1, <4>3, <4>4
    <3>3. QED
      BY <3>1, <3>2
  <2>3. reply'[Len(reply')] = asked
    <3>1. CASE x = "text"
      <4>1. Len(Append(carried, asked)) = Len(carried) + 1 /\ Append(carried, asked)[Len(carried) + 1] = asked
        BY <1>1, AppendProperties
      <4>2. QED
        BY <1>5, <3>1, <4>1
    <3>2. CASE x = "alone"
      BY <1>5, <3>2
    <3>3. QED
      BY <3>1, <3>2
  <2>4. g[Len(g)].role = "assistant" /\ g[Len(g)].of = reply'[Len(reply')]
    BY <1>2, <2>1, <2>3
  <2>5. Shown(g, reply')
    BY <2>1, <2>2, <2>4 DEF Shown
  <2>6. \A k \in DOMAIN carried' : carried'[k] <= asked'
    BY <1>1, <1>5
  <2>7. QED
    BY <1>5, <2>5, <2>6 DEF AnswerInv
(* The turn goes on without what was carried.                              *)
<1>6. ASSUME pc' = "top", reply' = reply, carried' = <<>>, Unjoined(history')
      PROVE  AnswerInv'
  BY <1>1, <1>6, ToTop DEF Fits
<1>7. CASE PlainAnswer
  <2>1. /\ pc' = "ending" /\ history' = Append(history, A("alone")) /\ reply' = <<asked>> /\ carried' = carried
    BY <1>7 DEF PlainAnswer, A
  <2>2. history' = history \o <<A("alone")>>
    BY <1>4, <2>1
  <2>3. QED
    BY <1>5, <2>1, <2>2
<1>8. CASE Cut
  <2> DEFINE h == history \o <<A("text")>>
             e == <<User("more")>>
             c == Append(carried, asked)
  <2>1. /\ pc' = "top" /\ reply' = reply /\ carried' = c
        /\ history' = history \o <<A("text"), User("more")>>
    BY <1>8 DEF Cut, Answered, A
  <2>2. h \in Seq(Messages) /\ Len(h) = Len(history) + 1 /\ Len(history) \in Nat
    BY <1>4
  <2>3. User("more") \in Messages /\ User("more").role = "user" /\ Quiet(User("more"))
    BY <1>3 DEF UserWords, Quiet
  <2>4. e \in Seq(Messages) /\ Len(e) = 1 /\ e[1] = User("more") /\ \A i \in DOMAIN e : e[i].role # "assistant"
    BY <2>3
  <2>5. history' = h \o e
    <3>1. A("text") \in Messages
      BY <1>2
    <3>2. <<A("text"), User("more")>> = <<A("text")>> \o <<User("more")>>
      OBVIOUS
    <3>3. <<A("text")>> \in Seq(Messages) /\ <<User("more")>> \in Seq(Messages)
      BY <2>3, <3>1
    <3>4. history \o (<<A("text")>> \o <<User("more")>>) = (history \o <<A("text")>>) \o <<User("more")>>
      BY <1>1, <3>3, ConcatAssociative
    <3>5. QED
      BY <2>1, <3>2, <3>4
  <2>6. Chained(h, c)
    <3>1. \A k \in DOMAIN carried : carried[k] < asked
      BY <1>1
    <3>2. QED
      BY <1>1, <3>1, NextPiece DEF A
  <2>7. /\ Len(c) = Len(carried) + 1 /\ c[Len(carried) + 1] = asked /\ c # <<>> /\ Len(carried) \in Nat
        /\ DOMAIN c = 1 .. Len(carried) + 1 /\ \A k \in 1 .. Len(carried) : c[k] = carried[k]
        /\ DOMAIN carried = 1 .. Len(carried)
    BY <1>1, AppendProperties, LenProperties
  <2> HIDE DEF h, e, c
  <2>8. Chained(h \o e, c)
    BY <2>2, <2>4, <2>6, ChainedStays
  <2>9. Awaited(h \o e, c)
    <3> DEFINE g == h \o e
               n == Len(history) + 1
    <3>1. /\ Len(g) = Len(h) + Len(e) /\ DOMAIN g = 1 .. Len(h) + Len(e)
          /\ \A i \in 1 .. Len(h) : g[i] = h[i] /\ h[i] \in Messages
          /\ \A i \in 1 .. Len(e) : g[Len(h) + i] = e[i]
      BY <2>2, <2>4, Longer
    <3> HIDE DEF g
    <3>2. /\ n \in Nat /\ Len(g) = n + 1 /\ DOMAIN g = 1 .. n + 1 /\ g[n + 1] = User("more")
          /\ \A i \in 1 .. n : g[i] = h[i]
      BY <2>2, <2>4, <3>1
    <3>3. ASSUME NEW i \in AnswersIn(g), g[i].of = asked PROVE GoesOn(g, i)
      <4>1. i \in 1 .. n + 1 /\ g[i].role = "assistant"
        BY <3>2 DEF AnswersIn
      <4>2. i # n + 1
        BY <2>3, <3>2, <4>1
      <4>3. i = n
        <5>1. CASE i \in 1 .. Len(history)
          <6>1. h[i] = history[i] /\ i \in DOMAIN history /\ history[i] \in Messages
            <7>1. <<A("text")>> \in Seq(Messages)
              BY <1>2
            <7>2. PICK d \in Seq(Messages) : d = <<A("text")>>
              BY <7>1
            <7>3. (history \o d)[i] = history[i] /\ i \in DOMAIN history /\ history[i] \in Messages
              BY <1>1, <5>1, Longer
            <7>4. QED
              BY <7>2, <7>3 DEF h
          <6>2. history[i].of < asked /\ history[i].of \in Nat /\ g[i] = h[i]
            BY <1>1, <2>2, <3>2, <5>1, <6>1, MessageKinds
          <6>3. FALSE
            BY <1>1, <3>3, <6>1, <6>2
          <6>4. QED
            BY <6>3
        <5>2. CASE i \notin 1 .. Len(history)
          BY <2>2, <4>1, <4>2, <5>2
        <5>3. QED
          BY <5>1, <5>2
      <4>4. \A m \in i + 1 .. Len(g) : m = n + 1
        BY <3>2, <4>3
      <4>5. i < Len(g) /\ g[i + 1] = User("more")
        BY <3>2, <4>3
      <4>6. QED
        BY <2>3, <3>2, <4>4, <4>5 DEF GoesOn
    <3>4. QED
      BY <2>7, <3>3 DEF Awaited, g
  <2>10. Fits(history', carried')
    BY <2>1, <2>5, <2>7, <2>8, <2>9 DEF Fits
  <2>11. \A k \in DOMAIN carried' : carried'[k] <= asked'
    <3>1. \A k \in DOMAIN c : c[k] <= asked
      <4>1. ASSUME NEW k \in DOMAIN c PROVE c[k] <= asked
        <5>1. k \in 1 .. Len(carried) \/ k = Len(carried) + 1
          BY <2>7
        <5>2. asked <= asked
          BY <1>1
        <5>3. QED
          BY <1>1, <2>7, <5>1, <5>2
      <4>2. QED
        BY <4>1
    <3>2. QED
      BY <1>1, <2>1, <3>1
  <2>12. QED
    BY <1>1, <2>1, <2>10, <2>11, ToTop
<1>9. CASE Leaked
  <2>1. User("leak") \in Messages /\ ~ Quiet(User("leak"))
    BY <1>3 DEF UserWords, Quiet
  <2>2. history' = history \o <<User("leak")>>
    BY <1>1, <1>9, <2>1, AppendIsConcat DEF Leaked, Nudge, Answered
  <2>3. Unjoined(history')
    BY <1>1, <2>1, <2>2, LoudEnds
  <2>4. pc' = "top" /\ reply' = reply /\ carried' = <<>>
    BY <1>9 DEF Leaked, Nudge, Answered
  <2>5. QED
    BY <1>6, <2>3, <2>4
<1>10. CASE Blank
  <2> DEFINE e == <<User("blank")>>
  <2>1. User("blank") \in Messages /\ Aside(User("blank"))
    BY <1>3 DEF UserWords, Aside
  <2>2. history' = history \o e
    BY <1>1, <1>10, <2>1, AppendIsConcat DEF Blank, Nudge, Answered
  <2>3. e \in Seq(Messages) /\ \A i \in DOMAIN e : Aside(e[i])
    BY <2>1
  <2> HIDE DEF e
  <2>4. carried = <<>> /\ pc' = "top" /\ reply' = reply /\ carried' = <<>>
    BY <1>10 DEF Blank, Nudge, Answered
  <2>5. Fits(history', carried')
    BY <1>1, <2>2, <2>3, <2>4, FitsStays
  <2>6. Unjoined(history')
    BY <2>4, <2>5 DEF Fits
  <2>7. QED
    BY <1>6, <2>4, <2>6
<1>11. ASSUME NEW x \in Kinds, KeptAlive(x) PROVE AnswerInv'
  <2> DEFINE e == Times(Len(interjection), User("word"))
             h == history \o <<A(x)>>
  <2>1. x \in {"text", "alone"}
    BY DEF Kinds
  <2>2. h \in Seq(Messages) /\ Unjoined(h) /\ Append(history, A(x)) = h
    BY <1>4, <2>1
  <2>3. pc' = "top" /\ reply' = reply /\ carried' = <<>> /\ history' = h \o e
    BY <1>11, <2>2 DEF KeptAlive, Answered, Consumed, A
  <2>4. Len(interjection) \in Nat
    BY LenProperties DEF WordInv, WordTypes
  <2>5. User("word") \in Messages /\ User("word").role # "assistant" /\ User("word") # User("more")
    <3>1. User("word").says # User("more").says
      BY <1>3 DEF UserWords
    <3>2. QED
      BY <1>3, <3>1 DEF UserWords
  <2>6. e \in Seq(Messages) /\ \A i \in DOMAIN e : e[i] = User("word")
    BY <2>4, <2>5, TimesIs
  <2> HIDE DEF h, e
  <2>7. \A i \in DOMAIN e : e[i].role # "assistant" /\ e[i] # User("more")
    BY <2>5, <2>6
  <2>8. Unjoined(history')
    BY <2>2, <2>3, <2>6, <2>7, StaysUnjoined
  <2>9. QED
    BY <1>6, <2>3, <2>8
<1>12. ASSUME NEW x \in Kinds, SentBack(x) PROVE AnswerInv'
  <2> DEFINE h == history \o <<A(x)>>
             g == h \o <<A(x)>>
             v == <<User("verdict")>>
  <2>1. x \in {"text", "alone"}
    BY DEF Kinds
  <2>2. h \in Seq(Messages)
    BY <1>4, <2>1
  <2>3. A(x) \in Messages /\ ~ Quiet(A(x))
    BY <1>2, <2>1
  <2>4. Unjoined(g) /\ g \in Seq(Messages)
    <3>1. Unjoined(g)
      BY <2>2, <2>3, LoudEnds
    <3>2. <<A(x)>> \in Seq(Messages)
      BY <2>3
    <3> HIDE DEF h
    <3>3. g \in Seq(Messages)
      BY <2>2, <3>2, ConcatProperties
    <3>4. QED
      BY <3>1, <3>3
  <2>5. User("verdict") \in Messages /\ User("verdict").role # "assistant" /\ User("verdict") # User("more")
    <3>1. User("verdict").says # User("more").says
      BY <1>3 DEF UserWords
    <3>2. QED
      BY <1>3, <3>1 DEF UserWords
  <2>6. v \in Seq(Messages) /\ \A i \in DOMAIN v : v[i].role # "assistant" /\ v[i] # User("more")
    BY <2>5
  <2>7. pc' = "top" /\ reply' = reply /\ carried' = <<>>
        /\ history' = history \o <<A(x), A(x), User("verdict")>>
    BY <1>12 DEF SentBack, Answered, Consumed, A
  <2>8. history' = g \o v
    <3>1. <<A(x)>> \in Seq(Messages) /\ <<User("verdict")>> \in Seq(Messages)
          /\ <<A(x), User("verdict")>> \in Seq(Messages)
      BY <2>3, <2>5
    <3>2. <<A(x), A(x), User("verdict")>> = <<A(x)>> \o <<A(x), User("verdict")>>
      OBVIOUS
    <3>3. <<A(x), User("verdict")>> = <<A(x)>> \o <<User("verdict")>>
      OBVIOUS
    <3>4. history \o (<<A(x)>> \o <<A(x), User("verdict")>>) = h \o <<A(x), User("verdict")>>
      BY <1>1, <3>1, ConcatAssociative
    <3> HIDE DEF h
    <3>5. h \o (<<A(x)>> \o <<User("verdict")>>) = g \o <<User("verdict")>>
      BY <2>2, <3>1, ConcatAssociative
    <3>6. QED
      BY <2>7, <3>2, <3>3, <3>4, <3>5
  <2> HIDE DEF g, v
  <2>9. Unjoined(history')
    BY <2>4, <2>6, <2>8, StaysUnjoined
  <2>10. QED
    BY <1>6, <2>7, <2>9
<1>13. ASSUME NEW x \in Kinds, Final(x) PROVE AnswerInv'
  <2>1. x \in {"text", "alone"}
    BY DEF Kinds
  <2>2. /\ pc' = "ending" /\ history' = Append(history, A(x)) /\ carried' = <<>>
        /\ reply' = IF x = "text" THEN Append(carried, asked) ELSE <<asked>>
    BY <1>13 DEF Final, Answered, Consumed, Content, A
  <2>3. history' = history \o <<A(x)>>
    BY <1>4, <2>1, <2>2
  <2>4. QED
    BY <1>5, <2>1, <2>2, <2>3
<1>14. QED
  BY <1>7, <1>8, <1>9, <1>10, <1>11, <1>12, <1>13 DEF Says

LEMMA CallAnswer ==
  ASSUME HistInv, AnswerInv, NEW ks \in CallLists, Call(ks) \/ Truncated(ks)
  PROVE  AnswerInv'
<1> DEFINE m == Assistant(asked, Len(ks), "text")
           h == history \o <<m>>
<1>1. /\ pc = "asking" /\ asked' = asked /\ reply = <<>> /\ reply' = reply /\ carried' = <<>>
      /\ asked \in 1 .. MaxRequests /\ history \in Seq(Messages)
  <2>1. pc = "asking" /\ asked' = asked /\ reply' = reply /\ carried' = <<>>
    BY DEF Call, Truncated, Answered
  <2>2. asked \in 1 .. MaxRequests /\ history \in Seq(Messages)
    BY <2>1, AgentLoopAssumption DEF HistInv, HistShape, HistoryUpTo
  <2>3. QED
    BY <2>1, <2>2 DEF AnswerInv
<1>2. Len(ks) \in 0 .. MaxCalls /\ Len(ks) \in Nat /\ 0 \in 0 .. Len(ks) /\ Len(ks) \in 0 .. Len(ks) - 0
  BY CallFacts
<1>3. m \in Messages /\ ~ Quiet(m)
  <2>1. m \in Messages /\ m.role = "assistant"
    BY <1>1, <1>2, MessageKinds
  <2>2. QED
    BY <2>1 DEF Quiet
<1> HIDE DEF m
<1>4. Unjoined(h) /\ h \in Seq(Messages) /\ Append(history, m) = h
  <2>1. Unjoined(h)
    BY <1>1, <1>3, LoudEnds
  <2>2. Append(history, m) = h
    BY <1>1, <1>3, AppendIsConcat
  <2>3. <<m>> \in Seq(Messages)
    BY <1>3
  <2>4. h \in Seq(Messages)
    BY <1>1, <2>3, ConcatProperties
  <2>5. QED
    BY <2>1, <2>2, <2>4
<1> HIDE DEF h
<1>5. CASE Call(ks)
  <2>1. pc' = "running" /\ history' = h
    BY <1>4, <1>5 DEF Call, m
  <2>2. QED
    BY <1>1, <1>4, <2>1, ToTop DEF Fits
<1>6. CASE Truncated(ks)
  <2> DEFINE e == ResultsOf(asked, 0, Len(ks))
  <2>1. e = [i \in 1 .. Len(ks) |-> Result(asked, i)]
    <3>1. \A i \in 1 .. Len(ks) : 0 + i = i
      BY <1>2
    <3>2. QED
      BY <3>1 DEF ResultsOf
  <2>2. e \in Seq(Messages) /\ \A i \in DOMAIN e : e[i].role = "tool"
    BY <1>1, <1>2, ResultSeq, ZenonT(40)
  <2>3. pc' = "top" /\ history' = h \o e
    BY <1>4, <1>6, <2>1 DEF Truncated, Answered, m
  <2> HIDE DEF e
  <2>4. \A i \in DOMAIN e : e[i].role # "assistant" /\ e[i] # User("more")
    <3>1. User("more").role = "user"
      BY DEF User
    <3>2. QED
      BY <2>2, <3>1
  <2>5. Unjoined(history')
    BY <1>4, <2>2, <2>3, <2>4, StaysUnjoined
  <2>6. QED
    BY <1>1, <2>3, <2>5, ToTop DEF Fits
<1>7. QED
  BY <1>5, <1>6

(* What is written of a group of calls, and the pictures behind it.        *)
LEMMA RunAnswer ==
  ASSUME CallInv, HistInv, AnswerInv, DoomLoop \/ Write \/ WriteLast
  PROVE  AnswerInv'
<1>1. /\ pc = "running" /\ asked' = asked /\ carried' = carried /\ reply' = reply /\ carried = <<>> /\ reply = <<>>
      /\ Unjoined(history)
  <2>1. pc = "running" /\ asked' = asked /\ carried' = carried /\ reply' = reply
    BY DEF DoomLoop, Write, WriteLast, GroupBack, answer
  <2>2. QED
    BY <2>1 DEF AnswerInv, Fits
<1>2. CASE DoomLoop
  <2>1. pc' = "ending"
    BY <1>2 DEF DoomLoop
  <2>2. QED
    BY <1>1, <2>1 DEF AnswerInv
<1>3. CASE Write \/ WriteLast
  <2> DEFINE n == Len(calls)
             r == last - first + 1
  <2>1. /\ calls \in CallLists /\ first \in 1 .. n /\ last \in first - 1 .. n
        /\ asked \in 1 .. MaxRequests /\ pictures \in Nat /\ history \in Seq(Messages)
    BY <1>1, <1>3, AgentLoopAssumption
       DEF Write, WriteLast, GroupBack, CallInv, GroupTypes, HistInv, HistShape, HistoryUpTo
  <2>2. n \in 0 .. MaxCalls /\ n \in Nat
    BY <2>1, CallFacts
  <2>3. first - 1 \in 0 .. n /\ r \in 0 .. n - (first - 1) /\ first \in Nat /\ last \in Nat
    <3> HIDE DEF n
    <3>1. QED
      BY <2>1, <2>2
  <2>4. Results = ResultsOf(asked, first - 1, r)
    <3>1. \A i \in 1 .. r : first + i - 1 = (first - 1) + i
      BY <2>3
    <3>2. QED
      BY <3>1 DEF Results, ResultsOf, InOrder
  <2> HIDE DEF n, r
  <2>5. Results \in Seq(Messages) /\ \A i \in DOMAIN Results : Results[i].role = "tool"
    <3>1. PICK p : p = first - 1
      OBVIOUS
    <3>2. p \in 0 .. n /\ r \in 0 .. n - p /\ Results = ResultsOf(asked, p, r)
      BY <2>3, <2>4, <3>1
    <3>3. LET z == ResultsOf(asked, p, r) IN z \in Seq(Messages) /\ \A i \in DOMAIN z : z[i].role = "tool"
      BY <2>1, <2>2, <3>2, ResultSeq, ZenonT(40)
    <3>4. QED
      BY <3>2, <3>3
  <2>6. \A m \in Messages : m.role = "tool" => m.role # "assistant" /\ m # User("more")
    BY DEF User
  <2>7. history \o Results \in Seq(Messages) /\ Unjoined(history \o Results)
    <3>1. \A i \in DOMAIN Results : Results[i].role # "assistant" /\ Results[i] # User("more")
      <4>1. \A i \in DOMAIN Results : Results[i] \in Messages
        BY <2>5, LenProperties, ElementOfSeq
      <4>2. QED
        BY <2>5, <2>6, <4>1
    <3>2. Unjoined(history \o Results)
      BY <1>1, <2>1, <2>5, <3>1, StaysUnjoined
    <3>3. QED
      BY <2>1, <2>5, <3>2, ConcatProperties
  <2>8. CASE Write
    <3>1. pc' = "running" /\ history' = history \o Results
      BY <1>1, <2>8 DEF Write
    <3>2. QED
      BY <1>1, <2>7, <3>1, ToTop DEF Fits
  <2>9. CASE WriteLast
    <3> DEFINE e == Times(pictures + Shot, User("picture"))
    <3>1. Shot \in Nat
      <4> DEFINE F == {i \in first .. last : stage[i] = "done" /\ calls[i] \in Cameras}
      <4>1. IsFiniteSet(first .. last)
        BY <2>3, FS_Interval
      <4>2. IsFiniteSet(F)
        BY <4>1, FS_Subset
      <4> HIDE DEF F
      <4>3. Cardinality(F) \in Nat
        BY <4>2, FS_CardinalityType
      <4>4. QED
        BY <4>3 DEF Shot, F
    <3>2. User("picture") \in Messages /\ User("picture").role # "assistant" /\ User("picture") # User("more")
      <4>1. User("picture") \in Messages /\ User("picture").role = "user"
        BY MessageKinds DEF UserWords
      <4>2. User("picture").says = "picture" /\ User("more").says = "more"
        BY DEF User
      <4>3. QED
        BY <4>1, <4>2
    <3>3. e \in Seq(Messages) /\ \A i \in DOMAIN e : e[i] = User("picture")
      <4>1. pictures + Shot \in Nat
        BY <2>1, <3>1
      <4>2. QED
        BY <3>2, <4>1, TimesIs
    <3>4. /\ pc' \in {"top", "ending"} /\ history' = (history \o Results) \o e
      BY <2>9 DEF WriteLast
    <3> HIDE DEF e
    <3>5. Unjoined(history')
      <4>1. \A i \in DOMAIN e : e[i].role # "assistant" /\ e[i] # User("more")
        BY <3>2, <3>3
      <4>2. QED
        BY <2>7, <3>3, <3>4, <4>1, StaysUnjoined
    <3>6. CASE pc' = "top"
      BY <1>1, <3>5, <3>6, ToTop DEF Fits
    <3>7. CASE pc' = "ending"
      BY <1>1, <3>7 DEF AnswerInv
    <3>8. QED
      BY <3>4, <3>6, <3>7
  <2>10. QED
    BY <1>3, <2>8, <2>9
<1>4. QED
  BY <1>2, <1>3

LEMMA AnswerStep == CallInv /\ WordInv /\ HistInv /\ RestTypes /\ AnswerInv /\ [Next]_vars => AnswerInv'
<1> SUFFICES ASSUME CallInv, WordInv, HistInv, RestTypes, AnswerInv, [Next]_vars PROVE AnswerInv'
  OBVIOUS
<1>1. CASE UNCHANGED vars
  BY <1>1, QuietAnswer DEF vars
<1>2. CASE Begin \/ Ask
  BY <1>2, AskAnswer
<1>3. CASE Fails
  BY <1>3, FailsAnswer
<1>4. CASE PlainAnswer \/ Says
  BY <1>4, SaysAnswer
<1>5. CASE Calls
  BY <1>5, CallAnswer DEF Calls
<1>6. CASE DoomLoop \/ Write \/ WriteLast
  BY <1>6, RunAnswer
<1>7. CASE Leave \/ Waited \/ HandBack
  <2>1. /\ UNCHANGED <<history, asked, answer>>
        /\ \/ pc' = "ending" /\ pc \in {"top", "waiting"}
           \/ pc' = "top" /\ pc = "waiting"
           \/ pc' = "closing"
    BY <1>7 DEF Leave, Waited, HandBack
  <2>2. QED
    BY <2>1, QuietAnswer DEF Between
<1>8. CASE TurnEnds
  <2>1. pc' = "idle" /\ carried' = <<>> /\ reply' = <<>>
    BY <1>8 DEF TurnEnds, NoTurn
  <2>2. QED
    BY <2>1 DEF AnswerInv
<1>9. CASE BeginGroup \/ Interject \/ Stop \/ WorkStep \/ \E i \in Places : RunCall(i)
  <2>1. UNCHANGED <<history, asked, answer, pc>>
    BY <1>9 DEF BeginGroup, Interject, Stop, WorkStep, RunCall
  <2>2. QED
    BY <2>1, QuietAnswer
<1>10. QED
  BY <1>1, <1>2, <1>3, <1>4, <1>5, <1>6, <1>7, <1>8, <1>9 DEF Next, LoopStep, Returns, Runs

LEMMA InitAnswer == Init => AnswerInv
<1> SUFFICES ASSUME Init PROVE AnswerInv
  OBVIOUS
<1>1. pc = "idle" /\ carried = <<>> /\ reply = <<>> /\ DOMAIN carried = {}
  BY DEF Init
<1>2. QED
  BY <1>1 DEF AnswerInv

(* RespondWithTools puts an answer that ran out of room together from its  *)
(* pieces (carried): whatever came between two of them (a summary, retries *)
(* of a request, what the person typed), the person is shown the pieces of *)
(* the last answer in their order, each once and from its first on, and    *)
(* nothing of one that leaked, made calls or was sent back.                *)
THEOREM TheAnswerIsShown == Spec => []ReplyIsTheAnswer
<1>1. HistInv /\ RestTypes /\ AnswerInv => ReplyIsTheAnswer
  <2> SUFFICES ASSUME HistInv, RestTypes, AnswerInv PROVE ReplyIsTheAnswer
    OBVIOUS
  <2>1. history \in Seq(Messages) /\ reply \in Seq(1 .. MaxRequests)
    BY DEF HistInv, HistShape, HistoryUpTo, RestTypes
  <2>2. pc = "ending" /\ reply # <<>> => Shown(history, reply)
    BY DEF AnswerInv
  <2>3. QED
    BY <2>1, <2>2, ShownIs
<1>2. Init => CallInv /\ WordInv /\ HistInv /\ RestTypes /\ AnswerInv
  BY InitCalls, InitWords, InitHist, InitRest, InitAnswer
<1>3. CallInv /\ WordInv /\ HistInv /\ RestTypes /\ AnswerInv /\ [Next]_vars =>
        (CallInv /\ WordInv /\ HistInv /\ RestTypes /\ AnswerInv)'
  BY CallInvStep, WordStep, HistStep, RestStep, AnswerStep
<1>4. QED
  BY <1>1, <1>2, <1>3, PTL DEF Spec

-----------------------------------------------------------------------------
(* Stop counts a turn down.                                                *)

(* How many steps a turn is from its end when nothing new is asked: each   *)
(* call is begun with its group, served and brought back, and each group   *)
(* written.                                                                *)
Farthest == 6 + 4 * MaxCalls
Outside == [idle |-> 0, closing |-> 1, ending |-> 2, top |-> 3, waiting |-> 4, asking |-> Farthest]
Due(st) == {i \in Places : st[i] = "due"}
Out(st) == {i \in Places : st[i] \in {"due", "waits"}}
Serving == (IF last < first THEN 0 ELSE 1) + Cardinality(Due(stage)) + Cardinality(Out(stage))
Distance == IF pc = "running" THEN 5 + 4 * (Len(calls) - last) + Serving ELSE Outside[pc]

LEMMA PlacesFinite ==
  /\ IsFiniteSet(Places) /\ Cardinality(Places) = MaxCalls /\ MaxCalls \in Nat
<1>1. MaxCalls \in Nat
  BY ToolCallsAssumption
<1>2. QED
  BY <1>1, FS_Interval DEF Places

LEMMA OutCounted ==
  ASSUME NEW st
  PROVE  /\ IsFiniteSet(Due(st)) /\ Cardinality(Due(st)) \in Nat
         /\ IsFiniteSet(Out(st)) /\ Cardinality(Out(st)) \in Nat
<1>1. Due(st) \subseteq Places /\ Out(st) \subseteq Places
  BY DEF Due, Out
<1>2. QED
  BY <1>1, PlacesFinite, FS_Subset, FS_CardinalityType

(* A turn is in flight while it is stopped.                                *)
StoppedInFlight == stopped => pc # "idle"

LEMMA InFlightStep == CallInv /\ StoppedInFlight /\ [Next]_vars => StoppedInFlight'
<1> SUFFICES ASSUME StoppedInFlight, [Next]_vars PROVE StoppedInFlight'
  OBVIOUS
<1>1. CASE UNCHANGED vars
  BY <1>1 DEF vars, callVars, StoppedInFlight
<1>2. CASE Stop \/ TurnEnds
  BY <1>2 DEF Stop, TurnEnds, StoppedInFlight
<1>3. CASE Interject \/ WorkStep
  BY <1>3 DEF Interject, WorkStep, WorkEnds, callVars, StoppedInFlight
<1>4. CASE Begin \/ Leave \/ Ask \/ Waited \/ HandBack \/ Fails \/ PlainAnswer
  BY <1>4 DEF Begin, Leave, Ask, Waited, HandBack, Fails, AskAgain, NudgeBlank, TooLong, Refused, Failing,
              PlainAnswer, callVars, StoppedInFlight
<1>5. CASE Says \/ Calls
  BY <1>5 DEF Says, Cut, Leaked, Blank, Nudge, KeptAlive, SentBack, Final, Answered, Calls, Call, Truncated,
              callVars, StoppedInFlight
<1>6. CASE BeginGroup \/ DoomLoop \/ Write \/ WriteLast
  BY <1>6 DEF BeginGroup, DoomLoop, Write, WriteLast, GroupBack, Clear, callVars, StoppedInFlight
<1>7. ASSUME NEW i \in Places, RunCall(i) PROVE StoppedInFlight'
  BY <1>7 DEF RunCall, CallStep, Join, Start, Collect, GiveUp, Overrun, Comes, StoppedInFlight
<1>8. QED
  BY <1>1, <1>2, <1>3, <1>4, <1>5, <1>6, <1>7 DEF Next, LoopStep, Returns, Runs

(* Outside of its calls a turn is nearer to its end than in them.          *)
LEMMA OutsideIs ==
  /\ Outside["idle"] = 0 /\ Outside["closing"] = 1 /\ Outside["ending"] = 2
  /\ Outside["top"] = 3 /\ Outside["waiting"] = 4 /\ Outside["asking"] = Farthest
  BY DEF Outside

LEMMA Running ==
  ASSUME CallInv, pc = "running"
  PROVE  /\ calls \in CallLists /\ Len(calls) \in Nat /\ Len(calls) <= MaxCalls /\ MaxCalls \in Nat
         /\ first \in 1 .. Len(calls) /\ last \in first - 1 .. Len(calls) /\ first \in Nat /\ last \in Nat
         /\ Serving \in Nat /\ Distance = 5 + 4 * (Len(calls) - last) + Serving
<1>1. calls \in CallLists /\ first \in 1 .. Len(calls) /\ last \in first - 1 .. Len(calls)
  BY DEF CallInv, GroupTypes
<1>2. Len(calls) \in Nat /\ Len(calls) <= MaxCalls /\ MaxCalls \in Nat
  BY <1>1, CallFacts
<1>3. Serving \in Nat
  BY OutCounted DEF Serving
<1>4. QED
  BY <1>1, <1>2, <1>3 DEF Distance

(* A call that is begun, and one that is back.                             *)
LEMMA CallCountsDown ==
  ASSUME CallInv, NEW i \in Places, RunCall(i)
  PROVE  Distance' < Distance
<1> DEFINE k == calls[i]
<1>1. /\ pc = "running" /\ pc' = pc /\ UNCHANGED <<calls, first, last>> /\ stage \in [Places -> Stages]
  BY DEF RunCall, group, CallInv, CallTypes
<1>2. CallInv'
  BY CallStepInv
<1>3. /\ Cardinality(Due(stage)) \in Nat /\ Cardinality(Out(stage)) \in Nat
      /\ Cardinality(Due(stage')) \in Nat /\ Cardinality(Out(stage')) \in Nat
      /\ IsFiniteSet(Due(stage)) /\ IsFiniteSet(Out(stage))
  BY OutCounted
<1>4. Cardinality(Due(stage')) + Cardinality(Out(stage')) < Cardinality(Due(stage)) + Cardinality(Out(stage))
  <2>1. CASE Join(i, k) \/ Start(i, k)
    <3>1. stage[i] = "due" /\ stage' = [stage EXCEPT ![i] = "waits"]
      BY <2>1 DEF Join, Start
    <3>2. i \in Due(stage) /\ Due(stage') = Due(stage) \ {i} /\ Out(stage') = Out(stage)
      BY <1>1, <3>1 DEF Due, Out
    <3>3. Cardinality(Due(stage')) = Cardinality(Due(stage)) - 1
      BY <1>3, <3>2, FS_RemoveElement
    <3>4. QED
      BY <1>3, <3>2, <3>3
  <2>2. CASE Collect(i, k) \/ GiveUp(i, k) \/ Overrun(i, k)
    <3>1. PICK as \in Back : stage[i] = "waits" /\ stage' = [stage EXCEPT ![i] = as]
      BY <2>2 DEF Collect, GiveUp, Overrun, Comes, Back
    <3>2. i \in Out(stage) /\ Out(stage') = Out(stage) \ {i} /\ Due(stage') = Due(stage)
      BY <1>1, <3>1 DEF Due, Out, Back
    <3>3. Cardinality(Out(stage')) = Cardinality(Out(stage)) - 1
      BY <1>3, <3>2, FS_RemoveElement
    <3>4. QED
      BY <1>3, <3>2, <3>3
  <2>3. QED
    BY <2>1, <2>2 DEF RunCall, CallStep
<1>5. /\ Serving' = (IF last < first THEN 0 ELSE 1) + Cardinality(Due(stage')) + Cardinality(Out(stage'))
      /\ Serving = (IF last < first THEN 0 ELSE 1) + Cardinality(Due(stage)) + Cardinality(Out(stage))
  BY <1>1 DEF Serving, Due, Out
<1>6. /\ Distance = 5 + 4 * (Len(calls) - last) + Serving
      /\ Distance' = 5 + 4 * (Len(calls) - last) + Serving'
      /\ Len(calls) \in Nat /\ last \in Nat
  BY <1>1, Running DEF Distance
<1>7. Serving' < Serving
  BY <1>3, <1>4, <1>5
<1>8. Serving \in Nat /\ Serving' \in Nat
  BY <1>3, <1>5
<1>9. QED
  BY <1>6, <1>7, <1>8

(* A group that begins has its calls to make; four for each of them were   *)
(* counted before.                                                         *)
LEMMA GroupCountsDown ==
  ASSUME CallInv, BeginGroup
  PROVE  Distance' < Distance
<1>1. /\ pc = "running" /\ pc' = pc /\ last < first /\ last' = GroupEnd
      /\ stage' = [i \in Places |-> IF i \in first .. GroupEnd THEN "due" ELSE "none"]
      /\ UNCHANGED <<calls, first>>
  BY DEF BeginGroup
<1>2. /\ calls \in CallLists /\ Len(calls) \in Nat /\ Len(calls) <= MaxCalls /\ MaxCalls \in Nat
      /\ first \in 1 .. Len(calls) /\ last \in first - 1 .. Len(calls) /\ first \in Nat /\ last \in Nat
      /\ Serving \in Nat /\ Distance = 5 + 4 * (Len(calls) - last) + Serving
  BY <1>1, Running
<1>3. GroupEnd \in first .. Len(calls)
  BY <1>2, GroupEndIn
<1>4. last = first - 1 /\ GroupEnd \in Nat /\ GroupEnd >= first
  BY <1>1, <1>2, <1>3
<1>5. Due(stage') = first .. GroupEnd /\ Out(stage') = first .. GroupEnd
  <2>1. first .. GroupEnd \subseteq Places
    BY <1>2, <1>3 DEF Places
  <2>2. QED
    BY <1>1, <2>1 DEF Due, Out
<1>6. Cardinality(first .. GroupEnd) = GroupEnd - first + 1
  <2>1. first \in Int /\ GroupEnd \in Int /\ first <= GroupEnd
    BY <1>2, <1>4
  <2>2. QED
    BY <2>1, FS_Interval
<1>7. Serving' = 1 + 2 * (GroupEnd - first + 1)
  <2>1. Serving' = (IF last' < first' THEN 0 ELSE 1) + Cardinality(Due(stage')) + Cardinality(Out(stage'))
    BY DEF Serving, Due, Out
  <2>2. ~ (last' < first')
    BY <1>1, <1>2, <1>4
  <2>3. QED
    BY <1>2, <1>4, <1>5, <1>6, <2>1, <2>2
<1>8. Distance' = 5 + 4 * (Len(calls) - GroupEnd) + Serving'
  BY <1>1 DEF Distance
<1>9. QED
  BY <1>2, <1>4, <1>7, <1>8

(* A group that is written down.                                           *)
LEMMA WriteCountsDown ==
  ASSUME CallInv, Write
  PROVE  Distance' < Distance
<1>1. /\ pc = "running" /\ pc' = pc /\ first <= last /\ first' = last + 1 /\ UNCHANGED <<calls, last>>
      /\ stage' = [i \in Places |-> "none"]
  BY DEF Write, GroupBack, Clear
<1>2. /\ Len(calls) \in Nat /\ first \in Nat /\ last \in Nat /\ last <= Len(calls)
      /\ Serving \in Nat /\ Distance = 5 + 4 * (Len(calls) - last) + Serving
  BY <1>1, Running
<1>3. Due(stage') = {} /\ Out(stage') = {}
  BY <1>1 DEF Due, Out
<1>4. Serving' = 0
  <2>1. Serving' = (IF last' < first' THEN 0 ELSE 1) + Cardinality(Due(stage')) + Cardinality(Out(stage'))
    BY DEF Serving, Due, Out
  <2>2. last' < first'
    BY <1>1, <1>2
  <2>3. QED
    BY <1>3, <2>1, <2>2, FS_EmptySet
<1>5. Serving >= 1
  <2>1. ~ (last < first)
    BY <1>1, <1>2
  <2>2. QED
    BY <2>1, OutCounted DEF Serving
<1>6. Distance' = 5 + 4 * (Len(calls) - last) + Serving'
  BY <1>1 DEF Distance
<1>7. QED
  BY <1>2, <1>4, <1>5, <1>6

LEMMA StepCountsDown ==
  ASSUME CallInv, stopped, LoopStep
  PROVE  Distance' < Distance
<1>0. MaxCalls \in Nat /\ Farthest = 6 + 4 * MaxCalls
  BY ToolCallsAssumption DEF Farthest
<1>1. CASE Leave
  BY <1>1, OutsideIs DEF Leave, Distance
<1>2. CASE Ask
  BY <1>2 DEF Ask
<1>3. CASE Fails \/ PlainAnswer \/ Says
  <2>1. pc = "asking" /\ pc' \in {"top", "waiting", "ending"}
    BY <1>3 DEF Fails, AskAgain, NudgeBlank, TooLong, Refused, Failing, PlainAnswer, Says, Cut, Leaked, Blank,
                Nudge, KeptAlive, SentBack, Final, Answered
  <2>2. Distance = Farthest /\ Distance' \in {2, 3, 4}
    BY <2>1, OutsideIs DEF Distance
  <2>3. QED
    BY <1>0, <2>2
<1>4. CASE \E ks \in CallLists : Truncated(ks)
  <2>1. pc = "asking" /\ pc' = "top"
    BY <1>4 DEF Truncated, Answered
  <2>2. Distance = Farthest /\ Distance' = 3
    BY <2>1, OutsideIs DEF Distance
  <2>3. QED
    BY <1>0, <2>2
<1>5. ASSUME NEW ks \in CallLists, Call(ks)
      PROVE  Distance' < Distance
  <2>1. pc = "asking" /\ pc' = "running" /\ calls' = ks /\ first' = 1 /\ last' = 0 /\ stage' = stage
    BY <1>5 DEF Call, callVars
  <2>2. \A i \in Places : stage[i] = "none"
    BY <2>1 DEF CallInv, GroupTypes
  <2>3. Due(stage) = {} /\ Out(stage) = {}
    BY <2>2 DEF Due, Out
  <2>4. Serving' = 0
    <3>1. Serving' = (IF last' < first' THEN 0 ELSE 1) + Cardinality(Due(stage')) + Cardinality(Out(stage'))
      BY DEF Serving, Due, Out
    <3>2. QED
      BY <2>1, <2>3, <3>1, FS_EmptySet
  <2>5. Distance = Farthest /\ Distance' = 5 + 4 * (Len(ks) - 0) + 0
    BY <2>1, <2>4, OutsideIs DEF Distance
  <2>6. Len(ks) \in Nat /\ Len(ks) <= MaxCalls
    BY CallFacts
  <2>7. QED
    BY <1>0, <2>5, <2>6
<1>6. CASE Waited
  <2>1. pc = "waiting" /\ pc' \in {"top", "ending"}
    BY <1>6 DEF Waited
  <2>2. QED
    BY <2>1, OutsideIs DEF Distance
<1>7. CASE DoomLoop \/ WriteLast
  <2>1. pc = "running" /\ pc' \in {"top", "ending"}
    BY <1>7 DEF DoomLoop, WriteLast, GroupBack
  <2>2. Distance' \in {2, 3}
    BY <2>1, OutsideIs DEF Distance
  <2>3. Distance >= 5 /\ Distance \in Nat
    BY <2>1, Running
  <2>4. QED
    BY <2>2, <2>3
<1>8. CASE BeginGroup \/ Write \/ \E i \in Places : RunCall(i)
  BY <1>8, GroupCountsDown, WriteCountsDown, CallCountsDown
<1>9. CASE HandBack \/ TurnEnds
  BY <1>9, OutsideIs DEF HandBack, TurnEnds, Distance
<1>10. QED
  BY <1>1, <1>2, <1>3, <1>4, <1>5, <1>6, <1>7, <1>8, <1>9 DEF LoopStep, Returns, Calls, Runs

(* Under Stop every step of the loop, in the middle of a group, before a   *)
(* request or in a wait, brings the turn nearer to its end, for any calls, *)
(* groups, budgets and parked works; what the person types and what tools  *)
(* do meanwhile does not take it back.                                     *)
StopCountsDown ==
  [][stopped => IF LoopStep THEN Distance' < Distance ELSE Distance' = Distance]_vars

(* CancelTurn is the brake of a loop that has no bound of its own: it      *)
(* counts the turn down.                                                   *)
THEOREM StopBringsTheEnd == Spec => StopCountsDown
<1>1. CallInv /\ StoppedInFlight /\ [Next]_vars =>
        [stopped => IF LoopStep THEN Distance' < Distance ELSE Distance' = Distance]_vars
  <2> SUFFICES ASSUME CallInv, StoppedInFlight, Next, stopped
               PROVE  IF LoopStep THEN Distance' < Distance ELSE Distance' = Distance
    OBVIOUS
  <2>1. ~ Begin /\ ~ Stop
    BY DEF Begin, Stop, StoppedInFlight
  <2>2. ASSUME Interject \/ WorkStep PROVE Distance' = Distance
    <3>1. UNCHANGED <<pc, calls, first, last, stage>>
      BY <2>2 DEF Interject, WorkStep, WorkEnds, callVars, group
    <3>2. QED
      BY <3>1 DEF Distance, Serving
  <2>3. QED
    BY <2>1, <2>2, StepCountsDown DEF Next
<1>2. Init => CallInv /\ StoppedInFlight
  BY InitCalls DEF Init, CallInit, StoppedInFlight
<1>3. CallInv /\ StoppedInFlight /\ [Next]_vars => (CallInv /\ StoppedInFlight)'
  BY CallInvStep, InFlightStep
<1>4. QED
  BY <1>1, <1>2, <1>3, PTL DEF Spec, StopCountsDown

(* The end is never farther than that.                                     *)
LEMMA NeverFarther == CallInv /\ RestTypes => Distance \in 0 .. Farthest
<1> SUFFICES ASSUME CallInv, RestTypes PROVE Distance \in 0 .. Farthest
  OBVIOUS
<1>0. MaxCalls \in Nat /\ Farthest = 6 + 4 * MaxCalls
  BY ToolCallsAssumption DEF Farthest
<1>1. CASE pc # "running"
  <2>1. Distance = Outside[pc] /\ pc \in {"idle", "top", "asking", "waiting", "ending", "closing"}
    BY <1>1 DEF Distance, RestTypes
  <2>2. Distance \in {0, 1, 2, 3, 4, Farthest}
    BY <2>1, OutsideIs
  <2>3. QED
    BY <1>0, <2>2
<1>2. CASE pc = "running"
  <2>1. /\ Len(calls) \in Nat /\ Len(calls) <= MaxCalls
        /\ first \in 1 .. Len(calls) /\ last \in first - 1 .. Len(calls) /\ first \in Nat /\ last \in Nat
        /\ Distance = 5 + 4 * (Len(calls) - last) + Serving
    BY <1>2, Running
  <2>2. Due(stage) \subseteq first .. last /\ Out(stage) \subseteq first .. last
    BY <1>2 DEF Due, Out, CallInv, GroupTypes
  <2>3. /\ IsFiniteSet(first .. last) /\ Cardinality(first .. last) \in Nat
        /\ Cardinality(first .. last) = IF first <= last THEN last - first + 1 ELSE 0
    BY <2>1, FS_Interval, FS_CardinalityType
  <2>4. /\ Cardinality(Due(stage)) <= Cardinality(first .. last)
        /\ Cardinality(Out(stage)) <= Cardinality(first .. last)
    BY <2>2, <2>3, FS_Subset
  <2>5. Cardinality(Due(stage)) \in Nat /\ Cardinality(Out(stage)) \in Nat
    BY OutCounted
  <2>6. Serving \in Nat /\ Serving <= 1 + 2 * Cardinality(first .. last)
    BY <2>3, <2>4, <2>5 DEF Serving
  <2>7. Cardinality(first .. last) <= last
    BY <2>1, <2>3
  <2>8. Distance <= 6 + 4 * Len(calls)
    BY <2>1, <2>3, <2>6, <2>7
  <2>9. QED
    BY <1>0, <2>1, <2>6, <2>8
<1>3. QED
  BY <1>1, <1>2

(* From Stop to the end of the turn there are 6 + 4 * MaxCalls steps of    *)
(* the loop at most, whatever budgets are left and however long the        *)
(* history is.                                                             *)
THEOREM StopIsNear == Spec => [](Distance \in 0 .. Farthest)
<1>1. Init => CallInv /\ WordInv /\ HistInv /\ RestTypes
  BY InitRest, InitCalls, InitWords, InitHist
<1>2. CallInv /\ WordInv /\ HistInv /\ RestTypes /\ [Next]_vars => (CallInv /\ WordInv /\ HistInv /\ RestTypes)'
  BY CallInvStep, WordStep, HistStep, RestStep
<1>3. QED
  BY <1>1, <1>2, NeverFarther, PTL DEF Spec

-----------------------------------------------------------------------------
(* A stopped turn is never stuck.                                          *)

(* The works something may still refer to.                                 *)
Known == {w \in Works : work[w] # "free"}

Room == Cardinality(Known) <= 2 * Cardinality(Keys) + MaxCalls

LEMMA ImageCounted ==
  ASSUME NEW f, NEW S, IsFiniteSet(S)
  PROVE  IsFiniteSet({f[x] : x \in S}) /\ Cardinality({f[x] : x \in S}) <= Cardinality(S)
<1> DEFINE R == {f[x] : x \in S}
           g == [x \in S |-> f[x]]
<1>1. g \in Surjection(S, R)
  BY DEF Surjection
<1>2. QED
  BY <1>1, FS_Surjection

LEMMA UnionCounted ==
  ASSUME NEW A, NEW B, IsFiniteSet(A), IsFiniteSet(B)
  PROVE  /\ IsFiniteSet(A \cup B) /\ Cardinality(A \cup B) \in Nat
         /\ Cardinality(A \cup B) <= Cardinality(A) + Cardinality(B)
<1>1. /\ IsFiniteSet(A \cup B) /\ IsFiniteSet(A \cap B)
      /\ Cardinality(A \cup B) = Cardinality(A) + Cardinality(B) - Cardinality(A \cap B)
  BY FS_Union, FS_Intersection
<1>2. /\ Cardinality(A) \in Nat /\ Cardinality(B) \in Nat /\ Cardinality(A \cap B) \in Nat
      /\ Cardinality(A \cup B) \in Nat
  BY <1>1, FS_CardinalityType
<1>3. QED
  BY <1>1, <1>2

(* Works that are kept are those the register, an answer or a call names.  *)
LEMMA KeptIsNamed ==
  ASSUME NEW wk, NEW pd, NEW hd, NEW td, work' = Kept(wk, pd, hd, td)
  PROVE  Room'
<1> DEFINE P == {pd[k] : k \in Keys}
           T == {td[k] : k \in Keys}
           H == {hd[i] : i \in Places}
<1>1. IsFiniteSet(Keys) /\ Cardinality(Keys) \in Nat /\ IsFiniteSet(Places) /\ Cardinality(Places) = MaxCalls
      /\ MaxCalls \in Nat
  BY ToolCallsAssumption, PlacesFinite, FS_CardinalityType
<1>2. IsFiniteSet(P) /\ Cardinality(P) <= Cardinality(Keys)
  BY <1>1, ImageCounted
<1>3. IsFiniteSet(T) /\ Cardinality(T) <= Cardinality(Keys)
  BY <1>1, ImageCounted
<1>4. IsFiniteSet(H) /\ Cardinality(H) <= MaxCalls
  BY <1>1, ImageCounted
<1>5. Known' \subseteq (P \cup T) \cup H
  <2>1. ASSUME NEW w \in Works, Kept(wk, pd, hd, td)[w] # "free"
        PROVE  w \in (P \cup T) \cup H
    <3>1. (\E k \in Keys : w \in {pd[k], td[k]}) \/ \E i \in Places : hd[i] = w
      BY <2>1 DEF Kept
    <3>2. QED
      BY <3>1
  <2>2. QED
    BY <2>1 DEF Known
<1> HIDE DEF P, T, H
<1>6. /\ IsFiniteSet(P \cup T) /\ Cardinality(P) \in Nat /\ Cardinality(T) \in Nat /\ Cardinality(H) \in Nat
      /\ Cardinality(P \cup T) \in Nat /\ Cardinality(P \cup T) <= Cardinality(P) + Cardinality(T)
  BY <1>2, <1>3, <1>4, UnionCounted, FS_CardinalityType
<1>7. /\ IsFiniteSet((P \cup T) \cup H) /\ Cardinality((P \cup T) \cup H) \in Nat
      /\ Cardinality((P \cup T) \cup H) <= Cardinality(P \cup T) + Cardinality(H)
  BY <1>4, <1>6, UnionCounted
<1>8. Cardinality(Known') <= Cardinality((P \cup T) \cup H) /\ Cardinality(Known') \in Nat
  BY <1>5, <1>7, FS_Subset, FS_CardinalityType
<1>9. Cardinality(Known') <= 2 * Cardinality(Keys) + MaxCalls
  BY <1>1, <1>2, <1>3, <1>4, <1>6, <1>7, <1>8
<1>10. QED
  BY <1>9 DEF Room

LEMMA RoomStep == CallInv /\ Room /\ [Next]_vars => Room'
<1> SUFFICES ASSUME CallInv, Room, [Next]_vars PROVE Room'
  OBVIOUS
<1>0. /\ Cardinality(Keys) \in Nat /\ MaxCalls \in Nat
      /\ IsFiniteSet(Known) /\ Cardinality(Known) \in Nat
  <2>1. IsFiniteSet(Known)
    BY ToolCallsAssumption, FS_Subset DEF Known
  <2>2. QED
    BY <2>1, ToolCallsAssumption, FS_CardinalityType
<1>1. ASSUME Known' \subseteq Known PROVE Room'
  <2>1. Cardinality(Known') <= Cardinality(Known) /\ Cardinality(Known') \in Nat
    BY <1>0, <1>1, FS_Subset, FS_CardinalityType
  <2>2. Cardinality(Known') <= 2 * Cardinality(Keys) + MaxCalls
    BY <1>0, <2>1 DEF Room
  <2>3. QED
    BY <2>2 DEF Room
<1>2. ASSUME work' = work PROVE Room'
  BY <1>1, <1>2 DEF Known
<1>3. CASE UNCHANGED vars
  BY <1>2, <1>3 DEF vars, callVars
<1>4. CASE Stop \/ TurnEnds
  BY <1>1, <1>4 DEF Stop, TurnEnds, Cancel, Known
<1>5. CASE WorkStep
  <2>1. PICK w \in Works : WorkEnds(w)
    BY <1>5 DEF WorkStep
  <2>2. work \in [Works -> {"free", "runs", "doomed"} \cup Ended] /\ work[w] # "free"
    BY <2>1 DEF CallInv, CallTypes, WorkEnds
  <2>3. \A v \in Works : v # w => work'[v] = work[v]
    BY <2>1, <2>2 DEF WorkEnds
  <2>4. QED
    BY <1>1, <2>2, <2>3 DEF Known
<1>6. CASE Begin \/ Leave \/ Ask \/ Waited \/ HandBack \/ Fails \/ PlainAnswer \/ Interject
  BY <1>2, <1>6 DEF Begin, Leave, Ask, Waited, HandBack, Fails, AskAgain, NudgeBlank, TooLong, Refused, Failing,
                    PlainAnswer, Interject, callVars
<1>7. CASE Says \/ Calls
  BY <1>2, <1>7 DEF Says, Cut, Leaked, Blank, Nudge, KeptAlive, SentBack, Final, Answered, Calls, Call,
                    Truncated, callVars
<1>8. CASE BeginGroup \/ DoomLoop \/ Write \/ WriteLast
  BY <1>2, <1>8 DEF BeginGroup, DoomLoop, Write, WriteLast, Clear, callVars
<1>9. ASSUME NEW i \in Places, RunCall(i) PROVE Room'
  <2>1. CASE Join(i, calls[i])
    BY <1>2, <2>1 DEF Join
  <2>2. CASE Start(i, calls[i])
    BY <2>2, KeptIsNamed DEF Start
  <2>3. CASE Collect(i, calls[i]) \/ GiveUp(i, calls[i]) \/ Overrun(i, calls[i])
    BY <2>3, KeptIsNamed DEF Collect, GiveUp, Overrun, Comes
  <2>4. QED
    BY <1>9, <2>1, <2>2, <2>3 DEF RunCall, CallStep
<1>10. QED
  BY <1>3, <1>4, <1>5, <1>6, <1>7, <1>8, <1>9 DEF Next, LoopStep, Returns, Runs

LEMMA InitRoom == Init => Room
<1> SUFFICES ASSUME Init PROVE Room
  OBVIOUS
<1>1. Known = {}
  BY DEF Init, CallInit, Known
<1>2. Cardinality(Keys) \in Nat /\ MaxCalls \in Nat
  BY ToolCallsAssumption, FS_CardinalityType
<1>3. QED
  BY <1>1, <1>2, FS_EmptySet DEF Room

(* So a call that is due always finds work that is free.                   *)
LEMMA ThereIsRoom ==
  ASSUME Room
  PROVE  \E w \in Works : work[w] = "free"
<1> SUFFICES ASSUME \A w \in Works : work[w] # "free" PROVE FALSE
  OBVIOUS
<1>1. Known = Works
  BY DEF Known
<1>2. /\ Cardinality(Keys) \in Nat /\ MaxCalls \in Nat /\ Cardinality(Works) \in Nat
      /\ Cardinality(Works) > 2 * Cardinality(Keys) + MaxCalls
  BY ToolCallsAssumption, FS_CardinalityType
<1>3. QED
  BY <1>1, <1>2 DEF Room

(* Every call of a group was begun with it.                                *)
Begun == \A i \in Places : i \in first .. last => stage[i] # "none"

LEMMA BegunStep == CallInv /\ Begun /\ [Next]_vars => Begun'
<1> SUFFICES ASSUME CallInv, Begun, [Next]_vars PROVE Begun'
  OBVIOUS
<1>1. ASSUME UNCHANGED <<first, last, stage>> PROVE Begun'
  BY <1>1 DEF Begun
<1>2. CASE UNCHANGED vars \/ Stop \/ TurnEnds \/ Interject \/ WorkStep
  BY <1>1, <1>2 DEF vars, callVars, group, Stop, TurnEnds, Interject, WorkStep, WorkEnds
<1>3. CASE Begin \/ Leave \/ Ask \/ Waited \/ HandBack \/ Fails \/ PlainAnswer
  BY <1>1, <1>3 DEF Begin, Leave, Ask, Waited, HandBack, Fails, AskAgain, NudgeBlank, TooLong, Refused, Failing,
                    PlainAnswer, callVars, group
<1>4. CASE Says \/ \E ks \in CallLists : Truncated(ks)
  BY <1>1, <1>4 DEF Says, Cut, Leaked, Blank, Nudge, KeptAlive, SentBack, Final, Answered, Truncated, callVars,
                    group
<1>5. CASE (\E ks \in CallLists : Call(ks)) \/ DoomLoop \/ WriteLast
  <2>1. first' = 1 /\ last' = 0
    BY <1>5 DEF Call, DoomLoop, WriteLast, NoCalls
  <2>2. QED
    BY <2>1 DEF Begun
<1>6. CASE Write
  <2>1. pc = "running" /\ first' = last + 1 /\ last' = last
    BY <1>6 DEF Write, GroupBack
  <2>2. last \in Nat
    BY <2>1, Running
  <2>3. QED
    BY <2>1, <2>2 DEF Begun
<1>7. CASE BeginGroup
  BY <1>7 DEF BeginGroup, Begun
<1>8. ASSUME NEW i \in Places, RunCall(i) PROVE Begun'
  <2>1. PICK as \in {"waits"} \cup Back : stage' = [stage EXCEPT ![i] = as]
    BY <1>8 DEF RunCall, CallStep, Join, Start, Collect, GiveUp, Overrun, Comes, Back
  <2>2. UNCHANGED <<first, last>> /\ stage \in [Places -> Stages] /\ as # "none"
    BY <1>8 DEF RunCall, group, CallInv, CallTypes, Back
  <2>3. QED
    BY <2>1, <2>2 DEF Begun
<1>9. QED
  BY <1>2, <1>3, <1>4, <1>5, <1>6, <1>7, <1>8 DEF Next, LoopStep, Returns, Calls, Runs

(* Where a step of the loop is possible whatever the provider, the tools   *)
(* and the person do.                                                      *)
Goes ==
  \/ pc \in {"top", "asking", "waiting", "ending", "closing"}
  \/ /\ pc = "running"
     /\ \/ last < first /\ first <= Len(calls)
        \/ GroupBack /\ last <= Len(calls)
        \/ \E i \in first .. last :
             \/ stage[i] = "waits"
             \/ stage[i] = "due" /\ (InFlight(calls[i]) \/ \E w \in Works : work[w] = "free")

(* A stopped turn has a next step: a request fails, a wait ends, a group   *)
(* begins or is written, a call that waits gives up, and one that is to be *)
(* begun has work to wait for or room for its own.                         *)
THEOREM StoppedIsNeverStuck == Spec => [](stopped => Goes)
<1>1. CallInv /\ StoppedInFlight /\ RestTypes /\ Room /\ Begun => (stopped => Goes)
  <2> SUFFICES ASSUME CallInv, StoppedInFlight, RestTypes, Room, Begun, stopped PROVE Goes
    OBVIOUS
  <2>1. pc \in {"top", "asking", "waiting", "running", "ending", "closing"}
    BY DEF StoppedInFlight, RestTypes
  <2>2. ASSUME pc = "running", first <= last, ~ GroupBack
        PROVE  \E i \in first .. last : stage[i] \in {"due", "waits"}
    <3>1. PICK i \in first .. last : stage[i] \notin Back
      BY <2>2 DEF GroupBack
    <3>2. i \in Places
      <4>1. /\ Len(calls) \in Nat /\ first \in Nat /\ last \in Nat /\ 1 <= first /\ last <= Len(calls)
            /\ Len(calls) <= MaxCalls /\ MaxCalls \in Nat
        BY <2>2, Running
      <4>2. QED
        BY <4>1 DEF Places
    <3>3. stage[i] \in {"due", "waits"} \cup Back \cup {"none"}
      BY <3>2 DEF CallInv, CallTypes, Stages, Back
    <3>4. stage[i] # "none"
      BY <3>2 DEF Begun
    <3>5. QED
      BY <3>1, <3>3, <3>4
  <2>3. CASE pc = "running"
    <3>1. /\ Len(calls) \in Nat /\ first \in Nat /\ last \in Nat /\ first <= Len(calls) /\ last <= Len(calls)
      BY <2>3, Running
    <3>2. CASE last < first
      BY <2>3, <3>1, <3>2 DEF Goes
    <3>3. CASE ~ (last < first)
      <4>1. first <= last
        BY <3>1, <3>3
      <4>2. QED
        BY <2>2, <2>3, <3>1, <4>1, ThereIsRoom DEF Goes
    <3>4. QED
      BY <3>2, <3>3
  <2>4. QED
    BY <2>1, <2>3 DEF Goes
<1>2. Init => CallInv /\ WordInv /\ HistInv /\ RestTypes /\ Room /\ Begun /\ StoppedInFlight
  BY InitCalls, InitWords, InitHist, InitRest, InitRoom DEF Init, CallInit, StoppedInFlight, Begun
<1>3. CallInv /\ WordInv /\ HistInv /\ RestTypes /\ Room /\ Begun /\ StoppedInFlight /\ [Next]_vars
        => (CallInv /\ WordInv /\ HistInv /\ RestTypes /\ Room /\ Begun /\ StoppedInFlight)'
  BY CallInvStep, WordStep, HistStep, RestStep, RoomStep, BegunStep, InFlightStep
<1>4. QED
  BY <1>1, <1>2, <1>3, PTL DEF Spec
=============================================================================
