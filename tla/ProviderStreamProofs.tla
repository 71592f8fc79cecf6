----------------------- MODULE ProviderStreamProofs -----------------------
(***************************************************************************)
(* What is proved of the answer's way through the screen, for any number   *)
(* of requests on the wire, any length of a body and any room in a queue:  *)
(* types, that a body that is closed early is withdrawn, and that the body *)
(* read is the body sent.                                                  *)
(***************************************************************************)
EXTENDS ProviderStream, SequenceTheorems, TLAPS

-----------------------------------------------------------------------------
(* Sequences of frames.                                                    *)

LEMMA Appended ==
  ASSUME NEW S, NEW q \in Seq(S), NEW f \in S
  PROVE  /\ Append(q, f) \in Seq(S)
         /\ Len(Append(q, f)) = Len(q) + 1
         /\ \A i \in 1 .. Len(q) : Append(q, f)[i] = q[i]
         /\ Append(q, f)[Len(q) + 1] = f
         /\ Len(q) \in Nat
OBVIOUS

LEMMA HeadTaken ==
  ASSUME NEW S, NEW q \in Seq(S), q # <<>>
  PROVE  /\ Tail(q) \in Seq(S)
         /\ Len(q) \in Nat \ {0}
         /\ Len(Tail(q)) = Len(q) - 1
         /\ \A i \in 1 .. Len(q) - 1 : Tail(q)[i] = q[i + 1]
         /\ Head(q) = q[1]
         /\ Head(q) \in S
OBVIOUS

LEMMA InAFrame ==
  ASSUME NEW f \in Frames
  PROVE  /\ f.of \in Streams
         /\ f.kind = "chunk" => f.n \in 1 .. Chunks
         /\ f.kind = "close" => f.how \in {"clean", "error"}
BY DEF Frames

LEMMA FramesMade ==
  ASSUME NEW s \in Streams
  PROVE  /\ \A kind \in {"open", "cancel", "head", "refusal"} : Frame(kind, s) \in Frames
         /\ \A n \in 1 .. Chunks : [kind |-> "chunk", of |-> s, n |-> n] \in Frames
         /\ \A how \in {"clean", "error"} : [kind |-> "close", of |-> s, how |-> how] \in Frames
BY DEF Frame, Frames

LEMMA Sent ==
  ASSUME NEW q \in Seq(Frames), NEW f \in Frames
  PROVE  Send(q, f) \in Seq(Frames)
BY Appended DEF Send

-----------------------------------------------------------------------------
(* Types.                                                                  *)

LEMMA StepTyped == TypeOK /\ [Next]_vars => TypeOK'
<1> SUFFICES ASSUME TypeOK, [Next]_vars PROVE TypeOK'
  OBVIOUS
<1> USE DEF TypeOK, Set, engine, screen
<1>1. CASE UNCHANGED vars
  BY <1>1 DEF vars
<1>2. ASSUME NEW s \in Streams, RoundTrip(s) PROVE TypeOK'
  <2>1. toScreen' \in Seq(Frames)
    BY <1>2, FramesMade, Sent DEF RoundTrip
  <2>2. QED
    BY <1>2, <2>1 DEF RoundTrip
<1>3. ASSUME NEW s \in Streams, GiveUp(s) PROVE TypeOK'
  BY <1>3 DEF GiveUp, Fail, Ends
<1>4. ASSUME NEW s \in Streams, Abandon(s) PROVE TypeOK'
  <2>1. toScreen' \in Seq(Frames)
    BY <1>4, FramesMade, Sent DEF Abandon
  <2>2. QED
    BY <1>4, <2>1 DEF Abandon
<1>5. ASSUME NEW s \in Streams, ReadChunk(s) PROVE TypeOK'
  <2>1. hold[s] \in 1 .. Chunks
    BY <1>5, StreamAssumption DEF ReadChunk
  <2>2. Append(got[s], hold[s]) \in Seq(1 .. Chunks)
    BY <2>1, Appended
  <2>3. hold' \in [Streams -> 0 .. Chunks]
    BY <1>5, StreamAssumption DEF ReadChunk
  <2>4. QED
    BY <1>5, <2>2, <2>3 DEF ReadChunk
<1>6. ASSUME NEW s \in Streams, ReadEnd(s) \/ ClosePipe(s) PROVE TypeOK'
  BY <1>6 DEF ReadEnd, ClosePipe
<1>7. ASSUME NEW s \in Streams, NEW kind, Reads(kind, s)
      PROVE  toEngine' \in Seq(Frames) /\ Head(toEngine) \in Frames
  BY <1>7, HeadTaken DEF Reads
<1>8. ASSUME NEW s \in Streams, ReadHead(s) PROVE TypeOK'
  BY <1>7, <1>8 DEF ReadHead, Reads
<1>9. ASSUME NEW s \in Streams, ReadRefusal(s) PROVE TypeOK'
  <2>1. CASE trip[s] = "opening"
    <3>1. trip' = [trip EXCEPT ![s] = "failed"] /\ pipeEnd' = [pipeEnd EXCEPT ![s] = "error"]
          /\ registered' = registered \ {s}
      BY <1>9, <2>1 DEF ReadRefusal, Fail
    <3>2. pipeEnd' \in [Streams -> Ends]
      BY <3>1 DEF Ends
    <3>3. QED
      BY <1>7, <1>9, <3>1, <3>2 DEF ReadRefusal, Reads
  <2>2. CASE trip[s] # "opening"
    BY <1>7, <1>9, <2>2 DEF ReadRefusal, Reads
  <2>3. QED
    BY <2>1, <2>2
<1>10. ASSUME NEW s \in Streams, TakeChunk(s) PROVE TypeOK'
  <2>1. Head(toEngine).n \in 1 .. Chunks
    BY <1>7, <1>10, InAFrame DEF TakeChunk, Reads
  <2>2. loop' \in [of : Streams, n : 1 .. Chunks] \cup {NoChunk}
    BY <2>1, <1>10 DEF TakeChunk
  <2>3. QED
    BY <1>7, <1>10, <2>2 DEF TakeChunk, Reads
<1>11. ASSUME NEW s \in Streams, ReadClose(s) PROVE TypeOK'
  <2>1. Head(toEngine).how \in Ends
    BY <1>7, <1>11, InAFrame DEF ReadClose, Reads, Ends
  <2>2. QED
    BY <1>7, <1>11, <2>1 DEF ReadClose, Reads
<1>12. CASE PutChunk
  <2>1. loop.of \in Streams /\ loop.n \in 1 .. Chunks
    BY <1>12 DEF PutChunk
  <2>2. Append(queue[loop.of], loop.n) \in Seq(1 .. Chunks)
    BY <2>1, Appended
  <2>3. QED
    BY <1>12, <2>1, <2>2 DEF PutChunk
<1>13. ASSUME NEW s \in Streams, PumpTakes(s) PROVE TypeOK'
  <2>1. Head(queue[s]) \in 1 .. Chunks /\ Tail(queue[s]) \in Seq(1 .. Chunks)
    BY <1>13, HeadTaken DEF PumpTakes
  <2>2. Head(queue[s]) \in 0 .. Chunks
    BY <2>1, StreamAssumption
  <2>3. QED
    BY <1>13, <2>1, <2>2 DEF PumpTakes
<1>14. ASSUME NEW s \in Streams, PumpStops(s) PROVE TypeOK'
  BY <1>14, StreamAssumption DEF PumpStops
<1>15. ASSUME NEW s \in Streams, PumpSeesDone(s) PROVE TypeOK'
  BY <1>15 DEF PumpSeesDone
<1>23. ASSUME NEW s \in Streams, PumpCloses(s) PROVE TypeOK'
  BY <1>23 DEF PumpCloses
<1>16. ASSUME NEW s \in Streams, OpenArrives(s) \/ CancelArrives(s) PROVE TypeOK'
  <2>1. toScreen # <<>> /\ toScreen' = Tail(toScreen)
    BY <1>16 DEF OpenArrives, CancelArrives, Arrives
  <2>2. toScreen' \in Seq(Frames)
    BY <2>1, HeadTaken
  <2>3. QED
    BY <1>16, <2>2 DEF OpenArrives, CancelArrives, Arrives
<1>17. ASSUME NEW s \in Streams, ToInflight(s) \/ HeadComes(s) \/ RequestFails(s) PROVE TypeOK'
  BY <1>17 DEF ToInflight, HeadComes, RequestFails
<1>18. ASSUME NEW s \in Streams, AnswerOpen(s) PROVE TypeOK'
  <2>1. Frame(owed[s], s) \in Frames
    BY <1>18, FramesMade DEF AnswerOpen
  <2>2. QED
    BY <1>18, <2>1, Sent DEF AnswerOpen
<1>19. ASSUME NEW s \in Streams, ForwardChunk(s) PROVE TypeOK'
  <2>1. sent[s] + 1 \in 1 .. Chunks /\ sent[s] + 1 \in 0 .. Chunks
    BY <1>19, StreamAssumption DEF ForwardChunk
  <2>2. toEngine' \in Seq(Frames)
    BY <1>19, <2>1, FramesMade, Appended DEF ForwardChunk
  <2>3. QED
    BY <1>19, <2>1, <2>2 DEF ForwardChunk
<1>20. ASSUME NEW s \in Streams, NEW how \in {"clean", "error"}, EndStream(s, how) PROVE TypeOK'
  <2>1. toEngine' \in Seq(Frames)
    BY <1>20, FramesMade, Sent DEF EndStream
  <2>2. QED
    BY <1>20, <2>1 DEF EndStream
<1>21. CASE WireEnds
  BY <1>21 DEF WireEnds
<1>22. QED
  BY <1>1, <1>2, <1>3, <1>4, <1>5, <1>6, <1>8, <1>9, <1>10, <1>11, <1>12, <1>13, <1>14, <1>15, <1>16,
     <1>17, <1>18, <1>19, <1>20, <1>21, <1>23
  DEF Next, Reader, ReadLoop, Pump, ScreenLoop, Forwarder, Withdrawal

(***************************************************************************)
(* What the engine and the screen keep of a request stays well formed, and *)
(* so do the frames between them.                                          *)
(***************************************************************************)
THEOREM StreamTyping == Spec => []TypeOK
<1>1. Init => TypeOK
  <2> SUFFICES ASSUME Init PROVE TypeOK
    OBVIOUS
  <2>1. 0 \in 0 .. Chunks /\ FALSE \in BOOLEAN
    BY StreamAssumption
  <2>2. hold \in [Streams -> 0 .. Chunks] /\ sent \in [Streams -> 0 .. Chunks]
    BY <2>1 DEF Init
  <2>3. queue \in [Streams -> Seq(1 .. Chunks)] /\ got \in [Streams -> Seq(1 .. Chunks)]
    BY DEF Init
  <2>4. toScreen \in Seq(Frames) /\ toEngine \in Seq(Frames)
    BY DEF Init
  <2>5. QED
    BY <2>1, <2>2, <2>3, <2>4 DEF Init, TypeOK, Ends
<1>2. QED
  BY <1>1, StepTyped, PTL DEF Spec

-----------------------------------------------------------------------------
(* What a frame under way says of the other side. A request is asked for   *)
(* once; an answer follows the head, a close the end; what has not begun   *)
(* has left no trace.                                                      *)

Untouched(s) ==
  /\ asked[s] = "none" /\ owed[s] = "none" /\ sent[s] = 0
  /\ pump[s] = "none" /\ hold[s] = 0 /\ queue[s] = <<>> /\ got[s] = <<>>
  /\ done[s] = "none" /\ pipeEnd[s] = "none" /\ s \notin registered

HeadCame(s) == asked[s] \in {"streaming", "finished"}

Opened(s) ==
  /\ trip[s] = "idle" => Untouched(s)
  /\ asked[s] = "none" => owed[s] = "none" /\ sent[s] = 0
  /\ owed[s] = "head" => HeadCame(s)
  /\ trip[s] \in {"body", "ended", "closing", "closed"} => HeadCame(s)

OpensOnce ==
  /\ \A i \in 1 .. Len(toScreen) : trip[toScreen[i].of] # "idle"
  /\ \A i \in 1 .. Len(toScreen) : toScreen[i].kind = "open" => asked[toScreen[i].of] = "none"
  /\ \A i, j \in 1 .. Len(toScreen) :
       toScreen[i].kind = "open" /\ toScreen[j].kind = "open" /\ toScreen[i].of = toScreen[j].of => i = j

Answers ==
  /\ \A i \in 1 .. Len(toEngine) : asked[toEngine[i].of] # "none"
  /\ \A i \in 1 .. Len(toEngine) : toEngine[i].kind = "head" => HeadCame(toEngine[i].of)
  /\ \A i \in 1 .. Len(toEngine) : toEngine[i].kind = "close" => asked[toEngine[i].of] = "finished"
  /\ loop # NoChunk => trip[loop.of] # "idle"

Handshake == (\A s \in Streams : Opened(s)) /\ OpensOnce /\ Answers

(* No step takes a request back.                                           *)
Forward(s) ==
  /\ trip[s] # "idle" => trip'[s] # "idle"
  /\ asked[s] # "none" => asked'[s] # "none"
  /\ HeadCame(s) => HeadCame(s)'
  /\ asked[s] = "finished" => asked'[s] = "finished"

LEMMA StepForward ==
  ASSUME TypeOK, OpensOnce, [Next]_vars
  PROVE  \A s \in Streams : Forward(s)
<1> USE DEF Forward, HeadCame, TypeOK, Set
<1>1. CASE UNCHANGED <<trip, asked>>
  BY <1>1
<1>2. ASSUME NEW s \in Streams,
             RoundTrip(s) \/ GiveUp(s) \/ Abandon(s) \/ ClosePipe(s) \/ ReadEnd(s) \/ ReadHead(s) \/ ReadRefusal(s)
      PROVE  \A t \in Streams : Forward(t)
  BY <1>2 DEF RoundTrip, GiveUp, Fail, Abandon, ClosePipe, ReadEnd, ReadHead, ReadRefusal, Reads, screen
<1>3. ASSUME NEW s \in Streams, OpenArrives(s) PROVE \A t \in Streams : Forward(t)
  <2>1. toScreen[1] = Frame("open", s) /\ 1 \in 1 .. Len(toScreen)
    BY <1>3, HeadTaken DEF OpenArrives, Arrives
  <2>3. asked[s] = "none"
    BY <2>1 DEF Frame, OpensOnce
  <2>2. QED
    BY <1>3, <2>3 DEF OpenArrives, Arrives, engine
<1>4. ASSUME NEW s \in Streams, ToInflight(s) \/ HeadComes(s) \/ RequestFails(s) PROVE \A t \in Streams : Forward(t)
  BY <1>4 DEF ToInflight, HeadComes, RequestFails, engine
<1>5. ASSUME NEW s \in Streams, NEW how, EndStream(s, how) PROVE \A t \in Streams : Forward(t)
  BY <1>5 DEF EndStream, engine
<1>6. ASSUME NEW s \in Streams,
             ReadChunk(s) \/ TakeChunk(s) \/ ReadClose(s) \/ Pump(s) \/ CancelArrives(s) \/ AnswerOpen(s)
               \/ ForwardChunk(s)
      PROVE  UNCHANGED <<trip, asked>>
  BY <1>6 DEF ReadChunk, TakeChunk, ReadClose, Reads, Pump, PumpTakes, PumpStops, PumpSeesDone, PumpCloses,
              CancelArrives, Arrives, AnswerOpen, ForwardChunk, engine, screen
<1>7. CASE PutChunk \/ WireEnds
  BY <1>7 DEF PutChunk, WireEnds, engine, screen
<1>8. CASE UNCHANGED vars
  BY <1>8 DEF vars, engine, screen
<1>9. QED
  BY <1>1, <1>2, <1>3, <1>4, <1>5, <1>6, <1>7, <1>8
  DEF Next, Reader, ReadLoop, ScreenLoop, Forwarder, Withdrawal

(* The frames of a wire after a step: those there were, and the step's.    *)
NewToEngine(f) ==
  \E s \in Streams :
    \/ AnswerOpen(s) /\ f = Frame(owed[s], s)
    \/ ForwardChunk(s) /\ f = [kind |-> "chunk", of |-> s, n |-> sent[s] + 1]
    \/ \E how \in {"clean", "error"} : EndStream(s, how) /\ f = [kind |-> "close", of |-> s, how |-> how]

LEMMA FramesToEngine ==
  ASSUME TypeOK, [Next]_vars, NEW i \in 1 .. Len(toEngine')
  PROVE  (\E j \in 1 .. Len(toEngine) : toEngine'[i] = toEngine[j]) \/ NewToEngine(toEngine'[i])
<1> DEFINE Goal == (\E j \in 1 .. Len(toEngine) : toEngine'[i] = toEngine[j]) \/ NewToEngine(toEngine'[i])
<1>1. CASE toEngine' = toEngine
  BY <1>1
<1>2. CASE toEngine # <<>> /\ toEngine' = Tail(toEngine)
  <2>1. i + 1 \in 1 .. Len(toEngine) /\ toEngine'[i] = toEngine[i + 1]
    BY <1>2, HeadTaken DEF TypeOK
  <2>2. QED
    BY <2>1
<1>3. ASSUME NEW f \in Frames, NewToEngine(f), toEngine' = Append(toEngine, f) PROVE Goal
  <2>1. i \in 1 .. Len(toEngine) \/ i = Len(toEngine) + 1
    BY <1>3, Appended DEF TypeOK
  <2>2. QED
    BY <1>3, <2>1, Appended DEF TypeOK
<1>4. ASSUME NEW s \in Streams, ReadHead(s) \/ ReadRefusal(s) \/ TakeChunk(s) \/ ReadClose(s) PROVE Goal
  BY <1>2, <1>4 DEF ReadHead, ReadRefusal, TakeChunk, ReadClose, Reads
<1>5. ASSUME NEW s \in Streams, AnswerOpen(s) PROVE Goal
  <2>1. Frame(owed[s], s) \in Frames
    BY <1>5, FramesMade DEF AnswerOpen, TypeOK
  <2>2. QED
    BY <1>1, <1>3, <1>5, <2>1 DEF AnswerOpen, Send, NewToEngine
<1>6. ASSUME NEW s \in Streams, ForwardChunk(s) PROVE Goal
  <2>1. sent[s] + 1 \in 1 .. Chunks
    BY <1>6, StreamAssumption DEF ForwardChunk, TypeOK
  <2>2. [kind |-> "chunk", of |-> s, n |-> sent[s] + 1] \in Frames
    BY <2>1, FramesMade
  <2>3. QED
    BY <1>3, <1>6, <2>2 DEF ForwardChunk, NewToEngine
<1>7. ASSUME NEW s \in Streams, NEW how \in {"clean", "error"}, EndStream(s, how) PROVE Goal
  BY <1>1, <1>3, <1>7, FramesMade DEF EndStream, Send, NewToEngine
<1>8. ASSUME NEW s \in Streams,
             RoundTrip(s) \/ GiveUp(s) \/ Abandon(s) \/ Reader(s) \/ Pump(s) \/ OpenArrives(s) \/ CancelArrives(s)
               \/ ToInflight(s) \/ HeadComes(s) \/ RequestFails(s)
      PROVE  toEngine' = toEngine
  BY <1>8 DEF RoundTrip, GiveUp, Abandon, Reader, ReadChunk, ReadEnd, ClosePipe, Pump, PumpTakes, PumpStops,
              PumpSeesDone, PumpCloses, OpenArrives, CancelArrives, Arrives, ToInflight, HeadComes, RequestFails
<1>9. CASE PutChunk \/ UNCHANGED vars
  BY <1>1, <1>9 DEF PutChunk, vars
<1>10. CASE WireEnds
  BY <1>10 DEF WireEnds
<1>11. QED
  BY <1>1, <1>4, <1>5, <1>6, <1>7, <1>8, <1>9, <1>10 DEF Next, ReadLoop, ScreenLoop, Forwarder, Withdrawal

LEMMA StepAnswers ==
  ASSUME TypeOK, Handshake, [Next]_vars
  PROVE  Answers'
<1>1. \A s \in Streams : Forward(s)
  BY StepForward DEF Handshake
<1>2. \A i \in 1 .. Len(toEngine) : toEngine[i] \in Frames /\ toEngine[i].of \in Streams
  BY InAFrame DEF TypeOK
<1> DEFINE Fits(f) == /\ asked'[f.of] # "none"
                      /\ f.kind = "head" => asked'[f.of] \in {"streaming", "finished"}
                      /\ f.kind = "close" => asked'[f.of] = "finished"
<1>3. ASSUME NEW i \in 1 .. Len(toEngine') PROVE Fits(toEngine'[i])
  <2>1. ASSUME NEW j \in 1 .. Len(toEngine), toEngine'[i] = toEngine[j] PROVE Fits(toEngine'[i])
    BY <1>1, <1>2, <2>1 DEF Handshake, Answers, Forward, HeadCame
  <2>2. ASSUME NEW s \in Streams, AnswerOpen(s), toEngine'[i] = Frame(owed[s], s) PROVE Fits(toEngine'[i])
    <3>1. owed[s] # "none" /\ owed[s] \in {"head", "refusal"} /\ Opened(s)
      BY <2>2 DEF AnswerOpen, Handshake, TypeOK
    <3>2. asked[s] # "none" /\ (owed[s] = "head" => HeadCame(s))
      BY <3>1 DEF Opened
    <3>3. toEngine'[i].of = s /\ toEngine'[i].kind = owed[s]
      BY <2>2 DEF Frame
    <3>4. QED
      BY <1>1, <3>1, <3>2, <3>3 DEF Forward, HeadCame
  <2>3. ASSUME NEW s \in Streams, ForwardChunk(s), toEngine'[i] = [kind |-> "chunk", of |-> s, n |-> sent[s] + 1]
        PROVE  Fits(toEngine'[i])
    BY <1>1, <2>3 DEF ForwardChunk, Forward
  <2>4. ASSUME NEW s \in Streams, NEW how \in {"clean", "error"}, EndStream(s, how),
               toEngine'[i] = [kind |-> "close", of |-> s, how |-> how]
        PROVE  Fits(toEngine'[i])
    BY <2>4 DEF EndStream, TypeOK, Set
  <2>5. QED
    BY <2>1, <2>2, <2>3, <2>4, FramesToEngine DEF NewToEngine
<1>4. loop' # NoChunk => trip'[loop'.of] # "idle"
  <2>1. CASE loop' = loop
    BY <1>1, <2>1 DEF Handshake, Answers, Forward, TypeOK
  <2>2. CASE loop' = NoChunk
    BY <2>2
  <2>3. ASSUME NEW s \in Streams, TakeChunk(s) PROVE loop' # NoChunk => trip'[loop'.of] # "idle"
    <3>1. loop' # NoChunk => s \in registered /\ loop'.of = s
      BY <2>3 DEF TakeChunk
    <3>2. s \in registered => trip[s] # "idle"
      BY DEF Handshake, Opened, Untouched
    <3>3. QED
      BY <1>1, <3>1, <3>2 DEF Forward
  <2>4. loop' = loop \/ loop' = NoChunk \/ \E s \in Streams : TakeChunk(s)
    BY DEF Next, RoundTrip, GiveUp, Abandon, Reader, ReadChunk, ReadEnd, ClosePipe, ReadLoop, ReadHead, ReadRefusal,
           ReadClose, PutChunk, Pump, PumpTakes, PumpStops, PumpSeesDone, PumpCloses, ScreenLoop, OpenArrives,
           CancelArrives, Arrives, Forwarder, ToInflight, HeadComes, RequestFails, AnswerOpen, Withdrawal,
           ForwardChunk, EndStream, WireEnds, engine, vars
  <2>5. QED
    BY <2>1, <2>2, <2>3, <2>4
<1>5. QED
  BY <1>3, <1>4 DEF Answers, HeadCame

(* The frames on the way to the screen.                                    *)
LEMMA StepOpens ==
  ASSUME TypeOK, Handshake, [Next]_vars
  PROVE  OpensOnce'
<1>1. \A s \in Streams : Forward(s)
  BY StepForward DEF Handshake
<1>2. \A i \in 1 .. Len(toScreen) : toScreen[i] \in Frames /\ toScreen[i].of \in Streams
  BY InAFrame DEF TypeOK
<1> DEFINE Kept == \A s \in Streams : asked[s] = "none" => asked'[s] = "none"
<1>3. CASE toScreen' = toScreen /\ Kept
  BY <1>1, <1>2, <1>3 DEF Handshake, OpensOnce, Forward
<1>4. ASSUME NEW s \in Streams, RoundTrip(s) PROVE OpensOnce'
  <2>1. Frame("open", s) \in Frames /\ Frame("open", s).of = s
    BY FramesMade DEF Frame
  <2>2. trip[s] = "idle" /\ trip'[s] # "idle" /\ asked[s] = "none" /\ asked' = asked
    BY <1>4 DEF RoundTrip, Handshake, Opened, Untouched, TypeOK, Set, screen
  <2>3. CASE down
    BY <1>1, <1>2, <1>4, <2>2, <2>3 DEF RoundTrip, Send, Handshake, OpensOnce, Forward
  <2>4. CASE ~down
    <3>1. toScreen' = Append(toScreen, Frame("open", s))
      BY <1>4, <2>4 DEF RoundTrip, Send
    <3>2. /\ Len(toScreen') = Len(toScreen) + 1 /\ Len(toScreen) \in Nat
          /\ \A i \in 1 .. Len(toScreen) : toScreen'[i] = toScreen[i]
          /\ toScreen'[Len(toScreen) + 1] = Frame("open", s)
      BY <2>1, <3>1, Appended DEF TypeOK
    <3>3. \A i \in 1 .. Len(toScreen) : toScreen[i].of # s
      BY <2>2 DEF Handshake, OpensOnce
    <3>4. QED
      BY <1>1, <1>2, <2>1, <2>2, <3>2, <3>3 DEF Handshake, OpensOnce, Forward
  <2>5. QED
    BY <2>3, <2>4
<1>5. ASSUME NEW s \in Streams, Abandon(s) PROVE OpensOnce'
  <2>1. Frame("cancel", s) \in Frames /\ Frame("cancel", s).of = s /\ Frame("cancel", s).kind # "open"
    BY FramesMade DEF Frame
  <2>2. trip'[s] # "idle" /\ asked' = asked
    BY <1>5 DEF Abandon, TypeOK, Set, screen
  <2>3. CASE toScreen' = toScreen
    BY <1>3, <2>2, <2>3
  <2>4. CASE toScreen' = Append(toScreen, Frame("cancel", s))
    <3>2. /\ Len(toScreen') = Len(toScreen) + 1 /\ Len(toScreen) \in Nat
          /\ \A i \in 1 .. Len(toScreen) : toScreen'[i] = toScreen[i]
          /\ toScreen'[Len(toScreen) + 1] = Frame("cancel", s)
      BY <2>1, <2>4, Appended DEF TypeOK
    <3>4. QED
      BY <1>1, <1>2, <2>1, <2>2, <3>2 DEF Handshake, OpensOnce, Forward
  <2>5. QED
    BY <1>5, <2>3, <2>4 DEF Abandon, Send
<1>6. ASSUME NEW s \in Streams, OpenArrives(s) \/ CancelArrives(s) PROVE OpensOnce'
  <2>1. /\ Len(toScreen) \in Nat \ {0} /\ Len(toScreen') = Len(toScreen) - 1
        /\ \A i \in 1 .. Len(toScreen) - 1 : toScreen'[i] = toScreen[i + 1]
        /\ toScreen[1] = Head(toScreen)
    <3>1. toScreen # <<>> /\ toScreen' = Tail(toScreen) /\ toScreen \in Seq(Frames)
      BY <1>6 DEF OpenArrives, CancelArrives, Arrives, TypeOK
    <3>2. QED
      BY <3>1, HeadTaken
  <2>2. ASSUME NEW i \in 1 .. Len(toScreen'), toScreen'[i].kind = "open" PROVE asked'[toScreen'[i].of] = "none"
    <3>1. i + 1 \in 1 .. Len(toScreen) /\ toScreen[i + 1].kind = "open" /\ i + 1 # 1 /\ 1 \in 1 .. Len(toScreen)
      BY <2>1, <2>2
    <3>2. CASE CancelArrives(s)
      BY <2>1, <3>1, <3>2 DEF CancelArrives, Handshake, OpensOnce
    <3>3. CASE OpenArrives(s)
      <4>1. toScreen[1].kind = "open" /\ toScreen[1].of = s
        BY <2>1, <3>3 DEF OpenArrives, Arrives, Frame
      <4>2. toScreen[i + 1].of # s
        BY <3>1, <4>1 DEF Handshake, OpensOnce
      <4>3. QED
        BY SMTT(30), <1>2, <2>1, <3>1, <3>3, <4>2 DEF OpenArrives, Handshake, OpensOnce, Set, TypeOK
    <3>4. QED
      BY <1>6, <3>2, <3>3
  <2>3. \A i, j \in 1 .. Len(toScreen') :
          toScreen'[i].kind = "open" /\ toScreen'[j].kind = "open" /\ toScreen'[i].of = toScreen'[j].of => i = j
    <3> SUFFICES ASSUME NEW i \in 1 .. Len(toScreen'), NEW j \in 1 .. Len(toScreen'),
                        toScreen'[i].kind = "open", toScreen'[j].kind = "open", toScreen'[i].of = toScreen'[j].of
                 PROVE  i = j
      OBVIOUS
    <3>1. i + 1 \in 1 .. Len(toScreen) /\ j + 1 \in 1 .. Len(toScreen)
      BY <2>1
    <3>2. toScreen[i + 1].kind = "open" /\ toScreen[j + 1].kind = "open" /\ toScreen[i + 1].of = toScreen[j + 1].of
      BY <2>1, <3>1
    <3>3. i + 1 = j + 1
      BY <3>1, <3>2 DEF Handshake, OpensOnce
    <3>4. QED
      BY <3>3
  <2>4. \A i \in 1 .. Len(toScreen') : trip'[toScreen'[i].of] # "idle"
    BY <1>1, <1>2, <2>1 DEF Handshake, OpensOnce, Forward
  <2>5. QED
    BY <2>2, <2>3, <2>4 DEF OpensOnce
<1>7. ASSUME NEW s \in Streams,
             GiveUp(s) \/ Reader(s) \/ ReadHead(s) \/ ReadRefusal(s) \/ TakeChunk(s) \/ ReadClose(s) \/ Pump(s)
               \/ AnswerOpen(s) \/ ForwardChunk(s)
      PROVE  toScreen' = toScreen /\ asked' = asked
  BY <1>7 DEF GiveUp, Reader, ReadChunk, ReadEnd, ClosePipe, ReadHead, ReadRefusal, TakeChunk, ReadClose, Reads, Pump,
              PumpTakes, PumpStops, PumpSeesDone, PumpCloses, AnswerOpen, ForwardChunk, screen
<1>8. ASSUME NEW s \in Streams, ToInflight(s) \/ HeadComes(s) \/ RequestFails(s) PROVE toScreen' = toScreen /\ Kept
  BY <1>8 DEF ToInflight, HeadComes, RequestFails, TypeOK, Set
<1>9. ASSUME NEW s \in Streams, NEW how, EndStream(s, how) PROVE toScreen' = toScreen /\ Kept
  BY <1>9 DEF EndStream, TypeOK, Set
<1>10. CASE WireEnds
  BY <1>10 DEF WireEnds, OpensOnce
<1>11. CASE PutChunk \/ UNCHANGED vars
  BY <1>3, <1>11 DEF PutChunk, vars, screen
<1>12. QED
  BY <1>3, <1>4, <1>5, <1>6, <1>7, <1>8, <1>9, <1>10, <1>11 DEF Next, ReadLoop, ScreenLoop, Forwarder, Withdrawal

LEMMA StepOpened ==
  ASSUME TypeOK, Handshake, [Next]_vars
  PROVE  \A s \in Streams : Opened(s)'
<1> SUFFICES ASSUME NEW t \in Streams PROVE Opened(t)'
  OBVIOUS
<1>1. Forward(t) /\ Opened(t)
  BY StepForward DEF Handshake
<1>2. ASSUME NEW s \in Streams, NEW kind, Reads(kind, s)
      PROVE  kind = "head" => HeadCame(s)
  <2>1. toEngine # <<>> /\ toEngine \in Seq(Frames) /\ Head(toEngine).kind = kind /\ Head(toEngine).of = s
    BY <1>2 DEF Reads, TypeOK
  <2>2. toEngine[1].kind = kind /\ toEngine[1].of = s /\ 1 \in 1 .. Len(toEngine)
    BY <2>1, HeadTaken
  <2>3. QED
    BY <2>2 DEF Handshake, Answers
<1> USE DEF Opened, HeadCame, Untouched, Set, TypeOK
<1>3. CASE UNCHANGED vars
  BY <1>1, <1>3 DEF vars, engine, screen
<1>4. ASSUME NEW s \in Streams, RoundTrip(s) PROVE Opened(t)'
  BY <1>1, <1>4 DEF RoundTrip, screen
<1>5. ASSUME NEW s \in Streams, GiveUp(s) PROVE Opened(t)'
  BY <1>1, <1>5 DEF GiveUp, Fail, screen
<1>6. ASSUME NEW s \in Streams, Abandon(s) \/ ClosePipe(s) \/ ReadEnd(s) PROVE Opened(t)'
  BY <1>1, <1>6 DEF Abandon, ClosePipe, ReadEnd, screen
<1>7. ASSUME NEW s \in Streams, ReadChunk(s) PROVE Opened(t)'
  BY <1>1, <1>7 DEF ReadChunk, screen
<1>8. ASSUME NEW s \in Streams, ReadHead(s) PROVE Opened(t)'
  BY <1>1, <1>2, <1>8 DEF ReadHead, Reads, screen
<1>9. ASSUME NEW s \in Streams, ReadRefusal(s) PROVE Opened(t)'
  <2>1. CASE trip[s] = "opening"
    BY <1>1, <1>9, <2>1 DEF ReadRefusal, Reads, Fail, screen
  <2>2. CASE trip[s] # "opening"
    BY <1>1, <1>9, <2>2 DEF ReadRefusal, Reads, screen
  <2>3. QED
    BY <2>1, <2>2
<1>10. ASSUME NEW s \in Streams, TakeChunk(s) PROVE Opened(t)'
  BY <1>1, <1>10 DEF TakeChunk, Reads, screen
<1>11. ASSUME NEW s \in Streams, ReadClose(s) PROVE Opened(t)'
  BY <1>1, <1>11 DEF ReadClose, Reads, screen
<1>12. CASE PutChunk
  <2>1. loop.of \in Streams /\ trip[loop.of] # "idle"
    BY <1>12 DEF PutChunk, Handshake, Answers
  <2>2. QED
    BY <1>1, <1>12, <2>1 DEF PutChunk, screen
<1>13. ASSUME NEW s \in Streams, PumpTakes(s) PROVE Opened(t)'
  BY <1>1, <1>13 DEF PumpTakes, screen
<1>14. ASSUME NEW s \in Streams, PumpStops(s) PROVE Opened(t)'
  BY <1>1, <1>14 DEF PumpStops, screen
<1>15. ASSUME NEW s \in Streams, PumpSeesDone(s) PROVE Opened(t)'
  BY <1>1, <1>15 DEF PumpSeesDone, screen
<1>16. ASSUME NEW s \in Streams, PumpCloses(s) PROVE Opened(t)'
  BY <1>1, <1>16 DEF PumpCloses, screen
<1>17. ASSUME NEW s \in Streams, OpenArrives(s) PROVE Opened(t)'
  <2>1. toScreen[1] = Frame("open", s) /\ 1 \in 1 .. Len(toScreen)
    BY <1>17, HeadTaken DEF OpenArrives, Arrives
  <2>2. trip[s] # "idle" /\ asked[s] = "none"
    BY <2>1 DEF Frame, Handshake, OpensOnce
  <2>3. QED
    BY <1>1, <1>17, <2>2 DEF OpenArrives, Arrives, engine
<1>18. ASSUME NEW s \in Streams, CancelArrives(s) PROVE Opened(t)'
  BY <1>1, <1>18 DEF CancelArrives, Arrives, engine
<1>19. ASSUME NEW s \in Streams, ToInflight(s) \/ HeadComes(s) \/ RequestFails(s) PROVE Opened(t)'
  BY <1>1, <1>19 DEF ToInflight, HeadComes, RequestFails, engine
<1>20. ASSUME NEW s \in Streams, AnswerOpen(s) PROVE Opened(t)'
  BY <1>1, <1>20 DEF AnswerOpen, engine
<1>21. ASSUME NEW s \in Streams, ForwardChunk(s) PROVE Opened(t)'
  BY <1>1, <1>21 DEF ForwardChunk, engine
<1>22. ASSUME NEW s \in Streams, NEW how, EndStream(s, how) PROVE Opened(t)'
  BY <1>1, <1>22 DEF EndStream, engine
<1>23. CASE WireEnds
  BY <1>1, <1>23 DEF WireEnds, engine, screen
<1>24. QED
  BY <1>3, <1>4, <1>5, <1>6, <1>7, <1>8, <1>9, <1>10, <1>11, <1>12, <1>13, <1>14, <1>15, <1>16, <1>17, <1>18, <1>19,
     <1>20, <1>21, <1>22, <1>23
  DEF Next, Reader, ReadLoop, Pump, ScreenLoop, Forwarder, Withdrawal

LEMMA HandshakeHolds == Spec => []Handshake
<1>1. Init => Handshake
  <2> SUFFICES ASSUME Init PROVE Handshake
    OBVIOUS
  <2>1. \A s \in Streams : Opened(s)
    BY DEF Init, Opened, Untouched, HeadCame
  <2>2. OpensOnce /\ Answers
    BY DEF Init, OpensOnce, Answers
  <2>3. QED
    BY <2>1, <2>2 DEF Handshake
<1>2. TypeOK /\ Handshake /\ [Next]_vars => Handshake'
  BY StepOpened, StepOpens, StepAnswers DEF Handshake
<1>3. QED
  BY <1>1, <1>2, StreamTyping, PTL DEF Spec

-----------------------------------------------------------------------------
(* The end of a body. A stream that is no longer registered while its      *)
(* request is under way has been closed by the screen, which is through    *)
(* with it.                                                                *)
Forgotten(s) ==
  trip[s] \in {"opening", "body", "ended"} /\ s \notin registered => asked[s] = "finished"

IsCancel(f, s) == f.kind = "cancel" /\ f.of = s

Withdrawn(s) ==
  trip[s] \in {"closing", "closed"} /\ ~down =>
    asked[s] = "finished" \/ s \in cancelled \/ \E i \in 1 .. Len(toScreen) : IsCancel(toScreen[i], s)

LEMMA StepForgotten ==
  ASSUME TypeOK, Handshake, \A s \in Streams : Forgotten(s), [Next]_vars
  PROVE  \A s \in Streams : Forgotten(s)'
<1> SUFFICES ASSUME NEW t \in Streams PROVE Forgotten(t)'
  OBVIOUS
<1>1. Forward(t) /\ Forgotten(t)
  BY StepForward DEF Handshake
<1> USE DEF Forgotten, Forward, Set, TypeOK
<1>2. CASE UNCHANGED <<trip, registered>>
  BY <1>1, <1>2
<1>3. ASSUME NEW s \in Streams, RoundTrip(s) PROVE Forgotten(t)'
  BY <1>1, <1>3 DEF RoundTrip
<1>4. ASSUME NEW s \in Streams, GiveUp(s) PROVE Forgotten(t)'
  BY <1>1, <1>4 DEF GiveUp, Fail
<1>5. ASSUME NEW s \in Streams, Abandon(s) \/ ClosePipe(s) \/ ReadEnd(s) PROVE Forgotten(t)'
  BY <1>1, <1>5 DEF Abandon, ClosePipe, ReadEnd
<1>6. ASSUME NEW s \in Streams, ReadHead(s) PROVE Forgotten(t)'
  BY <1>1, <1>6 DEF ReadHead
<1>7. ASSUME NEW s \in Streams, ReadRefusal(s) PROVE Forgotten(t)'
  BY <1>1, <1>7 DEF ReadRefusal, Fail
<1>8. ASSUME NEW s \in Streams, ReadClose(s) PROVE Forgotten(t)'
  <2>1. asked[s] = "finished"
    BY <1>8, HeadTaken DEF ReadClose, Reads, Handshake, Answers
  <2>2. QED
    BY <1>1, <1>8, <2>1 DEF ReadClose, Reads, screen
<1>9. ASSUME NEW s \in Streams, TakeChunk(s) \/ ReadChunk(s) PROVE UNCHANGED <<trip, registered>>
  BY <1>9 DEF TakeChunk, ReadChunk
<1>10. ASSUME NEW s \in Streams, Pump(s) PROVE UNCHANGED <<trip, registered>>
  BY <1>10 DEF Pump, PumpTakes, PumpStops, PumpSeesDone, PumpCloses
<1>11. CASE PutChunk \/ WireEnds \/ UNCHANGED vars
  BY <1>2, <1>11 DEF PutChunk, WireEnds, vars, engine
<1>12. ASSUME NEW s \in Streams,
              OpenArrives(s) \/ CancelArrives(s) \/ ToInflight(s) \/ HeadComes(s) \/ RequestFails(s) \/ AnswerOpen(s)
                \/ ForwardChunk(s) \/ \E how : EndStream(s, how)
       PROVE  UNCHANGED <<trip, registered>>
  BY <1>12 DEF OpenArrives, CancelArrives, Arrives, ToInflight, HeadComes, RequestFails, AnswerOpen, ForwardChunk,
               EndStream, engine
<1>13. QED
  BY <1>2, <1>3, <1>4, <1>5, <1>6, <1>7, <1>8, <1>9, <1>10, <1>11, <1>12
  DEF Next, Reader, ReadLoop, ScreenLoop, Forwarder, Withdrawal

LEMMA StepWithdrawn ==
  ASSUME TypeOK, Handshake, \A s \in Streams : Forgotten(s) /\ Withdrawn(s), [Next]_vars
  PROVE  \A s \in Streams : Withdrawn(s)'
<1> SUFFICES ASSUME NEW t \in Streams PROVE Withdrawn(t)'
  OBVIOUS
<1>1. Forward(t) /\ Forgotten(t) /\ Withdrawn(t) /\ Opened(t)
  BY StepForward DEF Handshake
<1> DEFINE OnItsWay == \E i \in 1 .. Len(toScreen) : IsCancel(toScreen[i], t)
(* A step that leaves the frames to the screen where they are.             *)
<1>2. ASSUME trip'[t] = trip[t] \/ trip[t] = "closing" \/ trip'[t] \notin {"closing", "closed"},
             cancelled' = cancelled, toScreen' = toScreen, down' = down
      PROVE  Withdrawn(t)'
  BY <1>1, <1>2 DEF Withdrawn, Forward
(* A frame is added: those there were stay.                                *)
<1>3. ASSUME NEW f \in Frames, toScreen' = Append(toScreen, f)
      PROVE  /\ OnItsWay => OnItsWay'
             /\ IsCancel(f, t) => OnItsWay'
  <2>1. /\ Len(toScreen') = Len(toScreen) + 1 /\ Len(toScreen) \in Nat
        /\ \A i \in 1 .. Len(toScreen) : toScreen'[i] = toScreen[i]
        /\ toScreen'[Len(toScreen) + 1] = f
    BY <1>3, Appended DEF TypeOK
  <2>2. QED
    BY <2>1
<1>4. ASSUME NEW s \in Streams, RoundTrip(s) PROVE Withdrawn(t)'
  <2>1. trip'[t] \in {"closing", "closed"} => trip[t] \in {"closing", "closed"}
    BY <1>4 DEF RoundTrip, TypeOK, Set
  <2>2. down' = down /\ cancelled' = cancelled
    BY <1>4 DEF RoundTrip, screen
  <2>3. ~down => (OnItsWay => OnItsWay')
    BY <1>3, <1>4, FramesMade DEF RoundTrip, Send
  <2>4. QED
    BY <1>1, <2>1, <2>2, <2>3 DEF Withdrawn, Forward
<1>5. ASSUME NEW s \in Streams, Abandon(s) PROVE Withdrawn(t)'
  <2>1. down' = down /\ cancelled' = cancelled
    BY <1>5 DEF Abandon, screen
  <2>2. Frame("cancel", s) \in Frames /\ (s = t => IsCancel(Frame("cancel", s), t))
    BY FramesMade DEF Frame, IsCancel
  <2>3. CASE s # t
    <3>1. trip'[t] = trip[t]
      BY <1>5, <2>3 DEF Abandon, TypeOK, Set
    <3>2. ~down => (OnItsWay => OnItsWay')
      BY <1>3, <1>5, <2>2 DEF Abandon, Send
    <3>3. QED
      BY <1>1, <2>1, <3>1, <3>2 DEF Withdrawn, Forward
  <2>4. CASE s = t
    <3>1. CASE t \in registered
      BY <1>3, <1>5, <2>1, <2>2, <2>4, <3>1 DEF Abandon, Send, Withdrawn
    <3>2. CASE t \notin registered
      BY <1>1, <1>5, <2>4, <3>2 DEF Abandon, Forgotten, Forward, Withdrawn
    <3>3. QED
      BY <3>1, <3>2
  <2>5. QED
    BY <2>3, <2>4
(* A frame is taken: it was this cancel, or that stays.                    *)
<1>6. ASSUME NEW s \in Streams, OpenArrives(s) \/ CancelArrives(s) PROVE Withdrawn(t)'
  <2>1. toScreen # <<>> /\ toScreen' = Tail(toScreen) /\ toScreen \in Seq(Frames)
    BY <1>6 DEF OpenArrives, CancelArrives, Arrives, TypeOK
  <2>2. /\ Len(toScreen) \in Nat \ {0} /\ Len(toScreen') = Len(toScreen) - 1
        /\ \A i \in 1 .. Len(toScreen) - 1 : toScreen'[i] = toScreen[i + 1]
        /\ toScreen[1] = Head(toScreen)
    BY <2>1, HeadTaken
  <2>3. OnItsWay => OnItsWay' \/ IsCancel(toScreen[1], t)
    <3>1. ASSUME NEW i \in 1 .. Len(toScreen), IsCancel(toScreen[i], t), i # 1 PROVE OnItsWay'
      <4>1. i - 1 \in 1 .. Len(toScreen') /\ toScreen'[i - 1] = toScreen[i]
        BY <2>2, <3>1
      <4>2. QED
        BY <3>1, <4>1
    <3>2. QED
      BY <3>1
  <2>4. trip' = trip /\ down' = down /\ cancelled \subseteq cancelled'
    BY <1>6 DEF OpenArrives, CancelArrives, Arrives, engine
  <2>5. ASSUME IsCancel(toScreen[1], t), trip[t] \in {"closing", "closed"}
        PROVE  asked'[t] = "finished" \/ t \in cancelled'
    <3>1. CancelArrives(s) /\ s = t
      BY <1>6, <2>2, <2>5 DEF OpenArrives, CancelArrives, Arrives, Frame, IsCancel
    <3>2. HeadCame(t)
      BY <1>1, <2>5 DEF Opened
    <3>3. QED
      BY <3>1, <3>2 DEF CancelArrives, HeadCame
  <2>6. QED
    BY <1>1, <2>3, <2>4, <2>5 DEF Withdrawn, Forward
<1>7. ASSUME NEW s \in Streams, GiveUp(s) \/ Reader(s) \/ ReadHead(s) \/ ReadRefusal(s)
      PROVE  Withdrawn(t)'
  <2>1. cancelled' = cancelled /\ toScreen' = toScreen /\ down' = down
    BY <1>7 DEF GiveUp, Reader, ReadChunk, ReadEnd, ClosePipe, ReadHead, ReadRefusal, Reads, screen
  <2>2. trip'[t] = trip[t] \/ trip[t] = "closing" \/ trip'[t] \notin {"closing", "closed"}
    BY <1>7 DEF GiveUp, Fail, Reader, ReadChunk, ReadEnd, ClosePipe, ReadHead, ReadRefusal, Set, TypeOK
  <2>3. QED
    BY <1>2, <2>1, <2>2
<1>8. ASSUME NEW s \in Streams, TakeChunk(s) \/ ReadClose(s) \/ Pump(s)
      PROVE  Withdrawn(t)'
  BY <1>2, <1>8 DEF TakeChunk, ReadClose, Reads, Pump, PumpTakes, PumpStops, PumpSeesDone, PumpCloses, screen
<1>9. ASSUME NEW s \in Streams,
             ToInflight(s) \/ HeadComes(s) \/ RequestFails(s) \/ AnswerOpen(s) \/ ForwardChunk(s)
               \/ \E how : EndStream(s, how)
      PROVE  Withdrawn(t)'
  BY <1>2, <1>9 DEF ToInflight, HeadComes, RequestFails, AnswerOpen, ForwardChunk, EndStream, engine
<1>10. CASE PutChunk \/ UNCHANGED vars
  BY <1>2, <1>10 DEF PutChunk, vars, engine, screen
<1>11. CASE WireEnds
  BY <1>11 DEF WireEnds, Withdrawn
<1>12. QED
  BY <1>4, <1>5, <1>6, <1>7, <1>8, <1>9, <1>10, <1>11 DEF Next, ReadLoop, ScreenLoop, Forwarder, Withdrawal

(***************************************************************************)
(* Whoever closes a body before its end reaches the screen: the request    *)
(* there is over, or its context is cancelled, or the word is under way.   *)
(***************************************************************************)
THEOREM ClosedIsWithdrawn == Spec => []ClosedBodyIsWithdrawn
<1> DEFINE Inv == \A s \in Streams : Forgotten(s) /\ Withdrawn(s)
<1>1. Init => Inv
  BY DEF Init, Forgotten, Withdrawn
<1>2. TypeOK /\ Handshake /\ Inv /\ [Next]_vars => Inv'
  BY StepForgotten, StepWithdrawn
<1>3. TypeOK /\ Inv => ClosedBodyIsWithdrawn
  <2> SUFFICES ASSUME TypeOK, Inv, NEW s \in Streams, trip[s] \in {"closing", "closed"}, ~down
               PROVE  asked[s] = "finished" \/ s \in cancelled \/ Frame("cancel", s) \in Range(toScreen)
    BY DEF ClosedBodyIsWithdrawn
  <2>1. ASSUME NEW i \in 1 .. Len(toScreen), IsCancel(toScreen[i], s) PROVE Frame("cancel", s) \in Range(toScreen)
    <3>1. toScreen[i] \in Frames /\ toScreen[i].kind = "cancel" /\ toScreen[i].of = s /\ i \in DOMAIN toScreen
      BY <2>1 DEF IsCancel, TypeOK
    <3>2. toScreen[i] = Frame("cancel", s)
      BY <3>1 DEF Frames, Frame
    <3>3. QED
      BY <3>1, <3>2 DEF Range
  <2>2. QED
    BY <2>1 DEF Withdrawn
<1>4. QED
  BY <1>1, <1>2, <1>3, StreamTyping, HandshakeHolds, PTL DEF Spec

-----------------------------------------------------------------------------
(* The body. A chunk goes from the wire to the read loop's hand, the       *)
(* stream's queue, the pump's hand and the reader. How far it has come is  *)
(* counted from the reader: each place holds the numbers that follow.      *)
Held(s) == IF hold[s] # 0 THEN Len(got[s]) + 1 ELSE Len(got[s])
Queued(s) == Held(s) + Len(queue[s])
InLoop(s) == loop # NoChunk /\ loop.of = s
Taken(s) == IF InLoop(s) THEN Queued(s) + 1 ELSE Queued(s)

(* A pump that returned has left what it held and what was queued.         *)
Received(s) ==
  /\ got[s] = [i \in 1 .. Len(got[s]) |-> i]
  /\ hold[s] # 0 => hold[s] = Len(got[s]) + 1
  /\ pump[s] # "returned" =>
       /\ \A i \in 1 .. Len(queue[s]) : queue[s][i] = Held(s) + i
       /\ InLoop(s) => loop.n = Queued(s) + 1

(* The chunks of s among the frames q are those from k + 1 to n, in order. *)
IsChunk(f, s) == f.kind = "chunk" /\ f.of = s
IsClose(f, s) == f.kind = "close" /\ f.of = s

Ahead(q, s, k, n) ==
  /\ \A i \in 1 .. Len(q) : IsChunk(q[i], s) => k < q[i].n /\ q[i].n <= n
  /\ \A i, j \in 1 .. Len(q) : IsChunk(q[i], s) /\ IsChunk(q[j], s) /\ i < j => q[i].n < q[j].n
  /\ \A m \in k + 1 .. n : \E i \in 1 .. Len(q) : IsChunk(q[i], s) /\ q[i].n = m

OnTheWire(s) ==
  s \in registered /\ pump[s] # "returned" =>
    /\ Taken(s) <= sent[s]
    /\ ~down => Ahead(toEngine, s, Taken(s), sent[s])

ClosedBehind(s) ==
  \A i \in 1 .. Len(toEngine) : IsClose(toEngine[i], s) =>
    /\ toEngine[i].how = "clean" => sent[s] = Chunks
    /\ \A j \in 1 .. Len(toEngine) : IsChunk(toEngine[j], s) => j < i

(* A body that was closed clean had been put in its queue to the end.      *)
Over(s) ==
  /\ done[s] = "clean" => s \notin registered
  /\ done[s] = "clean" /\ pump[s] # "returned" => Queued(s) = Chunks /\ ~InLoop(s)
  /\ pipeEnd[s] = "clean" => Len(got[s]) = Chunks

Body(s) == Received(s) /\ OnTheWire(s) /\ ClosedBehind(s) /\ Over(s)

LEMMA Counts ==
  ASSUME TypeOK, NEW s \in Streams
  PROVE  /\ Len(got[s]) \in Nat /\ Len(queue[s]) \in Nat /\ Held(s) \in Nat /\ Queued(s) \in Nat /\ Taken(s) \in Nat
         /\ sent[s] \in Nat /\ hold[s] \in Nat
<1>1. got[s] \in Seq(1 .. Chunks) /\ queue[s] \in Seq(1 .. Chunks) /\ sent[s] \in 0 .. Chunks /\ hold[s] \in 0 .. Chunks
  BY DEF TypeOK
<1>2. Len(got[s]) \in Nat /\ Len(queue[s]) \in Nat
  BY <1>1, LenProperties
<1>3. sent[s] \in Nat /\ hold[s] \in Nat
  BY <1>1, StreamAssumption
<1>4. Held(s) \in Nat
  BY <1>2 DEF Held
<1>5. Queued(s) \in Nat
  BY <1>2, <1>4 DEF Queued
<1>6. Taken(s) \in Nat
  BY <1>5 DEF Taken
<1>7. QED
  BY <1>2, <1>3, <1>4, <1>5, <1>6

(* What a frame more or less at the ends of the wire does to Ahead.        *)
LEMMA ChunkAdded ==
  ASSUME NEW q \in Seq(Frames), NEW s \in Streams, NEW k \in Nat, NEW n \in Nat, k <= n, Ahead(q, s, k, n),
         NEW f \in Frames, IsChunk(f, s), f.n = n + 1
  PROVE  Ahead(Append(q, f), s, k, n + 1)
<1> DEFINE r == Append(q, f)
<1>1. Len(r) = Len(q) + 1 /\ (\A i \in 1 .. Len(q) : r[i] = q[i]) /\ r[Len(q) + 1] = f /\ Len(q) \in Nat
  BY Appended
<1> HIDE DEF r
<1>2. \A i \in 1 .. Len(q) : IsChunk(q[i], s) => k < q[i].n /\ q[i].n <= n
  BY DEF Ahead
<1>6. \A i \in 1 .. Len(q) : IsChunk(q[i], s) => q[i].n \in Nat
  <2> SUFFICES ASSUME NEW i \in 1 .. Len(q), IsChunk(q[i], s) PROVE q[i].n \in Nat
    OBVIOUS
  <2>1. q[i] \in Frames
    OBVIOUS
  <2>2. q[i].n \in 1 .. Chunks
    BY <2>1, InAFrame DEF IsChunk
  <2>3. QED
    BY <2>2, StreamAssumption
<1>3. \A i \in 1 .. Len(r) : IsChunk(r[i], s) => k < r[i].n /\ r[i].n <= n + 1
  BY <1>1, <1>2, <1>6
<1>4. \A i, j \in 1 .. Len(r) : IsChunk(r[i], s) /\ IsChunk(r[j], s) /\ i < j => r[i].n < r[j].n
  <2> SUFFICES ASSUME NEW i \in 1 .. Len(r), NEW j \in 1 .. Len(r), IsChunk(r[i], s), IsChunk(r[j], s), i < j
               PROVE  r[i].n < r[j].n
    OBVIOUS
  <2>1. i \in 1 .. Len(q) /\ r[i] = q[i]
    BY <1>1
  <2>2. CASE j \in 1 .. Len(q)
    BY <1>1, <2>1, <2>2 DEF Ahead
  <2>3. CASE j = Len(q) + 1
    BY <1>1, <1>2, <1>6, <2>1, <2>3
  <2>4. QED
    BY <1>1, <2>2, <2>3
<1>5. \A m \in k + 1 .. n + 1 : \E i \in 1 .. Len(r) : IsChunk(r[i], s) /\ r[i].n = m
  <2> SUFFICES ASSUME NEW m \in k + 1 .. n + 1 PROVE \E i \in 1 .. Len(r) : IsChunk(r[i], s) /\ r[i].n = m
    OBVIOUS
  <2>1. CASE m = n + 1
    <3>1. Len(q) + 1 \in 1 .. Len(r)
      BY <1>1
    <3>2. QED
      BY <1>1, <2>1, <3>1
  <2>2. CASE m \in k + 1 .. n
    <3>1. PICK i \in 1 .. Len(q) : IsChunk(q[i], s) /\ q[i].n = m
      BY <2>2 DEF Ahead
    <3>2. i \in 1 .. Len(r) /\ r[i] = q[i]
      BY <1>1
    <3>3. QED
      BY <3>1, <3>2
  <2>3. QED
    BY <2>1, <2>2
<1>7. QED
  BY <1>3, <1>4, <1>5 DEF Ahead, r

LEMMA OtherAdded ==
  ASSUME NEW q \in Seq(Frames), NEW s \in Streams, NEW k \in Nat, NEW n \in Nat, Ahead(q, s, k, n),
         NEW f \in Frames, ~IsChunk(f, s)
  PROVE  Ahead(Append(q, f), s, k, n)
<1> DEFINE r == Append(q, f)
<1>1. Len(r) = Len(q) + 1 /\ (\A i \in 1 .. Len(q) : r[i] = q[i]) /\ r[Len(q) + 1] = f /\ Len(q) \in Nat
  BY Appended
<1> HIDE DEF r
<1>2. \A i \in 1 .. Len(r) : IsChunk(r[i], s) => i \in 1 .. Len(q) /\ r[i] = q[i]
  BY <1>1
<1>3. \A i \in 1 .. Len(q) : i \in 1 .. Len(r) /\ r[i] = q[i]
  BY <1>1
<1>4. QED
  BY <1>2, <1>3 DEF Ahead, r

LEMMA OtherTaken ==
  ASSUME NEW q \in Seq(Frames), NEW s \in Streams, NEW k \in Nat, NEW n \in Nat, Ahead(q, s, k, n),
         q # <<>>, ~IsChunk(Head(q), s)
  PROVE  Ahead(Tail(q), s, k, n)
<1> DEFINE r == Tail(q)
<1>1. /\ Len(q) \in Nat \ {0} /\ Len(r) = Len(q) - 1 /\ q[1] = Head(q)
      /\ \A i \in 1 .. Len(q) - 1 : r[i] = q[i + 1]
  BY HeadTaken
<1> HIDE DEF r
<1>2. \A i \in 1 .. Len(r) : i + 1 \in 1 .. Len(q) /\ r[i] = q[i + 1]
  BY <1>1
<1>3. \A i \in 1 .. Len(q) : IsChunk(q[i], s) => i - 1 \in 1 .. Len(r) /\ r[i - 1] = q[i]
  BY <1>1
<1>4. \A i \in 1 .. Len(r) : IsChunk(r[i], s) => k < r[i].n /\ r[i].n <= n
  BY <1>2 DEF Ahead
<1>5. \A i, j \in 1 .. Len(r) : IsChunk(r[i], s) /\ IsChunk(r[j], s) /\ i < j => r[i].n < r[j].n
  <2> SUFFICES ASSUME NEW i \in 1 .. Len(r), NEW j \in 1 .. Len(r), IsChunk(r[i], s), IsChunk(r[j], s), i < j
               PROVE  r[i].n < r[j].n
    OBVIOUS
  <2>1. i + 1 < j + 1
    OBVIOUS
  <2>2. QED
    BY <1>2, <2>1 DEF Ahead
<1>6. \A m \in k + 1 .. n : \E i \in 1 .. Len(r) : IsChunk(r[i], s) /\ r[i].n = m
  BY <1>3 DEF Ahead
<1>7. QED
  BY <1>4, <1>5, <1>6 DEF Ahead, r

LEMMA ChunkTaken ==
  ASSUME NEW q \in Seq(Frames), NEW s \in Streams, NEW k \in Nat, NEW n \in Nat, Ahead(q, s, k, n),
         q # <<>>, IsChunk(Head(q), s)
  PROVE  /\ Head(q).n = k + 1
         /\ k + 1 <= n
         /\ Ahead(Tail(q), s, k + 1, n)
<1> DEFINE r == Tail(q)
<1>1. /\ Len(q) \in Nat \ {0} /\ Len(r) = Len(q) - 1 /\ q[1] = Head(q)
      /\ \A i \in 1 .. Len(q) - 1 : r[i] = q[i + 1]
  BY HeadTaken
<1>8. Head(q) \in Frames
  BY HeadTaken
<1> HIDE DEF r
<1>2. \A i \in 1 .. Len(r) : i + 1 \in 1 .. Len(q) /\ r[i] = q[i + 1]
  BY <1>1
<1>9. Head(q).n \in Nat
  <2>1. Head(q).n \in 1 .. Chunks
    BY <1>8, InAFrame DEF IsChunk
  <2>2. QED
    BY <2>1, StreamAssumption
<1>10. 1 \in 1 .. Len(q)
  BY <1>1
<1>3. k < Head(q).n /\ Head(q).n <= n
  BY <1>1, <1>10 DEF Ahead
<1>11. k + 1 \in k + 1 .. n
  BY <1>3, <1>9
<1>4. Head(q).n = k + 1
  <2>1. PICK i \in 1 .. Len(q) : IsChunk(q[i], s) /\ q[i].n = k + 1
    BY <1>11 DEF Ahead
  <2>2. i # 1 => Head(q).n < k + 1
    BY <1>1, <1>10, <2>1 DEF Ahead
  <2>3. QED
    BY <1>1, <1>3, <1>9, <2>1, <2>2
<1>5. \A i \in 1 .. Len(r) : IsChunk(r[i], s) => k + 1 < r[i].n /\ r[i].n <= n
  <2> SUFFICES ASSUME NEW i \in 1 .. Len(r), IsChunk(r[i], s) PROVE k + 1 < r[i].n /\ r[i].n <= n
    OBVIOUS
  <2>1. i + 1 \in 1 .. Len(q) /\ r[i] = q[i + 1] /\ 1 < i + 1
    BY <1>2
  <2>2. QED
    BY <1>1, <1>4, <1>10, <2>1 DEF Ahead
<1>6. \A i, j \in 1 .. Len(r) : IsChunk(r[i], s) /\ IsChunk(r[j], s) /\ i < j => r[i].n < r[j].n
  <2> SUFFICES ASSUME NEW i \in 1 .. Len(r), NEW j \in 1 .. Len(r), IsChunk(r[i], s), IsChunk(r[j], s), i < j
               PROVE  r[i].n < r[j].n
    OBVIOUS
  <2>1. i + 1 < j + 1
    OBVIOUS
  <2>2. QED
    BY <1>2, <2>1 DEF Ahead
<1>7. \A m \in k + 1 + 1 .. n : \E i \in 1 .. Len(r) : IsChunk(r[i], s) /\ r[i].n = m
  <2> SUFFICES ASSUME NEW m \in k + 1 + 1 .. n PROVE \E i \in 1 .. Len(r) : IsChunk(r[i], s) /\ r[i].n = m
    OBVIOUS
  <2>1. m \in k + 1 .. n /\ m # k + 1
    OBVIOUS
  <2>2. PICK i \in 1 .. Len(q) : IsChunk(q[i], s) /\ q[i].n = m
    BY <2>1 DEF Ahead
  <2>3. i # 1
    BY <1>1, <1>4, <2>1, <2>2
  <2>4. i - 1 \in 1 .. Len(r) /\ r[i - 1] = q[i]
    BY <1>1, <2>3
  <2>5. QED
    BY <2>2, <2>4
<1>12. QED
  BY <1>3, <1>4, <1>5, <1>6, <1>7, <1>9 DEF Ahead, r

-----------------------------------------------------------------------------
(* The body's steps, stream by stream. Most leave a stream's places alone. *)
Alone(t) ==
  /\ got'[t] = got[t] /\ hold'[t] = hold[t] /\ queue'[t] = queue[t] /\ pump'[t] = pump[t]
  /\ done'[t] = done[t] /\ (pipeEnd'[t] = "clean" => pipeEnd[t] = "clean")
  /\ InLoop(t)' = InLoop(t) /\ (InLoop(t) => loop' = loop)
  /\ t \in registered' => t \in registered

LEMMA AloneKept ==
  ASSUME NEW t \in Streams, Alone(t), Received(t), Over(t)
  PROVE  Received(t)' /\ Over(t)' /\ Taken(t)' = Taken(t)
<1>1. Held(t)' = Held(t) /\ Queued(t)' = Queued(t) /\ Taken(t)' = Taken(t)
  BY DEF Alone, Held, Queued, Taken
<1>2. Received(t)'
  BY <1>1 DEF Received, Alone
<1>3. Over(t)'
  BY <1>1 DEF Over, Alone
<1>4. QED
  BY <1>1, <1>2, <1>3

(* A step that leaves a stream's frames alone as well.                     *)
LEMMA WireKept ==
  ASSUME NEW t \in Streams, TypeOK, OnTheWire(t), ClosedBehind(t),
         t \in registered' => t \in registered,
         pump'[t] # "returned" => pump[t] # "returned" /\ Taken(t)' = Taken(t),
         sent'[t] = sent[t], down' = down,
         \/ toEngine' = toEngine
         \/ \E f \in Frames : toEngine' = Append(toEngine, f) /\ ~IsChunk(f, t) /\ ~IsClose(f, t)
         \/ toEngine # <<>> /\ toEngine' = Tail(toEngine) /\ ~IsChunk(Head(toEngine), t)
  PROVE  OnTheWire(t)' /\ ClosedBehind(t)'
<1> DEFINE New(f) == toEngine' = Append(toEngine, f) /\ ~IsChunk(f, t) /\ ~IsClose(f, t)
<1> DEFINE Taking == toEngine # <<>> /\ toEngine' = Tail(toEngine) /\ ~IsChunk(Head(toEngine), t)
<1>1. Taken(t) \in Nat /\ sent[t] \in Nat /\ toEngine \in Seq(Frames)
  BY Counts DEF TypeOK
<1>2. Ahead(toEngine, t, Taken(t), sent[t]) => Ahead(toEngine', t, Taken(t), sent[t])
  <2>1. CASE toEngine' = toEngine
    BY <2>1
  <2>2. ASSUME NEW f \in Frames, New(f) PROVE <1>2!:
    BY <1>1, <2>2, OtherAdded
  <2>3. CASE Taking
    BY <1>1, <2>3, OtherTaken
  <2>4. QED
    BY <2>1, <2>2, <2>3
<1>3. OnTheWire(t)'
  BY <1>2 DEF OnTheWire
<1>4. ClosedBehind(t)'
  <2>1. CASE toEngine' = toEngine
    BY <2>1 DEF ClosedBehind
  <2>2. ASSUME NEW f \in Frames, New(f) PROVE ClosedBehind(t)'
    <3>1. /\ Len(toEngine') = Len(toEngine) + 1 /\ Len(toEngine) \in Nat
          /\ \A i \in 1 .. Len(toEngine) : toEngine'[i] = toEngine[i]
          /\ toEngine'[Len(toEngine) + 1] = f
      BY <1>1, <2>2, Appended
    <3>2. \A i \in 1 .. Len(toEngine') : IsChunk(toEngine'[i], t) \/ IsClose(toEngine'[i], t) =>
            i \in 1 .. Len(toEngine) /\ toEngine'[i] = toEngine[i]
      BY <2>2, <3>1
    <3>3. QED
      BY <3>2 DEF ClosedBehind
  <2>3. CASE Taking
    <3>1. /\ Len(toEngine) \in Nat \ {0} /\ Len(toEngine') = Len(toEngine) - 1
          /\ \A i \in 1 .. Len(toEngine) - 1 : toEngine'[i] = toEngine[i + 1]
      BY <1>1, <2>3, HeadTaken
    <3>2. \A i \in 1 .. Len(toEngine') : i + 1 \in 1 .. Len(toEngine) /\ toEngine'[i] = toEngine[i + 1]
      BY <3>1
    <3>3. ASSUME NEW i \in 1 .. Len(toEngine'), IsClose(toEngine'[i], t)
          PROVE  /\ toEngine'[i].how = "clean" => sent'[t] = Chunks
                 /\ \A j \in 1 .. Len(toEngine') : IsChunk(toEngine'[j], t) => j < i
      <4>1. IsClose(toEngine[i + 1], t) /\ i + 1 \in 1 .. Len(toEngine)
        BY <3>2, <3>3
      <4>2. ASSUME NEW j \in 1 .. Len(toEngine'), IsChunk(toEngine'[j], t) PROVE j < i
        <5>1. j + 1 < i + 1
          BY <3>2, <4>1, <4>2 DEF ClosedBehind
        <5>2. QED
          BY <5>1
      <4>3. QED
        BY <3>2, <3>3, <4>1, <4>2 DEF ClosedBehind
    <3>4. QED
      BY <3>3 DEF ClosedBehind
  <2>4. QED
    BY <2>1, <2>2, <2>3
<1>5. QED
  BY <1>3, <1>4

LEMMA StepBody ==
  ASSUME TypeOK, TypeOK', Handshake, \A s \in Streams : Body(s), [Next]_vars
  PROVE  \A s \in Streams : Body(s)'
<1> SUFFICES ASSUME NEW t \in Streams PROVE Body(t)'
  OBVIOUS
<1> USE DEF Set
<1>1. Body(t) /\ Opened(t) /\ toEngine \in Seq(Frames)
  BY DEF Handshake, TypeOK
<1>2. /\ Len(got[t]) \in Nat /\ Len(queue[t]) \in Nat /\ Held(t) \in Nat /\ Queued(t) \in Nat /\ Taken(t) \in Nat
      /\ sent[t] \in Nat /\ hold[t] \in Nat
  BY Counts
(* A step that leaves the places of t alone, and its frames.               *)
<1>3. ASSUME Alone(t), sent'[t] = sent[t], down' = down,
             \/ toEngine' = toEngine
             \/ \E f \in Frames : toEngine' = Append(toEngine, f) /\ ~IsChunk(f, t) /\ ~IsClose(f, t)
             \/ toEngine # <<>> /\ toEngine' = Tail(toEngine) /\ ~IsChunk(Head(toEngine), t)
      PROVE  Body(t)'
  <2>1. Received(t)' /\ Over(t)' /\ Taken(t)' = Taken(t)
    BY <1>1, <1>3, AloneKept DEF Body
  <2>2. OnTheWire(t)' /\ ClosedBehind(t)'
    BY <1>1, <1>3, <2>1, WireKept DEF Body, Alone
  <2>3. QED
    BY <2>1, <2>2 DEF Body
<1>4. CASE UNCHANGED vars
  <2>1. Alone(t) /\ sent'[t] = sent[t] /\ down' = down /\ toEngine' = toEngine
    BY <1>4 DEF vars, engine, screen, Alone, InLoop
  <2>2. QED
    BY <1>3, <2>1
<1>5. ASSUME NEW s \in Streams, RoundTrip(s) PROVE Body(t)'
  <2>1. CASE s # t
    <3>1. Alone(t) /\ sent'[t] = sent[t] /\ down' = down /\ toEngine' = toEngine
      BY <1>5, <2>1 DEF RoundTrip, screen, Alone, InLoop, TypeOK
    <3>2. QED
      BY <1>3, <3>1
  <2>2. CASE s = t
    <3>1. Untouched(t)
      BY <1>1, <1>5, <2>2 DEF RoundTrip, Opened
    <3>2. ~InLoop(t)
      BY <1>5, <2>2 DEF RoundTrip, InLoop, Handshake, Answers
    <3>3. /\ got' = got /\ hold' = hold /\ queue' = queue /\ loop' = loop /\ done' = done /\ pipeEnd' = pipeEnd
          /\ toEngine' = toEngine /\ sent' = sent /\ down' = down
      BY <1>5 DEF RoundTrip, screen
    <3>4. Taken(t)' = 0 /\ Taken(t) = 0 /\ Held(t)' = Held(t) /\ Queued(t)' = Queued(t) /\ sent[t] = 0
      <4>1. Len(got[t]) = 0 /\ Len(queue[t]) = 0 /\ hold[t] = 0 /\ sent[t] = 0
        BY <3>1 DEF Untouched
      <4>2. Held(t) = 0 /\ Held(t)' = 0
        BY <3>3, <4>1 DEF Held
      <4>3. Queued(t) = 0 /\ Queued(t)' = 0
        BY <3>3, <4>1, <4>2 DEF Queued
      <4>4. QED
        BY <3>2, <3>3, <4>1, <4>2, <4>3 DEF Taken, InLoop
    <3>5. Received(t)'
      BY <1>1, <3>1, <3>2, <3>3, <3>4 DEF Body, Received, Untouched, InLoop
    <3>6. Over(t)'
      BY <1>1, <3>1, <3>3 DEF Body, Over, Untouched
    <3>7. \A i \in 1 .. Len(toEngine) : ~IsChunk(toEngine[i], t)
      BY <3>1 DEF Handshake, Answers, IsChunk, Untouched
    <3>8. Ahead(toEngine, t, 0, 0)
      BY <3>7 DEF Ahead
    <3>9. OnTheWire(t)'
      BY <3>3, <3>4, <3>8 DEF OnTheWire
    <3>10. ClosedBehind(t)'
      BY <1>1, <3>3 DEF Body, ClosedBehind
    <3>11. QED
      BY <3>5, <3>6, <3>9, <3>10 DEF Body
  <2>3. QED
    BY <2>1, <2>2
<1>6. ASSUME NEW s \in Streams, GiveUp(s) \/ Abandon(s) \/ ClosePipe(s) \/ ReadEnd(s) PROVE Body(t)'
  <2>1. sent'[t] = sent[t] /\ down' = down /\ toEngine' = toEngine
    BY <1>6 DEF GiveUp, Abandon, ClosePipe, ReadEnd, screen
  <2>3. registered' \subseteq registered /\ (pipeEnd'[t] = "clean" => pipeEnd[t] = "clean")
    <3>1. CASE GiveUp(s)
      BY <3>1 DEF GiveUp, Fail, TypeOK
    <3>2. CASE Abandon(s) \/ ClosePipe(s) \/ ReadEnd(s)
      BY <3>2 DEF Abandon, ClosePipe, ReadEnd
    <3>3. QED
      BY <1>6, <3>1, <3>2
  <2>4. UNCHANGED <<got, hold, queue, pump, done, loop>>
    BY <1>6 DEF GiveUp, Abandon, ClosePipe, ReadEnd
  <2>5. Alone(t)
    BY <2>3, <2>4 DEF Alone, InLoop
  <2>2. QED
    BY <1>3, <2>1, <2>5
<1>7. ASSUME NEW s \in Streams, ReadChunk(s) PROVE Body(t)'
  <2>1. CASE s # t
    <3>1. Alone(t) /\ sent'[t] = sent[t] /\ down' = down /\ toEngine' = toEngine
      BY <1>7, <2>1 DEF ReadChunk, screen, Alone, InLoop, TypeOK
    <3>2. QED
      BY <1>3, <3>1
  <2>2. CASE s = t
    <3>1. got'[t] = Append(got[t], hold[t]) /\ hold'[t] = 0 /\ hold[t] # 0 /\ pipeEnd[t] = "none"
      BY <1>7, <2>2 DEF ReadChunk, TypeOK
    <3>2. /\ queue' = queue /\ pump' = pump /\ loop' = loop /\ done' = done /\ pipeEnd' = pipeEnd
          /\ registered' = registered /\ toEngine' = toEngine /\ sent' = sent /\ down' = down
      BY <1>7 DEF ReadChunk, screen
    <3>3. got[t] \in Seq(1 .. Chunks) /\ hold[t] \in 1 .. Chunks
      <4>1. got[t] \in Seq(1 .. Chunks) /\ hold[t] \in 0 .. Chunks
        BY DEF TypeOK
      <4>2. QED
        BY <3>1, <4>1, StreamAssumption
    <3>4. /\ Len(got'[t]) = Len(got[t]) + 1 /\ got'[t][Len(got[t]) + 1] = hold[t]
          /\ \A i \in 1 .. Len(got[t]) : got'[t][i] = got[t][i]
          /\ got'[t] \in Seq(1 .. Chunks)
      BY <1>2, <3>1, <3>3, Appended
    <3>5. Held(t)' = Held(t) /\ Queued(t)' = Queued(t) /\ Taken(t)' = Taken(t)
      BY <1>2, <3>1, <3>2, <3>4 DEF Held, Queued, Taken, InLoop
    <3>6. \A i \in 1 .. Len(got'[t]) : got'[t][i] = i
      BY <1>1, <1>2, <3>1, <3>4 DEF Body, Received
    <3>7. got'[t] = [i \in 1 .. Len(got'[t]) |-> i]
      BY <3>4, <3>6
    <3>8. Received(t)'
      BY <1>1, <3>1, <3>2, <3>5, <3>7 DEF Body, Received, InLoop
    <3>9. Over(t)'
      BY <1>1, <3>1, <3>2, <3>5 DEF Body, Over, InLoop
    <3>10. OnTheWire(t)' /\ ClosedBehind(t)'
      BY <1>1, <3>2, <3>5 DEF Body, OnTheWire, ClosedBehind
    <3>11. QED
      BY <3>8, <3>9, <3>10 DEF Body
  <2>3. QED
    BY <2>1, <2>2
<1>8. ASSUME NEW s \in Streams, NEW kind, Reads(kind, s), kind # "chunk" \/ s # t
      PROVE  /\ sent'[t] = sent[t] /\ down' = down
             /\ toEngine # <<>> /\ toEngine' = Tail(toEngine) /\ ~IsChunk(Head(toEngine), t)
  BY <1>8 DEF Reads, screen, IsChunk
<1>9. ASSUME NEW s \in Streams, ReadHead(s) PROVE Body(t)'
  <2>1. Alone(t) /\ Reads("head", s)
    BY <1>9 DEF ReadHead, Reads, Alone, InLoop
  <2>2. QED
    BY <1>3, <1>8, <2>1
<1>10. ASSUME NEW s \in Streams, ReadRefusal(s) PROVE Body(t)'
  <2>1. Reads("refusal", s)
    BY <1>10 DEF ReadRefusal
  <2>2. Alone(t)
    BY <1>10 DEF ReadRefusal, Reads, Fail, Alone, InLoop, TypeOK
  <2>3. QED
    BY <1>3, <1>8, <2>1, <2>2
<1>11. ASSUME NEW s \in Streams, TakeChunk(s) PROVE Body(t)'
  <2>1. Reads("chunk", s) /\ loop = NoChunk /\ ~down
    BY <1>11 DEF TakeChunk, Reads
  <2>2. /\ got' = got /\ hold' = hold /\ queue' = queue /\ pump' = pump /\ done' = done /\ pipeEnd' = pipeEnd
        /\ registered' = registered /\ sent' = sent /\ down' = down
    BY <1>11 DEF TakeChunk, Reads, screen
  <2>3. toEngine # <<>> /\ toEngine' = Tail(toEngine) /\ IsChunk(Head(toEngine), s)
    BY <2>1 DEF Reads, IsChunk
  <2>4. CASE s # t
    <3>1. Alone(t)
      BY <1>11, <2>1, <2>2, <2>4 DEF TakeChunk, Alone, InLoop
    <3>2. QED
      BY <1>3, <1>8, <2>1, <2>4, <3>1
  <2>5. ClosedBehind(t)'
    <3>1. /\ Len(toEngine) \in Nat \ {0} /\ Len(toEngine') = Len(toEngine) - 1
          /\ \A i \in 1 .. Len(toEngine) - 1 : toEngine'[i] = toEngine[i + 1]
      BY <1>1, <2>3, HeadTaken
    <3>2. \A i \in 1 .. Len(toEngine') : i + 1 \in 1 .. Len(toEngine) /\ toEngine'[i] = toEngine[i + 1]
      BY <3>1
    <3>3. ASSUME NEW i \in 1 .. Len(toEngine'), IsClose(toEngine'[i], t)
          PROVE  /\ toEngine'[i].how = "clean" => sent'[t] = Chunks
                 /\ \A j \in 1 .. Len(toEngine') : IsChunk(toEngine'[j], t) => j < i
      <4>1. IsClose(toEngine[i + 1], t) /\ i + 1 \in 1 .. Len(toEngine)
        BY <3>2, <3>3
      <4>2. ASSUME NEW j \in 1 .. Len(toEngine'), IsChunk(toEngine'[j], t) PROVE j < i
        <5>1. j + 1 < i + 1
          BY <1>1, <3>2, <4>1, <4>2 DEF Body, ClosedBehind
        <5>2. QED
          BY <5>1
      <4>3. QED
        BY <1>1, <2>2, <3>2, <3>3, <4>1, <4>2 DEF Body, ClosedBehind
    <3>4. QED
      BY <3>3 DEF ClosedBehind
  <2>6. CASE s = t /\ t \notin registered
    <3>1. Alone(t)
      BY <1>11, <2>1, <2>2, <2>6 DEF TakeChunk, Alone, InLoop
    <3>2. Received(t)' /\ Over(t)'
      BY <1>1, <3>1, AloneKept DEF Body
    <3>3. OnTheWire(t)'
      BY <2>2, <2>6 DEF OnTheWire
    <3>4. QED
      BY <2>5, <3>2, <3>3 DEF Body
  <2>7. CASE s = t /\ t \in registered
    <3>1. loop' = [of |-> t, n |-> Head(toEngine).n]
      BY <1>11, <2>7 DEF TakeChunk
    <3>2. Head(toEngine).n \in 1 .. Chunks
      BY <1>1, <2>3, HeadTaken, InAFrame DEF IsChunk
    <3>3. InLoop(t)' /\ ~InLoop(t) /\ loop'.n = Head(toEngine).n
      BY <2>1, <3>1, <3>2, StreamAssumption DEF InLoop
    <3>4. Held(t)' = Held(t) /\ Queued(t)' = Queued(t) /\ Queued(t) = Taken(t) /\ Taken(t)' = Taken(t) + 1
      BY <1>2, <2>2, <3>3 DEF Held, Queued, Taken
    <3>5. pump[t] # "returned" =>
            /\ Head(toEngine).n = Taken(t) + 1 /\ Taken(t) + 1 <= sent[t]
            /\ Ahead(toEngine', t, Taken(t) + 1, sent[t])
      BY <1>1, <1>2, <2>1, <2>3, <2>7, ChunkTaken DEF Body, OnTheWire
    <3>6. Received(t)'
      BY <1>1, <2>2, <3>3, <3>4, <3>5 DEF Body, Received
    <3>7. OnTheWire(t)'
      BY <2>2, <3>4, <3>5 DEF OnTheWire
    <3>8. Over(t)'
      BY <1>1, <2>2, <2>7 DEF Body, Over
    <3>9. QED
      BY <2>5, <3>6, <3>7, <3>8 DEF Body
  <2>8. QED
    BY <2>4, <2>6, <2>7
<1>12. ASSUME NEW s \in Streams, ReadClose(s) PROVE Body(t)'
  <2>1. Reads("close", s) /\ loop = NoChunk /\ loop' = loop /\ ~down
    BY <1>12 DEF ReadClose, Reads
  <2>2. /\ got' = got /\ hold' = hold /\ queue' = queue /\ pump' = pump /\ pipeEnd' = pipeEnd
        /\ sent' = sent /\ down' = down
    BY <1>12 DEF ReadClose, Reads, screen
  <2>3. CASE s # t \/ t \notin registered
    <3>1. Alone(t)
      BY <1>12, <2>1, <2>2, <2>3 DEF ReadClose, Alone, InLoop, TypeOK
    <3>2. QED
      BY <1>3, <1>8, <2>1, <3>1
  <2>4. CASE s = t /\ t \in registered
    <3>1. t \notin registered' /\ done'[t] = Head(toEngine).how
      BY <1>12, <2>4 DEF ReadClose, TypeOK
    <3>2. Held(t)' = Held(t) /\ Queued(t)' = Queued(t) /\ Queued(t) = Taken(t) /\ Taken(t)' = Taken(t) /\ ~InLoop(t)
      BY <1>2, <2>1, <2>2 DEF Held, Queued, Taken, InLoop
    <3>3. toEngine # <<>> /\ Head(toEngine).of = t /\ Head(toEngine).kind = "close"
      BY <2>1, <2>4 DEF Reads
    <3>10. IsClose(toEngine[1], t) /\ 1 \in 1 .. Len(toEngine) /\ toEngine[1] = Head(toEngine) /\ Len(toEngine) \in Nat
      BY <1>1, <3>3, HeadTaken DEF IsClose
    <3>4. \A j \in 1 .. Len(toEngine) : ~IsChunk(toEngine[j], t)
      <4>1. \A j \in 1 .. Len(toEngine) : IsChunk(toEngine[j], t) => j < 1
        BY <1>1, <3>10 DEF Body, ClosedBehind
      <4>2. QED
        BY <3>10, <4>1
    <3>5. done'[t] = "clean" /\ pump[t] # "returned" => Queued(t) = Chunks
      <4> SUFFICES ASSUME done'[t] = "clean", pump[t] # "returned" PROVE Queued(t) = Chunks
        OBVIOUS
      <4>1. sent[t] = Chunks
        BY <1>1, <3>1, <3>10 DEF Body, ClosedBehind
      <4>2. Taken(t) <= sent[t] /\ Ahead(toEngine, t, Taken(t), sent[t])
        BY <1>1, <2>1, <2>4 DEF Body, OnTheWire
      <4>3. Taken(t) < sent[t] => FALSE
        <5>1. Taken(t) < sent[t] => Taken(t) + 1 \in Taken(t) + 1 .. sent[t]
          BY <1>2
        <5>2. QED
          BY <3>4, <4>2, <5>1 DEF Ahead
      <4>4. QED
        BY <1>2, <3>2, <4>1, <4>2, <4>3
    <3>6. Received(t)'
      BY <1>1, <2>1, <2>2, <3>2 DEF Body, Received, InLoop
    <3>7. Over(t)'
      BY <1>1, <2>1, <2>2, <3>1, <3>2, <3>5 DEF Body, Over, InLoop
    <3>8. OnTheWire(t)' /\ ClosedBehind(t)'
      <4>1. /\ sent'[t] = sent[t] /\ down' = down
            /\ toEngine # <<>> /\ toEngine' = Tail(toEngine) /\ ~IsChunk(Head(toEngine), t)
        BY <1>8, <2>1
      <4>2. OnTheWire(t) /\ ClosedBehind(t) /\ pump' = pump
        BY <1>1, <2>2 DEF Body
      <4>3. QED
        BY <3>1, <3>2, <4>1, <4>2, WireKept
    <3>9. QED
      BY <3>6, <3>7, <3>8 DEF Body
  <2>5. QED
    BY <2>3, <2>4
<1>13. CASE PutChunk
  <2>1. /\ got' = got /\ hold' = hold /\ pump' = pump /\ done' = done /\ pipeEnd' = pipeEnd /\ registered' = registered
        /\ sent' = sent /\ down' = down /\ toEngine' = toEngine /\ loop' = NoChunk
    BY <1>13 DEF PutChunk, screen
  <2>2. CASE ~InLoop(t)
    <3>1. Alone(t)
      BY <1>13, <2>1, <2>2 DEF PutChunk, Alone, InLoop, TypeOK
    <3>2. QED
      BY <1>3, <2>1, <3>1
  <2>3. CASE InLoop(t)
    <3>1. loop.n \in 1 .. Chunks /\ loop.of = t
      BY <2>3 DEF InLoop, TypeOK
    <3>11. queue'[t] = Append(queue[t], loop.n)
      BY <1>13, <3>1 DEF PutChunk, TypeOK
    <3>2. queue[t] \in Seq(1 .. Chunks)
      BY DEF TypeOK
    <3>3. /\ Len(queue'[t]) = Len(queue[t]) + 1 /\ queue'[t][Len(queue[t]) + 1] = loop.n
          /\ \A i \in 1 .. Len(queue[t]) : queue'[t][i] = queue[t][i]
      BY <3>1, <3>2, <3>11, Appended
    <3>4. ~InLoop(t)' /\ Held(t)' = Held(t) /\ Queued(t)' = Queued(t) + 1 /\ Taken(t)' = Taken(t)
      <4>1. ~InLoop(t)' /\ Held(t)' = Held(t)
        BY <2>1 DEF Held, InLoop
      <4>2. Queued(t)' = Queued(t) + 1
        BY <1>2, <3>3, <4>1 DEF Queued
      <4>3. QED
        BY <2>3, <4>1, <4>2 DEF Taken
    <3>5. pump[t] # "returned" => loop.n = Held(t) + (Len(queue[t]) + 1)
      BY <1>1, <1>2, <2>3 DEF Body, Received, Queued
    <3>6. pump[t] # "returned" => \A i \in 1 .. Len(queue'[t]) : queue'[t][i] = Held(t) + i
      <4>1. pump[t] # "returned" => \A i \in 1 .. Len(queue[t]) : queue[t][i] = Held(t) + i
        BY <1>1 DEF Body, Received
      <4>2. \A i \in 1 .. Len(queue'[t]) : i \in 1 .. Len(queue[t]) \/ i = Len(queue[t]) + 1
        BY <1>2, <3>3
      <4>3. QED
        BY <3>3, <3>5, <4>1, <4>2
    <3>7. Received(t)'
      BY <1>1, <2>1, <3>4, <3>6 DEF Body, Received
    <3>8. Over(t)'
      BY <1>1, <2>1, <2>3 DEF Body, Over
    <3>9. OnTheWire(t)' /\ ClosedBehind(t)'
      BY <1>1, <2>1, <3>4 DEF Body, OnTheWire, ClosedBehind
    <3>10. QED
      BY <3>7, <3>8, <3>9 DEF Body
  <2>4. QED
    BY <2>2, <2>3
<1>14. ASSUME NEW s \in Streams, PumpTakes(s) PROVE Body(t)'
  <2>1. CASE s # t
    <3>1. Alone(t) /\ sent'[t] = sent[t] /\ down' = down /\ toEngine' = toEngine
      BY <1>14, <2>1 DEF PumpTakes, screen, Alone, InLoop, TypeOK
    <3>2. QED
      BY <1>3, <3>1
  <2>2. CASE s = t
    <3>1. /\ hold[t] = 0 /\ queue[t] # <<>> /\ hold'[t] = Head(queue[t]) /\ queue'[t] = Tail(queue[t])
          /\ pump[t] # "returned"
      BY <1>14, <2>2 DEF PumpTakes, TypeOK
    <3>2. /\ got' = got /\ pump' = pump /\ loop' = loop /\ done' = done /\ pipeEnd' = pipeEnd
          /\ registered' = registered /\ toEngine' = toEngine /\ sent' = sent /\ down' = down
      BY <1>14 DEF PumpTakes, screen
    <3>3. /\ Len(queue[t]) \in Nat \ {0} /\ Len(queue'[t]) = Len(queue[t]) - 1 /\ hold'[t] = queue[t][1]
          /\ \A i \in 1 .. Len(queue[t]) - 1 : queue'[t][i] = queue[t][i + 1]
      <4>1. queue[t] \in Seq(1 .. Chunks)
        BY DEF TypeOK
      <4>2. QED
        BY <3>1, <4>1, HeadTaken
    <3>4. \A i \in 1 .. Len(queue[t]) : queue[t][i] = Held(t) + i
      BY <1>1, <3>1 DEF Body, Received
    <3>5. hold'[t] = Len(got[t]) + 1
      BY <1>2, <3>1, <3>3, <3>4 DEF Held
    <3>6. Held(t)' = Held(t) + 1 /\ Queued(t)' = Queued(t) /\ Taken(t)' = Taken(t)
      <4>1. hold'[t] # 0 /\ InLoop(t)' = InLoop(t)
        BY <1>2, <3>2, <3>5 DEF InLoop
      <4>2. Held(t)' = Held(t) + 1
        BY <1>2, <3>1, <3>2, <4>1 DEF Held
      <4>3. Queued(t)' = Queued(t)
        BY <1>2, <3>3, <4>2 DEF Queued
      <4>4. QED
        BY <4>1, <4>2, <4>3 DEF Taken
    <3>7. \A i \in 1 .. Len(queue'[t]) : queue'[t][i] = Held(t)' + i
      BY <1>2, <3>3, <3>4, <3>6
    <3>8. Received(t)'
      BY <1>1, <3>2, <3>5, <3>6, <3>7 DEF Body, Received, InLoop
    <3>9. Over(t)'
      BY <1>1, <3>2, <3>6 DEF Body, Over, InLoop
    <3>10. OnTheWire(t)' /\ ClosedBehind(t)'
      BY <1>1, <3>2, <3>6 DEF Body, OnTheWire, ClosedBehind
    <3>11. QED
      BY <3>8, <3>9, <3>10 DEF Body
  <2>3. QED
    BY <2>1, <2>2
(* The pump is over with t: what it leaves is nobody's.                    *)
<1>15. ASSUME pump'[t] = "returned", hold'[t] = 0, pipeEnd'[t] = "clean" => Len(got[t]) = Chunks,
              UNCHANGED <<queue, done, got, loop, registered, sent, down, toEngine>>
       PROVE  Body(t)'
  <2>1. Received(t)' /\ Over(t)'
    BY <1>1, <1>15 DEF Body, Received, Over
  <2>2. OnTheWire(t)' /\ ClosedBehind(t)'
    BY <1>1, <1>15 DEF Body, OnTheWire, ClosedBehind
  <2>3. QED
    BY <2>1, <2>2 DEF Body
<1>16. ASSUME NEW s \in Streams, PumpStops(s) PROVE Body(t)'
  <2>1. CASE s # t
    <3>1. Alone(t) /\ sent'[t] = sent[t] /\ down' = down /\ toEngine' = toEngine
      BY <1>16, <2>1 DEF PumpStops, screen, Alone, InLoop, TypeOK
    <3>2. QED
      BY <1>3, <3>1
  <2>2. CASE s = t
    <3>1. pump'[t] = "returned" /\ hold'[t] = 0 /\ pipeEnd' = pipeEnd
      BY <1>16, <2>2 DEF PumpStops, TypeOK
    <3>2. UNCHANGED <<queue, done, got, loop, registered, sent, down, toEngine>>
      BY <1>16 DEF PumpStops, screen
    <3>3. QED
      BY <1>1, <1>15, <3>1, <3>2 DEF Body, Over
  <2>3. QED
    BY <2>1, <2>2
<1>17. ASSUME NEW s \in Streams, PumpSeesDone(s) PROVE Body(t)'
  <2>1. CASE s # t
    <3>1. Alone(t) /\ sent'[t] = sent[t] /\ down' = down /\ toEngine' = toEngine
      BY <1>17, <2>1 DEF PumpSeesDone, screen, Alone, InLoop, TypeOK
    <3>2. QED
      BY <1>3, <3>1
  <2>2. CASE s = t
    <3>1. pump[t] = "select" /\ pump'[t] = "drain"
      BY <1>17, <2>2 DEF PumpSeesDone, TypeOK
    <3>2. UNCHANGED <<queue, hold, pipeEnd, done, got, loop, registered, sent, down, toEngine>>
      BY <1>17 DEF PumpSeesDone, screen
    <3>3. Held(t)' = Held(t) /\ Queued(t)' = Queued(t) /\ Taken(t)' = Taken(t) /\ InLoop(t)' = InLoop(t)
      BY <3>2 DEF Held, Queued, Taken, InLoop
    <3>4. Received(t)' /\ Over(t)'
      BY <1>1, <3>1, <3>2, <3>3 DEF Body, Received, Over
    <3>5. OnTheWire(t)' /\ ClosedBehind(t)'
      BY <1>1, <3>1, <3>2, <3>3 DEF Body, OnTheWire, ClosedBehind
    <3>6. QED
      BY <3>4, <3>5 DEF Body
  <2>3. QED
    BY <2>1, <2>2
<1>18. ASSUME NEW s \in Streams, PumpCloses(s) PROVE Body(t)'
  <2>1. CASE s # t
    <3>1. Alone(t) /\ sent'[t] = sent[t] /\ down' = down /\ toEngine' = toEngine
      BY <1>18, <2>1 DEF PumpCloses, screen, Alone, InLoop, TypeOK
    <3>2. QED
      BY <1>3, <3>1
  <2>2. CASE s = t
    <3>1. /\ pump[t] # "returned" /\ pump'[t] = "returned" /\ hold[t] = 0 /\ hold' = hold /\ queue[t] = <<>>
          /\ pipeEnd'[t] = IF pipeEnd[t] = "none" THEN done[t] ELSE pipeEnd[t]
      BY <1>18, <2>2 DEF PumpCloses, TypeOK
    <3>2. UNCHANGED <<queue, done, got, loop, registered, sent, down, toEngine>>
      BY <1>18 DEF PumpCloses, screen
    <3>3. Queued(t) = Len(got[t])
      BY <1>2, <3>1 DEF Queued, Held
    <3>4. pipeEnd'[t] = "clean" => Len(got[t]) = Chunks
      BY <1>1, <3>1, <3>3 DEF Body, Over
    <3>5. QED
      BY <1>15, <3>1, <3>2, <3>4
  <2>3. QED
    BY <2>1, <2>2
<1>19. ASSUME NEW s \in Streams,
              OpenArrives(s) \/ CancelArrives(s) \/ ToInflight(s) \/ HeadComes(s) \/ RequestFails(s)
       PROVE  Body(t)'
  <2>1. Alone(t) /\ sent'[t] = sent[t] /\ down' = down /\ toEngine' = toEngine
    BY <1>19 DEF OpenArrives, CancelArrives, Arrives, ToInflight, HeadComes, RequestFails, engine, Alone, InLoop
  <2>2. QED
    BY <1>3, <2>1
<1>20. ASSUME NEW s \in Streams, AnswerOpen(s) PROVE Body(t)'
  <2>1. Alone(t) /\ sent'[t] = sent[t] /\ down' = down
    BY <1>20 DEF AnswerOpen, engine, Alone, InLoop
  <2>2. owed[s] \in {"head", "refusal"}
    BY <1>20 DEF AnswerOpen, TypeOK
  <2>3. Frame(owed[s], s) \in Frames /\ ~IsChunk(Frame(owed[s], s), t) /\ ~IsClose(Frame(owed[s], s), t)
    BY <2>2, FramesMade DEF Frame, IsChunk, IsClose
  <2>4. toEngine' = toEngine \/ toEngine' = Append(toEngine, Frame(owed[s], s))
    BY <1>20 DEF AnswerOpen, Send
  <2>5. QED
    BY <1>3, <2>1, <2>3, <2>4
<1>21. ASSUME NEW s \in Streams, ForwardChunk(s) PROVE Body(t)'
  <2> DEFINE f == [kind |-> "chunk", of |-> s, n |-> sent[s] + 1]
  <2>1. Alone(t) /\ down' = down /\ ~down
    BY <1>21 DEF ForwardChunk, engine, Alone, InLoop
  <2>2. sent[s] + 1 \in 1 .. Chunks
    BY <1>21, StreamAssumption DEF ForwardChunk, TypeOK
  <2>3. f \in Frames /\ toEngine' = Append(toEngine, f) /\ f.kind = "chunk" /\ f.of = s /\ f.n = sent[s] + 1
    BY <1>21, <2>2, FramesMade DEF ForwardChunk
  <2> HIDE DEF f
  <2>4. CASE s # t
    <3>1. sent'[t] = sent[t] /\ ~IsChunk(f, t) /\ ~IsClose(f, t)
      BY <1>21, <2>3, <2>4 DEF ForwardChunk, TypeOK, IsChunk, IsClose
    <3>2. QED
      BY <1>3, <2>1, <2>3, <3>1
  <2>5. CASE s = t
    <3>1. sent'[t] = sent[t] + 1 /\ IsChunk(f, t) /\ asked[t] = "streaming"
      BY <1>21, <2>3, <2>5 DEF ForwardChunk, TypeOK, IsChunk
    <3>2. Received(t)' /\ Over(t)' /\ Taken(t)' = Taken(t)
      BY <1>1, <2>1, AloneKept DEF Body
    <3>3. OnTheWire(t)'
      <4> SUFFICES ASSUME t \in registered', pump'[t] # "returned" PROVE OnTheWire(t)'
        BY DEF OnTheWire
      <4>1. t \in registered /\ pump[t] # "returned"
        BY <2>1 DEF Alone
      <4>2. Taken(t) <= sent[t] /\ Ahead(toEngine, t, Taken(t), sent[t])
        BY <1>1, <2>1, <4>1 DEF Body, OnTheWire
      <4>3. Ahead(toEngine', t, Taken(t), sent[t] + 1)
        BY <1>1, <1>2, <2>3, <2>5, <3>1, <4>2, ChunkAdded
      <4>4. QED
        BY <1>2, <3>1, <3>2, <4>2, <4>3 DEF OnTheWire
    <3>4. \A i \in 1 .. Len(toEngine') : ~IsClose(toEngine'[i], t)
      <4>1. /\ Len(toEngine') = Len(toEngine) + 1 /\ Len(toEngine) \in Nat
            /\ \A i \in 1 .. Len(toEngine) : toEngine'[i] = toEngine[i]
            /\ toEngine'[Len(toEngine) + 1] = f
        BY <1>1, <2>3, Appended
      <4>2. \A i \in 1 .. Len(toEngine) : ~IsClose(toEngine[i], t)
        BY <3>1 DEF Handshake, Answers, IsClose
      <4>3. ~IsClose(f, t)
        BY <2>3 DEF IsClose
      <4>4. QED
        BY <4>1, <4>2, <4>3
    <3>5. QED
      BY <3>2, <3>3, <3>4 DEF Body, ClosedBehind
  <2>6. QED
    BY <2>4, <2>5
<1>22. ASSUME NEW s \in Streams, NEW how \in {"clean", "error"}, EndStream(s, how) PROVE Body(t)'
  <2> DEFINE f == [kind |-> "close", of |-> s, how |-> how]
  <2>1. Alone(t) /\ sent'[t] = sent[t] /\ down' = down
    BY <1>22 DEF EndStream, engine, Alone, InLoop
  <2>2. f \in Frames /\ f.kind = "close" /\ f.of = s /\ f.how = how
    BY FramesMade
  <2>3. toEngine' = toEngine \/ toEngine' = Append(toEngine, f)
    BY <1>22 DEF EndStream, Send
  <2> HIDE DEF f
  <2>4. CASE toEngine' = toEngine
    BY <1>3, <2>1, <2>4
  <2>5. CASE s # t /\ toEngine' = Append(toEngine, f)
    <3>1. ~IsChunk(f, t) /\ ~IsClose(f, t)
      BY <2>2, <2>5 DEF IsChunk, IsClose
    <3>2. QED
      BY <1>3, <2>1, <2>2, <2>5, <3>1
  <2>6. CASE s = t /\ toEngine' = Append(toEngine, f)
    <3>1. how = "clean" => sent[t] = Chunks
      BY <1>22, <2>6 DEF EndStream
    <3>2. Received(t)' /\ Over(t)' /\ Taken(t)' = Taken(t)
      BY <1>1, <2>1, AloneKept DEF Body
    <3>3. ~IsChunk(f, t)
      BY <2>2 DEF IsChunk
    <3>4. Ahead(toEngine, t, Taken(t), sent[t]) => Ahead(toEngine', t, Taken(t), sent[t])
      BY <1>1, <1>2, <2>2, <2>6, <3>3, OtherAdded
    <3>5. OnTheWire(t)'
      BY <1>1, <2>1, <3>2, <3>4 DEF Body, OnTheWire, Alone
    <3>6. /\ Len(toEngine') = Len(toEngine) + 1 /\ Len(toEngine) \in Nat
          /\ \A i \in 1 .. Len(toEngine) : toEngine'[i] = toEngine[i]
          /\ toEngine'[Len(toEngine) + 1] = f
      BY <1>1, <2>2, <2>6, Appended
    <3>7. ASSUME NEW i \in 1 .. Len(toEngine'), IsClose(toEngine'[i], t)
          PROVE  i = Len(toEngine) + 1
      <4>1. \A j \in 1 .. Len(toEngine) : ~IsClose(toEngine[j], t)
        BY <1>22, <2>6 DEF EndStream, Handshake, Answers, IsClose
      <4>2. QED
        BY <3>6, <3>7, <4>1
    <3>8. \A j \in 1 .. Len(toEngine') : IsChunk(toEngine'[j], t) => j < Len(toEngine) + 1
      BY <3>3, <3>6
    <3>9. ClosedBehind(t)'
      BY <2>1, <2>2, <3>1, <3>6, <3>7, <3>8 DEF ClosedBehind
    <3>10. QED
      BY <3>2, <3>5, <3>9 DEF Body
  <2>7. QED
    BY <2>3, <2>4, <2>5, <2>6
<1>23. CASE WireEnds
  <2>1. Alone(t) /\ sent'[t] = sent[t] /\ down' /\ toEngine' = <<>>
    BY <1>23 DEF WireEnds, engine, screen, Alone, InLoop
  <2>2. Received(t)' /\ Over(t)' /\ Taken(t)' = Taken(t)
    BY <1>1, <2>1, AloneKept DEF Body
  <2>3. OnTheWire(t)' /\ ClosedBehind(t)'
    BY <1>1, <2>1, <2>2 DEF Body, OnTheWire, ClosedBehind, Alone
  <2>4. QED
    BY <2>2, <2>3 DEF Body
<1>24. QED
  BY <1>4, <1>5, <1>6, <1>7, <1>9, <1>10, <1>11, <1>12, <1>13, <1>14, <1>16, <1>17, <1>18, <1>19, <1>20, <1>21, <1>22,
     <1>23
  DEF Next, Reader, ReadLoop, Pump, ScreenLoop, Forwarder, Withdrawal

(***************************************************************************)
(* What the model client reads is what the provider sent, in its order,    *)
(* and a body that ends well is whole: for any number of requests that     *)
(* share the wire and the read loop, any length and any room in a queue.   *)
(***************************************************************************)
THEOREM BodyArrivesWhole == Spec => []BodyIsWhole
<1> DEFINE Inv == \A s \in Streams : Body(s)
<1>1. Init => Inv
  <2> SUFFICES ASSUME Init, NEW s \in Streams PROVE Body(s)
    OBVIOUS
  <2>1. Received(s) /\ Over(s)
    BY DEF Init, Received, Over, InLoop
  <2>2. OnTheWire(s) /\ ClosedBehind(s)
    BY DEF Init, OnTheWire, ClosedBehind
  <2>3. QED
    BY <2>1, <2>2 DEF Body
<1>2. TypeOK /\ TypeOK' /\ Handshake /\ Inv /\ [Next]_vars => Inv'
  BY StepBody
<1>3. Inv => BodyIsWhole
  BY DEF Body, Received, Over, BodyIsWhole
<1>4. QED
  BY <1>1, <1>2, <1>3, StreamTyping, HandshakeHolds, PTL DEF Spec
=============================================================================
