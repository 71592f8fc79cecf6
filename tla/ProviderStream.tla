--------------------------- MODULE ProviderStream ---------------------------
(***************************************************************************)
(* A model's answer on its way through the screen: the engine's transport  *)
(* of src/internal/engine/rpc/provider_proxy.go and the screen's forwarder *)
(* of provider_forward.go, over one wire. The head is the answer of a      *)
(* call; the body follows as notifications, which the engine's read loop   *)
(* puts in a queue per stream and a goroutine per stream, the pump, writes *)
(* to the pipe the model client reads.                                     *)
(*                                                                         *)
(* The wire is a queue of frames each way. A connection that is lost takes *)
(* its streams with it: nothing here outlives it but what the engine holds. *)
(***************************************************************************)
EXTENDS Naturals, SequencesExt

CONSTANTS
  Streams,     (* the requests that may be made                            *)
  Chunks,      (* pieces in a whole body                                   *)
  ChunkQueue,  (* chunkQueue                                               *)
  NoChunk

ASSUME StreamAssumption ==
  /\ Chunks \in Nat /\ ChunkQueue \in Nat \ {0}
  /\ NoChunk \notin [of : Streams, n : 1 .. Chunks]

VARIABLES
  trip,        (* RoundTrip, then the body it answered with                *)
  registered,  (* providerStreams.streams                                  *)
  queue,       (* providerStream.queue                                     *)
  done,        (* providerStream.done, a channel with room for one         *)
  pump,        (* where each stream's pump is                              *)
  hold,        (* the chunk it has taken and is writing                    *)
  pipeEnd,     (* how the writer closed the pipe                           *)
  unread,      (* the reader closed the pipe                               *)
  got,         (* what the model client has read                           *)
  loop,        (* the chunk the read loop is putting in a queue            *)
  toScreen, toEngine,
  asked,       (* where the screen's open and stream are with each request *)
  owed,        (* the answer open has still to send                        *)
  sent,        (* pieces of the body the screen has read                   *)
  cancelled,   (* the streams whose context is cancelled on the screen     *)
  down         (* the wire is gone                                         *)

engine == <<trip, registered, queue, done, pump, hold, pipeEnd, unread, got, loop>>
screen == <<asked, owed, sent, cancelled>>
vars == <<engine, toScreen, toEngine, screen, down>>

Ends == {"none", "clean", "error"}
Frames == [kind : {"open", "cancel", "head", "refusal"}, of : Streams]
            \cup [kind : {"chunk"}, of : Streams, n : 1 .. Chunks]
            \cup [kind : {"close"}, of : Streams, how : {"clean", "error"}]

TypeOK ==
  /\ trip \in [Streams -> {"idle", "opening", "failed", "body", "ended", "closing", "closed"}]
  /\ registered \subseteq Streams
  /\ queue \in [Streams -> Seq(1 .. Chunks)]
  /\ done \in [Streams -> Ends]
  /\ pump \in [Streams -> {"none", "select", "drain", "returned"}]
  /\ hold \in [Streams -> 0 .. Chunks]
  /\ pipeEnd \in [Streams -> Ends]
  /\ unread \subseteq Streams
  /\ got \in [Streams -> Seq(1 .. Chunks)]
  /\ loop \in [of : Streams, n : 1 .. Chunks] \cup {NoChunk}
  /\ toScreen \in Seq(Frames) /\ toEngine \in Seq(Frames)
  /\ asked \in [Streams -> {"none", "asked", "requesting", "streaming", "finished"}]
  /\ owed \in [Streams -> {"none", "head", "refusal"}]
  /\ sent \in [Streams -> 0 .. Chunks]
  /\ cancelled \subseteq Streams
  /\ down \in BOOLEAN

Init ==
  /\ trip = [s \in Streams |-> "idle"]
  /\ registered = {}
  /\ queue = [s \in Streams |-> <<>>]
  /\ done = [s \in Streams |-> "none"]
  /\ pump = [s \in Streams |-> "none"]
  /\ hold = [s \in Streams |-> 0]
  /\ pipeEnd = [s \in Streams |-> "none"]
  /\ unread = {}
  /\ got = [s \in Streams |-> <<>>]
  /\ loop = NoChunk
  /\ toScreen = <<>> /\ toEngine = <<>>
  /\ asked = [s \in Streams |-> "none"]
  /\ owed = [s \in Streams |-> "none"]
  /\ sent = [s \in Streams |-> 0]
  /\ cancelled = {}
  /\ down = FALSE

Frame(kind, s) == [kind |-> kind, of |-> s]

(* A frame for a wire that is gone goes nowhere.                           *)
Send(wire, frame) == IF down THEN wire ELSE Append(wire, frame)

Set(f, s, v) == [f EXCEPT ![s] = v]

-----------------------------------------------------------------------------
(* RoundTrip and the body.                                                 *)

(* The stream is registered and its pump runs before the screen is asked.  *)
RoundTrip(s) ==
  /\ trip[s] = "idle"
  /\ trip' = Set(trip, s, "opening")
  /\ registered' = registered \cup {s}
  /\ pump' = Set(pump, s, "select")
  /\ toScreen' = Send(toScreen, Frame("open", s))
  /\ UNCHANGED <<queue, done, hold, pipeEnd, unread, got, loop, toEngine, screen, down>>

(* What RoundTrip does with an error: nothing is sent to the screen.       *)
Fail(s) ==
  /\ trip' = Set(trip, s, "failed")
  /\ registered' = registered \ {s}
  /\ pipeEnd' = Set(pipeEnd, s, "error")

(* Stop, the budget for the head, or a wire that was lost.                 *)
GiveUp(s) ==
  /\ trip[s] = "opening"
  /\ Fail(s)
  /\ UNCHANGED <<queue, done, pump, hold, unread, got, loop, toScreen, toEngine, screen, down>>

(* Mutant: a body that is closed is forgotten and nobody is told.          *)
AbandonSilently(s) ==
  /\ trip[s] \in {"body", "ended"}
  /\ trip' = Set(trip, s, "closing")
  /\ registered' = registered \ {s}
  /\ UNCHANGED <<queue, done, pump, hold, pipeEnd, unread, got, loop, toScreen, toEngine,
                 screen, down>>

(* abandon: from the context's end or streamBody.Close, whichever is first; *)
(* a stream the screen has closed already is forgotten, and not cancelled. *)
Abandon(s) ==
  /\ trip[s] \in {"body", "ended"}
  /\ trip' = Set(trip, s, "closing")
  /\ registered' = registered \ {s}
  /\ toScreen' = IF s \in registered THEN Send(toScreen, Frame("cancel", s)) ELSE toScreen
  /\ UNCHANGED <<queue, done, pump, hold, pipeEnd, unread, got, loop, toEngine, screen, down>>

ClosePipe(s) ==
  /\ trip[s] = "closing"
  /\ trip' = Set(trip, s, "closed")
  /\ unread' = unread \cup {s}
  /\ UNCHANGED <<registered, queue, done, pump, hold, pipeEnd, got, loop, toScreen, toEngine,
                 screen, down>>

(* A read meets the pump's write, or the end of the pipe.                  *)
ReadChunk(s) ==
  /\ trip[s] = "body" /\ hold[s] # 0 /\ pipeEnd[s] = "none"
  /\ got' = Set(got, s, Append(got[s], hold[s]))
  /\ hold' = Set(hold, s, 0)
  /\ UNCHANGED <<trip, registered, queue, done, pump, pipeEnd, unread, loop, toScreen,
                 toEngine, screen, down>>

ReadEnd(s) ==
  /\ trip[s] = "body" /\ pipeEnd[s] # "none"
  /\ trip' = Set(trip, s, "ended")
  /\ UNCHANGED <<registered, queue, done, pump, hold, pipeEnd, unread, got, loop, toScreen,
                 toEngine, screen, down>>

-----------------------------------------------------------------------------
(* The engine's read loop.                                                 *)

Reads(kind, s) ==
  /\ ~down /\ loop = NoChunk
  /\ toEngine # <<>>
  /\ Head(toEngine).kind = kind /\ Head(toEngine).of = s
  /\ toEngine' = Tail(toEngine)
  /\ UNCHANGED <<queue, pump, hold, unread, got, toScreen, screen, down>>

(* The answer of provider.open, dropped when RoundTrip has given up.       *)
ReadHead(s) ==
  /\ Reads("head", s)
  /\ trip' = IF trip[s] = "opening" THEN Set(trip, s, "body") ELSE trip
  /\ UNCHANGED <<registered, done, pipeEnd, loop>>

ReadRefusal(s) ==
  /\ Reads("refusal", s)
  /\ IF trip[s] = "opening" THEN Fail(s) ELSE UNCHANGED <<trip, registered, pipeEnd>>
  /\ UNCHANGED <<done, loop>>

TakeChunk(s) ==
  /\ Reads("chunk", s)
  /\ loop' = IF s \in registered THEN [of |-> s, n |-> Head(toEngine).n] ELSE NoChunk
  /\ UNCHANGED <<trip, registered, done, pipeEnd>>

(* `st.queue <- p`: a full queue holds the read loop.                      *)
PutChunk ==
  /\ loop # NoChunk
  /\ Len(queue[loop.of]) < ChunkQueue
  /\ queue' = Set(queue, loop.of, Append(queue[loop.of], loop.n))
  /\ loop' = NoChunk
  /\ UNCHANGED <<trip, registered, done, pump, hold, pipeEnd, unread, got, toScreen, toEngine,
                 screen, down>>

ReadClose(s) ==
  /\ Reads("close", s)
  /\ IF s \in registered
       THEN /\ registered' = registered \ {s}
            /\ done' = Set(done, s, Head(toEngine).how)
       ELSE UNCHANGED <<registered, done>>
  /\ UNCHANGED <<trip, pipeEnd, loop>>

-----------------------------------------------------------------------------
(* pump.                                                                   *)

PumpTakes(s) ==
  /\ pump[s] \in {"select", "drain"} /\ hold[s] = 0
  /\ queue[s] # <<>>
  /\ hold' = Set(hold, s, Head(queue[s]))
  /\ queue' = Set(queue, s, Tail(queue[s]))
  /\ UNCHANGED <<trip, registered, done, pump, pipeEnd, unread, got, loop, toScreen, toEngine,
                 screen, down>>

(* The write fails: the pipe is closed at one end or the other.            *)
PumpStops(s) ==
  /\ hold[s] # 0 /\ (s \in unread \/ pipeEnd[s] # "none")
  /\ hold' = Set(hold, s, 0)
  /\ pump' = Set(pump, s, "returned")
  /\ UNCHANGED <<trip, registered, queue, done, pipeEnd, unread, got, loop, toScreen, toEngine,
                 screen, down>>

(* Mutant: the close is honoured ahead of what is queued.                  *)
PumpClosesAtOnce(s) ==
  /\ pump[s] = "select" /\ hold[s] = 0 /\ done[s] # "none"
  /\ pump' = Set(pump, s, "returned")
  /\ pipeEnd' = IF pipeEnd[s] = "none" THEN Set(pipeEnd, s, done[s]) ELSE pipeEnd
  /\ UNCHANGED <<trip, registered, queue, done, hold, unread, got, loop, toScreen, toEngine,
                 screen, down>>

PumpSeesDone(s) ==
  /\ pump[s] = "select" /\ hold[s] = 0 /\ done[s] # "none"
  /\ pump' = Set(pump, s, "drain")
  /\ UNCHANGED <<trip, registered, queue, done, hold, pipeEnd, unread, got, loop, toScreen,
                 toEngine, screen, down>>

(* Whatever was queued before the close has been written.                  *)
PumpCloses(s) ==
  /\ pump[s] = "drain" /\ hold[s] = 0 /\ queue[s] = <<>>
  /\ pump' = Set(pump, s, "returned")
  /\ pipeEnd' = IF pipeEnd[s] = "none" THEN Set(pipeEnd, s, done[s]) ELSE pipeEnd
  /\ UNCHANGED <<trip, registered, queue, done, hold, unread, got, loop, toScreen, toEngine,
                 screen, down>>

-----------------------------------------------------------------------------
(* The screen: open on a goroutine of its own, stream on another, cancel   *)
(* on its read loop.                                                       *)

Arrives(kind, s) ==
  /\ toScreen # <<>> /\ Head(toScreen) = Frame(kind, s)
  /\ toScreen' = Tail(toScreen)
  /\ UNCHANGED <<engine, toEngine, owed, sent, down>>

OpenArrives(s) ==
  /\ Arrives("open", s)
  /\ asked' = Set(asked, s, "asked")
  /\ UNCHANGED cancelled

(* A cancel for a request that is not in inflight is nothing.              *)
CancelArrives(s) ==
  /\ Arrives("cancel", s)
  /\ cancelled' = IF asked[s] \in {"requesting", "streaming"} THEN cancelled \cup {s} ELSE cancelled
  /\ UNCHANGED asked

ToInflight(s) ==
  /\ asked[s] = "asked"
  /\ asked' = Set(asked, s, "requesting")
  /\ UNCHANGED <<engine, toScreen, toEngine, owed, sent, cancelled, down>>

(* The provider's head is here: stream starts, and open has yet to answer. *)
HeadComes(s) ==
  /\ asked[s] = "requesting"
  /\ s \notin cancelled /\ ~down
  /\ asked' = Set(asked, s, "streaming")
  /\ owed' = Set(owed, s, "head")
  /\ UNCHANGED <<engine, toScreen, toEngine, sent, cancelled, down>>

(* Refused by the provider, out of time, withdrawn, or the wire is gone.   *)
RequestFails(s) ==
  /\ asked[s] = "requesting"
  /\ asked' = Set(asked, s, "finished")
  /\ owed' = Set(owed, s, "refusal")
  /\ UNCHANGED <<engine, toScreen, toEngine, sent, cancelled, down>>

AnswerOpen(s) ==
  /\ owed[s] # "none"
  /\ owed' = Set(owed, s, "none")
  /\ toEngine' = Send(toEngine, Frame(owed[s], s))
  /\ UNCHANGED <<engine, toScreen, asked, sent, cancelled, down>>

ForwardChunk(s) ==
  /\ asked[s] = "streaming"
  /\ s \notin cancelled /\ ~down
  /\ sent[s] < Chunks
  /\ sent' = Set(sent, s, sent[s] + 1)
  /\ toEngine' = Append(toEngine, [kind |-> "chunk", of |-> s, n |-> sent[s] + 1])
  /\ UNCHANGED <<engine, toScreen, asked, owed, cancelled, down>>

(* The body's end, or a read that failed; a Notify that fails ends stream. *)
EndStream(s, how) ==
  /\ asked[s] = "streaming"
  /\ how = "clean" => sent[s] = Chunks /\ s \notin cancelled
  /\ asked' = Set(asked, s, "finished")
  /\ toEngine' = Send(toEngine, [kind |-> "close", of |-> s, how |-> how])
  /\ UNCHANGED <<engine, toScreen, owed, sent, cancelled, down>>

(* The frames under way are lost, and with them every stream.              *)
WireEnds ==
  /\ ~down
  /\ down' = TRUE
  /\ toScreen' = <<>> /\ toEngine' = <<>>
  /\ UNCHANGED <<engine, screen>>

-----------------------------------------------------------------------------
Reader(s) == ReadChunk(s) \/ ReadEnd(s) \/ ClosePipe(s)

ReadLoop ==
  \/ \E s \in Streams : ReadHead(s) \/ ReadRefusal(s) \/ TakeChunk(s) \/ ReadClose(s)
  \/ PutChunk

Pump(s) == PumpTakes(s) \/ PumpStops(s) \/ PumpSeesDone(s) \/ PumpCloses(s)

ScreenLoop == \E s \in Streams : OpenArrives(s) \/ CancelArrives(s)

(* A request that was withdrawn, or whose wire is gone, fails in its next  *)
(* read; otherwise only the time for the head is bounded.                  *)
Withdrawal(s) == (s \in cancelled \/ down) /\ EndStream(s, "error")

Forwarder(s) ==
  ToInflight(s) \/ HeadComes(s) \/ RequestFails(s) \/ AnswerOpen(s) \/ Withdrawal(s)

Next ==
  \/ \E s \in Streams : RoundTrip(s) \/ GiveUp(s) \/ Abandon(s) \/ Reader(s)
  \/ ReadLoop
  \/ \E s \in Streams : Pump(s)
  \/ ScreenLoop
  \/ \E s \in Streams : Forwarder(s) \/ ForwardChunk(s)
  \/ \E s \in Streams, how \in {"clean", "error"} : EndStream(s, how)
  \/ WireEnds

Spec == Init /\ [][Next]_vars

-----------------------------------------------------------------------------
(***************************************************************************)
(* The engine reads what the provider sent, in its order, and a body that  *)
(* ends well is whole: across two goroutines of the screen, the wire, the  *)
(* queue and the pump, and for a body that was over before its head was    *)
(* answered ("the order the screen sent is the order the engine reads").   *)
(***************************************************************************)
BodyIsWhole ==
  \A s \in Streams :
    /\ got[s] = [i \in 1 .. Len(got[s]) |-> i]
    /\ trip[s] = "ended" /\ pipeEnd[s] = "clean" => Len(got[s]) = Chunks

(***************************************************************************)
(* Giving up on a body that has not ended reaches the screen, which lets   *)
(* the provider go: until then the word is on its way ("is told to the     *)
(* screen, which stops reading and lets the provider's socket go").        *)
(***************************************************************************)
ClosedBodyIsWithdrawn ==
  \A s \in Streams :
    trip[s] \in {"closing", "closed"} /\ ~down =>
      asked[s] = "finished" \/ s \in cancelled \/ Frame("cancel", s) \in Range(toScreen)
=============================================================================
