# Formal model of Aetox

TLA+ models of the concurrent core of Aetox: the register of background
delegations, the turns and dials of its chats, what is kept of a chat, the loop
of an agent with its tool calls, the wire between the window (the *screen*) and
the engine process, and the supervisor that keeps the two together. TLC checks
each model on small instances; for every model but `Client` on its own, the
properties that matter most are also proved with TLAPS for every value of the
constants.

`PROJECT.json` lists, machine-readably, the components, the runs, the line of
source behind every definition, the hazards the properties are aimed at and the
places where the code does something else than its comments say.

To check one model: `tlc -config <X>.cfg <module>`; to check the proofs:
`tlapm <M>Proofs.tla`.

## 1. The system

Aetox is a desktop assistant in two processes.

* The **window** (`src/desktop`, Go host and Svelte frontend) draws, holds the
  credentials and owns what only a desktop has (browser, screen, files picked
  by hand).
* The **engine** (`src/internal/engine` and what it uses) holds the chats: the
  conversation with the model, the tools, the delegates, the store.

One connection carries both directions: the frontend's bindings are calls to
the engine; the engine asks the screen back for tools that need a desktop and
for every request to a model provider, because the keys never leave the screen.

| Component | State it keeps | Operations | Hard behaviour | What makes it correct |
|---|---|---|---|---|
| Delegations (`internal/subagent`) | a register of tasks; a channel of slots; per task: queued, finished, stopped, the parked question, the answer channel | start, wait for a slot, work, ask the parent, answer, collect, the four Stop doors | every task is a goroutine; Stop races the slot, the finish and the question; a question may outlive its call's deadline | tokens are conserved, never more than the limit work, no question is lost or answered twice, Stop ends what it names, collect comes back |
| Turns, dials, chats (`internal/engine/app.go`, `conversation.go`) | the map of live turns; per chat: configuration, parked configuration, stance flag, engine; the chat on screen | send a message, Stop, the model and thinking dials, sign-in, MCP toggle, stance, open and leave chats | the window's calls run beside turns, and the rebuild of an engine is not under the lock that looked for a turn | one turn per chat, Stop reaches its turn, dials arrive, nothing parked is stranded, no engine is replaced under a turn |
| Sessions (`sessions.go`, `regenerate.go`, SQLite) | rows of sessions and messages; the transcript and the agent's memory of a chat that is held | open, append, fail, retry, answer again, edit and resend, switch an answer, load, delete, repair at launch | crash between question and answer; rewrites without a lock; chats opened and left under a turn | question and answer stay paired; a chat reopens as it was left; no answer is lost |
| Connection (`engine/rpc/conn.go`) | pending calls, a writer's queue, done | call, serve, close | a close at any point of a call, from four places | each call comes back once, with its own answer or an error |
| Engine's view of the screen (`screenpeer.go`, `server.go`) | the connection of the moment, a channel that is closed while there is one | attach, detach, wait, ask | a reconnect before the old wire is noticed lost | waiters hear of the next screen, a live screen is kept, a wait ends |
| Screen's client (`client.go`) | the wire of the moment, the channel of the next | connect, the wire's end, a binding's call | a new wire under a live one; the old one's goroutine comes late | as above, from the other side |
| Supervisor (`desktop/engine_local.go`) | child process, dialled engine, kick, switch, restarts | start, attach, watch, restart, switch | crash, dropped wire, buttons pressed at any step | never two engines on one store, a lost wire is noticed, the page is about the engine behind the wire |
| Provider stream (`provider_proxy.go`, `provider_forward.go`) | streams, a queue, a pump and a pipe each | round trip, chunks, end, close, withdraw | a body given up, cut off or ended before its head; one read loop for all of them | the body read is the body sent; what is given up is withdrawn |
| Agent loop (`cognitive/agent.go`, `memory/context.go`) | history, words typed under the turn, the calls of the last answer, budgets of retries | rounds, failures asked again, cut and leaked answers, parallel groups, summaries, Stop | words race the last round; a Stop in a group; a summary in the middle of a turn | every call has its result in its place, a word is delivered once, the reply is the answer, Stop ends the turn |
| Tool calls (`turn/executor.go`) | the register of calls in flight, by tool and arguments | begin or join, wait, answer, "still running" | work outlives its call, its turn, and a Stop | work the model was told runs is looked in on, not started twice |
| Background shells (`skill/shell_background.go`) | table of commands, their output rings | start, read, kill | the limit is checked before the command is added | limit respected, output not lost silently |
| Ask user (`ask_user.go`) | one answer channel per chat | ask, answer, give up | patience against a late answer | an answer goes to the question it was given for |

The remaining parts (providers, MCP, LSP, sign-in, configuration, media
conversion, browser and computer control, the frontend's drawing, updates,
tools of the release) are listed under `components` with the reason each is not
modelled: they are data, input and output, generated code, or belong to other
programs.

How the parts meet: a **turn** (TurnGate) writes its question and its end
into the **transcript** and runs the **agent loop** in between, whose **tool
calls** may start **delegations**; `CancelTurn`, `applyConfig` and letting go of a chat all stop
that chat's register (`StopAll` in Delegations). Provider requests of a turn
are **streams**, whose head is a call of a **connection**; a turn that needs the
screen waits in **ScreenPeer**; its other end is the **Client** that the
**Supervisor** connects.

## 2. Modules

| Module | Models | Kind |
|---|---|---|
| `JobPool` | what the pool of delegations promises: wait, work, end | abstract specification |
| `Delegations` | `subagent/runner.go`, `ask.go`, `task_result.go`, the deadline in `turn/executor.go` | component, implements `JobPool` |
| `DelegationsProofs` | | proofs |
| `TurnGate` | `engine/app.go` (turns and `applyConfig`), `conversation.go`, the dials in `sessions.go`, `stance.go`, `shutdown.go` | component |
| `TurnGateProofs` | | proofs |
| `Transcript` | the messages of a chat: `engine/sessions.go`, `regenerate.go`, the writes of `SendMessage` in `app.go` | component |
| `TranscriptProofs` | | proofs |
| `ToolCalls` | the calls of one answer and the register behind them: `turn/executor.go` | component |
| `AgentLoop` | `RespondWithTools` in `cognitive/agent.go` over `memory/context.go`, with `Interject`, Stop and the end of a turn in `engine/app.go`; EXTENDS `ToolCalls` | composition |
| `AgentLoopProofs` | | proofs |
| `RemoteCall` | what a call promises: it comes back once, answered only after its handler ran once | abstract specification |
| `Conn` | `rpc/conn.go` | component, implements `RemoteCall` |
| `ConnProofs` | | proofs |
| `ScreenPeer` | `rpc/screenpeer.go`, `accept` and `Serve` of `server.go` | component |
| `ScreenPeerProofs` | | proofs |
| `Client` | `rpc/client.go` | component |
| `Supervisor` | `desktop/engine_local.go`, `engine_remote.go`; EXTENDS `Client` | composition |
| `SupervisorProofs` | | proofs, of the client too |
| `ProviderStream` | `rpc/provider_proxy.go`, `provider_forward.go` | component |
| `ProviderStreamProofs` | | proofs |
| `MC*` | symmetry sets and constant values for TLC (`Conn`, `Delegations` and `Transcript` need none) | |

Definitions named *Mutant* in a comment are the plausible mistakes each property
was tried against; no specification uses them.

### Delegations

State: for each task how far its goroutine has come (`stage`), the fields of
`taskHandle` (`queued`, `output`, `stopped`, `parked`), its context, and for
each question where it is. The slots are a channel: a send on a full one queues
in the order of arrival and a receive hands its slot to the first in line, as
the Go runtime does. An action is one critical section, one channel operation
or one arm of a select. `Work` is whatever a delegate's turn comes back with.
`SlowAnswers` says whether a question may outlive the executor's
`toolExecutionTimeout`: time itself is not modelled.

### TurnGate

A *chat* is a session id and a *conversation* the object the process holds an
engine in. A *send* is one call of `SendMessage` from `a.cur()` to the end of
`endTurn`; a *door* is one call of a binding that rebuilds an engine; the
*loader* is `LoadSession` or `startNewSession` up to the end of
`showConversation`. A step ends where the code releases `turnMu` or the lock of
the conversations, so everything that can fall between a check and what was
decided by it does.

| Code | Actions |
|---|---|
| `SendMessage`, `runTurn` | `Capture`, `Begin` or `TurnBusy`, `OpenTurn`, `NotReady` or `Arm`, `Narrow`, `Return`, `AppendTurn` |
| `endTurn` | `EndTurn` (section under the lock), `Land` and `Swap` (its `applyConfig`), `Leave`, `LetGo` |
| `applyConfig` | `Apply` (check, park or claim), `Swap` (the rebuild) |
| dials, sign-in, name, MCP and connections | `PressDial`, `PressLevel` with `LevelWaits` or `LevelLive`, `PressRefresh`, `PressReload`, then `DoorApply` and `Swap` |
| `CancelTurn`, `stopEverything` | `CancelTurn`, `StopEverything`, both by `Halt` |
| `LoadSession`, `startNewSession` | `Attach`, `Reopen`, `NewChat`, `LoaderApply`, `Show`, `Outgoing`, `LetGo` |

A configuration is its model and its thinking level: provider, wire format and
address move with the model, the approval mode like the level. A door of kind
*refresh* starts from the configuration of the chat, one of kind *reload* from
the engine's template. With the press *keyless* a rebuild may leave no engine, as
it does with no key or no model (`Booted`): a message is then turned away
(`NotReady`), and the thinking dial goes through `applyConfig` (`LevelWaits`).

`Serial` is a hypothesis about whoever uses the window: one call of it has come back before
the next is made, a message counting up to its mark in `Engine.turns`. It is not
enforced anywhere: the frontend awaits each binding, but leaves the composer open
while `switchModel` is awaited (`cockpit.svelte.ts:1473`). Under `Serial` nothing is
asked of turns. Their work and their endings, which land a configuration, rebuild an
engine and let go of a chat, are on goroutines of their own and fall between any two
steps of a call, before it and after it (`Awaited`, `Calm`). Runs and theorems that
claim something only under `Serial` say so below.

History variables, which no guard reads: `pressed` (turns Stop was pressed on), `chosen`
(where each chat's dials were last put), `picked` (the models ever chosen in a
chat), and two that name the chats a property makes an exception of. Each property
is stated without the exception beside it, as the comment in the code has it, and
section 3 says how it fails:

* `crossed`: two configurations were in hand for the chat at once, for instance
  the one an ending turn is landing and the one a dial brings; or one was made
  beside a queued one it does not start from, which is what a key, a name or a
  toggled server does. `DialsArriveUncrossed` excepts these chats, `DialsArrive` does not.
* `dropped`: the chat was let go of late, by an ending that found it off screen when
  it looked and on screen or at work when it acted, or while a turn was landing a
  configuration in it. `HeldUnlessDropped`, `StrandedWasDropped` and
  `DialsArriveUncrossed` except these, `HeldWhileRunning` does not.

### Transcript

A message is who wrote it, the number of the turn that first asked the question
and, for an answer, of the turn that gave it: enough to see a question doubled,
an answer lost or put in another chat. Each of the three copies of a chat is a
sequence: `rows` in the store, `transcript` and `memory` in the conversation
that is held for it. Between two writes of one call lies a state of its own, so
the process may die there; `Launch` is what the next start does first
(`closeInterruptedTurns`).

| Code | Actions |
|---|---|
| `SendMessage`: `openTurn`, the answer, `appendTurn` or `appendFailedTurn`, `endTurn` | `SendMessage` and `OpenTurn`, `Finish`, `AppendTurn` or `AppendFailedTurn`, `EndTurn` |
| `RetryFailedTurn`, `ResendEdited`: `dropLastTurnRows`, `restoreContext`, then a message | `RetryFailedTurn`, `ResendEdited`, then `Resend` |
| `RegenerateReply` | `RegenerateReply`, `AskedAgain`, `StoreAgain` or `PanicAgain`, `FailAgain` |
| `SwitchVariant`, `LoadSession`, `startNewSession`, `DeleteSession` | `SwitchVariant`, `LoadSession`, `NewSession`, `DeleteSession`; `Attach` for a chat that works in the background |

`reached` is a history variable: the held chats a call has reached into while their
turn worked. There are two ways, and both are in the code: coming back to the chat
(`Attach` reads its rows, the question included, into the transcript its turn will
append to), and another chat's second answer that fails (`FailAgain` rebuilds the
memory of whatever chat is on screen). `AskedOnce` and `ThreeCopiesAgree` except these
chats, until they are opened anew; what the second way does to the question of the
turn is `StillAsked`, which fails (section 3).

### ToolCalls and AgentLoop

A *key* is a tool with its arguments, the name the executor's register goes by; a
*work* is one run of a tool. `ToolCalls` is the executor: a call at a place of
the answer joins the work in flight for its key or starts new work, waits, and
comes back with the work's end, with "still running" when the deadline passes,
or with an error when the turn is stopped. `told` is what the model was last
told still runs. Works nothing refers to any more are used again, so that the
instances need only as many as can be told apart.

`AgentLoop` adds the loop. `pc` says where a turn is: about to ask (`top`),
waiting for an answer (`asking`), waiting to ask again (`waiting`), running calls
(`running`), behind the loop (`ending`, `closing`) or none (`idle`). The branches
of the loop are actions of their own, in the order of the code: `AskAgain`
(dropped, empty, limited and overloaded answers differ only in their budgets),
`NudgeBlank`, `TooLong`, `Refused`, `PlainAnswer`; `Cut`, `Leaked`, `Blank`,
`KeptAlive`, `SentBack`, `Final`; `Truncated`, `Call`, then for each group of
calls `BeginGroup` or `DoomLoop`, the calls' own steps, and `Write` or
`WriteLast`. A message of the history is its role, the number of the answer it
belongs to and, for a result, its place.

### Conn, ScreenPeer, Client

`Conn` follows a call step by step, since each step is on another goroutine than
the close: the entry in `pending`, the look at `done`, the send to the writer,
the wait for one of three things. `BeginClose` to `CloseDone` are the four steps
of `closeWith`. The other end is what it does with a request.

`ScreenPeer` and `Client` are two ends of the same idea, a channel that is
closed while there is a wire and replaced when the wire goes. `ScreenPeer`
numbers its channels, `Client` tells only *current*, *closed* and *lost* apart.
`wedged` in `ScreenPeer` is a mutex held by a goroutine that has panicked under
it: `net/http` recovers the handler's panic and the process lives on.
`Patient` says that the engine notices the end of a wire before the screen dials
again, which is what a clean close gives and a dead network does not.

### Supervisor

The goroutine `run` over `Client`: spawn or attach, dial, `Hello`, the page's
reload on a switch, the select over the wire, the process, the kick and the
context, and the backoff. `SwitchAt` and `DropAt` bound the steps at which the
user may switch and a wire may drop, so that a run can exclude the window a
finding is about and check the rest. The bindings of the frontend run beside it,
so the properties of `Client` are checked under the supervisor that drives it.

### ProviderStream

One wire as two queues of frames, several streams on it. A chunk is its number,
so order, loss and doubling are visible. The model's outgoing queues have no
limit: the real ones hold 512 frames and the instances send fewer than ten.
Nothing outlives the wire but what the engine holds for a stream.

## 3. Runs

`CHECK_DEADLOCK FALSE` is set wherever the system may come to rest: every call
over, every delegate done, every turn that the bounds allow taken. `transcript`
checks for deadlock: a window can always open another chat. Runs without a
liveness property use the symmetry of interchangeable values; runs with one do
not.

### What holds

| Run | Shows | Bounds and why they do |
|---|---|---|
| `delegations` | tokens agree with the tasks that hold one, a stopped task is drawn as stopped, the register refines `JobPool`, what was stopped ends, what waits gets a slot | 2 tasks, 1 slot, a question nobody need answer and that may outlive its call: one works or is parked, one is in line, every Stop door falls anywhere. What a longer line adds is order, and the safety part is proved for any number |
| `delegations_questions` | no question is stranded, one answer per question, an accepted answer is heard, a collect comes back | 2 questions of one delegate, one parent that collects and answers, a declared run: the parent has to come back for each question. With two collects of one delegate under way at a time one may wait for ever, because a question handed to the other is no longer there to wake it: the run has one |
| `conn` | hand-over is safe, an answer finds its caller, refines `RemoteCall`, the close ends every call | 3 calls and room for one frame: one in the queue, one blocked, one on the wire |
| `screen` | waiters hear of the next screen, a live screen is kept, a wait ends | 2 screens, 2 requests, `Patient`: an old wire's goroutine comes late while the next screen is there |
| `supervisor` | one engine, the page is about the engine behind the wire, no binding is stranded | an own and an attached engine, 2 wires that are used again, a binding, 2 restarts a minute, wires that drop anywhere, switches while a wire is up |
| `provider` | bodies whole and in order, a body closed early is withdrawn | 2 streams on one wire, 2 chunks, a queue of one: it is full with one to come, and one stream holds the loop the other needs |
| `gate_turns` | one turn per chat, a Stop reaches its turn, nothing parked is stranded, a narrowed stance is rebuilt, every dial arrives where no two configurations met, a stopped turn ends | 1 chat, 2 messages (one may begin while the other ends), one door of any kind, 2 models, the app's close, nothing serialised, engines that a rebuild may not bring. A door beside two turns is what a check and its use are separated by, and model, level, key and server meet in one slot. The first two are also proved for any number of chats, the next two for one chat, as here. With one level only a model can be seen lost; the theorem treats both alike, for any number of chats, turns and doors |
| `gate_chats` | only a late letting go takes a working chat out of the map, only such a chat strands what was parked, and no chat runs on a model chosen in another | 2 chats opened and left, 2 turns (the second may begin in the chat whose first one ends), a door, 2 models, cancels, `Serial`; the history none of the three reads is left out of the states (`GateView`). 2 conversations: the third, in which a forgotten chat is opened beside its own turn, is left to the theorems, which have any number of all of these |
| `transcript` | rows are pairs, the memory a turn is answered from holds its question once and the three copies agree (but for chats that were *reached*), an answer given is kept (but for a second answer that comes off screen), a question that was asked comes to an end | all but the last also proved for any number of chats, turns and crashes; here 3 chats (on screen, at work in the background, opened meanwhile), 3 turns (asked, answered again or failed and retried, edited), 1 crash between any two writes. A second crash finds what the first left, since `Launch` brings the store back to pairs |
| `agent_answers` | results stand behind their calls in order, each word has one place, the reply is the answer | all also proved; here 2 turns over 3 answers with 2 calls at most, a word typed at any moment, each budget once, a history that is to be summarised from its sixth message: a cut answer, its rest and a last one, or two rounds of calls and an answer |
| `agent_calls` | work the model was told still runs is kept, a stopped turn ends | 2 turns, 2 answers, both reads may outlast the deadline: the second answer finds the first one's work, in the same turn or in the next |

Each property of these runs is broken by a mutant of one definition, named in
`PROJECT.json`.

### Where the code does something else than it says

`screen_reconnect` ends in a counterexample; the finding in `PROJECT.json`
quotes the comment and names the line. A second screen comes before the first
was noticed gone: `attach` closes a closed channel and panics under its lock, and
two screens are open. After that every request waits on the lock, past its
timeout and its Stop (`WaitEnds` fails with `Patient = FALSE`).

Four more properties are stated in the modules as a comment of the code has
them, and fail. Each is one line of a `.cfg` away from its counterexample:

| Property | Said at | Fails | What happens |
|---|---|---|---|
| `DialsArrive` | "Two dials moved during one turn are two decisions, and both have to arrive" (`app.go:3155`), and the comment of `SwitchThinkLevel` at 4276 | INVARIANT of `gate_turns`; also with `Serial = TRUE` and the presses *dial* and *level* alone | `endTurn` empties the slot under the lock (`app.go:2300`) and rebuilds outside it; `conv.cfg` is written only at 4812. A model or level put in between starts from the old configuration, and the landing and the dial overwrite one another. One call of the window at a time is enough |
| `NoSwapUnderTurn` | "Never under a turn in flight" (`app.go:4617`) | PROPERTY of `gate_turns`, with `Serial` too | `applyConfig` looks at `Engine.turns` under the lock and rebuilds after it. A message sent while the ending of the turn before it rebuilds begins a turn on the engine that is then replaced under it |
| `HeldWhileRunning` | "A conversation stays here while its turn runs" (`conversation.go:311`) | INVARIANT of `gate_chats` | A turn that ends off screen decides to let go of its chat (`app.go:2341`) and then does, without asking again whether the chat is on screen or at work: a turn that began meanwhile works in a conversation the map has forgotten |
| `StillAsked` | "only after restoreContext had already rewritten the memory the running turn is thinking with" (`regenerate.go:63`, and 217) | INVARIANT of `transcript` | A second answer fails while another chat is on screen: `restoreContext(a.cur(), ...)` (`regenerate.go:149`) rebuilds the memory a turn is at work with there, and its question is gone from it |

The first three need no two calls of the window at once, and the last one only a
second answer, which is minutes of work beside the window's other calls. What the
code keeps of three of them is checked, and proved, with the exception named:
`DialsArriveUncrossed`; `HeldUnlessDropped` and `StrandedWasDropped`; `AskedOnce`. Of
`NoSwapUnderTurn` nothing is left that would be more than the guard of `Apply`.

What follows was met while modelling and has no run of its own. Most is in the
steps of a model and left out by the bounds of its run, so that it is one change
of a `.cfg` or of a property away; the rest was read in the code beside it. Where
a comment is contradicted, both lines are given.

* `Supervisor`: a wire that goes between `Hello` and the select is never noticed,
  because `Done` is then a new channel (`engine_local.go:293`, against the comment
  at 573). A switch on the way to a wire reloads the page from the engine before
  it (`StoresMatchTheEngine` with `SwitchAt <- AnyTime`). A kick during the backoff
  waits for the next engine and stops that one (`engine_local.go:317`).
* `ProviderStream`: closing a body whose queue is full leaves the connection's
  only read loop waiting for good (`provider_proxy.go:154`, against the comment at
  100), and with an empty queue its pump. A request given up before its head is
  never withdrawn (`provider_proxy.go:260`).
* `Delegations`: a question that was posted, not collected, and voided by Stop
  still takes an answer. Past the executor's deadline a delegate can be in two
  `ask` calls, and the end of one hides the other. `StopQueued` stops a task
  admitted after it was listed, and a task that succeeds between Stop's look and
  its mark is shown stopped and successful (`runner.go:763`).
* `TurnGate`: a name typed or a key saved parks the running configuration over a
  queued switch, which is gone (`crossed`). Toggling a server
  rebuilds the chat from the template, with the model of another chat
  (`OwnDials` with *reload*). A chat that is left while its parked dials land is let
  go of: the landing goes into a conversation the map has forgotten, the chat comes
  back from its row without the dials, and a turn begun in it meanwhile can leave
  the configuration parked where nobody will land it (`NothingStranded` as an
  invariant of `gate_chats`). `CancelPendingModel` drops a rebuild that a narrowed
  stance was waiting for (`StanceIsRebuilt` with *cancel*, `app.go:3208`). A dial
  that moved after the last answer is on no row and is gone when the chat is
  reopened (`sessions.go:1107`).
* `Transcript`: a second answer that comes back after its row has moved is lost, or
  panics on the index it looked up before (`regenerate.go:148`, against the
  comment at 100). Coming back to a chat at work reads its question a second time
  into the transcript (`reached`). A crash between `dropLastTurnRows` and
  `openTurn` loses the question that was to be asked again. When the write of
  `openTurn` fails and the turn does too, the answer's row stands alone.
  `restoreContext` does not use the conversation it is given.
* `AgentLoop`, `ToolCalls`: a Stop between two groups of calls starts the first
  tool of the next group (`agent.go:1131`, against the comment on `CancelTurn`), and
  leaves the calls behind it, like the doom-loop guard, without a result
  (`agent.go:1127`); the next turn's request carries them so. With three equal calls in
  flight the end of one takes another's entry off the register
  (`executor.go:2004`). A parked result whose turn has ended answers the next
  identical call of a later one. An answer the goal's checker sends back is added
  twice (`agent.go:860` and 925). A cut answer whose rest leaks a tool call loses
  its first half. A word typed as the agent is replaced by `applyConfig` stays in
  the one that goes. `dropOldestTurn` (`memory/context.go:146`) may leave results
  whose calls are gone, and a summary may cut into the turn it is made for.
* Background shells (not modelled): the limit is checked before the lock under which the shell
  is added (`shell_background.go:130`).

### Fairness

Fairness is stated per goroutine: a goroutine whose next step stays possible
takes it, which the Go scheduler gives. Nothing is assumed of a person: no
press, answer, switch, dial or message is fair, and neither is a crash or a
drop of a wire. What is assumed beyond weak fairness of a goroutine's steps:

* `Delegations`: strong fairness of a delegate's work coming to an end, because
  the delegate goes in and out of questions in which it cannot end; a turn has a
  limit of rounds.
* `TurnGate`: a turn ends by itself only when its context is over (`Return` of a
  cancelled turn); an uncancelled one may work for ever. Calls under way finish.
* `Transcript`: a turn that runs comes back, with an answer or without one; a
  retry that has dropped the old rows goes on to ask; a process that died is
  started again.
* `AgentLoop`: only the steps of a stopped turn are fair, and of no tool is it
  assumed that its work ends. That is what makes `StoppedTurnEnds` say something:
  a stopped turn leaves its calls behind.
* `Conn`: the loops read and write as long as their socket is open.
* `ScreenPeer`: the steps of each wire's goroutine, and the timer of a wait.

## 4. Proofs

Every theorem holds for all values of the constants under the named assumption
of its module (distinctness of the null values and of the kinds of callers,
limits greater than zero), which TLC evaluates on every run; where a theorem has
a hypothesis of its own, it is named below. No step is left out. There are eight
modules of proofs.

* **Delegations.** `Typing`; then `Agreement` (the fields agree with how far the
  goroutine is), which the other results rest on because Stop writes fields of a
  task whose goroutine is anywhere; `SlotsAccounted`: the tokens out are those of
  the tasks that hold one, the conservation law, inductive only with the order of
  the line; `WorkingBounded` follows by cardinality; `StoppedIsDrawnAsStopped`;
  and `Implementation`, the refinement of `JobPool`, step by step. The questions:
  `OneAnswerEach` for every setting (`OnePlace`: a question is in the channel, in
  one hand or pending, and a hand is full exactly between a receive and `setAsk`);
  `NoQuestionIsLost` and `AnswersAreHeard` for `~SlowAnswers`, from `OneAsk`: a
  delegate that was not cancelled is in one question, so what `setAsk` overwrites
  was given up. With slow answers two collectors can overwrite a live question,
  which is why the hypothesis is there.
* **TurnGate.** `GateTyping` carries what the types alone would not: a call past
  its first step holds a conversation that a chat owns, and one that is about to
  apply a configuration has one. `GateInvariants` proves `OneTurn /\ StopInv`
  together. `OneTurn` by itself is inductive once a turn's conversation cannot be
  given to another chat (`Born` takes an object nobody refers to). `StopReaches`
  is not inductive: `StopInv` adds that a turn not yet armed keeps its Stop in
  `stopEarly`, that a working one has its cancel function installed (which needs
  `OneTurn`: `armTurnCancel` found its own entry), and that a turn not in flight
  has left no mark for the next. The steps that are no part of a turn's flight
  are treated once, in `AsideIsAside`. Four results have `Serial` as a hypothesis, and
  endings of turns that fall between any two steps of a call. `SerialInv` is what is
  kept then: one call of the window is under way (`OneAwaited`), the map names
  conversations under their own chat (`Named`), a message on its way in and a door are
  in the chat on screen (`OnDesk`), the conversation on screen and those turns work or
  land in are in the map unless dropped (`Kept`), the chat that is opened is held by
  the object in hand or by none, and the one that is let go of by the loader has no
  turn (`Opening`), and what is parked waits for a turn unless its chat was dropped
  (`Parked`). It is inductive with the types and `OneTurn`; `HeldUnlessDropped` and
  `StrandedWasDropped` follow from two of its parts. `AsPicked` says of the models in a
  chat, parked, carried and on a row that they were chosen in the chat they are for
  (`GateOwnDials`, without the presses *reload*). `TidyInv` says of each chat that was
  neither crossed nor dropped (`Tidy`; together, `Touched`): one configuration at most is on its way to it,
  which is what its dials were last put at; with none on its way, what is parked is, or
  else what it runs on; and where an engine is about to be rebuilt nothing is parked
  behind it. `GateDialsArriveUncrossed` follows (without *reload*: with several
  chats the template is another chat's).
  The presses left out are those section 3 shows to break them. When calls overlap as they
  like, two results are left in a window of one chat (`StaysOpen`): nothing parked is stranded
  (`OneDesk`: every call works in the conversation on screen, so what is parked in
  the section that found a turn is taken by that turn's `EndTurn`), and a stance is
  rebuilt (`StanceDue`: a stale engine is in the hands of a call about to rebuild, or at
  work with a mark or a parked configuration that its turn's end will find; a door
  that parks cannot take it away, `CancelPendingModel` can, which is why that press is
  left out).
* **Transcript.** `TranscriptTyping` and `PairsInTheStore`: `RowsArePairs` needs
  `Flags`, what the turns and the resend under way say of the rows they are about to
  write behind, and that a crash leaves at most one question open per chat, which
  `Launch` closes. `CopiesAgree`, `AskedOnceUnlessReached` (its name says the
  exception: the chats in `reached`, section 2) and `AnswersAreNotLost` rest on
  `CopiesInv`: for every chat, what each copy holds at each stage of the turn or the
  second answer under way. `ThreeCopiesAgree` speaks of chats at rest only and is far
  from inductive; `Agreed` adds what a call still owes: the rows are the transcript
  with the question and the ending the turn is about to append (`Followed`), the
  answers in memory are those of the transcript without the pair that is asked again
  (`Remembered`), and between the halves of a retry the question is nowhere
  (`Resent`). The memory is made from the transcript by a loop, `Selected`. What it
  returns is proved all the same: were it wrong at some position, there would be a
  least one (`LeastNatural`), and the step before it was right.
* **AgentLoop.** Six results over one state. `WordsKept` (`WordInv`): the words split
  over the buffer and the three places they may go, in order. `ParkedStays`
  (`ParkInv` on `CallInv`): what the model was told still runs is in the register; its
  hypothesis `DistinctCalls`, that no answer makes the same call twice, is needed
  because the register goes by key and the end of one equal call forgets another's
  entry. `ResultsInOrder` (`HistInv`): every result stands behind its answer
  (`Owned`), an answer that is done has all its results (`Whole`), and while calls run
  the last answer has those of the groups before (`Open`). A summary keeps a suffix
  that begins at a user message, so it cuts no answer from its results; that
  `Boundary` has a least or greatest element to choose needs well-founded
  induction. `TheAnswerIsShown` (`AnswerInv`): the pieces carried are consecutive
  answers, each joined to the next by a *more* and quiet words of the person
  (`Chained`), the next answer would be the rest of the last one (`Awaited`), and with
  nothing carried it would be nobody's rest (`Unjoined`); a summary cuts only the
  head of such a chain. `LoopTyping` needs the others, because that a group ends
  inside its list of calls is a fact about the loop, not a type. Last, what
  `StoppedTurnEnds` rests on: under Stop every step of the loop makes `Distance`
  smaller and nothing makes it larger (`StopBringsTheEnd`), it is never more than
  `6 + 4 * MaxCalls` (`StopIsNear`), and a stopped turn always has a step to take
  (`StoppedIsNeverStuck`, whose `Goes` spells out the guards; `Room` counts the works
  something refers to, so that a call that is due finds one that is free: the bound
  on `Works` never stops the model where the code goes on). With weak fairness
  these give the end of the turn; that last inference is left to TLC.
* **Conn.** `ConnTyping`, `HandOverSafe`, `NothingLeft`, `CallerIsFound`,
  `ConnImplementsRemoteCall`. The core is that of the read loop and the close
  whichever removes the entry owns the channel.
* **ScreenPeer.** `PeerTyping`, `ChannelIsTrue`, `WaitersAreHeard`, and
  `LiveScreenStays` under `Patient`.
* **Supervisor** and its client. `SupervisorTyping` with `Grounded` (a process that
  runs is an engine; between the permission to start and the note of a restart
  there is room for one more). `NeverTwoEngines`: inductive as it stands, since
  every way out of the steps at which an engine runs stops it or has seen it exit.
  `WaitersAreReached`: no channel is ever replaced while open, whichever wire goes.
  `StoresFollow`, for switches while a wire is up (`SwitchAt \subseteq {"live"}`):
  five engines are named (the one asked for, spawned, running, behind the wire, on
  the page) and `Told` says which of them agree at each step, until the next
  switch, and that a switch not heard of yet has a kick on the way.
* **ProviderStream.** `StreamTyping`; `Handshake` (a request is asked for once, a
  head and a close under way say what the screen has done, what has not begun has
  left no trace), which both results rest on. `ClosedIsWithdrawn`: a stream that was
  forgotten by its close is one the screen is through with, and a cancel under way
  finds its request in flight or over. `BodyArrivesWhole` (`Body`): a chunk goes
  through five places (wire, read loop, queue, pump, reader) and each holds the
  numbers that follow those before; a close lies behind all chunks of its stream, and a
  clean one behind all that there are.

Proved and in no run of their own: the types of every module, `FieldsAgree`,
`NoIdleSlot` and `AtMostMaxWorking` of `Delegations`, `NoEntryLeft` of `Conn`,
`ChannelTellsTheScreen` of `ScreenPeer`, and `StopCountsDown`, the
bound of `Distance` and `Goes` of `AgentLoop` (TLC found the first to hold on
`agent_calls` before it was proved).

Only model-checked: the liveness properties, since fairness and ENABLED are beyond
the prover (`StopEnds`, `LineMoves` and `CollectReturns` of `Delegations`,
`CloseEndsCalls`, `WaitEnds`, `StoppedEnds`, `QuestionsEnd`, `StoppedTurnEnds`); and
`NothingStranded` and `StanceIsRebuilt` are proved, and claimed, for one chat;
section 3 says how the first fails with several. `OneScreen` and the four properties
of section 3 that fail are no theorems. Every other property that a run finds to hold
is stated by one.

## 5. What is not modelled

* Time: a timeout is a step that may come at any moment.
* The contents of messages, prompts, reports and frames.
* The Go memory model: shared fields read without a lock are read at once. The
  unlocked reads of `conv.cfg` in the doors are atomic reads here.
* Writes that SQLite or the file system refuses: a statement is done, or the
  process died before it.
* In `TurnGate`: `SetStance`'s own refusal during a turn (its rebuild is the door
  *reload*), the desk's change (`setStation`), `handoff`, the workspace's reload
  at a turn's end (a press of *reload* by the turn), and the retry and the second
  answer, which are further callers of `beginTurn`: `Transcript` has them. An engine
  that falls back to the built-in provider is a built one.
* In `Transcript`: one call of the window at a time beside the turns, one
  conversation per chat (the objects are `TurnGate`'s), the row a handed-over chat
  begins with, titles, searches, branches and pins. A retry is taken where the
  window offers it, under a failed answer at the tail; so is a second answer, under one that
  did not fail (`Chat.svelte:2161` and 2169): `lastQuestion` (`regenerate.go:252`) does
  not look at that.
* In `AgentLoop`: the character budget and `dropOldestTurn`, the shrinking of old
  results, the bytes of pictures, usage. The kinds of failed requests that walk the
  same steps with other budgets are one element of `Troubles`. Not among them are the retry
  after a model has refused its pictures (`agent.go:719`), whose steps are those of a
  budget of one, and the fallback to a request without tools. `HandBack` always
  empties the buffer: a message addressed to a program or answered without the loop
  returns before that (`app.go:2618`-2636), with no loop under it to drain words into. A summary is one
  step with what follows it. An empty answer the loop falls back on is an answer
  that says little.
* In `ToolCalls`: tools that have no deadline, approval and hooks, which are a wait
  inside one call.
* In `ProviderStream`: the arrival of a head and the look at the connection that
  follows it (`provider_forward.go:104`) are one step; in the code the wire may go, or be
  replaced, in between.
* In `Supervisor`: starting an engine on another machine, and status texts.
* The second door of `Delegations`, a declared run, is a number and a member list.
* Background shells: a table under one lock, but for the limit above; what is left
  is reading and killing processes.
* Questions to the person (`ask_user.go`): one answer channel with a clock and the
  turn's context, inside one tool call. A delegate's questions, which have a
  register and a race of their own, are in `Delegations`.
* Goal and plan runs: prompts and records of one goroutine above the loop; the
  goal's checker is a step of `AgentLoop` (`SentBack`).
* What is left of the tree is data, rendering, input and output, generated code or
  the work of other programs, and is listed with its reason under `components`.
  It is by far the larger part of the lines: the map covers the control of the
  engine's core, not a share of the whole.

## 6. Plan

Written, in this order: `JobPool`, `Delegations` and its proofs; `RemoteCall`,
`Conn` and its proofs; `ScreenPeer` and its proofs; `Client`; `Supervisor` and its
proofs; `ProviderStream` and its proofs; `TurnGate` and its proofs; `Transcript` and
its proofs; `ToolCalls`, `AgentLoop` and its proofs.

What would come next, by what it would add:

1. For the other liveness properties what `AgentLoop` has for its own: a distance to
   the end that the fair steps make smaller, and the proof that there always is such
   a step. `StoppedEnds` of `TurnGate` and `CloseEndsCalls` of `Conn` come first;
   `LineMoves` needs the order of the line.
2. `Supervisor` composed with `ScreenPeer`: both ends of one reconnect, which would
   show how long the engine's panic and the window's unnoticed wire last together.
3. `AskUser`, if it grows a register of questions.
