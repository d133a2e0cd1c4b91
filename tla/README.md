# Verification of iyon

TLA+ specifications of iyon's agent, its tools, its providers and its plugin
host, the TLC configurations that check them on small instances, and theorems
about them that TLAPS proves for every value of the constants.  Paths are
relative to the repository, and shortened to the part that identifies a file.

## The system: inventory

iyon is an agent application: a Rust core (crates `iyon-core`, `iyon-api`,
`iyon-core-native`) under a TypeScript application of plugins run by Bun.

| Component | State it keeps | Operations | Hard behaviour | What makes it correct | Modelled in |
| --- | --- | --- | --- | --- | --- |
| Core runtime (`iyon-core/src/runtime.rs`, `handle.rs`) | session, active turn, steering queue, id counters | commands from the handle; reports of turn tasks | submissions racing the end of a turn, interrupts, teardown | one loop at a time, nothing submitted lost or reordered, every turn reported | `CoreRuntime` |
| Agent loop (`agent/loop.rs`, `turn.rs`) | its clone of the session, messages produced | one iteration per model reply, steers at boundaries, tool calls | the same, from the other side; failures | transcript = committed session + produced messages | `CoreRuntime`, `CoreTools` |
| Model turn and assembler (`kernel/model_turn.rs`, `agent/tool_call.rs`) | buffers of one reply, its calls | stream events, finish, cancel, fail | order of flushes, cancellation in the middle of a block | content in stream order, each call once | `ReplyStream`, `AgentRun` |
| Model providers (`iyon-api/src/providers`, their Bun packages) | parser state | requests with retries, parsing of the stream | streams cut off, calls whose name comes late, retries of an aborted request | the reply committed is the reply streamed | `ReplyStream` |
| Tool execution of the core (`agent/tool_execution.rs`, `tools/hooks.rs`) | next approval id | hooks, approval, execute, result | approvals racing cancellation; stale approvals | no tool runs without the decision it needs | `CoreTools` |
| Tool lifecycle and approvals (`kernel/tool.rs`, `approval.rs`, `packages/iyon-runtime`) | phase, pending approval | prepare, start, approve, finish, fail, cancel; the broker | decisions, aborts, throws and exit racing | phases only advance; one decision per request | `ToolCalls` |
| Kernel queues and session (`kernel/queue.rs`, `session.rs`) | bounded queues, entries, next ids | enqueue, drain, append | limits, explicit against allocated ids | FIFO, ids unique | `AgentRun` |
| Native bindings (`iyon-core-native`) | handles, event queues, cancellation flags | calls from JavaScript on threads of tokio | cancels nobody awaits; full queues; a handle closed under a call | a reply is committed once; close ends every call and cuts off no event | `AgentRun`, `ToolCalls`, `EventQueue`, `ReplyStream` |
| Agent plugin (`plugins/agents/iyon`) | queued steers, continuation | the product's loop over the native kernel | the same races as the core loop | transcript accepted by a provider | `AgentRun`, `ToolCalls` |
| App plugin (`plugins/app/iyon`) | view state, pending actions | actions, backend events | events and actions interleaved by awaits | state follows the backend | `AgentRun`, `ToolCalls`, `Bootstrap` |
| Plugin loader (`packages/iyon-plugins`) | registries, layers, disposables | activate, register, look up, dispose, unload | failure half-way through activation; layers that leave in any order | a failed plugin leaves nothing behind | `Plugins` |
| Command line (`packages/iyon-cli`) | context, cleanup | bootstrap, run, clean up | failure during start-up; unloads that throw | everything acquired is released, a run still going told to end | `Bootstrap` |
| File tools (`edit`, `write`, `file_mutation_queue.rs`, `mutations.ts`) | a queue per path | take a turn, read, edit, write | two calls on one file; aborts and failures in a turn | no update lost, edits exact | `FileTools` |
| Bash tool (`bash.rs`, `bash/src/execute.ts`, `output.rs`) | pipes, rolling buffer, log | read, trim, stop, return | output racing the exit and the stop | output in order, tail of what was taken kept, the call ends | `ShellTool` |
| Search tools of the core (`find.rs`, `grep.rs`, `process.rs`) | what two tasks have read | run a program, join, show its lines | output racing the exit and the stop; limits | no result is left out or cut without a notice | `ShellTool` |
| Read and list tools; SDK and developer tools | none | | | | not modelled |

The core's handle sends commands to the runtime over a bounded channel and reads
events from another.  Per turn the runtime spawns one task that runs the agent
loop on a clone of the session; the two share the steering queue (a mutex), a
cancellation token, a control channel, and a channel on which the task reports
its outcome, which the runtime commits.

The product does not use that runtime: its command line bootstraps the plugins,
gives the app plugin a native session, and the app starts the agent plugin's
`run` on it, which streams replies of a provider plugin into the native model
turn and executes the calls of a reply through the runtime package.

## Modules

| Module | What it is |
| --- | --- |
| `CoreRuntime` | `run` of runtime.rs and the agent loop it spawns, with everything they share |
| `MCCoreRuntime` | the sets its configurations name |
| `CoreRuntimeProofs` | types, ownership of turns, transcripts, delivery of submissions, and the brackets in the log |
| `AgentRun` | the product's own loop: app plugin, agent plugin and native session |
| `AgentRunProofs` | its inductive invariant; ids, replies, prompts and steers |
| `ToolPromise` | what the tool phase of a reply promises: the abstract specification of the next two |
| `ToolCalls` | the product's tool phase: agent plugin, `executeTool`, lifecycle handle, approval broker, app |
| `ToolCallsProofs` | its inductive invariant; it implements `ToolPromise`; answers and prompts |
| `CoreTools` | the core loop's own tool phase, which implements `ToolPromise` too |
| `CoreToolsProofs` | its inductive invariant; it implements `ToolPromise`; what the consumer is told |
| `ReplyStream` | one reply from the request to the tool phase: providers, parsers, drivers, kernel turn |
| `EventQueue` | the native handles JavaScript waits on, and how closing one ends the calls that wait |
| `ReplyStreamProofs` | the two assemblers of a reply, its calls, what the consumer is shown of it; and the channel of `EventQueue` on which it is shown |
| `Plugins` | the plugin loader and its layered registries, a component without a Next of its own |
| `Bootstrap`, `MCBootstrap` | one command of the CLI over `Plugins`, and its instance |
| `BootstrapProofs` | the invariant of loader and registries, and what a command releases |
| `FileTools`, `MCFileTools` | edit and write over their queues, and its instance |
| `FileToolsProofs` | the turns on a path, that no update is lost, and that edits are exact |
| `ShellTool`, `MCShellTool` | the bash tool of the plugin and of the core, the core's searches, and its instance |
| `ShellToolProofs` | the order of its output, that a call outlives its child, and that what is cut from what it took is told |

In every module a definition that no action uses (`SettleOnlyLive`,
`AnyDecision`, `MatchingById`, ...) is the definition that follows it with a
plausible mistake.  PROJECT.json pairs each with the property that TLC finds
violated when it takes the place of the right one.

### CoreRuntime

State.  `commands` is the command channel; `log` the events the consumer's
channel accepted; `rt` the await at which `run` stands; `active`, `settling`,
`running`, `session`, `steering` and the counters are RuntimeState; `cancelled`,
`aborting`, `control` are the parts of ActiveTurn; `loop` is the await at which
the turn's task stands ("gone" when its JoinHandle is finished); `context`,
`produced`, `loopNextId`, `calls` are the locals of `run_agent_loop_inner`;
`done` is the TurnTaskFinished channel.  `discarded` is history: the texts that
a failed turn dropped.

Atomicity.  An action runs from one await at which the other task can
interfere to the next.  SubmitTurn is RecvSubmit (the `is_steerable` check),
then PushSteer and AnnounceSteer, or SettleReport and BeginTurn.  A turn's
MessageStarted, MessageDelta and MessageFinished are one event; the events of a
streamed reply and of tool calls are not recorded.  BeginTurn is one action
because no other task runs then: there is no loop, and a sender can only
append to `commands`.

Data.  A text is its submission number.  A reply is reduced to its stop reason
and the number of tool calls it holds, a message to its role, id, text and
number of calls.  `run` hands its loop an empty ToolRegistry, so a tool call is
answered by an error result and no approval is ever pending; a loop with tools
is `CoreTools`.

### AgentRun

State.  `session` is SessionState of core.rs: the prompt and steer queues, the
entries with their ids, the next ids and the event channel; `turn` the native
ModelTurn and `sending` the events its current call has not yet sent;
`cancels` the cancel() calls an abort listener made (abort.ts does not await
them); `run` the await at which `IyonAgent.run` or a native call on its behalf
stands, "failed" between its rejection and the moment the app clears
`activeAgentRun`; `ui` what of IyonState decides whether a submission is a
prompt or a steer; `handler` the submission that `handleAction` is suspended in
while the composer is cleared, with the state it was given; `batch` the events
the bridge has taken.  `prompted`, `steered` and `ended` are history.

Atomicity.  JavaScript runs to its next await on something outside JavaScript,
so an action is one such block: PromptAccepted enqueues the prompt and, when
the app has no run, starts one, drains, delivers and begins a turn.  The native
async calls are split where another thread can interfere: each send of an
event, and the two locks of a cancel that the run does not await.  The events a
call sends without waiting are sent in its step.

Data.  A text is its submission number (so texts are distinct), a reply has at
most one text delta and one tool call, tools ask for no approval (`ToolCalls`
has them), and "length" stands with "stop", "aborted" with "error".
activeTurn and working, which these events change together, are one flag.

### ToolPromise, ToolCalls, CoreTools

`ToolPromise` says what both programs owe the user: calls are taken in the
model's order and one at a time, a tool that must ask works only after its own
request was granted, nothing starts to work once the run is stopped, and what
became of a call is never revised.

`ToolCalls`.  `handle` holds the ToolLifecycleHandle of each call (kernel/tool.rs),
`at` and `call` the place of executeRequestedTools and of executeTool, `pending`
the ApprovalBroker's requests, `answered` the results in the session, `events`
the session's channel and `ui` the app's cards and prompt, which lag behind it.
`leaving` follows the exit of the application, which rejects, aborts and closes
in steps.  Under the refinement a call's state is read off its handle, granted
calls are those whose approval is "approved", and `stopped` is the abort signal.

`CoreTools`.  `at`, `call` and `hook` are the place of execute_tool_requests and
execute_tool_call, `control` the turn's control channel with its sender `owned`,
`answers` the tool messages pushed, `log` the events.  `fate` and `granted` are
history and carry the refinement.  The core makes no promise to stop by itself
(`stopped` is FALSE): a cancelled turn still works through calls that do not ask.
`FirstApproval` above 1 stands for requests of an earlier turn, whose decisions
may still be in the channel.

### ReplyStream

The server's frames are chosen freely within what the two wire protocols allow;
`block`, `tools` and `stopSeen` are the parser, `pending` the events a frame
yielded, `content`, `buffer`, `calls` and `turnStop` the kernel's model turn,
`observed` the agent plugin's own assembler, and `shown` what the consumer was
sent.  `provider` and `driver` are fixed by Init, so that one run covers codex
and openrouter through `run_model_turn` and through `runProviderTurn`.  A frame
is read when everything the previous one yielded was taken, as the parsers are
lazy.  A text delta is a number; the arguments of a call are counted in
fragments and "parse" when all have arrived.  `Request` is what the committed
reply and the outputs of its calls become in the next request: codex keeps the
blocks of a reply in order, openrouter makes one message of them, with the text
first; neither sends thinking back.

### EventQueue

`handle` is fixed by Init and says which of three objects this is: the queue of
EventQueueProbe, the event channel of a KernelSession, or the operation of
CancellationProbe, a send whose channel is a timer.  `open` is the sender in
its Option, `closed` the flag, `cancelled` the session's token, `channel` the
channel and `lock` the mutex around its receiver; `listening` and `woken` are
the calls that a Notify will wake and has woken.  The three close methods are
lists of the steps they take (`CloseSteps`), because their order differs.

Atomicity.  Calls run on tokio's threads and close on JavaScript's, so an
action is what a thread does between two looks at what they share: the flag, the
sender, the registration with the Notify, the channel.  `notify_waiters` wakes
only those that are registered when it is called.

### Plugins and Bootstrap

`Plugins` has one table for all registries, since they differ only in the values
they hold; a contribution is its place in the history `made`.  Activation,
rollback and unload are split at their awaits, and between them an extension
registers, replaces, disposes what it was given, or registers after it returned.
`Bootstrap` EXTENDS it and takes the stages of runBootstrap, each of which may
throw, then the life of the app (event loop, agent run, approval, bridge,
shutdown) and the cleanup.

Cancelling the agent is a request: `IyonAgent.cancel` aborts the run's signal, so
`agent` goes from "running" to "cancelled" (`Cancelled`), in the app, in its
shutdown, in the runner and in the cleanup alike, and `AgentEnds` may come at any
time later, after the command has ended too.  A cancelled run may still ask for an
approval.  The event loop may end without a shutdown (`LoopLeaves`), which leaves
the run as it is until the runner or the cleanup cancels it.

### FileTools

`pending` is the map of mutations.ts (FileMutationQueue in Rust), `pc` the place
of each call between its awaits, with the file emptied before it is filled.
Texts are sequences of `Characters`, of which line feed, carriage return, their
pair (`CRLF`, one character as far as edits are concerned) and the byte order
mark matter; the whole of edit is computed: byte order mark, line ends,
uniqueness, overlap, replacement from the last place backwards.  `EditsAreExact`
compares it with `Swapped`, which makes every change at its place in the
original text.

### ShellTool

`host` is fixed by Init and says which of three programs runs.  In the plugin
`current` and `stale` count the reads outstanding of this and of earlier rounds
and `winner` is what settled the race; in the core's bash `held`, `channel`,
`rolling` and `log` are the reader tasks, the bounded channel, RollingOutput and
the log file; in the core's searches ("find", "grep") `captured` is what each of
`run_capture`'s tasks has read, and a call that has seen its child exit is
"joining" until both have ended.  The child, and whoever it left its pipes to,
writes, closes and exits as it likes.

Data.  A chunk is a sequence of `Characters`, one byte each; `LF` is either end of
a line and `Blank` any white space within one; `Limit` stands for the result
limits of the two searches, `LineChars` for GREP_MAX_LINE_CHARS and `Root` for
find's search root.  What the model is shown is computed: the tail, the lines, the
limit, the cut lines, the head, and the notices; for find, the relative path that
`parse_paths` makes of each line (`Paths`, `ToRelativePosixPath`), but not what
Rust's `Path` makes of a dot or of two slashes within one.

## Runs

| Run | Question |
| --- | --- |
| `core_runtime` | Two submissions and two other commands at any point (interrupts, approvals, a shutdown, a dropped sender or receiver), every stop reason, a model that may fail: Ownership, ContextIsCommitted, IdsIncrease, SubmissionsDelivered, RunsAreBracketed, CompletedCallsAnswered; TeardownCompletes and InterruptSettles whatever the model does; CommandsServed, TurnsEnd and SteerReachesBoundary if its replies end |
| `agent_run` | Submissions that are prompts or steers by what the app has heard, a reply with a tool, full queue and channel, an Escape anywhere: PromptsInOrder, IdsFresh, RepliesCommittedOnce, SteersWaitForFinalReply, AbortedRunEnds |
| `tool_calls` | Up to three calls, one over the limit, throws, decisions, Escape and exit: OnlyRefusedUnanswered, PromptMatchesBroker, KeepsPromise (the refinement), AbortEndsPhase |
| `core_tools` | The core's tool phase with hooks that block, fail or patch and stale decisions: EventsTellSession, KeepsPromise (the refinement), DecisionsServed, CancelEndsPhase |
| `reply_stream` | Both providers through both drivers, streams that are cut off, break or are aborted: ShownInOrder, CallsAreCommitted, AssemblersAgree, AbortSettles |
| `bootstrap` | Two packages that override each other, fail, register late, dispose early, under a command that may fail at any stage: LayersFollowOwners, EverythingReleased, ReturnedAppExits |
| `file_tools` | Three calls on one or two files, refused, aborted or failing at any point: NoUpdateLost, EditsAreExact, JoinedCallsSettle |
| `shell_tool` | A command that writes, exits, leaves its pipes open or is stopped, in all three programs: OutputInOrder, CutsAreTold (the tail and the log of what bash has taken, the results of a search), ReturnMeansEnded, CallEnds |
| `event_queue` | Sends, receives and a close that interleave at every look, for all three handles: EarlierEventsFirst, CloseEndsCalls |
| `agent_steers_lost` | Is every accepted steer kept (SteersKept)?  No: dequeue("steer") empties the queue and returns its first text |
| `approval_escape` | Does Escape reject an approval, as the prompt says (EscapeRejects)?  No: nothing rejects it, and the call keeps waiting |
| `shell_output_lost` | Does the plugin's bash return stdout and stderr (OutputKept)?  No: chunks that answer reads of earlier rounds are dropped |

### Bounds

- `core_runtime`.  Two submissions are the fewest with a turn and its successor,
  or a turn and its steer; two other commands the fewest for an interrupt and a
  late one, or an approval that fills the control channel and a second that
  blocks the runtime with a submission behind it.  Channels of 1 fill up; a limit
  of one tool call per reply makes two calls the reply that exceeds it.  One reply
  per turn may ask for tools: a second goes through the same states with a longer
  transcript.  `Levels = 0` is the mock provider's.  All six invariants are proved
  for every bound; what the bounds limit is the liveness properties.
- `agent_run`.  A queue of 1 refuses, and leaves a prompt queued behind a
  cancelled run.  An event channel of 4 holds a prompt's notices but not those of
  a steer delivered in the same batch, so deliveries, tool starts and sends meet a
  full channel; a batch of 2 lets events wait in the bridge while the user acts.
  Submissions and tool turns together are at most 3.  One Escape is enough for a
  cancel to meet a push, a tool, a settling turn or the next run.
  `agent_steers_lost` needs a steer queue of 2 and room for both notices.
- `tool_calls`.  Three calls with a limit of 2 have one refused by the limit and
  two that follow each other; a channel of 4 fills in the middle of a call; two
  decisions are a decision and a late or second one.
- `core_tools`.  Three calls, one hook on either side (two hooks pass through the
  same states, an override after an override included), a control channel of 2
  and two decisions, of which one may be meant for a request of an earlier turn.
- `reply_stream`.  Two items, three deltas, arguments in one fragment, two
  retries: two blocks of one kind with and without a call between them, two calls
  of which either may lack its name or its end.
- `bootstrap`.  Two packages, two ids, two contributions per activation, one
  registered late, at most 5 generations: a stack of three layers of two owners.
  One request for approval is made in a command.
- `file_tools`.  Three calls, all on one file, or two on it and one on another;
  files with each kind of line end, a byte order mark, or missing; edits that
  touch, overlap, and are given against the order of their places.
- `shell_tool`.  Three chunks (two where output is lost): a name, an end of line,
  a slash with a blank behind it.  Two bytes and two lines are kept: three bytes
  are trimmed by their number and begin the log, two ends of line are trimmed by
  the lines alone and do not; the core's channel of 1 fills.  With a limit of 2
  results and a line of 1 character a search meets its limit, cuts lines and drops
  some, and with the root "x" find strips a root, a blank and a slash.
- `event_queue`.  Three senders and two consumers on a channel of 2, batches of 2:
  one sender waits for room while two consumers contend for the receiver, and one
  of them may wait for events or find none.  Close happens once, its steps at any
  point.

Deadlock is checked in `bootstrap`, whose end state loops.  Elsewhere the system
may rightly stop: when the user has nothing more to say, when a reply is over or
when a call has returned, and while a server, a child or a decision is awaited.

### Fairness

- `CoreRuntime`, TaskFairness: tokio runs both tasks, a call of `model.stream`
  resolves, and the `select!` of `run_model_turn` eventually takes the branch of
  a cancelled token.  It does not say that a model ends its reply; the three
  properties that need it have it as a hypothesis (`RepliesEnd`).
- `AgentRun`: promises that can be settled are (the terminal's, the bridge's,
  those of native calls, the run's continuations); RepliesEnd: a provider's
  stream goes on and a tool returns.  Users need not act.
- `ToolCalls`: continuations run, hooks and tools settle once the signal is
  raised, the bridge reads, and an exit that has begun goes through.  Nobody
  has to press a key.
- `CoreTools`: the turn's task runs, hooks and tools return.  No decision, no
  cancel is promised.
- `ReplyStream`: the driver runs, and an aborted fetch rejects.  Nothing makes a
  server answer or a stream end.
- `EventQueue`: a close that has begun is finished, and a call that is under way
  goes on unless it waits.  Nobody need call or close, and the timer of the
  operation need not fire.
- `Bootstrap`: only the program's own steps after the app has returned.  An
  extension may never return and a user never quit.
- `FileTools`: the operating system answers each call.
- `ShellTool`: the loop and each reader run; nothing is assumed of the child.

## Findings

The three violation runs are disagreements of the code with its documentation or
its own text; PROJECT.json quotes both sides.  Two more disagreements have no run
of their own; the properties are stated so that they do not deny them.

- bash.rs:58 says of output that is cut by its lines or its bytes, "If truncated,
  full output is saved to a temp file."  The core begins the file only when the
  bytes exceed the limit (bash.rs:280): output cut by its lines alone is not
  saved.  CutsAreTold claims the log for output of more bytes than are shown.
- bash.rs:58 says "Returns stdout and stderr."  When the child exits, the core
  takes what its channel holds and returns (bash.rs:139-141): a chunk a reader
  holds, and what is still in the pipes, is lost.  OutputInOrder (what is kept is
  a prefix of the stream) and ReturnMeansEnded (the channel is empty) bound it.

We also met these, which no document contradicts, or which a weaker property
already allows for:

- Nothing awaits a cancelled run of the agent: after `cancel` (agent.ts:38-40) the
  cleanup goes straight on to unload the extensions (bootstrap.ts:121-134), and the
  command may end, while the run is still in a tool or a native call.
  EverythingReleased says that it has been told to end.
- bash tells that its output is cut in the details of its result only, not in the
  text the model reads (build_result, bash.rs:205-241); the searches put their
  notices in the text.
- find trims every line it is given and turns backslashes into slashes
  (find.rs:223-254): a name that begins or ends with a blank, or has a backslash,
  is shown as another, without a notice.
- A steer accepted after the loop's last look at the queue waits for the next
  submission (runtime.rs:186); the app previews it and stays "working" until the
  user cancels.  SteerReachesBoundary promises delivery to earlier ones only.
- An interrupted reply is committed with tool calls that have no results
  (loop.rs:234); CompletedCallsAnswered is about completed turns.
- In a reply with two codex messages and no call between them the second replaces
  the first in the kernel's buffer: both are shown, one is committed
  (model_turn.rs:117).  ShownInOrder leaves that case out.
- `list` and `lookup` of a registry disagree once an id is overridden
  (registry.ts:66).
- A stream of openrouter that is cut off completes like one that ended.
- "Unique" in edit counts matches that do not overlap: "aa" is unique in "aaa".
  A file with mixed line ends has all of them converted.
- An aborted edit reports failure although it wrote; a write that fails half-way
  leaves an empty file.
- The handler of SIGINT and SIGTERM throws when the app is running and stops
  nothing (runner.ts:42).

## Proofs

Eight modules hold theorems.  Each proves its inductive invariant from the
assumptions its component states on its constants and from nothing else, and
derives the properties of the runs from it; TLC checks the same properties on
small instances.  Every invariant and every action property a passing run checks
is proved, and so is the refinement of `ToolPromise`, twice.  A lemma stands for
each operation and for each action, and lemmas about sequences (what appending,
taking or removing does to order and to ids) are stated once.

Texts, streams and their calls are put together by recursive functions.  The
library's induction theorems take an operator as a parameter, which the provers
cannot instantiate, so what such a function yields is shown by induction over
sets: the library's well-founded induction gives every nonempty set of naturals
a least element (`LeastNat`), hence a set that holds 0 and with each number its
successor holds them all (`SetInduction`), and a set that holds the empty
sequence and with each sequence its extensions holds all (`SequenceInduction`).
A statement about a function becomes the set of the lengths, or sequences, for
which it is true.

`CoreRuntimeProofs`, from `ConstantsAssumption`:

- `TypeCorrect`: `Spec => []TypeOK`.  TypeOK is strengthened by "a tool is
  executed only while one is left" (TypeInv), without which `calls` could
  become negative.  It is proved only; no run checks it.
- `OneLoopRuns`: `Spec => []Ownership`.  Ownership is inductive: the report in
  the channel or the running loop belongs to the turn held by `active_turn` or
  by `settle_active_turn`, a turn so held is always still to report or has
  reported, and nobody aborts a task before teardown.  It is why the branch
  that discards another turn's report is never taken, and why
  `settle_active_turn` does not wait for a turn that has no task.
- `TranscriptIsCommitted`: `Spec => []ContextIsCommitted`, from the two above:
  the session can only change while no loop is running.
- `CallsAreAnswered` (CompletedCallsAnswered).  AnsweredInv: in what a loop has
  produced every reply is followed by the results of all its calls, except for as
  many as `calls` still holds; a report of completion is made with none left.
- `IdsAreFresh` (IdsIncrease).  IdsInv and EventIdsInv: ids increase along the
  transcript, and they and the ids announced stay below `NextId`, the counter that
  will give the next one: the loop's while one runs, its report's until that is
  taken, and `next_message_id` otherwise.

- `SubmissionsAreDelivered` (SubmissionsDelivered).  SubmissionsInv follows the
  texts through the command channel, the hands of `run`, the steer queue and the
  transcript.  Each holds its texts in order and before those of the next one
  upstream, and all that left the channel is in one of them or was discarded with
  a failed turn.  The order between the places is what makes the property
  inductive.
- `RunsAreInBrackets` (RunsAreBracketed).  BracketsInv adds what the last bracket
  in the log is, which depends on whether a turn is still to report, and that its
  turn numbers are exactly those `run` has given out.

`AgentRunProofs`, from `AgentRunAssumption`.  The invariant IInv has four parts.
`Good` is about the session alone: messages typed, ids increasing and below
`nextId`, one reply per turn, prompts in order.  `TurnInv` relates the native
turn to where `IyonAgent.run` stands, and says that an active turn has
no reply and reserves exactly `nextId`.  `CancelsInv` is about the cancels
nobody awaits: a turn has at most one, and once it is marked its turn is still
without a reply; if that turn is the latest, the cancel's id is the next one, and
if it is not, the id has been taken, so that the late commit fails.
`PromptsInv` relates what was accepted to the session and the queue.

- `RunIsKept`: `Spec => []IInv`.
- `IdsStayFresh` (IdsFresh), `RepliesOnce` (RepliesCommittedOnce),
  `PromptsStayInOrder` (PromptsInOrder) follow.
- `SteersWaitInLine` (SteersWaitForFinalReply), an action property, needs two
  facts more (SteersInv): no run inherits a tool cycle from an earlier one, and
  the reply of a finished turn tells, as the turn does, whether it has a call.

`ToolCallsProofs`, from `ToolCallsAssumption`:

- `LoopAndHandlesAgree`: `Spec => []IInv`, the inductive invariant.  TypeOK says
  too little of the handles; IInv adds where the loop is (`Placed`), that the
  handles before it are terminal, those after it untouched and its own in the
  state its place says (`HandlesFollowLoop`), and that only calls that must ask
  have an approval.  Every step either leaves the handles alone or is one "move"
  of the current call, so the cases are few: the lemmas `...Moves` classify the
  actions, MoveInv and IdleInv preserve IInv.
- `PhaseTyped`: `Spec => []TypeOK`.
- `PhaseKeepsPromise`: `Spec => KeepsPromise`, the refinement of ToolPromise:
  under IInv each move maps to one of its steps (MoveRefines) and everything else
  to a stutter or to Stop (IdleRefines).
- `RefusedCallsOnly` (OnlyRefusedUnanswered): the answers come in the calls'
  order, none after the current call, and until an abort the calls before it
  without an answer are exactly the refused ones (AnsweredInv).
- `PromptsMatchBroker` (PromptMatchesBroker) is about an app that has heard every
  event; PromptInv says which prompt it will show once it has heard those still on
  their way, as long as none was lost.

`CoreToolsProofs`, from `CoreToolsAssumption`:

- `PhaseIsKept`: `Spec => []IInv`.  Besides types and places, the calls before the
  current one have ended and those behind it have not begun (FatesFollowLoop), and
  no two requests share an id (RequestsDiffer).  The second part is what keeps a
  decision that is still in the channel, or one on an id to come, away from a
  call it was not made for.
- `CoreKeepsPromise`: `Spec => KeepsPromise`.  Each action ends the current call
  without its tool, starts or grants it, ends its work, or leaves the calls alone;
  ToolPromise has a step for each of the first three, and the last is a stutter
  or Stop.
- `EventsAreTold` (EventsTellSession).  EventsInv states the property for every
  place: results and finishes are those of the calls before the current one, and
  the requests shown and not resolved are at most the current call's.

`BootstrapProofs`, from `CandidatesAssumption` (no package is named twice):

- `LoaderIsKept`: the invariant of registries and loader.  A registration that
  is not disposed has one layer, and unless it was made late it is on the list of
  the package at work or of an active one.  Generations increase with every
  registration, which is why a disposal finds its own layer.  A package has one
  record; this is what the assumption is for.
- `LayersAreKept` (LayersFollowOwners) and `CommandsReleaseEverything`
  (EverythingReleased): on every path out of a command that reached its context,
  what it opened is closed, and a run that is still going has been told to end.

`FileToolsProofs`, from `NoneAssumption`, `CharactersAssumption`,
`InputsAssumption` and `InitialFilesAssumption`:

- `TurnsAreKept`, its invariant, and from it `UpdatesAreKept` (NoUpdateLost).  A
  call has its turn after all that joined its path before it (InOrder), because a
  waiting call waits for the last of them (Waiting) and the map's entry is the last
  that joined (Entry); so between its read and its write nobody changes the file.
- `EditsStayExact` (EditsAreExact).  The code makes the accepted edits one after
  the other, the last place first; `Swapped` makes each at its place in the text
  that was read.  The places found are where their texts stand and do not overlap,
  so that sorted by place every edit leaves all that is before it as it was, and
  what has been made so far is `Swapped` of the edits made so far.

`ShellToolProofs`, from `ChunksAreSmall`:

- `CallIsKept`, its invariant.  What a loop has concluded of a stream or of the
  child is final (EndsAreFinal).  A pipe holds the last chunks written to it
  (PipesAreTails), and every chunk that has left it is, in the core, held by its
  reader, in the channel, taken or captured (NothingSkipped); in the plugin the
  chunk that won a round is later than all that were taken (WinnerIsNext), because
  reads are answered in the order they were made.
- `ReturnsAtTheEnd` (ReturnMeansEnded) and `OutputStaysInOrder` (OutputInOrder).
- `CutsStayTold` (CutsAreTold).  For bash: trimming keeps the chunks at the end, at
  least one, and more than KeepBytes bytes whenever it drops any
  (TrimKeepsEnough).  It needs chunks of at most KeepBytes bytes, which is what
  the assumption says; a tail of at most KeepBytes bytes is therefore the tail of
  all that was taken too.  For a search: when both tasks have ended they have
  captured all that was written, and each step from there to the results shown
  either changes nothing or sets its notice.

`ReplyStreamProofs`, from `ReplyStreamAssumption`:

- `AssemblersAlwaysAgree` (AssemblersAgree).  Watched, an invariant by itself: a
  call the kernel does not hold the agent does not hold either, and one the kernel
  has open is one for which the agent would refuse the reply.
- `CallsStayCommitted` (CallsAreCommitted).  Counted says of a turn that is not
  over: what waits is what may stand there at its stage (Flow); a call is complete
  before the next item and before the stop reason (Stops); the ends that wait are
  of open calls, in their order and behind those taken (Ends); the kernel hears of
  a call as soon as there is something to hear (Heard); the calls that are ended, or
  will be by what waits, are those that are due, having a name and all their
  arguments (Owed); and the reply's calls are the assembled ones in their order
  (CallsInOrder).  `RequestRepeats` adds what the request makes of such a reply.
  The attempt to prove it found `ItemDone` enabled once more after the response had
  ended, which no codex stream does; its guard now names an open item.
- `ShownStaysInOrder` (ShownInOrder).  TextSound is about text: tokens ascend from
  the reply through the buffer to the deltas that wait (Rising, Fresh), the text
  that ends a codex item replaces what was buffered of it and nothing else
  (OneByItem), and openrouter's consumer was shown exactly what the turn holds
  (ShownText).  Shapes and ShownCalls are about calls: what was said of one begins
  with its start and, while it is open, has no end.  Kept is what remains of this
  when a turn is interrupted and what is buffered is flushed.
- `EarlierEventsStayFirst`, `Queue!Spec => []Queue!EarlierEventsFirst`, about
  `EventQueue` and without any assumption.  Delivered: whatever was accepted was
  received or is in the channel, and a consumer that found nothing there has had
  all that was accepted before it asked.

Model-checked only: liveness (AbortSettles, TurnsEnd, CloseEndsCalls and the
others that the fairness above is stated for), since the prover has neither
fairness nor ENABLED.

## Not modelled

- Core runtime: a panic of the turn's task (it would never report), a full event
  channel (`event_tx` holds 1024 and the consumer is assumed to read), saturation
  of 64-bit ids, RuntimeGuard::Owned (dropping the receiver also drops the tokio
  runtime).  `legacy_run_model_turn` and its helpers (turn.rs:117-666) have no
  caller.
- AgentRun: follow-ups, the terminal's shutdown, closing the session, several
  tool calls in a reply, and the rejection of a cancel nobody awaits (what Bun
  does with it is outside the repository).
- ToolCalls and CoreTools: updates of a running tool (they pass through), the
  policy that decides whether a tool asks (policy.ts), patched arguments, the
  app's view of calls after a cancel.
- ReplyStream: the system prompt, tools and parameters of requests, user messages
  and images in them, credentials, the splitting of bytes into frames, usage.
- Plugins and Bootstrap: manifests, discovery, virtual modules, event
  subscriptions, scene composition, argument parsing, the dialogue of `auth`; and
  a package loaded twice, whose second record would replace the first
  (loader.ts:52): the command line names each of its bundled packages once.
- FileTools: the diffs a call reports, parsing of its input, resolution of paths,
  changes by anybody else (an editor, a shell command).
- ShellTool: the choice of the shell, the preview, process groups.
- The read and ls tools (they look at the file system and format, without state),
  the plugins' searches, the SDK (types), the developer tools (reachability checks
  of the repository), and rendering, history and pacing in the app.

## Plan

1. The read and ls tools and the helpers they share (`fs/read.rs`,
   `fs/workspace.rs`), and the searches of the plugins beside those of the core.
2. The turn driver of the core in ReplyStream in more detail, and the kernel
   session's commands that the product does not call yet.
