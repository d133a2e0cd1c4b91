----------------------------- MODULE CoreRuntime -----------------------------
(***************************************************************************)
(* The iyon-core runtime task (runtime.rs, `run`) and the agent-loop task  *)
(* it spawns per turn (agent/loop.rs), with everything the two share: the  *)
(* command channel, the steering queue, the turn's cancellation token and  *)
(* task handle, the control channel, the channel on which the loop reports *)
(* its outcome, and the event channel to the consumer.                     *)
(*                                                                         *)
(* A definition that no action uses (CommitKeepsCounter, say), always put  *)
(* just before the one it varies, is that definition with a plausible      *)
(* mistake in it; a property is known to catch the mistake (see README).   *)
(*                                                                         *)
(* Each action runs from one await at which the other task can interfere   *)
(* to the next one.  A submitted text is its submission number, so every   *)
(* text is distinct and texts are ordered as they were submitted.  `run`   *)
(* builds its RuntimeState with an empty ToolRegistry, so a tool call made *)
(* by the model is answered by an error result and never asks for approval.*)
(* A turn's three MessageStarted/Delta/Finished events are one event.      *)
(***************************************************************************)
EXTENDS Integers, Sequences

CONSTANTS
  CommandCap,    (* capacity of the command channel (32)                   *)
  ControlCap,    (* capacity of a turn's control channel (8)               *)
  MaxToolCalls,  (* MAX_TOOL_CALLS_PER_MODEL_TURN (16)                     *)
  Levels,        (* number of reasoning levels the provider offers         *)
  Extras,        (* the commands, other than submissions, that may be sent *)
  Faults,        (* which of "model", "consumer", "handle" may fail/go away*)
  StopReasons,   (* the stop reasons the model may report                  *)
  MaxSubmits,    (* bound: submissions sent in a behaviour                 *)
  MaxExtras,     (* bound: other commands sent in a behaviour              *)
  MaxReplies     (* bound: replies of one turn that ask for tools          *)

\* "stop" stands for StopReason::Stop and StopReason::Length, which
\* classify_stop_reason treats alike.
AllStopReasons == {"stop", "tooluse", "aborted", "error"}
AllExtras == {"cancel", "cycle", "approve", "shutdown"}

ASSUME ConstantsAssumption ==
  /\ CommandCap \in Nat \ {0}
  /\ ControlCap \in Nat \ {0}
  /\ MaxToolCalls \in Nat
  /\ Levels \in Nat
  /\ Extras \subseteq AllExtras
  /\ Faults \subseteq {"model", "consumer", "handle"}
  /\ StopReasons \subseteq AllStopReasons
  /\ MaxSubmits \in Nat
  /\ MaxExtras \in Nat
  /\ MaxReplies \in Nat

VARIABLES
  \* The handle (IyonCore): its sender and its receiver.
  commands,      (* the command channel                                    *)
  submitted,     (* submissions sent so far; the last text sent            *)
  extras,        (* other commands sent so far                             *)
  open,          (* the command sender has not been dropped                *)
  listening,     (* the event receiver has not been dropped                *)
  log,           (* every event the consumer's channel accepted            *)
  \* RuntimeState and the point `run` has reached.
  rt,            (* where `run` is                                         *)
  held,          (* the text of the submission `run` is serving, or 0      *)
  active,        (* turn id in active_turn, 0 for None                     *)
  settling,      (* turn id settle_active_turn took out of active_turn     *)
  running,       (* AgentState.active_turn_id, 0 for None                  *)
  nextTurn, nextMessageId, nextQueueId, effort,
  session,       (* committed messages                                     *)
  steering,      (* the steering queue, shared with the loop               *)
  \* What a turn's task owns or shares with the runtime.
  cancelled,     (* the turn's cancellation token                          *)
  aborting,      (* JoinHandle::abort was called                           *)
  control,       (* messages in the turn's control channel                 *)
  loop,          (* where the task is; "gone" when its handle is finished  *)
  loopTurn,
  context,       (* the loop's clone of the session, extended as it runs   *)
  produced,      (* produced_messages: what the loop will ask to commit    *)
  loopNextId,    (* MessageIdAllocator.next                                *)
  calls,         (* tool calls of the last reply still to be executed      *)
  replies,       (* replies of this turn that asked for tools              *)
  verdict,       (* kind of the TurnOutcome the loop is about to report    *)
  done,          (* the runtime event channel (TurnTaskFinished)           *)
  \* History: texts dropped with the messages of a failed turn.
  discarded

handleVars == <<submitted, extras, open>>
loopVars == <<loop, loopTurn, context, produced, loopNextId, calls, replies,
              verdict>>
idVars == <<nextTurn, nextMessageId, nextQueueId>>
vars == <<commands, handleVars, listening, log, rt, held, active, settling,
          running, idVars, effort, session, steering, cancelled, aborting,
          control, loopVars, done, discarded>>

-----------------------------------------------------------------------------
(* Messages, events and the small helpers of the two tasks.                *)

Message == [role : {"user", "assistant", "tool"}, id : Nat, text : Nat,
            calls : Nat]
UserMsg(id, text) == [role |-> "user", id |-> id, text |-> text, calls |-> 0]
AssistantMsg(id, n) ==
  [role |-> "assistant", id |-> id, text |-> 0, calls |-> n]
ToolMsg(id) == [role |-> "tool", id |-> id, text |-> 0, calls |-> 0]

EventKinds == {"ConfigChanged", "AgentStarted", "AgentFinished",
               "TurnStarted", "TurnFinished", "TurnCancelled", "TurnFailed",
               "SteerQueued", "UserMessage"}
EventRecord == [kind : EventKinds, turn : Nat, id : Nat, text : Nat]
Event(kind, turn, id, text) ==
  [kind |-> kind, turn |-> turn, id |-> id, text |-> text]

\* The user messages made of `texts`, with consecutive ids from `first`.
UserMessages(texts, first) ==
  [i \in 1..Len(texts) |-> UserMsg(first + i - 1, texts[i])]
UserEvents(turn, texts, first) ==
  [i \in 1..Len(texts) |->
     Event("UserMessage", turn, first + i - 1, texts[i])]


\* The counter once each of these texts has taken an id.
AfterTexts(texts, first) == first + Len(texts)

\* A send to the event channel: refused, and mostly ignored, once the
\* consumer is gone.
Emit(events) == log' = IF listening THEN log \o events ELSE log

NextEffort == IF Levels = 0 THEN effort ELSE (effort + 1) % Levels

\* ActiveTurn::is_steerable, for the turn in active_turn.
IsSteerable == active # 0 /\ ~cancelled /\ loop # "gone"

\* The program points of run_agent_loop, inside which control_rx is alive.
InLoop == {"top", "starting", "streaming", "tools", "closing", "announce"}
LoopPoints == InLoop \cup {"report", "ending", "gone"}
RtPoints == {"select", "pushSteer", "announceSteer", "settle", "begin",
             "forward", "stopped"}

-----------------------------------------------------------------------------
(* The handle.                                                             *)

\* CoreCommandSender::try_send: a full channel refuses the command, as does
\* the channel of a runtime that has stopped.
TrySend(command) ==
  /\ open
  /\ rt # "stopped"
  /\ Len(commands) < CommandCap
  /\ commands' = Append(commands, command)

Submit ==
  /\ submitted < MaxSubmits
  /\ submitted' = submitted + 1
  /\ TrySend([kind |-> "submit", text |-> submitted + 1])
  /\ UNCHANGED <<extras, open, listening, log, rt, held, active, settling,
                 running, idVars, effort, session, steering, cancelled,
                 aborting, control, loopVars, done, discarded>>

SendExtra(kind) ==
  /\ kind \in Extras
  /\ extras < MaxExtras
  /\ extras' = extras + 1
  /\ TrySend([kind |-> kind, text |-> 0])
  /\ UNCHANGED <<submitted, open, listening, log, rt, held, active, settling,
                 running, idVars, effort, session, steering, cancelled,
                 aborting, control, loopVars, done, discarded>>

\* The command sender is dropped.
DropSender ==
  /\ "handle" \in Faults
  /\ open
  /\ open' = FALSE
  /\ UNCHANGED <<commands, submitted, extras, listening, log, rt, held,
                 active, settling, running, idVars, effort, session, steering,
                 cancelled, aborting, control, loopVars, done, discarded>>

\* The event receiver is dropped: every later send fails.
DropReceiver ==
  /\ "consumer" \in Faults
  /\ listening
  /\ listening' = FALSE
  /\ UNCHANGED <<commands, handleVars, log, rt, held, active, settling,
                 running, idVars, effort, session, steering, cancelled,
                 aborting, control, loopVars, done, discarded>>

-----------------------------------------------------------------------------
(* The runtime task.                                                       *)

\* recv of a command of this kind by the select! of `run`.
Recv(kind) ==
  /\ rt = "select"
  /\ commands # <<>>
  /\ Head(commands).kind = kind
  /\ commands' = Tail(commands)

\* settle_active_turn takes the turn out of active_turn, if there is one.
SettleOnlyLive == active # 0 /\ loop # "gone"
MustSettle == active # 0

\* SubmitTurn.  The steerable check and the push that it guards are separate
\* steps: the loop may pass its last boundary in between.  A turn that cannot
\* be steered is taken out of active_turn, cancelled, and settled.
RecvSubmit ==
  /\ Recv("submit")
  /\ held' = Head(commands).text
  /\ \/ /\ IsSteerable
        /\ rt' = "pushSteer"
        /\ UNCHANGED <<active, settling, cancelled>>
     \/ /\ ~IsSteerable
        /\ ~MustSettle
        /\ rt' = "begin"
        /\ UNCHANGED <<active, settling, cancelled>>
     \/ /\ ~IsSteerable
        /\ MustSettle
        /\ rt' = "settle"
        /\ settling' = active
        /\ active' = 0
        /\ cancelled' = TRUE
  /\ UNCHANGED <<handleVars, listening, log, running, idVars, effort, session,
                 steering, aborting, control, loopVars, done, discarded>>

PushSteer ==
  /\ rt = "pushSteer"
  /\ steering' = Append(steering, held)
  /\ nextQueueId' = nextQueueId + 1
  /\ rt' = "announceSteer"
  /\ UNCHANGED <<commands, handleVars, listening, log, held, active, settling,
                 running, nextTurn, nextMessageId, effort, session, cancelled,
                 aborting, control, loopVars, done, discarded>>

AnnounceSteer ==
  /\ rt = "announceSteer"
  /\ Emit(<<Event("SteerQueued", 0, nextQueueId - 1, held)>>)
  /\ held' = 0
  /\ rt' = "select"
  /\ UNCHANGED <<commands, handleVars, listening, active, settling, running,
                 idVars, effort, session, steering, cancelled, aborting,
                 control, loopVars, done, discarded>>

\* apply_turn_outcome: a completed or cancelled turn's messages and message
\* counter are committed; a failed turn's are not.
CommitKeepsCounter(report) ==
  /\ UNCHANGED nextMessageId
  /\ session' = IF report.kind = "failed" THEN session
                ELSE session \o report.messages

CommitCompletedOnly(report) ==
  IF report.kind # "completed"
  THEN UNCHANGED <<session, nextMessageId>>
  ELSE /\ session' = session \o report.messages
       /\ nextMessageId' = report.nextId

CommitOutcome(report) ==
  IF report.kind = "failed"
  THEN UNCHANGED <<session, nextMessageId>>
  ELSE /\ session' = session \o report.messages
       /\ nextMessageId' = report.nextId

\* The loop itself has announced the end of a completed turn.
AnnounceEveryOutcome(report) ==
  <<Event(CASE report.kind = "completed" -> "TurnFinished"
            [] report.kind = "cancelled" -> "TurnCancelled"
            [] OTHER -> "TurnFailed", report.turn, 0, 0),
    Event("AgentFinished", 0, 0, 0)>>

OutcomeEvents(report) ==
  IF report.kind = "completed" THEN <<>>
  ELSE <<Event(IF report.kind = "cancelled" THEN "TurnCancelled"
               ELSE "TurnFailed", report.turn, 0, 0),
         Event("AgentFinished", 0, 0, 0)>>

ApplyOutcome(report) == CommitOutcome(report) /\ Emit(OutcomeEvents(report))

\* The runtime_event arm of select!.  That a report is never another turn's,
\* the case its guard discards, is the invariant ReportIsOwned.
RecvReport ==
  /\ rt = "select"
  /\ done # <<>>
  /\ Head(done).turn = active
  /\ done' = Tail(done)
  /\ active' = 0
  /\ running' = 0
  /\ ApplyOutcome(Head(done))
  /\ UNCHANGED <<commands, handleVars, listening, rt, held, settling, nextTurn,
                 nextQueueId, effort, steering, cancelled, aborting, control,
                 loopVars, discarded>>

\* settle_active_turn: blocks until the old turn's task has reported.
SettleReport ==
  /\ rt = "settle"
  /\ done # <<>>
  /\ Head(done).turn = settling
  /\ done' = Tail(done)
  /\ settling' = 0
  /\ running' = 0
  /\ rt' = "begin"
  /\ ApplyOutcome(Head(done))
  /\ UNCHANGED <<commands, handleVars, listening, held, active, nextTurn,
                 nextQueueId, effort, steering, cancelled, aborting, control,
                 loopVars, discarded>>

\* What the turn opens with: the queued steers, then the new message.
TurnTexts == Append(steering, held)

OpeningEvents(turn, texts, first) ==
  <<Event("AgentStarted", 0, 0, 0), Event("TurnStarted", turn, 0, 0)>>
    \o UserEvents(turn, texts, first)

\* The rest of SubmitTurn: announce the turn, deliver the queued steers and
\* then the new message, and spawn the loop on a clone of the session.
BeginTurn ==
  /\ rt = "begin"
  /\ LET texts == TurnTexts
         first == nextMessageId
         turn  == nextTurn
     IN /\ session' = session \o UserMessages(texts, first)
        /\ context' = session \o UserMessages(texts, first)
        /\ nextMessageId' = AfterTexts(texts, first)
        /\ loopNextId' = AfterTexts(texts, first)
        /\ nextTurn' = turn + 1
        /\ running' = turn
        /\ active' = turn
        /\ loopTurn' = turn
        /\ Emit(OpeningEvents(turn, texts, first))
  /\ steering' = <<>>
  /\ held' = 0
  /\ control' = 0
  /\ cancelled' = FALSE
  /\ produced' = <<>>
  /\ calls' = 0
  /\ replies' = 0
  /\ loop' = "top"
  /\ rt' = "select"
  /\ UNCHANGED <<commands, handleVars, listening, settling, nextQueueId,
                 effort, aborting, verdict, done, discarded>>

\* request_interrupt.
RecvCancel ==
  /\ Recv("cancel")
  /\ cancelled' = (cancelled \/ active # 0)
  /\ UNCHANGED <<handleVars, listening, log, rt, held, active, settling,
                 running, idVars, effort, session, steering, aborting, control,
                 loopVars, done, discarded>>

RecvCycle ==
  /\ Recv("cycle")
  /\ effort' = NextEffort
  /\ Emit(IF NextEffort = effort THEN <<>>
          ELSE <<Event("ConfigChanged", 0, 0, 0)>>)
  /\ UNCHANGED <<handleVars, listening, rt, held, active, settling, running,
                 idVars, session, steering, cancelled, aborting, control,
                 loopVars, done, discarded>>

\* ApproveToolCall and RejectToolCall: forward_active_control awaits a slot of
\* the control channel, and gives up once the loop has dropped its receiver.
RecvApproval ==
  /\ Recv("approve")
  /\ rt' = IF active # 0 THEN "forward" ELSE "select"
  /\ UNCHANGED <<handleVars, listening, log, held, active, settling, running,
                 idVars, effort, session, steering, cancelled, aborting,
                 control, loopVars, done, discarded>>

ForwardNeedsSlot ==
  /\ rt = "forward"
  /\ control < ControlCap
  /\ control' = control + 1
  /\ rt' = "select"
  /\ UNCHANGED <<commands, handleVars, listening, log, held, active, settling,
                 running, idVars, effort, session, steering, cancelled,
                 aborting, loopVars, done, discarded>>

ForwardControl ==
  /\ rt = "forward"
  /\ \/ /\ loop \in InLoop
        /\ control < ControlCap
        /\ control' = control + 1
     \/ /\ loop \notin InLoop
        /\ UNCHANGED control
  /\ rt' = "select"
  /\ UNCHANGED <<commands, handleVars, listening, log, held, active, settling,
                 running, idVars, effort, session, steering, cancelled,
                 aborting, loopVars, done, discarded>>

\* cancel_active_turn for the task: its token is cancelled, then it is aborted.
DetachTask == UNCHANGED <<cancelled, aborting>>
StopTask ==
  /\ cancelled' = (cancelled \/ active # 0)
  /\ aborting' = (active # 0 /\ loop # "gone")

\* cancel_active_turn and the end of `run`, which drops its channels.
Teardown ==
  /\ rt' = "stopped"
  /\ active' = 0
  /\ running' = IF active # 0 THEN 0 ELSE running
  /\ StopTask
  /\ Emit(IF active = 0 THEN <<>>
          ELSE <<Event("TurnCancelled", active, 0, 0),
                 Event("AgentFinished", 0, 0, 0)>>)
  /\ done' = <<>>
  /\ UNCHANGED <<handleVars, listening, held, settling, idVars, effort,
                 session, steering, control, loopVars, discarded>>

RecvShutdown == Recv("shutdown") /\ Teardown

\* The command channel is closed and empty.
RecvClosed ==
  /\ rt = "select"
  /\ ~open
  /\ commands = <<>>
  /\ UNCHANGED commands
  /\ Teardown

-----------------------------------------------------------------------------
(* The agent-loop task.                                                    *)

runtimeVars == <<commands, handleVars, listening, rt, held, active, settling,
                 running, idVars, effort, session, cancelled, aborting,
                 control>>

\* run_agent_loop_inner returns Ok with this outcome.
Conclude(kind) == loop' = "report" /\ verdict' = kind

TextsOf(messages) ==
  {messages[i].text : i \in {j \in DOMAIN messages : messages[j].role = "user"}}

\* run_agent_loop_inner returns Err: produced_messages is dropped, and with it
\* the steers in `drained` that were taken from the queue.
Fail(drained) ==
  /\ Conclude("failed")
  /\ produced' = <<>>
  /\ discarded' = discarded \cup TextsOf(produced)
                    \cup {drained[i] : i \in DOMAIN drained}

\* inject_steered_messages, for all that drain_steers took.
InjectWithoutProducing(texts) ==
  /\ context' = context \o UserMessages(texts, loopNextId)
  /\ UNCHANGED produced
  /\ Emit(UserEvents(loopTurn, texts, loopNextId))

Inject(texts) ==
  /\ context' = context \o UserMessages(texts, loopNextId)
  /\ produced' = produced \o UserMessages(texts, loopNextId)
  /\ Emit(UserEvents(loopTurn, texts, loopNextId))

LoopCancelled ==
  /\ loop = "top"
  /\ cancelled
  /\ Conclude("cancelled")
  /\ UNCHANGED <<runtimeVars, log, steering, loopTurn, context, produced,
                 loopNextId, calls, replies, done, discarded>>

\* One iteration up to the call of model.stream: drain and inject every steer,
\* build the request and take the id of the assistant message.
BeginIteration ==
  /\ loop = "top"
  /\ ~cancelled
  /\ steering' = <<>>
  /\ UNCHANGED <<runtimeVars, loopTurn, calls, replies, done>>
  /\ \/ /\ listening \/ steering = <<>>
        /\ Inject(steering)
        /\ loopNextId' = AfterTexts(steering, loopNextId) + 1
        /\ loop' = "starting"
        /\ UNCHANGED <<verdict, discarded>>
     \/ /\ ~listening
        /\ steering # <<>>
        /\ Fail(steering)
        /\ UNCHANGED <<log, context, loopNextId>>

\* The assistant message reserved by BeginIteration joins the session.
PushAssistant(n) ==
  /\ context' = Append(context, AssistantMsg(loopNextId - 1, n))
  /\ produced' = Append(produced, AssistantMsg(loopNextId - 1, n))

\* model.stream(request) resolves; the first event is sent unless the turn is
\* already cancelled.  Nothing races the call itself with the token.
StreamStarts ==
  /\ loop = "starting"
  /\ \/ /\ listening
        /\ loop' = "streaming"
        /\ UNCHANGED <<verdict, context, produced>>
     \/ /\ cancelled
        /\ PushAssistant(0)
        /\ Conclude("cancelled")
  /\ UNCHANGED <<runtimeVars, log, steering, loopTurn, loopNextId, calls,
                 replies, done, discarded>>

\* The model fails to start or breaks its stream, or the consumer is gone and
\* the reply's events cannot be sent.
StreamFails ==
  /\ loop \in {"starting", "streaming"}
  /\ "model" \in Faults \/ ~listening
  /\ Fail(<<>>)
  /\ UNCHANGED <<runtimeVars, log, steering, loopTurn, context, loopNextId,
                 calls, replies, done>>

InterruptIgnored(n) ==
  /\ loop = "streaming"
  /\ cancelled
  /\ UNCHANGED vars

\* run_model_turn sees the token: the partial reply, with the n tool calls it
\* already holds, is kept.
Interrupt(n) ==
  /\ loop = "streaming"
  /\ cancelled
  /\ PushAssistant(n)
  /\ Conclude("cancelled")
  /\ UNCHANGED <<runtimeVars, log, steering, loopTurn, loopNextId, calls,
                 replies, done, discarded>>

\* classify_stop_reason: the reason does not go with the calls, or is "error".
Unclassified(stop, n) ==
  \/ stop = "error"
  \/ stop = "stop" /\ n > 0
  \/ stop = "tooluse" /\ n = 0

\* The reply ends with a stop reason and n assembled tool calls.
ReplyDone(stop, n) ==
  /\ loop = "streaming"
  /\ listening
  /\ \/ /\ stop = "aborted"
        /\ PushAssistant(n)
        /\ Conclude("cancelled")
        /\ UNCHANGED <<calls, replies, discarded>>
     \/ /\ stop = "stop"
        /\ n = 0
        /\ PushAssistant(0)
        /\ loop' = "closing"
        /\ UNCHANGED <<calls, replies, verdict, discarded>>
     \/ /\ stop = "tooluse"
        /\ n \in 1..MaxToolCalls
        /\ replies < MaxReplies
        /\ PushAssistant(n)
        /\ loop' = "tools"
        /\ calls' = n
        /\ replies' = replies + 1
        /\ UNCHANGED <<verdict, discarded>>
     \/ /\ \/ Unclassified(stop, n)
           \/ stop = "tooluse" /\ n > MaxToolCalls
        /\ Fail(<<>>)
        /\ UNCHANGED <<context, calls, replies>>
  /\ UNCHANGED <<runtimeVars, log, steering, loopTurn, loopNextId, done>>

\* The result of the call at the head of those left joins the session and the
\* messages to commit.
ResultNotProduced ==
  /\ context' = Append(context, ToolMsg(loopNextId))
  /\ UNCHANGED produced

PushToolResult ==
  /\ context' = Append(context, ToolMsg(loopNextId))
  /\ produced' = Append(produced, ToolMsg(loopNextId))

AfterTool == IF calls = 1 THEN "top" ELSE "tools"

\* execute_tool_requests, one call: the tool is unknown or its arguments are
\* invalid, and an error result answers it.  The token is not consulted.
ExecuteTool ==
  /\ loop = "tools"
  /\ PushToolResult
  /\ loopNextId' = loopNextId + 1
  /\ calls' = calls - 1
  /\ loop' = AfterTool
  /\ UNCHANGED <<runtimeVars, log, steering, loopTurn, replies, verdict, done,
                 discarded>>

\* The last look at the steering queue before the loop finishes.
FinishWithoutDraining ==
  /\ loop = "closing"
  /\ loop' = "announce"
  /\ UNCHANGED <<runtimeVars, log, steering, loopTurn, context, produced,
                 loopNextId, calls, replies, verdict, done, discarded>>

DrainBeforeFinish ==
  /\ loop = "closing"
  /\ steering' = <<>>
  /\ UNCHANGED <<runtimeVars, loopTurn, calls, replies, done>>
  /\ \/ /\ steering = <<>>
        /\ loop' = "announce"
        /\ UNCHANGED <<log, context, produced, loopNextId, verdict, discarded>>
     \/ /\ steering # <<>>
        /\ listening
        /\ Inject(steering)
        /\ loopNextId' = AfterTexts(steering, loopNextId)
        /\ loop' = "top"
        /\ UNCHANGED <<verdict, discarded>>
     \/ /\ steering # <<>>
        /\ ~listening
        /\ Fail(steering)
        /\ UNCHANGED <<log, context, loopNextId>>

\* complete_agent_loop.
AnnounceFinish ==
  /\ loop = "announce"
  /\ Emit(<<Event("TurnFinished", loopTurn, 0, 0),
            Event("AgentFinished", 0, 0, 0)>>)
  /\ Conclude("completed")
  /\ UNCHANGED <<runtimeVars, steering, loopTurn, context, produced,
                 loopNextId, calls, replies, done, discarded>>

\* The task sends TurnTaskFinished; a stopped runtime has dropped the receiver.
ReportUnlessFailed ==
  /\ loop = "report"
  /\ done' = IF rt = "stopped" \/ verdict = "failed" THEN done
             ELSE Append(done, [turn |-> loopTurn, kind |-> verdict,
                                messages |-> produced, nextId |-> loopNextId])
  /\ produced' = <<>>
  /\ loop' = "ending"
  /\ UNCHANGED <<runtimeVars, log, steering, loopTurn, context, loopNextId,
                 calls, replies, verdict, discarded>>

ReportOutcome ==
  /\ loop = "report"
  /\ done' = IF rt = "stopped" THEN done
             ELSE Append(done, [turn |-> loopTurn, kind |-> verdict,
                                messages |-> produced, nextId |-> loopNextId])
  /\ produced' = <<>>
  /\ loop' = "ending"
  /\ UNCHANGED <<runtimeVars, log, steering, loopTurn, context, loopNextId,
                 calls, replies, verdict, discarded>>

\* The task's handle becomes finished; an aborted task may end at any await.
TaskEnds ==
  /\ loop = "ending" \/ (aborting /\ loop # "gone")
  /\ loop' = "gone"
  /\ UNCHANGED <<runtimeVars, log, steering, loopTurn, context, produced,
                 loopNextId, calls, replies, verdict, done, discarded>>

-----------------------------------------------------------------------------
(* The specification.                                                      *)

\* `run` has announced the initial configuration and waits for a command.
Init ==
  /\ commands = <<>>
  /\ submitted = 0
  /\ extras = 0
  /\ open = TRUE
  /\ listening = TRUE
  /\ log = <<Event("ConfigChanged", 0, 0, 0)>>
  /\ rt = "select"
  /\ held = 0
  /\ active = 0
  /\ settling = 0
  /\ running = 0
  /\ nextTurn = 1
  /\ nextMessageId = 1
  /\ nextQueueId = 1
  /\ effort = 0
  /\ session = <<>>
  /\ steering = <<>>
  /\ cancelled = FALSE
  /\ aborting = FALSE
  /\ control = 0
  /\ loop = "gone"
  /\ loopTurn = 0
  /\ context = <<>>
  /\ produced = <<>>
  /\ loopNextId = 1
  /\ calls = 0
  /\ replies = 0
  /\ verdict = "completed"
  /\ done = <<>>
  /\ discarded = {}

RuntimeStep ==
  \/ RecvSubmit \/ PushSteer \/ AnnounceSteer
  \/ RecvReport \/ SettleReport \/ BeginTurn
  \/ RecvCancel \/ RecvCycle \/ RecvApproval \/ ForwardControl
  \/ RecvShutdown \/ RecvClosed

\* The steps of the loop that wait for nothing but the scheduler.
LoopStep ==
  \/ LoopCancelled \/ BeginIteration \/ ExecuteTool \/ DrainBeforeFinish
  \/ AnnounceFinish \/ ReportOutcome \/ TaskEnds

CallCounts == 0..(MaxToolCalls + 1)

InterruptStep == \E n \in CallCounts : Interrupt(n)
ReplyStep == \E stop \in StopReasons, n \in CallCounts : ReplyDone(stop, n)

HandleStep ==
  \/ Submit
  \/ \E kind \in AllExtras : SendExtra(kind)
  \/ DropSender
  \/ DropReceiver

Next ==
  \/ HandleStep
  \/ RuntimeStep
  \/ LoopStep
  \/ StreamStarts
  \/ StreamFails
  \/ InterruptStep
  \/ ReplyStep

Spec == Init /\ [][Next]_vars

\* The call of model.stream() resolves, one way or the other.
StreamResolves == loop = "starting" /\ (StreamStarts \/ StreamFails)

\* The scheduler runs both tasks, a requested stream is eventually handed
\* over, and the interrupt of a stream that sees the token is not starved.
\* Nothing is promised of when, or whether, a reply ends.
TaskFairness ==
  /\ WF_vars(RuntimeStep)
  /\ WF_vars(LoopStep)
  /\ WF_vars(StreamResolves)
  /\ WF_vars(InterruptStep)

\* The model ends every reply it has begun; once nobody reads the events, a
\* reply ends when the loop cannot send.  FairSpec does not promise it.
RepliesEnd ==
  WF_vars(ReplyStep \/ (loop = "streaming" /\ ~listening /\ StreamFails))

FairSpec == Spec /\ TaskFairness

-----------------------------------------------------------------------------
(* Safety.                                                                 *)

Command == [kind : AllExtras \cup {"submit"}, text : Nat]
Report == [turn : Nat, kind : {"completed", "cancelled", "failed"},
           messages : Seq(Message), nextId : Nat \ {0}]

\* Every variable of the two tasks has the type its Rust field has.
TypeOK ==
  /\ commands \in Seq(Command)
  /\ submitted \in Nat
  /\ extras \in Nat
  /\ open \in BOOLEAN
  /\ listening \in BOOLEAN
  /\ log \in Seq(EventRecord)
  /\ rt \in RtPoints
  /\ held \in Nat
  /\ active \in Nat
  /\ settling \in Nat
  /\ running \in Nat
  /\ nextTurn \in Nat \ {0}
  /\ nextMessageId \in Nat \ {0}
  /\ nextQueueId \in Nat \ {0}
  /\ effort \in Nat
  /\ session \in Seq(Message)
  /\ steering \in Seq(Nat)
  /\ cancelled \in BOOLEAN
  /\ aborting \in BOOLEAN
  /\ control \in Nat
  /\ loop \in LoopPoints
  /\ loopTurn \in Nat
  /\ context \in Seq(Message)
  /\ produced \in Seq(Message)
  /\ loopNextId \in Nat \ {0}
  /\ calls \in Nat
  /\ replies \in Nat
  /\ verdict \in {"completed", "cancelled", "failed"}
  /\ done \in Seq(Report)
  /\ discarded \in SUBSET Nat

\* A turn is owned by `run` through active_turn, or by settle_active_turn.
OwnedTurn == IF rt = "settle" THEN settling ELSE active

\* Only one agent loop ever runs, and what reaches the runtime event channel
\* is at most one report, of the turn `run` or settle_active_turn waits for:
\* the reports that their guards would throw away never exist.
ReportIsOwned ==
  rt # "stopped" =>
    /\ loop \in InLoop \cup {"report"} =>
         loopTurn = OwnedTurn /\ loopTurn # 0 /\ done = <<>>
    /\ done # <<>> =>
         Len(done) = 1 /\ done[1].turn = OwnedTurn /\ OwnedTurn # 0

\* A turn that `run` still waits for will be reported: its task has not yet
\* sent its report, or the report is in the channel.  settle_active_turn and
\* is_steerable rely on it.
OwnedTurnReports ==
  rt # "stopped" /\ OwnedTurn # 0 =>
    loop \in InLoop \cup {"report"} \/ done # <<>>

\* The two facts above, made inductive: where `run` keeps the turn it owns at
\* each of its points, and that only teardown aborts a task.
Ownership ==
  /\ ReportIsOwned
  /\ OwnedTurnReports
  /\ rt # "stopped" =>
       /\ ~aborting
       /\ rt = "settle" => active = 0 /\ settling # 0
       /\ rt # "settle" => settling = 0
       /\ rt = "begin" => active = 0

\* While a loop runs nobody else changes the session: what it showed the
\* model is what it started from and what it will ask the runtime to commit.
ContextIsCommitted ==
  rt # "stopped" /\ loop \in InLoop => context = session \o produced

\* The messages a turn has produced that are not committed yet.
Uncommitted == produced \o (IF done = <<>> THEN <<>> ELSE done[1].messages)

IsIncreasing(s) == \A i, j \in DOMAIN s : i < j => s[i] < s[j]

\* Message ids of the session, with those of the turn in flight, strictly
\* increase and stay below the next id: KernelSession::from_legacy drops a
\* message that breaks this from every later model request.  And an id the
\* consumer was told names one message, unless a turn failed, since
\* apply_turn_outcome then forgets the ids that turn had used.
IdsIncrease ==
  LET messages == session \o Uncommitted
      ids == [i \in DOMAIN messages |-> messages[i].id]
      next == IF Uncommitted = <<>> THEN nextMessageId
              ELSE IF done # <<>> THEN done[1].nextId ELSE loopNextId
  IN /\ rt # "stopped" =>
          IsIncreasing(ids) /\ \A i \in DOMAIN ids : ids[i] < next
     /\ (\A i \in DOMAIN log : log[i].kind # "TurnFailed") =>
          \A i, j \in DOMAIN log :
            log[i].kind = "UserMessage" /\ log[j].kind = "UserMessage" /\ i # j
              => log[i].id # log[j].id

\* The user messages of a transcript carry increasing texts.
UsersOrdered(messages) ==
  \A i, j \in DOMAIN messages :
    i < j /\ messages[i].role = "user" /\ messages[j].role = "user"
      => messages[i].text < messages[j].text

\* Accepted texts that are in no message yet: queued, and in `run`'s hands.
Waiting ==
  steering \o (IF held = 0 \/ rt = "announceSteer" THEN <<>> ELSE <<held>>)

Accepted ==
  1..submitted \ {commands[i].text : i \in DOMAIN commands}

\* Submissions reach the session in the order they were sent and none twice,
\* whether each was a fresh turn, a steer delivered in flight, or a steer left
\* over from an interrupted or failed turn.  And none disappears, except with
\* the messages of a turn that failed: it is in the session, in flight,
\* queued, or in the hands of `run`.
SubmissionsDelivered ==
  LET messages == session \o Uncommitted
      waiting == {Waiting[i] : i \in DOMAIN Waiting}
  IN rt # "stopped" =>
       /\ UsersOrdered(messages)
       /\ IsIncreasing(Waiting)
       /\ \A x \in TextsOf(messages), y \in waiting : x < y
       /\ Accepted = discarded \cup TextsOf(messages) \cup waiting

Terminals == {"TurnFinished", "TurnCancelled", "TurnFailed"}

Brackets == {"AgentStarted", "TurnStarted", "AgentFinished"} \cup Terminals

\* A bracket event e may be followed by the bracket event f.
Follows(e, f) ==
  \/ e.kind = "AgentStarted" /\ f.kind = "TurnStarted"
  \/ e.kind = "TurnStarted" /\ f.kind \in Terminals /\ f.turn = e.turn
  \/ e.kind \in Terminals /\ f.kind = "AgentFinished"
  \/ e.kind = "AgentFinished" /\ f.kind = "AgentStarted"

\* No bracket event lies between the places i and j.
NoneBetween(events, i, j) ==
  \A k \in (i + 1)..(j - 1) : events[k].kind \notin Brackets

\* An event of this turn and of one of these kinds comes before the place i.
Before(events, i, kinds, turn) ==
  \E j \in 1..(i - 1) : events[j].kind \in kinds /\ events[j].turn = turn

\* The bracket events alternate as Follows says, from AgentStarted on.
Alternates(events) ==
  \A j \in DOMAIN events :
    events[j].kind \in Brackets =>
      /\ NoneBetween(events, 0, j) => events[j].kind = "AgentStarted"
      /\ \A i \in 1..(j - 1) :
           events[i].kind \in Brackets /\ NoneBetween(events, i, j)
             => Follows(events[i], events[j])

\* The first TurnStarted is turn 1's, and each next one the next turn's.
TurnsCountUp(events) ==
  \A i \in DOMAIN events :
    events[i].kind = "TurnStarted" =>
      /\ events[i].turn # 0
      /\ \A t \in 1..events[i].turn :
           Before(events, i, {"TurnStarted"}, t) <=> t < events[i].turn

\* A message is announced after the TurnStarted of its turn and before the
\* event that ends that turn.
MessagesInTurns(events) ==
  \A i \in DOMAIN events :
    events[i].kind = "UserMessage" =>
      /\ Before(events, i, {"TurnStarted"}, events[i].turn)
      /\ ~Before(events, i, Terminals, events[i].turn)

\* Until teardown the consumer sees runs one after another: AgentStarted,
\* TurnStarted of the next turn, one terminal event of that same turn,
\* AgentFinished; and a turn announces messages only between its TurnStarted
\* and its terminal event.
RunsAreBracketed ==
  rt # "stopped" =>
    Alternates(log) /\ TurnsCountUp(log) /\ MessagesInTurns(log)

\* Every tool call in the messages is answered, in order, by the tool results
\* that follow its assistant message.
CallsAnswered(messages) ==
  \A i \in DOMAIN messages :
    messages[i].role = "assistant" =>
      \A k \in 1..messages[i].calls :
        i + k \in DOMAIN messages /\ messages[i + k].role = "tool"

\* What a completed turn commits is a transcript a provider accepts.  (A
\* cancelled one may not be: the reply the interrupt cut keeps its calls.)
CompletedCallsAnswered ==
  /\ done # <<>> /\ done[1].kind = "completed" =>
       CallsAnswered(done[1].messages)
  /\ loop \in {"starting", "streaming", "closing", "announce"} =>
       CallsAnswered(produced)

InQueue(x) == \E i \in DOMAIN steering : steering[i] = x

-----------------------------------------------------------------------------
(* Liveness.                                                               *)

\* An interrupted turn is folded in and its slot freed, and a submission that
\* found an ending turn starts its own: settling never waits for ever,
\* whatever the model does with the stream.
InterruptSettles ==
  /\ (cancelled /\ active # 0) ~> active = 0
  /\ rt = "settle" ~> rt # "settle"

\* The runtime serves every command it has queued, provided replies end.
CommandsServed ==
  RepliesEnd => (commands # <<>> ~> (commands = <<>> \/ rt = "stopped"))

\* A started turn is reported to the consumer and leaves the runtime idle,
\* provided replies end.
TurnsEnd == RepliesEnd => (active # 0 ~> active = 0)

\* Stopping the runtime ends the task of the turn in flight, whatever its model
\* is doing; and dropping the handle stops the runtime, provided replies end:
\* it serves what is still queued, settling turns and forwarding approvals,
\* and tears down.
TeardownCompletes ==
  /\ rt = "stopped" ~> loop = "gone"
  /\ RepliesEnd => (~open ~> rt = "stopped")

\* A steer queued while its turn still has a boundary ahead of it is taken
\* from the queue, unless that turn is interrupted or ends early.
SteerReachesBoundary ==
  RepliesEnd =>
    \A x \in 1..MaxSubmits :
      (InQueue(x) /\ loop \in InLoop \ {"announce"})
        ~> (~InQueue(x) \/ cancelled \/ verdict # "completed" \/ rt = "stopped")

=============================================================================
