------------------------------ MODULE AgentRun ------------------------------
(***************************************************************************)
(* The product's conversation loop: the app plugin that submits, steers    *)
(* and cancels (app.ts, actions.ts, state.ts), the bundled agent's `run`   *)
(* (agent.ts, turn.ts), and the native session the two share (core.rs and  *)
(* model_turn.rs of iyon-core-native over the kernel's queues, session and *)
(* model turn), whose event channel the app's backend bridge reads.        *)
(*                                                                         *)
(* JavaScript runs to its next await on something outside JavaScript (the  *)
(* provider's stream, a tool, the terminal, a native task); every action   *)
(* here is one such block, or one step of a native task.  So `run` starts, *)
(* drains its queues, delivers and begins a turn in the one action that    *)
(* submitted the prompt.                                                   *)
(*                                                                         *)
(* As in CoreRuntime a text is its submission number, and a definition no  *)
(* action uses, put just before the one it varies, is that definition with *)
(* a plausible mistake some property catches.  Tools ask for no approval   *)
(* (the bundled ones are all "neverAsk"), a reply streams at most one text *)
(* delta and one tool call, and the terminal's own shutdown is left out.   *)
(***************************************************************************)
EXTENDS Integers, Sequences, FiniteSets

CONSTANTS
  EventCap,      (* capacity of the session's event channel (128)          *)
  QueueCap,      (* capacity of its queues (the same number in the code)   *)
  MaxBatch,      (* CORE_EVENTS_PER_TURN: events the bridge takes (16)     *)
  MaxSubmits,    (* bound: messages the user submits                       *)
  MaxEscapes,    (* bound: times the user cancels                          *)
  MaxToolTurns,  (* bound: replies that ask for a tool                     *)
  MaxWork        (* bound: submissions and such replies together           *)

ASSUME AgentRunAssumption ==
  /\ EventCap \in Nat \ {0}
  /\ QueueCap \in Nat \ {0}
  /\ MaxBatch \in Nat \ {0}
  /\ MaxSubmits \in Nat
  /\ MaxEscapes \in Nat
  /\ MaxToolTurns \in Nat
  /\ MaxWork \in Nat

VARIABLES
  session,       (* SessionState: queues, entries, ids and event channel   *)
  turn,          (* the native ModelTurn of the run's latest turn          *)
  sending,       (* events the native call in progress has yet to send     *)
  cancels,       (* cancel() calls made by an abort listener, not awaited  *)
  run,           (* where IyonAgent.run is; "idle" when the app has none   *)
  aborted,       (* the run's linked abort signal                          *)
  toolCycle,     (* toolCycleStarted                                       *)
  ui,            (* the app's reduced state                                *)
  handler,       (* the submission handleAction is suspended in, if any    *)
  batch,         (* events the bridge has taken and not yet dispatched     *)
  submits, escapes, toolTurns,
  \* History.
  prompted,      (* texts accepted by the prompt queue, in order           *)
  steered,       (* texts accepted by the steer queue, in order            *)
  ended          (* how the latest run ended                               *)

nativeVars == <<session, turn, sending, cancels>>
runVars == <<run, aborted, toolCycle, toolTurns, ended>>
appVars == <<ui, handler, batch, submits, escapes>>
history == <<prompted, steered>>
vars == <<nativeVars, runVars, appVars, history>>

Turns == 1..(MaxSubmits + MaxToolTurns)

-----------------------------------------------------------------------------
(* The native session.                                                     *)

EventKinds == {"other", "userMessage", "assistantDelta", "steerQueued",
               "toolPrepared", "toolStarted", "toolResult",
               "turnFinished", "turnFailed", "turnCancelled"}

\* An event and what it is about: a text, or the turn of a tool call.
\* "other" stands for those the app's CoreEventMapper turns into nothing.
Event(kind, about) == [kind |-> kind, about |-> about]
Other == Event("other", 0)

Entry(id, from, about, tool) ==
  [id |-> id, from |-> from, about |-> about, tool |-> tool]

Fits(s, events) == Len(s.events) + Len(events) <= EventCap

\* A run of try_emit: the events that still fit, up to the first refusal.
TryEmit(s, events) ==
  LET room == EventCap - Len(s.events)
      n == IF Len(events) <= room THEN Len(events) ELSE room
  IN  [s EXCEPT !.events = @ \o SubSeq(events, 1, n)]

\* append_message of a message without an id, and of one that carries the
\* id it was given beforehand: next_message_id must then pass that id.
AppendNew(s, from, about) ==
  [s EXCEPT !.entries = Append(@, Entry(s.nextId, from, about, FALSE)),
            !.nextId = @ + 1]
AppendWithoutAdvance(s, id, about, tool) ==
  [s EXCEPT !.entries = Append(@, Entry(id, "assistant", about, tool))]
AppendReply(s, id, about, tool) ==
  [s EXCEPT !.entries = Append(@, Entry(id, "assistant", about, tool)),
            !.nextId = IF id + 1 > @ THEN id + 1 ELSE @]

\* ConflictingMessageId.
IdTaken(s, id) == \E i \in 1..Len(s.entries) : s.entries[i].id = id

First(queue) == IF queue = <<>> THEN <<>> ELSE <<Head(queue)>>

\* What dequeue("prompt") leaves; dequeue("steer") empties its queue and
\* hands over only the first text.
AfterTakePrompt(queue) == IF queue = <<>> THEN <<>> ELSE Tail(queue)
AfterDrainSteers(queue) == <<>>

UserMessageEvents(text) == <<Other, Event("userMessage", text), Other>>

\* deliver_user_message of a text, if there is one and no earlier delivery
\* of this batch threw: the entry is kept even when an event is refused.
DeliverIfRoom(d, texts, from) ==
  IF texts = <<>> \/ ~d.ok THEN d
  ELSE LET events == UserMessageEvents(Head(texts))
           told == TryEmit(AppendNew(d.session, from, Head(texts)), events)
       IN  IF Fits(d.session, events) THEN [session |-> told, ok |-> TRUE]
           ELSE [d EXCEPT !.ok = FALSE]
Deliver(d, texts, from) ==
  IF texts = <<>> \/ ~d.ok THEN d
  ELSE LET events == UserMessageEvents(Head(texts))
       IN  [session |-> TryEmit(AppendNew(d.session, from, Head(texts)),
                                events),
            ok |-> Fits(d.session, events)]

\* drainPrompts, drainSteering and injectSteeredMessages.
TakeSteersToo(s, withSteers) ==
  LET taken == [s EXCEPT !.prompts = AfterTakePrompt(@),
                         !.steers = AfterDrainSteers(@)]
  IN  Deliver(Deliver([session |-> taken, ok |-> TRUE],
                      First(s.prompts), "prompt"),
              First(s.steers), "steer")
DrainAndDeliver(s, withSteers) ==
  LET taken == [s EXCEPT !.prompts = AfterTakePrompt(@),
                         !.steers = IF withSteers THEN AfterDrainSteers(@)
                                    ELSE @]
  IN  Deliver(Deliver([session |-> taken, ok |-> TRUE],
                      First(s.prompts), "prompt"),
              IF withSteers THEN First(s.steers) ELSE <<>>, "steer")

NoTurn == [n |-> 0, id |-> 0, state |-> "failed", text |-> FALSE,
           tool |-> FALSE, reason |-> "none"]
NewTurn(s) == [n |-> s.nextTurn, id |-> s.nextId, state |-> "active",
               text |-> FALSE, tool |-> FALSE, reason |-> "none"]

\* begin_session_turn on the session s: it has used up its turn number when
\* the turn's first event is refused and it throws.
BeginTurn(s) ==
  [session |-> [TryEmit(s, <<Other>>) EXCEPT !.nextTurn = @ + 1],
   ok |-> Fits(s, <<Other>>),
   turn |-> IF Fits(s, <<Other>>) THEN NewTurn(s) ELSE NoTurn]

-----------------------------------------------------------------------------
(* The app's reducer.                                                      *)

HasActiveWork(u) ==
  \/ u.active
  \/ u.open
  \/ \E n \in Turns : u.tools[n] \in {"prepared", "running"}

Previewed(u, text) ==
  \E i \in 1..Len(u.steering) : u.steering[i].text = text

\* enqueueSteer: a preview is added at once without a queue id, and
\* the event that carries the id completes it instead of adding another.
EnqueueSteer(u, text, acked) ==
  IF Previewed(u, text)
  THEN [u EXCEPT !.steering =
          [i \in 1..Len(@) |->
             IF @[i].text = text THEN [@[i] EXCEPT !.acked = @ \/ acked]
             ELSE @[i]]]
  ELSE [u EXCEPT !.steering = Append(@, [text |-> text, acked |-> acked])]

DeliverPreview(u, text) ==
  [u EXCEPT !.steering = SelectSeq(@, LAMBDA p : p.text # text)]

FreezeTools(u, statuses) ==
  [n \in Turns |-> IF u.tools[n] \in statuses THEN "frozen" ELSE u.tools[n]]

TurnFailedUi(u) ==
  [u EXCEPT !.active = FALSE, !.open = FALSE, !.steering = <<>>,
            !.tools = FreezeTools(u, {"running"})]
TurnCancelledUi(u) ==
  [u EXCEPT !.active = FALSE, !.open = FALSE, !.steering = <<>>,
            !.tools = FreezeTools(u, {"prepared", "running"})]
TurnFinishedUi(u) ==
  IF u.steering # <<>> \/ \E n \in Turns : u.tools[n] = "prepared"
  THEN [u EXCEPT !.active = TRUE, !.open = FALSE]
  ELSE [u EXCEPT !.active = FALSE, !.open = FALSE,
                 !.tools = FreezeTools(u, {"running"})]

\* A tool event; a card that was frozen stays frozen unless it is redrafted,
\* and a result finds no card to freeze when there is none.
ToolUi(u, n, status) ==
  LET old == u.tools[n]
      new == CASE status = "running" /\ old = "frozen" -> old
               [] status = "frozen" /\ old = "none" -> old
               [] OTHER -> status
  IN  [u EXCEPT !.active = TRUE, !.tools[n] = new]

\* reduceFrontendEvent.
Reduce(u, e) ==
  CASE e.kind = "userMessage" -> DeliverPreview(u, e.about)
    [] e.kind = "assistantDelta" -> [u EXCEPT !.open = TRUE]
    [] e.kind = "steerQueued" -> EnqueueSteer(u, e.about, TRUE)
    [] e.kind = "toolPrepared" -> ToolUi(u, e.about, "prepared")
    [] e.kind = "toolStarted" -> ToolUi(u, e.about, "running")
    [] e.kind = "toolResult" -> ToolUi(u, e.about, "frozen")
    [] e.kind = "turnFinished" -> TurnFinishedUi(u)
    [] e.kind = "turnFailed" -> TurnFailedUi(u)
    [] e.kind = "turnCancelled" -> TurnCancelledUi(u)
    [] OTHER -> u

-----------------------------------------------------------------------------
(* Blocks of the run that several actions go through.                      *)

\* From the top of the loop to the first await of runProviderTurn, on the
\* session `s`.  An event the channel refuses throws out of the run.  The
\* early return for a session without messages is never taken: an iteration
\* delivers a prompt or follows a reply.
NextIteration(s, withSteers) ==
  LET told == DrainAndDeliver(s, withSteers)
  IN  IF told.ok THEN BeginTurn(told.session)
      ELSE [session |-> told.session, ok |-> FALSE, turn |-> NoTurn]

Continue(s, withSteers) ==
  LET next == NextIteration(s, withSteers)
  IN  /\ session' = next.session
      /\ turn' = next.turn
      /\ run' = IF next.ok THEN "streaming" ELSE "failed"
      /\ ended' = IF next.ok THEN ended ELSE "failed"
      /\ ui' = IF next.ok THEN ui ELSE TurnFailedUi(ui)

\* `run` returns: its controller and the app's activeAgentRun are cleared in
\* the same block.
Return(how) ==
  /\ run' = "idle"
  /\ ended' = how
  /\ toolCycle' = FALSE

\* `run` throws: recordTurnFailure reduces the app's state at once, but
\* activeAgentRun stays set until the failure has been drawn.
Throw ==
  /\ run' = "failed"
  /\ ended' = "failed"
  /\ toolCycle' = FALSE
  /\ ui' = TurnFailedUi(ui)

Await(point) ==
  /\ run' = point
  /\ UNCHANGED <<toolCycle, ended>>

-----------------------------------------------------------------------------
(* The user and the app.                                                   *)

\* handleIyonAction("submit"): it keeps the state it was given across the
\* await that clears the composer.
Submit ==
  /\ handler = <<>>
  /\ submits < MaxSubmits
  /\ submits + toolTurns < MaxWork
  /\ submits' = submits + 1
  /\ handler' = <<[text |-> submits + 1, ui |-> ui]>>
  /\ UNCHANGED <<nativeVars, runVars, ui, batch, escapes, history>>

\* submitSteering.  The event is refused only after the text was queued.
SteerAccepted ==
  /\ handler # <<>>
  /\ HasActiveWork(Head(handler).ui)
  /\ Len(session.steers) < QueueCap
  /\ LET text == Head(handler).text
         queued == [session EXCEPT !.steers = Append(@, text)]
         events == <<Event("steerQueued", text)>>
     IN  /\ session' = TryEmit(queued, events)
         /\ steered' = Append(steered, text)
         /\ ui' = IF Fits(queued, events)
                  THEN EnqueueSteer(Head(handler).ui, text, FALSE)
                  ELSE TurnFailedUi(ui)
  /\ handler' = <<>>
  /\ UNCHANGED <<turn, sending, cancels, runVars, batch, submits, escapes,
                 prompted>>

SteerRefused ==
  /\ handler # <<>>
  /\ HasActiveWork(Head(handler).ui)
  /\ Len(session.steers) >= QueueCap
  /\ ui' = TurnFailedUi(ui)
  /\ handler' = <<>>
  /\ UNCHANGED <<nativeVars, runVars, batch, submits, escapes, history>>

SubmittedUi(u) == [u EXCEPT !.active = TRUE]

\* submitPrompt and startAgentRun.  A run that fails before its first await
\* records its failure before handleAction stores the submitted state.
PromptAccepted ==
  /\ handler # <<>>
  /\ ~HasActiveWork(Head(handler).ui)
  /\ Len(session.prompts) < QueueCap
  /\ LET text == Head(handler).text
         queued == [session EXCEPT !.prompts = Append(@, text)]
         next == NextIteration(queued, TRUE)
     IN  /\ prompted' = Append(prompted, text)
         /\ IF run = "idle"
            THEN /\ session' = next.session
                 /\ turn' = next.turn
                 /\ run' = IF next.ok THEN "streaming" ELSE "failed"
                 /\ ended' = IF next.ok THEN ended ELSE "failed"
                 /\ aborted' = FALSE
            ELSE /\ session' = queued
                 /\ UNCHANGED <<turn, run, aborted, ended>>
  /\ ui' = SubmittedUi(Head(handler).ui)
  /\ handler' = <<>>
  /\ UNCHANGED <<sending, cancels, toolCycle, toolTurns, batch, submits,
                 escapes, steered>>

PromptRefused ==
  /\ handler # <<>>
  /\ ~HasActiveWork(Head(handler).ui)
  /\ Len(session.prompts) >= QueueCap
  /\ ui' = TurnFailedUi(ui)
  /\ handler' = <<>>
  /\ UNCHANGED <<nativeVars, runVars, batch, submits, escapes, history>>

\* cancelActiveWork: the agent's controller aborts if it has a run, and an
\* abort that meets a push in progress calls the turn's cancel beside it.
Escape ==
  /\ handler = <<>>
  /\ escapes < MaxEscapes
  /\ HasActiveWork(ui)
  /\ escapes' = escapes + 1
  /\ aborted' = (aborted \/ run \notin {"idle", "failed"})
  /\ cancels' = IF run = "pushing" /\ ~aborted
                THEN cancels \cup {[turn |-> turn.n, id |-> turn.id,
                                   tool |-> turn.tool, phase |-> "spawned"]}
                ELSE cancels
  /\ ui' = TurnCancelledUi(ui)
  /\ UNCHANGED <<session, turn, sending, run, toolCycle, toolTurns, ended,
                 handler, batch, submits, history>>

\* The bridge: nextEvents takes what is there, and events are dispatched one
\* at a time, each after the previous one was drawn.
TakeBatch ==
  /\ batch = <<>>
  /\ session.events # <<>>
  /\ LET n == IF Len(session.events) <= MaxBatch THEN Len(session.events)
              ELSE MaxBatch
         Mapped(e) == e.kind # "other"
     IN  /\ batch' = SelectSeq(SubSeq(session.events, 1, n), Mapped)
         /\ session' = [session EXCEPT
                          !.events = SubSeq(@, n + 1, Len(@))]
  /\ UNCHANGED <<turn, sending, cancels, runVars, ui, handler, submits,
                 escapes, history>>

Dispatch ==
  /\ batch # <<>>
  /\ ui' = Reduce(ui, Head(batch))
  /\ batch' = Tail(batch)
  /\ UNCHANGED <<nativeVars, runVars, handler, submits, escapes, history>>

-----------------------------------------------------------------------------
(* The provider's stream and the native calls of a turn.                   *)

Streaming ==
  /\ run = "streaming"
  /\ ~aborted
  /\ turn.reason = "none"

\* turn.push of an event the kernel turn accepts.
Push(newTurn, events) ==
  /\ turn' = newTurn
  /\ sending' = events
  /\ Await("pushing")
  /\ UNCHANGED <<session, cancels, aborted, appVars, history>>

StreamText ==
  /\ Streaming
  /\ ~turn.text
  /\ Push([turn EXCEPT !.text = TRUE], <<Event("assistantDelta", turn.n)>>)
  /\ UNCHANGED toolTurns

StreamToolCall ==
  /\ Streaming
  /\ ~turn.tool
  /\ toolTurns < MaxToolTurns
  /\ submits + toolTurns < MaxWork
  /\ toolTurns' = toolTurns + 1
  /\ Push([turn EXCEPT !.tool = TRUE], <<Event("toolPrepared", turn.n)>>)

\* "done"; "length" goes the way of "stop", and "aborted" that of "error".
StreamDone ==
  /\ Streaming
  /\ \E reason \in {"stop", "toolUse", "error"} :
       Push([turn EXCEPT !.reason = reason], <<>>)
  /\ UNCHANGED toolTurns

\* The provider's "error" event: push fails the kernel turn and throws.
StreamError ==
  /\ Streaming
  /\ Push([turn EXCEPT !.state = "failed"], <<>>)
  /\ UNCHANGED toolTurns

\* "done" with a tool call that never ended: the turn is cancelled.
StreamInvalidCall ==
  /\ Streaming
  /\ Await("cancelling")
  /\ UNCHANGED <<nativeVars, aborted, toolTurns, appVars, history>>

\* The stream throws, ends without "done", or yields once aborted.
StreamBreaks ==
  /\ run = "streaming"
  /\ turn.reason = "none"
  /\ Await(IF aborted THEN "cancelling" ELSE "failing")
  /\ UNCHANGED <<nativeVars, aborted, toolTurns, appVars, history>>

StreamEnds ==
  /\ run = "streaming"
  /\ turn.reason # "none"
  /\ Await("finishing")
  /\ UNCHANGED <<nativeVars, aborted, toolTurns, appVars, history>>

\* send_event: the native call waits for room in the channel.
Send ==
  /\ run \in {"pushing", "settling", "reporting"}
  /\ sending # <<>>
  /\ Fits(session, <<Head(sending)>>)
  /\ session' = TryEmit(session, <<Head(sending)>>)
  /\ sending' = Tail(sending)
  /\ UNCHANGED <<turn, cancels, runVars, appVars, history>>

Pushed ==
  /\ run = "pushing"
  /\ sending = <<>>
  /\ Await(IF turn.state # "failed" THEN "streaming"
           ELSE IF aborted THEN "cancelling" ELSE "failing")
  /\ UNCHANGED <<nativeVars, aborted, toolTurns, appVars, history>>

\* A push still waiting for room sees the turn's cancellation and throws;
\* the signal is aborted by then, so the turn is cancelled once more.
PushInterrupted ==
  /\ run = "pushing"
  /\ sending # <<>>
  /\ \E c \in cancels : c.turn = turn.n /\ c.phase # "spawned"
  /\ sending' = <<>>
  /\ Await("cancelling")
  /\ UNCHANGED <<session, turn, cancels, aborted, toolTurns, appVars,
                 history>>

\* The kernel turn's cancel succeeds only on an active turn.
CancelAnyway(n) == turn.n = n
CanCancel(n) == turn.n = n /\ turn.state = "active"

MarkCancelled == turn' = [turn EXCEPT !.state = "cancelled"]

\* settle_cancelled: the partial reply is committed, unless its id is taken,
\* and the two notices are sent if there is room.
SettleCancelled(s, n, id, tool) ==
  IF IdTaken(s, id) THEN s
  ELSE TryEmit(AppendReply(s, id, n, tool),
               <<Other, Event("turnCancelled", n)>>)

Advance(c, phase) ==
  cancels' = (cancels \ {c}) \cup {[c EXCEPT !.phase = phase]}

\* The cancel an abort listener called, on a thread of its own: its flag and
\* token; then the turn, if that is still active, and otherwise it fails and
\* nobody looks; and under another lock the reply, for which the run does
\* not wait.
FlagCancel ==
  \E c \in cancels :
    /\ c.phase = "spawned"
    /\ Advance(c, "flagged")
    /\ UNCHANGED <<session, turn, sending, runVars, appVars, history>>

MarkCancel ==
  \E c \in cancels :
    /\ c.phase = "flagged"
    /\ IF CanCancel(c.turn)
       THEN MarkCancelled /\ Advance(c, "marked")
       ELSE UNCHANGED turn /\ cancels' = cancels \ {c}
    /\ UNCHANGED <<session, sending, runVars, appVars, prompted, steered>>

SettleCancel ==
  \E c \in cancels :
    /\ c.phase = "marked"
    /\ cancels' = cancels \ {c}
    /\ session' = SettleCancelled(session, c.turn, c.id, c.tool)
    /\ UNCHANGED <<turn, sending, runVars, appVars, history>>

\* The cancel runProviderTurn awaits: run returns with a cancelled result,
\* or throws when the turn was no longer active.  Nothing else touches the
\* session meanwhile, so its two locks are one step.
AwaitedCancel ==
  /\ run = "cancelling"
  /\ IF CanCancel(turn.n)
     THEN /\ MarkCancelled
          /\ session' = SettleCancelled(session, turn.n, turn.id, turn.tool)
          /\ Return("cancelled")
          /\ UNCHANGED ui
     ELSE /\ Throw
          /\ UNCHANGED <<session, turn>>
  /\ UNCHANGED <<sending, cancels, aborted, toolTurns, handler, batch,
                 submits, escapes, prompted, steered>>

\* append_result: the reply joins the session before its end is announced.
CommitTurn ==
  session' = AppendReply(session, turn.id, turn.n, turn.tool)

\* ModelTurn::finish; it fails when a cancel got to the turn first.
FinishTurn ==
  /\ run = "finishing"
  /\ IF turn.state = "active"
     THEN /\ turn' = [turn EXCEPT !.state = "finished"]
          /\ CommitTurn
          /\ sending' = <<Other, Event("turnFinished", turn.n)>>
          /\ Await("settling")
     ELSE /\ Await(IF aborted THEN "cancelling" ELSE "failing")
          /\ UNCHANGED <<turn, session, sending>>
  /\ UNCHANGED <<cancels, aborted, toolTurns, appVars, history>>

FailTurn ==
  /\ run = "failing"
  /\ turn' = [turn EXCEPT !.state = "failed"]
  /\ sending' = <<Event("turnFailed", turn.n)>>
  /\ Await("reporting")
  /\ UNCHANGED <<session, cancels, aborted, toolTurns, appVars, history>>

FailReported ==
  /\ run = "reporting"
  /\ sending = <<>>
  /\ Throw
  /\ UNCHANGED <<nativeVars, aborted, toolTurns, handler, batch, submits,
                 escapes, history>>

-----------------------------------------------------------------------------
(* The rest of the run: tools, the last drain, and its end.                *)

Settled ==
  /\ run = "settling"
  /\ sending = <<>>

ReturnAborted ==
  /\ Settled
  /\ aborted
  /\ Return("cancelled")
  /\ UNCHANGED <<nativeVars, aborted, toolTurns, appVars, history>>

\* classifyStopReason: a reason that does not go with the reply throws, and
\* so does "error".
StopMismatch ==
  /\ Settled
  /\ ~aborted
  /\ turn.reason = "error" \/ (turn.reason = "toolUse") # turn.tool
  /\ Throw
  /\ UNCHANGED <<nativeVars, aborted, toolTurns, handler, batch, submits,
                 escapes, history>>

ToolStarts == <<Event("toolStarted", turn.n), Other>>

\* executeTool up to the tool's execute.  If the channel refuses an event,
\* the execution fails, its result is an error, and the loop goes on.
StartTool ==
  /\ Settled
  /\ ~aborted
  /\ turn.reason = "toolUse" /\ turn.tool
  /\ toolCycle' = TRUE
  /\ LET started == TryEmit(session, ToolStarts)
     IN  IF Fits(session, ToolStarts)
         THEN /\ run' = "executing"
              /\ session' = started
              /\ UNCHANGED <<turn, ended, ui>>
         ELSE Continue(AppendNew(started, "tool", turn.n), FALSE)
  /\ UNCHANGED <<sending, cancels, aborted, toolTurns, handler, batch,
                 submits, escapes, history>>

\* The tool returns, or throws something other than a cancellation: either
\* way its result is appended and announced, and the loop goes on unless
\* the signal was aborted.
ToolReturns ==
  /\ run = "executing"
  /\ LET kept == TryEmit(AppendNew(session, "tool", turn.n),
                         <<Event("toolResult", turn.n)>>)
     IN  IF aborted
         THEN /\ session' = kept
              /\ Return("cancelled")
              /\ UNCHANGED <<turn, ui>>
         ELSE /\ Continue(kept, FALSE)
              /\ UNCHANGED toolCycle
  /\ UNCHANGED <<sending, cancels, aborted, toolTurns, handler, batch,
                 submits, escapes, history>>

\* The tool throws after an abort: the execution is cancelled, without a
\* result in the session and without an event.
ToolAborted ==
  /\ run = "executing"
  /\ aborted
  /\ Return("cancelled")
  /\ UNCHANGED <<nativeVars, aborted, toolTurns, appVars, history>>

\* The end of a reply without tools: what was queued meanwhile is delivered
\* and the loop goes on, and otherwise the run returns.
LastDrain ==
  /\ Settled
  /\ ~aborted
  /\ turn.reason = "stop" /\ ~turn.tool
  /\ LET told == DrainAndDeliver(session, TRUE)
     IN  IF session.prompts = <<>> /\ session.steers = <<>>
         THEN /\ Return("drained")
              /\ UNCHANGED <<session, turn, ui>>
         ELSE /\ IF told.ok THEN Continue(told.session, ~toolCycle)
                 ELSE /\ session' = told.session
                      /\ run' = "failed"
                      /\ ended' = "failed"
                      /\ ui' = TurnFailedUi(ui)
                      /\ UNCHANGED turn
              /\ UNCHANGED toolCycle
  /\ UNCHANGED <<sending, cancels, aborted, toolTurns, handler, batch,
                 submits, escapes, history>>

\* The failure has been drawn; activeAgentRun is cleared.
FailedRunKept ==
  /\ run = "failed"
  /\ UNCHANGED vars
ClearFailedRun ==
  /\ run = "failed"
  /\ run' = "idle"
  /\ toolCycle' = FALSE
  /\ UNCHANGED <<nativeVars, aborted, toolTurns, ended, appVars, history>>

-----------------------------------------------------------------------------
(* The specification.                                                      *)

Init ==
  /\ session = [prompts |-> <<>>, steers |-> <<>>, entries |-> <<>>,
                nextId |-> 1, nextTurn |-> 1, events |-> <<>>]
  /\ turn = NoTurn
  /\ sending = <<>>
  /\ cancels = {}
  /\ run = "idle"
  /\ aborted = FALSE
  /\ toolCycle = FALSE
  /\ ui = [active |-> FALSE, open |-> FALSE, steering |-> <<>>,
           tools |-> [n \in Turns |-> "none"]]
  /\ handler = <<>>
  /\ batch = <<>>
  /\ submits = 0
  /\ escapes = 0
  /\ toolTurns = 0
  /\ prompted = <<>>
  /\ steered = <<>>
  /\ ended = "none"

UserStep == Submit \/ Escape
HandlerStep ==
  SteerAccepted \/ SteerRefused \/ PromptAccepted \/ PromptRefused
StreamStep ==
  \/ StreamText \/ StreamToolCall \/ StreamDone
  \/ StreamError \/ StreamInvalidCall \/ StreamBreaks \/ StreamEnds
NativeStep ==
  \/ Send \/ PushInterrupted \/ AwaitedCancel \/ FinishTurn \/ FailTurn
RunStep ==
  \/ Pushed \/ FailReported \/ ReturnAborted \/ StopMismatch \/ StartTool
  \/ LastDrain \/ ClearFailedRun
ToolStep == ToolReturns \/ ToolAborted
BackgroundCancel == FlagCancel \/ MarkCancel \/ SettleCancel

Next ==
  \/ UserStep \/ HandlerStep \/ TakeBatch \/ Dispatch
  \/ StreamStep \/ NativeStep \/ RunStep \/ ToolStep \/ BackgroundCancel

Spec == Init /\ [][Next]_vars

\* Every promise that can be settled is: the terminal's, the bridge's, those
\* of the native calls and the continuations of the run.  RepliesEnd is about
\* the outside: a provider's stream goes on and every tool returns.
Fairness ==
  /\ WF_vars(HandlerStep)
  /\ WF_vars(TakeBatch)
  /\ WF_vars(Dispatch)
  /\ WF_vars(NativeStep)
  /\ WF_vars(RunStep)
  /\ WF_vars(BackgroundCancel)
RepliesEnd == WF_vars(StreamStep) /\ WF_vars(ToolStep)

FairSpec == Spec /\ Fairness /\ RepliesEnd

-----------------------------------------------------------------------------
(* Properties.                                                             *)

PromptEntries(s) ==
  {i \in 1..Len(s.entries) : s.entries[i].from = "prompt"}

PromptsKept(s) ==
  {s.entries[i].about : i \in PromptEntries(s)} \cup
  {s.prompts[i] : i \in 1..Len(s.prompts)}

InOrder(s) ==
  /\ \A i, j \in PromptEntries(s) :
       i < j => s.entries[i].about < s.entries[j].about
  /\ \A i \in PromptEntries(s), j \in 1..Len(s.prompts) :
       s.entries[i].about < s.prompts[j]
  /\ \A i, j \in 1..Len(s.prompts) : i < j => s.prompts[i] < s.prompts[j]

\* Whatever the user does and whichever events are refused, every prompt the
\* queue accepted is in the session or still queued, once, and in the order
\* of acceptance (dequeue, deliver_user_message, and the run's two drains);
\* one submission is handled after the other, so their numbers tell it.
\* And a run that ends by itself leaves none queued, although prompts are
\* taken one at a time and the app does not start a run while it has one.
\* (A run that is cancelled or fails may leave one until the next submit.)
PromptsInOrder ==
  /\ InOrder(session)
  /\ PromptsKept(session) = {prompted[i] : i \in 1..Len(prompted)}
  /\ run = "idle" /\ ended = "drained" => session.prompts = <<>>

\* The ids of the session increase, and the id a model turn reserved when it
\* began is still free while it is active: nothing is appended meanwhile, so
\* append_message can report ConflictingMessageId only to a late cancel.
IdsFresh ==
  /\ \A i, j \in 1..Len(session.entries) :
       i < j => session.entries[i].id < session.entries[j].id
  /\ \A i \in 1..Len(session.entries) :
       session.entries[i].id < session.nextId
  /\ turn.state = "active" => turn.id = session.nextId

Replies(n) ==
  {i \in 1..Len(session.entries) :
     session.entries[i].from = "assistant" /\ session.entries[i].about = n}

Settling(n) == \E c \in cancels : c.turn = n /\ c.phase = "marked"

\* However finish, the awaited cancel and the abort listener's cancel race,
\* no turn commits two replies; the latest one commits none while it is
\* active or when it failed, and exactly one when it finished or was
\* cancelled, once the cancel has gone through both its locks.
RepliesCommittedOnce ==
  /\ \A n \in 1..session.nextTurn : Cardinality(Replies(n)) <= 1
  /\ turn.state \in {"finished", "cancelled"} =>
       (Replies(turn.n) # {}) # Settling(turn.n)
  /\ turn.state \in {"active", "failed"} => Replies(turn.n) = {}

\* Once the model has asked for a tool, steers stay queued until a reply of
\* the same run asks for none: toolCycleStarted keeps later drains from
\* taking them.
SteersWaitForFinalReply ==
  [][toolCycle /\ Len(session'.steers) < Len(session.steers) =>
       \E i \in 1..Len(session.entries) :
         /\ session.entries[i].from = "assistant"
         /\ session.entries[i].about = turn.n
         /\ ~session.entries[i].tool]_vars

\* A cancelled run ends, and the app is free to start another, provided that
\* streams and tools end: no send, cancel or failure report can hold it.
AbortedRunEnds == (aborted /\ run # "idle") ~> (run = "idle")

\* iyon-core.md: a SteerQueued message is queued "for delivery at the next
\* turn boundary".  So an accepted steer is queued or in the session; but
\* dequeue("steer") empties the queue and returns only its first text.
SteersKept ==
  \A i \in 1..Len(steered) :
    \/ \E j \in 1..Len(session.steers) : session.steers[j] = steered[i]
    \/ \E j \in 1..Len(session.entries) :
         /\ session.entries[j].from = "steer"
         /\ session.entries[j].about = steered[i]

=============================================================================
