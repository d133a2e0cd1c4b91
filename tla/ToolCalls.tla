------------------------------ MODULE ToolCalls ------------------------------
(***************************************************************************)
(* The tool phase of a reply, end to end: the bundled agent works through  *)
(* the calls (agents/iyon/src/tools.ts), the runtime executes each one     *)
(* (execution.ts) over a native ToolExecution (tool_execution.rs) and its  *)
(* kernel lifecycle (kernel/tool.rs, approval.rs), a tool that must ask    *)
(* waits in the ApprovalBroker (approval.ts) until the app decides, and    *)
(* the app shows what the session's event channel tells it (state.ts,      *)
(* actions.ts, app.ts).  Escape aborts the run; leaving the application    *)
(* rejects, aborts the lifetime and closes the session (bootstrap.ts).     *)
(*                                                                         *)
(* An action is a block of JavaScript up to its next await, and the two    *)
(* hooks and the tool are such awaits.  The calls of a reply have distinct *)
(* ids and are their positions, invalid calls (those come first) included. *)
(* An event the app's mapper drops is Other.  A definition no action uses, *)
(* put just before the one it varies, is that one with a plausible mistake *)
(* some property catches.                                                  *)
(***************************************************************************)
EXTENDS Integers, Sequences, FiniteSets

CONSTANTS
  MaxCalls,      (* bound: calls in the reply                              *)
  CallLimit,     (* MAX_TOOL_CALLS_PER_MODEL_TURN (16)                     *)
  EventCap,      (* room for events not yet dispatched to the app          *)
  MaxPresses,    (* bound: decisions of the user                           *)
  MaxEscapes     (* bound: times the user cancels                          *)

ASSUME ToolCallsAssumption ==
  /\ MaxCalls \in Nat /\ CallLimit \in Nat /\ EventCap \in Nat
  /\ MaxPresses \in Nat /\ MaxEscapes \in Nat

Calls == 1..MaxCalls

VARIABLES
  plan,          (* what the reply asks for; fixed                         *)
  at, call,      (* where executeRequestedTools is, and in which call      *)
  handle,        (* the ToolLifecycleHandle of each call                   *)
  pending,       (* ApprovalBroker.pending                                 *)
  answered,      (* the session's tool results, in order                   *)
  aborted,       (* the run's linked abort signal                          *)
  closed,        (* the session was closed                                 *)
  leaving,       (* how far the application's exit has come                *)
  events, lost,  (* the event channel, and whether it ever refused one     *)
  ui,            (* the app's reduced state                                *)
  presses, escapes

runVars == <<at, call, handle, pending, answered>>
channel == <<events, lost>>
bounds == <<presses, escapes>>
vars == <<plan, runVars, aborted, closed, leaving, channel, ui, bounds>>

-----------------------------------------------------------------------------
(* The kernel's ToolLifecycleHandle.                                       *)

LifecycleStates == {"none", "preparing", "prepared", "running",
                    "pendingApproval", "finished", "failed", "cancelled"}
Terminal(h) == h.state \in {"finished", "failed", "cancelled"}

\* approval_started_running is the state an approval resumes.
NoHandle == [state |-> "none", approval |-> "none", id |-> 0, nextId |-> 1,
             resume |-> "prepared"]
NewHandle == [NoHandle EXCEPT !.state = "preparing"]

Prepared(h) == [h EXCEPT !.state = "prepared"]
Start(h) == [h EXCEPT !.state = "running"]
FinishHandle(h) == [h EXCEPT !.state = "finished"]

RequestApproval(h) ==
  [h EXCEPT !.state = "pendingApproval", !.approval = "pending",
            !.id = h.nextId, !.nextId = @ + 1,
            !.resume = h.state]

Resolve(h, id, approved) ==
  IF h.id # id \/ h.approval # "pending" \/ h.state # "pendingApproval"
  THEN h
  ELSE [h EXCEPT !.approval = IF approved THEN "approved" ELSE "rejected",
                 !.state = IF approved THEN h.resume ELSE "failed"]

\* fail and cancel of a handle that is not terminal settle its approval too.
Withdrawn(approval) == IF approval = "pending" THEN "cancelled" ELSE approval
FailHandle(h) ==
  [h EXCEPT !.state = "failed", !.approval = Withdrawn(@)]
CancelHandle(h) ==
  [h EXCEPT !.state = "cancelled", !.approval = Withdrawn(@)]

-----------------------------------------------------------------------------
(* The session's events.                                                   *)

Event(kind, c) == [kind |-> kind, call |-> c, ok |-> TRUE]
Other == Event("other", 0)
Resolved(c, approved) == [Event("resolved", c) EXCEPT !.ok = approved]
Result(c, ok) == [Event("result", c) EXCEPT !.ok = ok]

Fits(es) == Len(events) + Len(es) <= EventCap

\* A run of try_emit: those that fit, up to the first one refused.
Emit(es) ==
  LET room == EventCap - Len(events)
  IN  /\ events' = events \o SubSeq(es, 1,
                                    IF Fits(es) THEN Len(es) ELSE room)
      /\ lost' = (lost \/ ~Fits(es))

-----------------------------------------------------------------------------
(* executeTool and the loop around it.                                     *)

\* The call is over as far as the loop is concerned, which goes on or, if
\* the run was aborted meanwhile, stops.
GoOn ==
  /\ at' = "next"
  /\ call' = call + 1

\* fail(): what was thrown when the handle was h and es had been emitted.
\* A handle that is already terminal, or a closed session, refuses.
FailWithoutAnswer(h, es) ==
  /\ handle' = [handle EXCEPT ![call] =
                  IF Terminal(h) \/ closed THEN h
                  ELSE IF aborted THEN CancelHandle(h) ELSE FailHandle(h)]
  /\ Emit(es)
  /\ UNCHANGED answered
  /\ IF aborted THEN at' = "cancelled" /\ UNCHANGED call ELSE GoOn
Fail(h, es) ==
  IF aborted
  THEN /\ handle' = [handle EXCEPT ![call] =
                       IF Terminal(h) \/ closed THEN h ELSE CancelHandle(h)]
       /\ Emit(es)
       /\ at' = "cancelled"
       /\ UNCHANGED <<call, answered>>
  ELSE /\ handle' = [handle EXCEPT ![call] =
                       IF Terminal(h) THEN h ELSE FailHandle(h)]
       /\ answered' = IF Terminal(h) THEN answered ELSE Append(answered, call)
       /\ Emit(IF Terminal(h) THEN es ELSE es \o <<Result(call, FALSE)>>)
       /\ GoOn

\* From the last check of the signal to the tool's first await.
WorkUnchecked(h, es) ==
  LET told == es \o <<Event("started", call), Other>>
  IN  IF ~Fits(told) THEN Fail(Start(h), told)
      ELSE /\ handle' = [handle EXCEPT ![call] = Start(h)]
           /\ Emit(told)
           /\ at' = "working"
           /\ UNCHANGED <<call, answered>>
Work(h, es) ==
  LET told == es \o <<Event("started", call), Other>>
  IN  IF aborted THEN Fail(h, es)
      ELSE IF ~Fits(told) THEN Fail(Start(h), told)
      ELSE /\ handle' = [handle EXCEPT ![call] = Start(h)]
           /\ Emit(told)
           /\ at' = "working"
           /\ UNCHANGED <<call, answered>>

\* What executeTool does with the broker's answer.  A refused call leaves
\* the loop an error result and the session none.
TakeDecision(id, approved) ==
  LET h == Resolve(handle[call], id, approved)
      es == <<Resolved(call, approved)>>
  IN  IF ~Fits(es) THEN Fail(h, es)
      ELSE IF approved THEN Work(h, es)
      ELSE /\ handle' = [handle EXCEPT ![call] = h]
           /\ Emit(es)
           /\ GoOn
           /\ UNCHANGED answered

\* The broker's finish(): an id it does not know is ignored.
Decide(id, approved) ==
  IF \E p \in pending : p.id = id
  THEN /\ pending' = {p \in pending : p.id # id}
       /\ TakeDecision(id, approved)
  ELSE UNCHANGED <<runVars, channel>>

Live == plan.count <= CallLimit

\* More calls than the limit: run throws, and the app records the failure.
TooManyCalls ==
  /\ at = "next" /\ ~Live
  /\ at' = "failed"
  /\ ui' = [ui EXCEPT !.active = FALSE]
  /\ UNCHANGED <<plan, call, handle, pending, answered, aborted, closed,
                 leaving, channel, bounds>>

EndPhase ==
  /\ at = "next" /\ Live
  /\ aborted \/ call > plan.count
  /\ at' = IF aborted THEN "cancelled" ELSE "completed"
  /\ UNCHANGED <<plan, call, handle, pending, answered, aborted, closed,
                 leaving, channel, ui, bounds>>

\* An invalid call, or a tool nobody knows, is answered without any work.
AnswerUnknown ==
  /\ at = "next" /\ Live /\ ~aborted /\ call <= plan.count
  /\ plan.kind[call] = "unknown"
  /\ LET started == <<Event("started", call), Other>>
     IN  /\ handle' = [handle EXCEPT ![call] =
                         IF Fits(started) THEN FinishHandle(NewHandle)
                         ELSE FailHandle(Start(Prepared(NewHandle)))]
         /\ Emit(started \o <<Result(call, FALSE)>>)
  /\ answered' = Append(answered, call)
  /\ GoOn
  /\ UNCHANGED <<plan, pending, aborted, closed, leaving, ui, bounds>>

BeginCall ==
  /\ at = "next" /\ Live /\ ~aborted /\ call <= plan.count
  /\ plan.kind[call] # "unknown"
  /\ handle' = [handle EXCEPT ![call] = NewHandle]
  /\ at' = "before"
  /\ UNCHANGED <<plan, call, pending, answered, aborted, closed, leaving,
                 channel, ui, bounds>>

\* The before hook throws.
HookRefuses ==
  /\ at = "before"
  /\ Fail(handle[call], <<>>)
  /\ UNCHANGED <<plan, pending, aborted, closed, leaving, ui, bounds>>

\* The before hook is done, and the tool need not ask; or it must, and the
\* context may hold nobody to ask.
BeginWork ==
  /\ at = "before"
  /\ plan.kind[call] = "plain"
  /\ IF closed THEN Fail(handle[call], <<>>)
     ELSE Work(Prepared(handle[call]), <<>>)
  /\ UNCHANGED <<plan, pending, aborted, closed, leaving, ui, bounds>>

AskApproval ==
  /\ at = "before"
  /\ plan.kind[call] = "asks"
  /\ LET h == RequestApproval(Prepared(handle[call]))
         es == <<Event("requested", call)>>
     IN  IF closed THEN Fail(handle[call], <<>>) /\ UNCHANGED pending
         ELSE IF ~Fits(es) THEN Fail(h, es) /\ UNCHANGED pending
         ELSE IF ~plan.resolver
         THEN /\ handle' = [handle EXCEPT ![call] = FailHandle(h)]
              /\ answered' = Append(answered, call)
              /\ Emit(es \o <<Result(call, FALSE)>>)
              /\ IF aborted THEN at' = "cancelled" /\ UNCHANGED call ELSE GoOn
              /\ UNCHANGED pending
         ELSE /\ handle' = [handle EXCEPT ![call] = h]
              /\ pending' = {p \in pending : p.id # h.id} \cup
                            {[id |-> h.id, call |-> call]}
              /\ Emit(es)
              /\ at' = "approval"
              /\ UNCHANGED <<call, answered>>
  /\ UNCHANGED <<plan, aborted, closed, leaving, ui, bounds>>

\* tool.execute settles.  A tool that heeds the signal may throw once it is
\* raised; any tool may throw an error or return.
ToolReturns ==
  /\ at = "working"
  /\ at' = "after"
  /\ UNCHANGED <<plan, call, handle, pending, answered, aborted, closed,
                 leaving, channel, ui, bounds>>

ToolThrows ==
  /\ at = "working"
  /\ Fail(handle[call], <<>>)
  /\ UNCHANGED <<plan, pending, aborted, closed, leaving, ui, bounds>>

HookThrows ==
  /\ at = "after"
  /\ Fail(handle[call], <<>>)
  /\ UNCHANGED <<plan, pending, aborted, closed, leaving, ui, bounds>>

\* finish() keeps the result first; an event it cannot send then throws.
FinishCall ==
  /\ at = "after"
  /\ LET h == FinishHandle(handle[call])
     IN  IF closed THEN Fail(handle[call], <<>>)
         ELSE /\ handle' = [handle EXCEPT ![call] = h]
              /\ answered' = Append(answered, call)
              /\ Emit(<<Result(call, TRUE)>>)
              /\ IF aborted /\ ~Fits(<<Other>>)
                 THEN at' = "cancelled" /\ UNCHANGED call
                 ELSE GoOn
  /\ UNCHANGED <<plan, pending, aborted, closed, leaving, ui, bounds>>

Step == \/ TooManyCalls \/ EndPhase \/ AnswerUnknown \/ BeginCall
        \/ HookRefuses \/ BeginWork \/ AskApproval
        \/ ToolReturns \/ ToolThrows \/ HookThrows \/ FinishCall

-----------------------------------------------------------------------------
(* The app: its reducer, the user, and the way out.                        *)

CardStates == {"none", "prepared", "pendingApproval", "running", "finished",
               "failed", "cancelled"}

LiveCards(u) == {c \in Calls : u.card[c] # "none" /\ c \notin u.frozen}
HasActiveWork(u) == u.active \/ LiveCards(u) # {} \/ u.shown # 0

\* updateTool and startTool: only the latter makes a card.
SetCard(u, c, state) ==
  [u EXCEPT !.card[c] = IF @ = "none" THEN "none" ELSE state]

CancelLive(u) ==
  [u EXCEPT !.card = [c \in Calls |-> IF c \in LiveCards(u) THEN "cancelled"
                                      ELSE @[c]],
            !.frozen = @ \cup LiveCards(u),
            !.active = FALSE]

\* What the reducer makes of an event.  Every tool event shows activity, and
\* an approval thaws the card it is about.
ReduceKeepingPrompt(u, e) ==
  LET v == [u EXCEPT !.active = TRUE]
  IN  IF e.kind = "requested"
      THEN [SetCard(v, e.call, "pendingApproval") EXCEPT !.shown = e.call]
      ELSE v
Reduce(u, e) ==
  LET v == [u EXCEPT !.active = TRUE]
      known == u.card[e.call] # "none"
      Frozen(cond) == IF ~known THEN u.frozen
                      ELSE IF cond THEN u.frozen \cup {e.call}
                      ELSE u.frozen \ {e.call}
  IN  CASE e.kind = "other" -> u
        [] e.kind = "requested" ->
             [SetCard(v, e.call, "pendingApproval") EXCEPT !.shown = e.call]
        [] e.kind = "resolved" ->
             [SetCard(v, e.call, IF e.ok THEN "running" ELSE "cancelled")
                EXCEPT !.shown = 0, !.frozen = Frozen(~e.ok)]
        [] e.kind = "started" -> [v EXCEPT !.card[e.call] = "running"]
        [] e.kind = "result" ->
             [SetCard(v, e.call, IF e.ok THEN "finished" ELSE "failed")
                EXCEPT !.frozen = Frozen(TRUE)]

\* The bridge dispatches the next event, until it is closed.
Deliver ==
  /\ events # <<>> /\ leaving # "left"
  /\ ui' = IF Head(events) = Other THEN ui ELSE Reduce(ui, Head(events))
  /\ events' = Tail(events)
  /\ UNCHANGED <<plan, runVars, aborted, closed, leaving, lost, bounds>>

\* The user decides the prompt the app shows; the core is told its id.
ShownId == handle[ui.shown].id
Press ==
  /\ leaving = "no" /\ ui.shown # 0
  /\ presses < MaxPresses /\ presses' = presses + 1
  /\ \E approved \in BOOLEAN : Decide(ShownId, approved)
  /\ UNCHANGED <<plan, aborted, closed, leaving, ui, escapes>>

\* cancelActiveWork.
EscapeKey ==
  /\ leaving = "no" /\ HasActiveWork(ui)
  /\ escapes < MaxEscapes /\ escapes' = escapes + 1
  /\ aborted' = TRUE
  /\ ui' = CancelLive(ui)
  /\ UNCHANGED <<plan, runVars, closed, leaving, channel, presses>>

\* The terminal ends the application: performShutdown cancels the agent and,
\* an await later, rejects the prompt it shows and freezes its cards.
Terminate ==
  /\ leaving = "no"
  /\ leaving' = "going"
  /\ aborted' = TRUE
  /\ UNCHANGED <<plan, runVars, closed, channel, ui, bounds>>

Shutdown ==
  /\ leaving = "going"
  /\ leaving' = "gone"
  /\ ui' = [CancelLive(ui) EXCEPT !.shown = 0]
  /\ IF ui.shown # 0 THEN Decide(ShownId, FALSE)
     ELSE UNCHANGED <<runVars, channel>>
  /\ UNCHANGED <<plan, aborted, closed, bounds>>

\* The bridge closes; then the bootstrap's cleanup: aborting the lifetime
\* rejects what the broker still holds, which reaches the native execution
\* before the session is closed.
CleanupWithoutBroker ==
  /\ leaving = "gone"
  /\ leaving' = "left"
  /\ closed' = TRUE
  /\ UNCHANGED <<runVars, channel>>
  /\ UNCHANGED <<plan, aborted, ui, bounds>>
Cleanup ==
  /\ leaving = "gone"
  /\ leaving' = "left"
  /\ closed' = TRUE
  /\ pending' = {}
  /\ IF pending # {} THEN Fail(handle[call], <<>>)
     ELSE UNCHANGED <<at, call, handle, answered, channel>>
  /\ UNCHANGED <<plan, aborted, ui, bounds>>

-----------------------------------------------------------------------------
Kinds == {"plain", "asks", "unknown"}

\* A reply with calls ends its turn before they are executed, and the app
\* has a prepared card for each call whose arguments were complete.
Init ==
  /\ plan \in {p \in [count : 1..MaxCalls, kind : [Calls -> Kinds],
                      resolver : BOOLEAN] :
                 \A c \in Calls : c > p.count => p.kind[c] = "plain"}
  /\ at = "next" /\ call = 1
  /\ handle = [c \in Calls |-> NoHandle]
  /\ pending = {} /\ answered = <<>>
  /\ aborted = FALSE /\ closed = FALSE /\ leaving = "no"
  /\ events = <<>> /\ lost = FALSE
  /\ ui = [shown |-> 0, active |-> TRUE, frozen |-> {},
           card |-> [c \in Calls |-> IF c <= plan.count THEN "prepared"
                                     ELSE "none"]]
  /\ presses = 0 /\ escapes = 0

Next == \/ Step \/ Deliver \/ Press \/ EscapeKey
        \/ Terminate \/ Shutdown \/ Cleanup

Spec == Init /\ [][Next]_vars

\* JavaScript's continuations run, hooks and tools settle once the signal is
\* raised (the bundled ones pass it to their native operations), the bridge
\* reads, and an exit that has begun goes through.  Nobody has to press.
FairSpec ==
  /\ Spec
  /\ WF_vars(Step /\ (at = "next" \/ aborted))
  /\ WF_vars(Deliver) /\ WF_vars(Shutdown) /\ WF_vars(Cleanup)

-----------------------------------------------------------------------------
(* Properties.                                                             *)

Ended == {"completed", "cancelled", "failed"}
Places == {"next", "before", "approval", "working", "after"} \cup Ended

EventType ==
  {Other} \cup [kind : {"requested", "resolved", "started", "result"},
                call : Calls, ok : BOOLEAN]

UiType ==
  [shown : Calls \cup {0}, active : BOOLEAN, frozen : SUBSET Calls,
   card : [Calls -> CardStates]]

HandleType ==
  [state : LifecycleStates, id : {0, 1}, nextId : {1, 2},
   approval : {"none", "pending", "approved", "rejected", "cancelled"},
   resume : {"prepared"}]

\* Every variable keeps its type; an execution asks at most once, so the
\* first approval id is the only one any of them uses.
TypeOK ==
  /\ plan \in [count : 1..MaxCalls, kind : [Calls -> Kinds],
               resolver : BOOLEAN]
  /\ at \in Places /\ call \in 1..(plan.count + 1)
  /\ handle \in [Calls -> HandleType]
  /\ pending \subseteq [id : {1}, call : Calls]
  /\ answered \in Seq(Calls)
  /\ aborted \in BOOLEAN /\ closed \in BOOLEAN
  /\ leaving \in {"no", "going", "gone", "left"}
  /\ events \in Seq(EventType) /\ lost \in BOOLEAN
  /\ ui \in UiType
  /\ presses \in 0..MaxPresses /\ escapes \in 0..MaxEscapes

\* A call as the promise sees it.
Became(h) ==
  CASE h.state \in {"none", "preparing", "prepared"} -> "waiting"
    [] h.state = "pendingApproval" -> "asked"
    [] h.state = "running" -> "working"
    [] h.state = "finished" -> "done"
    [] h.state = "failed" /\ h.approval = "rejected" -> "refused"
    [] h.state = "failed" /\ h.approval # "rejected" -> "failed"
    [] h.state = "cancelled" -> "dropped"
work == [c \in Calls |-> Became(handle[c])]
Promised ==
  INSTANCE ToolPromise
  WITH asking <- {c \in Calls : plan.kind[c] = "asks"},
       granted <- {c \in Calls : handle[c].approval = "approved"},
       stopped <- aborted
\* Whatever the hooks, the tools, the user and a full channel do, the loop,
\* the broker and the kernel's handles together keep the promise: no tool
\* works before its turn, before it was granted, or after an abort.
KeepsPromise == Promised!Promise

\* The session answers calls in the model's order and never twice, and when
\* the phase completes it has answered every call but the refused ones
\* (execution.ts returns their error result to the loop only).
OnlyRefusedUnanswered ==
  /\ \A i, j \in 1..Len(answered) : i < j => answered[i] < answered[j]
  /\ at = "completed" =>
       \A c \in 1..plan.count :
         (handle[c].approval = "rejected") <=> c \notin {answered[i] :
                                                  i \in 1..Len(answered)}

\* Once the app has heard everything, and nothing was refused, it shows a
\* prompt exactly while the broker waits, and for the call that is waiting:
\* neither a decision, an abort nor an error of a hook can leave one behind.
\* (Without anybody to ask, the request is announced before the call fails.)
PromptMatchesBroker ==
  leaving = "no" /\ events = <<>> /\ ~lost /\ plan.resolver =>
    {ui.shown} \ {0} = {p.call : p \in pending}

\* An aborted phase ends or is left waiting for a decision, and leaving the
\* application ends that wait as well.
AbortEndsPhase ==
  /\ aborted ~> (at \in Ended \cup {"approval"})
  /\ leaving = "going" ~> at \in Ended

\* "Press Enter to approve or Escape to reject" (approvals.ts): a prompt the
\* user escaped from, which its card shows as cancelled, is settled.
EscapeRejects ==
  at = "approval" /\ ui.shown = call /\ ui.card[call] = "cancelled"
    ~> at # "approval"

-----------------------------------------------------------------------------
(* The inductive invariant the proofs rest on: where the loop is determines *)
(* the handles on both sides of it, and what the broker holds.             *)

Asked == RequestApproval(Prepared(NewHandle))
AskedOf(c) == [id |-> Asked.id, call |-> c]
InCall == {"before", "approval", "working", "after"}
AtWork(h) == h.state = "running" /\ h.approval \in {"none", "approved"}

Placed ==
  /\ call \in 1..(plan.count + 1)
  /\ at \in InCall => call <= plan.count
  /\ closed => aborted
  /\ leaving # "no" => aborted
  /\ at = "approval" => ~closed
  /\ pending = IF at = "approval" THEN {AskedOf(call)} ELSE {}

HandlesFollowLoop ==
  /\ \A c \in Calls : c < call => Terminal(handle[c])
  /\ \A c \in Calls : c > call => handle[c] = NoHandle
  /\ at = "next" /\ call \in Calls => handle[call] = NoHandle
  /\ at = "before" => handle[call] = NewHandle
  /\ at = "approval" => handle[call] = Asked
  /\ at \in {"working", "after"} => AtWork(handle[call])

OnlyAskersAsk ==
  \A c \in Calls : handle[c].approval # "none" => plan.kind[c] = "asks"

IInv == TypeOK /\ Placed /\ HandlesFollowLoop /\ OnlyAskersAsk
==============================================================================
