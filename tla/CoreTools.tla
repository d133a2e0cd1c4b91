------------------------------ MODULE CoreTools ------------------------------
(***************************************************************************)
(* The tool phase of the core's own loop: execute_tool_requests (loop.rs)  *)
(* takes the calls of a reply one by one through execute_tool_call         *)
(* (agent/tool_execution.rs) with its hooks (tools/hooks.rs), its approval *)
(* and the tool.  The runtime forwards the user's decisions on the control *)
(* channel of the turn, and cancels the turn's token.                      *)
(*                                                                         *)
(* An action runs from one wait to the next: the waits are the hooks, the  *)
(* tool and the select! of the approval.  What another task does between   *)
(* two sends of one action it may as well do after them, because it only   *)
(* adds to the control channel or cancels.  The consumer reads every event *)
(* (the loop ignores a send that fails).  Arguments and texts are data: a  *)
(* hook that patches them proceeds.  A definition no action uses, put      *)
(* before the one it varies, is that one with a plausible mistake.         *)
(***************************************************************************)
EXTENDS Integers, Sequences, FiniteSets

CONSTANTS
  MaxCalls,       (* bound: calls in the reply, invalid ones included      *)
  BeforeHooks,    (* number of hooks registered before a call ...          *)
  AfterHooks,     (* ... and after it                                      *)
  ControlCap,     (* capacity of the turn's control channel (8)            *)
  FirstApproval,  (* next_approval_id when the phase begins                *)
  MaxDecisions    (* bound: decisions of the user                          *)

ASSUME CoreToolsAssumption ==
  /\ MaxCalls \in Nat /\ BeforeHooks \in Nat /\ AfterHooks \in Nat
  /\ ControlCap \in Nat \ {0} /\ FirstApproval \in Nat \ {0}
  /\ MaxDecisions \in Nat

Calls == 1..MaxCalls

VARIABLES
  reply,          (* the kinds of the reply's calls; fixed                 *)
  at, call, hook, (* where the loop is: in which call, at which hook       *)
  approval,       (* approval_id of each call that asked, else 0           *)
  nextApproval,
  isError,        (* ToolResult.is_error of the tool that returned ...     *)
  override,       (* ... and the after hooks' override, or "none"          *)
  answers,        (* the tool results pushed to the session, in order      *)
  control,        (* the control channel; its sender lives while owned     *)
  owned,
  cancelled,      (* the turn's token                                      *)
  log,            (* the events sent                                       *)
  fate, granted,  (* history: how each call ended; the calls granted       *)
  decisions

loopVars == <<at, call, hook>>
resultVars == <<isError, override>>
outside == <<control, owned, cancelled, decisions>>
vars == <<reply, loopVars, approval, nextApproval, resultVars, answers,
          outside, log, fate, granted>>

-----------------------------------------------------------------------------
(* Calls and events.                                                       *)

\* "sudo" is a call of bash, which never asks, whose command uses sudo.
Kinds == {"invalid", "unknown", "free", "sudo", "asks"}

\* effective_approval_policy is AlwaysAsk.
AlwaysAsks(kind) == kind \in {"asks", "sudo"}

Last == Len(reply)
Ended == {"completed", "cancelled"}

Event(kind, id, flag) ==
  [kind |-> kind, call |-> call, id |-> id, flag |-> flag]
Started == Event("started", 0, FALSE)
Requested(id) == Event("requested", id, FALSE)
ResolvedAs(id, approved) == Event("resolved", id, approved)

\* ToolResultStarted, the tool message, ToolResultFinished; then, for a call
\* that was started, ToolCallFinished.
ResultEvent(error) == Event("result", 0, error)
FinishedEvent(error) == Event("finished", 0, error)

-----------------------------------------------------------------------------
(* execute_tool_requests and execute_one_tool_request.                     *)

\* The call's result is sent, pushed, and the loop goes on to the next call.
AnswerWith(how, error, es) ==
  /\ answers' = Append(answers, [call |-> call, error |-> error])
  /\ log' = log \o es
  /\ fate' = [fate EXCEPT ![call] = how]
  /\ at' = "next" /\ call' = call + 1

\* A blocked, failing or rejected call is answered like any other.
AnswerUnfinished(how, error, before) ==
  AnswerWith(how, error, Append(before, ResultEvent(error)))
Answer(how, error, before) ==
  AnswerWith(how, error,
             before \o <<ResultEvent(error), FinishedEvent(error)>>)

Complete ==
  /\ at = "next" /\ call > Last
  /\ at' = "completed"
  /\ UNCHANGED <<reply, call, hook, approval, nextApproval, resultVars,
                 answers, outside, log, fate, granted>>

\* invalid_tool_call_result: no tool call was started, none finishes.
AnswerInvalid ==
  /\ at = "next" /\ call <= Last /\ reply[call] = "invalid"
  /\ AnswerWith("failed", TRUE, <<ResultEvent(TRUE)>>)
  /\ UNCHANGED <<reply, hook, approval, nextApproval, resultVars, outside,
                 granted>>

\* A name the registry does not know is answered without asking any hook.
AnswerUnknown ==
  /\ at = "next" /\ call <= Last /\ reply[call] = "unknown"
  /\ Answer("failed", TRUE, <<Started>>)
  /\ UNCHANGED <<reply, hook, approval, nextApproval, resultVars, outside,
                 granted>>

StartCall ==
  /\ at = "next" /\ call <= Last
  /\ reply[call] \notin {"invalid", "unknown"}
  /\ log' = Append(log, Started)
  /\ at' = "before" /\ hook' = 1
  /\ UNCHANGED <<reply, call, approval, nextApproval, resultVars, answers,
                 outside, fate, granted>>

-----------------------------------------------------------------------------
(* execute_tool_call: the hooks before, and the approval.                  *)

HookAllows ==
  /\ at = "before" /\ hook <= BeforeHooks
  /\ hook' = hook + 1
  /\ UNCHANGED <<reply, at, call, approval, nextApproval, resultVars,
                 answers, outside, log, fate, granted>>

\* A hook blocks the call, or fails: no later hook is run.
HookRefuses ==
  /\ at = "before" /\ hook <= BeforeHooks
  /\ Answer("failed", TRUE, <<>>)
  /\ UNCHANGED <<reply, hook, approval, nextApproval, resultVars, outside,
                 granted>>

\* Nothing looks at the token before a tool that need not ask.
BeginWork ==
  /\ at = "before" /\ hook > BeforeHooks /\ ~AlwaysAsks(reply[call])
  /\ at' = "working"
  /\ UNCHANGED <<reply, call, hook, approval, nextApproval, resultVars,
                 answers, outside, log, fate, granted>>

TakeId ==
  /\ approval' = [approval EXCEPT ![call] = nextApproval]
  /\ nextApproval' = nextApproval + 1

RequestApproval ==
  /\ at = "before" /\ hook > BeforeHooks /\ AlwaysAsks(reply[call])
  /\ TakeId
  /\ log' = Append(log, Requested(nextApproval))
  /\ at' = "approval"
  /\ UNCHANGED <<reply, call, hook, resultVars, answers, outside, fate,
                 granted>>

Decision == Head(control)

\* A decision with another id is read and ignored.
AnyDecision == TRUE
ForThisCall == Decision.id = approval[call]

ReceivesOwn == control # <<>> /\ ForThisCall
Receives == control # <<>>

TakeDecision ==
  /\ at = "approval" /\ Receives
  /\ control' = Tail(control)
  /\ IF ~ForThisCall
     THEN UNCHANGED <<at, call, answers, log, fate, granted>>
     ELSE IF Decision.approve
     THEN /\ log' = Append(log, ResolvedAs(Decision.id, TRUE))
          /\ granted' = granted \cup {c \in Calls : approval[c] = Decision.id}
          /\ at' = "working"
          /\ UNCHANGED <<call, answers, fate>>
     ELSE /\ Answer("refused", TRUE, <<ResolvedAs(Decision.id, FALSE)>>)
          /\ UNCHANGED granted
  /\ UNCHANGED <<reply, hook, approval, nextApproval, resultVars, owned,
                 cancelled, decisions>>

\* The other branches of the select!: the token, or recv() with no sender
\* left.  Either may be taken while a decision is waiting, except the latter.
NeverWithdrawn == FALSE
Withdrawn == cancelled \/ (~owned /\ control = <<>>)

CancelApproval ==
  /\ at = "approval" /\ Withdrawn
  /\ at' = "cancelled"
  /\ fate' = [fate EXCEPT ![call] = "dropped"]
  /\ UNCHANGED <<reply, call, hook, approval, nextApproval, resultVars,
                 answers, outside, log, granted>>

-----------------------------------------------------------------------------
(* execute_tool_call: the tool, and the hooks after it.                    *)

\* The tool returns its result, or fails, which is a result as well.
ToolReturns ==
  /\ at = "working"
  /\ isError' \in BOOLEAN
  /\ override' = "none" /\ hook' = 1
  /\ at' = "after"
  /\ UNCHANGED <<reply, call, approval, nextApproval, answers, outside, log,
                 fate, granted>>

\* The last override wins; the hooks see the tool's result without them.
AfterHook ==
  /\ at = "after" /\ hook <= AfterHooks
  /\ override' \in {override, "ok", "error"}
  /\ hook' = hook + 1
  /\ UNCHANGED <<reply, at, call, approval, nextApproval, isError, answers,
                 outside, log, fate, granted>>

\* Its error replaces the result, whatever earlier hooks made of it.
AfterHookFails ==
  /\ at = "after" /\ hook <= AfterHooks
  /\ Answer("failed", TRUE, <<>>)
  /\ UNCHANGED <<reply, hook, approval, nextApproval, resultVars, outside,
                 granted>>

Patched == CASE override = "none" -> isError
             [] override = "ok" -> FALSE
             [] override = "error" -> TRUE

FinishWithResult ==
  Answer(IF Patched THEN "failed" ELSE "done", Patched, <<>>)

FinishCall ==
  /\ at = "after" /\ hook > AfterHooks
  /\ FinishWithResult
  /\ UNCHANGED <<reply, hook, approval, nextApproval, resultVars, outside,
                 granted>>

-----------------------------------------------------------------------------
(* The runtime: forward_active_control, request_interrupt, and dropping    *)
(* the turn (cancel_active_turn).                                          *)

Shown == 1..(FirstApproval - 1) \cup ({approval[c] : c \in Calls} \ {0})

\* The user decides on a request that was ever shown to them, in this turn
\* or an earlier one, and may do so again.
Decide ==
  /\ owned /\ decisions < MaxDecisions /\ Len(control) < ControlCap
  /\ at \notin Ended
  /\ \E id \in Shown, approve \in BOOLEAN :
       control' = Append(control, [id |-> id, approve |-> approve])
  /\ decisions' = decisions + 1
  /\ UNCHANGED <<reply, loopVars, approval, nextApproval, resultVars,
                 answers, owned, cancelled, log, fate, granted>>

Cancel ==
  /\ ~cancelled /\ at \notin Ended
  /\ cancelled' = TRUE
  /\ UNCHANGED <<reply, loopVars, approval, nextApproval, resultVars,
                 answers, control, owned, decisions, log, fate, granted>>

\* Dropping an ActiveTurn drops its control_tx, always after a cancel.
DropTurn ==
  /\ owned /\ cancelled /\ at \notin Ended
  /\ owned' = FALSE
  /\ UNCHANGED <<reply, loopVars, approval, nextApproval, resultVars,
                 answers, control, cancelled, decisions, log, fate, granted>>

-----------------------------------------------------------------------------

Replies == UNION {[1..n -> Kinds] : n \in 0..MaxCalls}

Init ==
  /\ reply \in Replies
  /\ at = "next" /\ call = 1 /\ hook = 1
  /\ approval = [c \in Calls |-> 0] /\ nextApproval = FirstApproval
  /\ isError = FALSE /\ override = "none"
  /\ answers = <<>>
  /\ control = <<>> /\ owned = TRUE /\ cancelled = FALSE
  /\ log = <<>>
  /\ fate = [c \in Calls |-> "none"] /\ granted = {}
  /\ decisions = 0

ApprovalStep == TakeDecision \/ CancelApproval
LoopStep ==
  \/ Complete \/ AnswerInvalid \/ AnswerUnknown \/ StartCall
  \/ HookAllows \/ HookRefuses \/ BeginWork \/ RequestApproval
  \/ ApprovalStep
  \/ ToolReturns \/ AfterHook \/ AfterHookFails \/ FinishCall
Next == LoopStep \/ Decide \/ Cancel \/ DropTurn

Spec == Init /\ [][Next]_vars

\* The task of the turn is run; hooks and tools return (the bundled tools
\* watch the token, the process tools their timeout).
FairSpec == Spec /\ WF_vars(LoopStep)

-----------------------------------------------------------------------------
(* Properties.                                                             *)

\* The core's phase as the promise sees it.  The core never promises to stop
\* by itself: a cancelled turn still works through the calls that do not ask.
Became(c) ==
  CASE fate[c] # "none" -> fate[c]
    [] fate[c] = "none" /\ c # call -> "waiting"
    [] fate[c] = "none" /\ c = call ->
         CASE at = "approval" -> "asked"
           [] at \in {"working", "after"} -> "working"
           [] OTHER -> "waiting"
work == [c \in Calls |-> Became(c)]
Asking == {c \in Calls : c <= Last /\ AlwaysAsks(reply[c])}
Promised == INSTANCE ToolPromise WITH asking <- Asking, stopped <- FALSE

\* No tool that must ask works before its own request was approved: not by a
\* decision on an earlier request that is still in the channel, nor by one
\* that arrives after a rejection or a cancellation.
KeepsPromise == Promised!Promise

\* The events of this kind tell the fate of exactly these calls, each once, in
\* the order the model asked, with the error the session holds.
Tells(kind, calls) ==
  LET told == {i \in DOMAIN log : log[i].kind = kind}
  IN  /\ \A i, j \in told : i < j => log[i].call < log[j].call
      /\ \A i \in told : /\ log[i].call \in calls
                         /\ log[i].flag = answers[log[i].call].error
      /\ \A c \in calls : \E i \in told : log[i].call = c

IdsOf(kind) == {log[i].id : i \in {j \in DOMAIN log : log[j].kind = kind}}
Dropped == {c \in Calls : fate[c] = "dropped"}

\* What the consumer was told of results and of finished calls is what the
\* session holds, in the order the model asked, with the after hooks'
\* verdict; only an invalid call finishes without having started.  And the
\* prompts a consumer has open are exactly the one the loop waits for: a
\* cancelled phase leaves that one open, which TurnCancelled closes.
EventsTellSession ==
  /\ Tells("result", DOMAIN answers)
  /\ Tells("finished", {c \in DOMAIN answers : reply[c] # "invalid"})
  /\ \A i \in DOMAIN answers : answers[i].call = i
  /\ at = "completed" => Len(answers) = Last
  /\ IdsOf("requested") \ IdsOf("resolved") =
       {approval[c] : c \in Dropped \cup IF at = "approval" THEN {call} ELSE {}}

Decided == \E i \in DOMAIN control : control[i].id = approval[call]

\* A decision on the open prompt is served however many stale ones are ahead
\* of it, and a cancelled phase ends, if hooks and tools return.
DecisionsServed == at = "approval" /\ Decided ~> at # "approval"
CancelEndsPhase == cancelled ~> at \in Ended
=============================================================================
