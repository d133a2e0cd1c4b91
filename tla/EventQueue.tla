------------------------------ MODULE EventQueue ------------------------------
(***************************************************************************)
(* The native handles that JavaScript waits on, and how closing one ends   *)
(* the calls that wait (iyon-core-native: queue.rs, core.rs, async_ops.rs, *)
(* handles.rs).  A call runs on a thread of tokio, close on the thread of  *)
(* JavaScript; an action is what a thread does between two looks at what   *)
(* they share, so that any two of them may interleave.                     *)
(*                                                                         *)
(*   "probe"      EventQueueProbe: a bounded channel, send and nextEvent   *)
(*   "session"    the channel of KernelSession: the sends of a model turn, *)
(*                nextEvent and nextEvents                                 *)
(*   "operation"  CancellationProbe: run is a send whose channel is a      *)
(*                timer, and cancel is close                               *)
(*                                                                         *)
(* A Notify wakes the calls that listen when it is rung, and no later one. *)
(* A definition no action uses, put before the one it varies, is that one  *)
(* with a plausible mistake.                                               *)
(***************************************************************************)
EXTENDS Naturals, Sequences

CONSTANTS Senders,    (* calls of send, each with one event                *)
          Receivers,  (* consumers, which call until they get null         *)
          Capacity,   (* EVENT_QUEUE_CAPACITY (64), eventCapacity (128)    *)
          MaxBatch    (* nextEvents(max)                                   *)

ASSUME EventQueueAssumption ==
  /\ Capacity \in Nat \ {0} /\ MaxBatch \in Nat \ {0}
  /\ Senders \cap Receivers = {}

VARIABLES
  handle,            (* which of the three                                 *)
  open,              (* the handle has its sender                          *)
  closed, cancelled, (* the flag; the token of the session                 *)
  closing,           (* the steps of close that are done                   *)
  channel,           (* events sent and not received                       *)
  lock,              (* who has the receiver, a Mutex                      *)
  listening, woken,  (* calls a Notify will wake, and has woken            *)
  pc,                (* where each call is                                 *)
  accepted, received, since    (* history: events, and how many there were *)
                               (* when the last call of a consumer began   *)

shared == <<open, closed, cancelled, closing>>
events == <<channel, accepted, received>>
vars == <<handle, shared, events, lock, listening, woken, pc, since>>

Tasks == Senders \cup Receivers
Free == "free"
Goto(t, where) == pc' = [pc EXCEPT ![t] = where]

(* Dropping a Notified.                                                    *)
Forget(t) == listening' = listening \ {t} /\ woken' = woken \ {t}
Deaf == UNCHANGED <<listening, woken>>

-----------------------------------------------------------------------------
(* close.                                                                  *)

EventQueueProbeClose == <<"take", "mark", "notify">>

SessionClose == <<"mark", "cancel", "take", "notify">>

CancellationProbeCancel == <<"mark", "notify">>

CloseSteps == CASE handle = "probe" -> EventQueueProbeClose
                [] handle = "session" -> SessionClose
                [] handle = "operation" -> CancellationProbeCancel
IsClosed == closing = Len(CloseSteps)

Close ==
  /\ ~IsClosed
  /\ closing' = closing + 1
  /\ LET step == CloseSteps[closing + 1]
     IN  /\ open' = (open /\ step # "take")
         /\ closed' = (closed \/ step = "mark")
         /\ cancelled' = (cancelled \/ step = "cancel")
         /\ woken' = IF step = "notify" THEN woken \cup listening ELSE woken
         /\ listening' = IF step = "notify" THEN {} ELSE listening
  /\ UNCHANGED <<handle, events, lock, pc, since>>

-----------------------------------------------------------------------------
(* EventQueueProbe.send, send_event of a model turn, cancellation_operation *)

Refuse(s) == Goto(s, "refused") /\ Forget(s)

BeginSend(s) ==
  /\ pc[s] = "start"
  /\ IF closed THEN Refuse(s)
     ELSE /\ Goto(s, IF handle = "operation" THEN "ready" ELSE "checked")
          /\ Deaf
  /\ UNCHANGED <<handle, shared, events, lock, since>>

\* The session's token stays cancelled, so nothing need be listened to.
CloneSender(s) ==
  /\ pc[s] = "checked"
  /\ IF ~open THEN Refuse(s)
     ELSE Goto(s, IF handle = "probe" THEN "ready" ELSE "sending") /\ Deaf
  /\ UNCHANGED <<handle, shared, events, lock, since>>

Listen(t, from, to) ==
  /\ pc[t] = from
  /\ listening' = listening \cup {t} /\ UNCHANGED woken
  /\ Goto(t, to)
  /\ UNCHANGED <<handle, shared, events, lock, since>>

\* The call does not look at the flag again once it listens.
ChecksOnce(s) ==
  /\ pc[s] = "listening"
  /\ Goto(s, "sending") /\ Deaf
  /\ UNCHANGED <<handle, shared, events, lock, since>>

CheckAgain(s) ==
  /\ pc[s] = "listening"
  /\ IF closed THEN Refuse(s) ELSE Goto(s, "sending") /\ Deaf
  /\ UNCHANGED <<handle, shared, events, lock, since>>

\* There is room, or the time has passed.
Complete(s) ==
  /\ pc[s] = "sending"
  /\ IF handle = "operation" THEN UNCHANGED events
     ELSE /\ Len(channel) < Capacity
          /\ channel' = Append(channel, s) /\ accepted' = Append(accepted, s)
          /\ UNCHANGED received
  /\ Goto(s, "sent") /\ Forget(s)
  /\ UNCHANGED <<handle, shared, lock, since>>

StopSend(s) ==
  /\ pc[s] = "sending" /\ (s \in woken \/ (handle = "session" /\ cancelled))
  /\ Refuse(s)
  /\ UNCHANGED <<handle, shared, events, lock, since>>

-----------------------------------------------------------------------------
(* nextEvent and nextEvents.                                               *)

Clones == {s \in Senders : pc[s] \in {"ready", "listening", "sending"}}

BeginReceive(r) ==
  /\ handle # "operation" /\ pc[r] = "idle"
  /\ Goto(r, "called")
  /\ since' = [since EXCEPT ![r] = Len(accepted)]
  /\ UNCHANGED <<handle, shared, events, lock, listening, woken>>

Acquire(r) ==
  /\ pc[r] = "called" /\ lock = Free
  /\ lock' = r /\ Goto(r, "trying")
  /\ UNCHANGED <<handle, shared, events, listening, woken, since>>

\* The first event, and as many more of those at hand as were asked for; what
\* arrives while they are taken one by one might as well have been there.
TakeEvents(r) ==
  /\ channel # <<>>
  /\ \E n \in 1..MaxBatch :
       /\ handle = "probe" => n = 1
       /\ n <= Len(channel)
       /\ received' = received \o SubSeq(channel, 1, n)
       /\ channel' = SubSeq(channel, n + 1, Len(channel))
  /\ lock' = Free /\ Goto(r, "idle") /\ Forget(r)
  /\ UNCHANGED <<handle, shared, accepted, since>>

ReturnNull(r) ==
  /\ lock' = Free /\ Goto(r, "null") /\ Forget(r)
  /\ UNCHANGED <<handle, shared, events, since>>

\* The flag is looked at before the channel.
ClosedBeforeTrying(r) ==
  /\ pc[r] = "trying"
  /\ IF closed THEN ReturnNull(r)
     ELSE \/ TakeEvents(r)
          \/ /\ channel = <<>>
             /\ Goto(r, "empty")
             /\ UNCHANGED <<handle, shared, events, lock, listening, woken,
                            since>>

TryReceive(r) ==
  /\ pc[r] = "trying"
  /\ \/ TakeEvents(r)
     \/ /\ channel = <<>>
        /\ Goto(r, "empty")
        /\ UNCHANGED <<handle, shared, events, lock, listening, woken, since>>

CheckClosed(r) ==
  /\ pc[r] = "empty"
  /\ \/ closed /\ ReturnNull(r)
     \/ /\ ~closed
        /\ Goto(r, "ready")
        /\ UNCHANGED <<handle, shared, events, lock, listening, woken, since>>

CheckBeforeWaiting(r) ==
  /\ pc[r] = "listening"
  /\ IF closed THEN Goto(r, "trying") /\ Forget(r)
     ELSE Goto(r, "waiting") /\ Deaf
  /\ UNCHANGED <<handle, shared, events, lock, since>>

\* The channel has ended when no sender is left and it is empty.
Receive(r) ==
  /\ pc[r] = "waiting"
  /\ \/ TakeEvents(r)
     \/ channel = <<>> /\ ~open /\ Clones = {} /\ ReturnNull(r)

WakeReceiver(r) ==
  /\ pc[r] = "waiting" /\ r \in woken
  /\ Goto(r, "trying") /\ Forget(r)
  /\ UNCHANGED <<handle, shared, events, lock, since>>

-----------------------------------------------------------------------------

Init ==
  /\ handle \in {"probe", "session", "operation"}
  /\ open = TRUE /\ closed = FALSE /\ cancelled = FALSE /\ closing = 0
  /\ channel = <<>> /\ accepted = <<>> /\ received = <<>>
  /\ lock = Free /\ listening = {} /\ woken = {}
  /\ pc = [t \in Tasks |-> IF t \in Senders THEN "start" ELSE "idle"]
  /\ since = [r \in Receivers |-> 0]

SendStep(s) ==
  \/ CloneSender(s) \/ Listen(s, "ready", "listening") \/ CheckAgain(s)
  \/ (handle # "operation" /\ Complete(s)) \/ StopSend(s)
ReceiveStep(r) ==
  \/ Acquire(r) \/ TryReceive(r) \/ CheckClosed(r)
  \/ Listen(r, "ready", "listening") \/ CheckBeforeWaiting(r)
  \/ Receive(r) \/ WakeReceiver(r)

Next ==
  \/ Close
  \/ \E s \in Senders : BeginSend(s) \/ SendStep(s) \/ Complete(s)
  \/ \E r \in Receivers : BeginReceive(r) \/ ReceiveStep(r)

Spec == Init /\ [][Next]_vars

\* Threads run: a close that has begun is finished, a call goes on unless it
\* waits.  Nobody need call, or close, and no timer is relied on.
FairSpec ==
  /\ Spec
  /\ WF_vars(closing > 0 /\ Close)
  /\ \A s \in Senders : WF_vars(SendStep(s))
  /\ \A r \in Receivers : WF_vars(ReceiveStep(r))

-----------------------------------------------------------------------------
(* Properties.                                                             *)

\* No wake-up is lost: when the handle is closed, every call that is under
\* way ends, however full the channel is and whoever else waits, also when
\* close ran between two looks at the handle.
AtRest == {"start", "idle", "sent", "refused", "null"}
CloseEndsCalls == \A t \in Tasks : IsClosed ~> pc[t] \in AtRest

\* A consumer that is told null had every event that was accepted before it
\* asked: close does not cut off what was sent before.
EarlierEventsFirst ==
  \A r \in Receivers : pc[r] = "null" => Len(received) >= since[r]
=============================================================================
