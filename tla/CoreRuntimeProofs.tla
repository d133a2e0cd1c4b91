-------------------------- MODULE CoreRuntimeProofs --------------------------
(***************************************************************************)
(* Machine-checked proofs about CoreRuntime, for every value of its        *)
(* constants: types; the ownership of turns; the transcripts that a turn   *)
(* shows the model and has committed; that submissions reach the session   *)
(* in order, none twice, and that none disappears except with the messages *)
(* of a turn that failed; and that the consumer sees runs one after        *)
(* another, each bracketed by its own events.                              *)
(***************************************************************************)
EXTENDS CoreRuntime, SequenceTheorems, TLAPS

USE ConstantsAssumption DEF ConstantsAssumption

\* Helpers that name one expression of one action are expanded everywhere.
USE DEF AfterTexts, MustSettle, TurnTexts, CommitOutcome, PushToolResult,
        AfterTool, StopTask

-----------------------------------------------------------------------------
(* The helpers that build messages and events.                             *)

\* The messages built from a sequence of texts are messages, one per text.
LEMMA UserMessagesType ==
  ASSUME NEW texts \in Seq(Nat), NEW first \in Nat \ {0}
  PROVE  UserMessages(texts, first) \in Seq(Message)
<1>1. \A i \in 1..Len(texts) : UserMsg(first + i - 1, texts[i]) \in Message
  <2> SUFFICES ASSUME NEW i \in 1..Len(texts)
               PROVE  UserMsg(first + i - 1, texts[i]) \in Message
    OBVIOUS
  <2>1. texts[i] \in Nat /\ first + i - 1 \in Nat
    BY ElementOfSeq
  <2> QED BY <2>1 DEF UserMsg, Message
<1>2. Len(texts) \in Nat
  BY LenProperties
<1> QED BY <1>1, <1>2 DEF UserMessages

\* Likewise for the events that announce them.
LEMMA UserEventsType ==
  ASSUME NEW texts \in Seq(Nat), NEW first \in Nat \ {0}, NEW turn \in Nat
  PROVE  UserEvents(turn, texts, first) \in Seq(EventRecord)
<1>1. \A i \in 1..Len(texts) :
        Event("UserMessage", turn, first + i - 1, texts[i]) \in EventRecord
  <2> SUFFICES ASSUME NEW i \in 1..Len(texts)
               PROVE  Event("UserMessage", turn, first + i - 1, texts[i])
                        \in EventRecord
    OBVIOUS
  <2>1. texts[i] \in Nat /\ first + i - 1 \in Nat
    BY ElementOfSeq
  <2> QED BY <2>1 DEF Event, EventRecord, EventKinds
<1>2. Len(texts) \in Nat
  BY LenProperties
<1> QED BY <1>1, <1>2 DEF UserEvents

\* The texts of messages are texts.
LEMMA TextsOfType ==
  ASSUME NEW messages \in Seq(Message)
  PROVE  TextsOf(messages) \subseteq Nat
<1>1. \A i \in DOMAIN messages : messages[i] \in Message
  BY ElementOfSeq, LenProperties
<1> QED BY <1>1 DEF TextsOf, Message

-----------------------------------------------------------------------------
(* Type correctness.                                                       *)

\* TypeOK is not inductive alone: a tool is executed only while one is left.
TypeInv == TypeOK /\ (loop = "tools" => calls # 0)

\* An event built from typed parts is an event record.
LEMMA EventType ==
  ASSUME NEW kind \in EventKinds, NEW turn \in Nat, NEW id \in Nat,
         NEW text \in Nat
  PROVE  Event(kind, turn, id, text) \in EventRecord
BY DEF Event, EventRecord

\* What is sent to the consumer keeps the log a sequence of events.
LEMMA EmitType ==
  ASSUME NEW events \in Seq(EventRecord), log \in Seq(EventRecord),
         Emit(events)
  PROVE  log' \in Seq(EventRecord)
BY ConcatProperties DEF Emit

\* `run` starts with every variable well typed.
LEMMA InitType == Init => TypeInv
<1>1. <<Event("ConfigChanged", 0, 0, 0)>> \in Seq(EventRecord)
  BY EventType DEF EventKinds
<1>2. \A S : <<>> \in Seq(S)
  BY EmptySeq
<1>3. Init => open \in BOOLEAN /\ listening \in BOOLEAN
              /\ cancelled \in BOOLEAN /\ aborting \in BOOLEAN
  BY DEF Init
<1>4. {} \in SUBSET Nat
  OBVIOUS
<1> QED
  BY <1>1, <1>2, <1>3, <1>4 DEF Init, TypeInv, TypeOK, RtPoints, LoopPoints,
     InLoop

\* The handle's sends and drops keep the types.
LEMMA HandleType == TypeInv /\ HandleStep => TypeInv'
<1> SUFFICES ASSUME TypeInv, HandleStep PROVE TypeInv'
  OBVIOUS
<1> USE DEF TypeInv, TypeOK, loopVars, handleVars, idVars
<1>1. CASE Submit
  <2>1. [kind |-> "submit", text |-> submitted + 1] \in Command
    BY DEF Command
  <2>2. commands' \in Seq(Command)
    BY <1>1, <2>1, AppendProperties DEF Submit, TrySend
  <2> QED BY <1>1, <2>2 DEF Submit
<1>2. CASE \E kind \in AllExtras : SendExtra(kind)
  <2> PICK kind \in AllExtras : SendExtra(kind)
    BY <1>2
  <2>1. [kind |-> kind, text |-> 0] \in Command
    BY DEF Command
  <2>2. commands' \in Seq(Command)
    BY <2>1, AppendProperties DEF SendExtra, TrySend
  <2> QED BY <2>2 DEF SendExtra
<1>3. CASE DropSender
  BY <1>3 DEF DropSender
<1>4. CASE DropReceiver
  BY <1>4 DEF DropReceiver
<1> QED BY <1>1, <1>2, <1>3, <1>4 DEF HandleStep

\* A received command is a command, and so are those left in the channel.
LEMMA RecvType ==
  ASSUME commands \in Seq(Command), NEW kind, Recv(kind)
  PROVE  Head(commands).text \in Nat /\ commands' \in Seq(Command)
<1>1. Head(commands) \in Command /\ Tail(commands) \in Seq(Command)
  BY HeadTailProperties DEF Recv
<1> QED BY <1>1 DEF Recv, Command

\* Each step of `run` keeps the types.
LEMMA RuntimeType == TypeInv /\ RuntimeStep => TypeInv'
<1> SUFFICES ASSUME TypeInv, RuntimeStep PROVE TypeInv'
  OBVIOUS
<1> USE DEF TypeInv, TypeOK, loopVars, handleVars, idVars, Recv, RtPoints
<1>1. CASE RecvSubmit
  <2>1. Head(commands).text \in Nat /\ commands' \in Seq(Command)
    BY <1>1, RecvType DEF RecvSubmit
  <2>2. cancelled' \in BOOLEAN
    BY <1>1 DEF RecvSubmit
  <2> QED BY <1>1, <2>1, <2>2 DEF RecvSubmit
<1>2. CASE PushSteer
  BY <1>2, AppendProperties DEF PushSteer
<1>3. CASE AnnounceSteer
  <2>1. <<Event("SteerQueued", 0, nextQueueId - 1, held)>> \in Seq(EventRecord)
    BY EventType DEF EventKinds
  <2>2. log' \in Seq(EventRecord)
    BY <1>3, <2>1, EmitType DEF AnnounceSteer
  <2> QED BY <1>3, <2>2 DEF AnnounceSteer
<1>4. ASSUME NEW report \in Report, ApplyOutcome(report)
      PROVE  /\ session' \in Seq(Message)
             /\ nextMessageId' \in Nat \ {0}
             /\ log' \in Seq(EventRecord)
  <2>1. /\ session' \in Seq(Message)
        /\ nextMessageId' \in Nat \ {0}
    <3>1. report.messages \in Seq(Message) /\ report.nextId \in Nat \ {0}
      BY DEF Report
    <3>2. session \o report.messages \in Seq(Message)
      BY <3>1, ConcatProperties
    <3> QED BY <1>4, <3>1, <3>2 DEF ApplyOutcome
  <2>2. \A kind \in EventKinds : Event(kind, report.turn, 0, 0) \in EventRecord
    BY EventType DEF Report
  <2>3. Event("AgentFinished", 0, 0, 0) \in EventRecord
    BY EventType DEF EventKinds
  <2>4. log' \in Seq(EventRecord)
    <3> DEFINE end(kind) == <<Event(kind, report.turn, 0, 0),
                              Event("AgentFinished", 0, 0, 0)>>
    <3>1. \A kind \in EventKinds : end(kind) \in Seq(EventRecord)
      BY <2>2, <2>3
    <3>2. <<>> \in Seq(EventRecord)
      BY EmptySeq
    <3>3. \/ Emit(<<>>)
          \/ Emit(end("TurnCancelled"))
          \/ Emit(end("TurnFailed"))
      BY <1>4 DEF ApplyOutcome, OutcomeEvents, Report
    <3> QED BY <3>1, <3>2, <3>3, EmitType DEF EventKinds
  <2> QED BY <2>1, <2>4
<1>5. CASE RecvReport
  BY <1>4, <1>5, HeadTailProperties DEF RecvReport
<1>6. CASE SettleReport
  BY <1>4, <1>6, HeadTailProperties DEF SettleReport
<1>7. CASE BeginTurn
  <2> DEFINE texts == Append(steering, held)
  <2>1. texts \in Seq(Nat) /\ Len(texts) \in Nat
    BY AppendProperties, LenProperties
  <2>2. UserMessages(texts, nextMessageId) \in Seq(Message)
    BY <2>1, UserMessagesType
  <2>3. UserEvents(nextTurn, texts, nextMessageId) \in Seq(EventRecord)
    BY <2>1, UserEventsType
  <2>4. <<Event("AgentStarted", 0, 0, 0), Event("TurnStarted", nextTurn, 0, 0)>>
          \in Seq(EventRecord)
    BY EventType DEF EventKinds
  <2>5. log' \in Seq(EventRecord)
    BY <1>7, <2>3, <2>4, EmitType, ConcatProperties DEF BeginTurn, OpeningEvents
  <2>6. session \o UserMessages(texts, nextMessageId) \in Seq(Message)
    BY <2>2, ConcatProperties
  <2>7. \A S : <<>> \in Seq(S)
    BY EmptySeq
  <2>8. nextMessageId + Len(texts) \in Nat \ {0}
    BY <2>1
  <2>9. /\ session' \in Seq(Message)
        /\ context' \in Seq(Message)
        /\ nextMessageId' \in Nat \ {0}
        /\ loopNextId' \in Nat \ {0}
    BY <1>7, <2>6, <2>8 DEF BeginTurn
  <2>10. /\ nextTurn' \in Nat \ {0}
         /\ running' \in Nat
         /\ active' \in Nat
         /\ loopTurn' \in Nat
    BY <1>7 DEF BeginTurn
  <2>11. cancelled' \in BOOLEAN
    BY <1>7 DEF BeginTurn
  <2> HIDE DEF texts
  <2> QED BY <1>7, <2>5, <2>7, <2>9, <2>10, <2>11
          DEF BeginTurn, LoopPoints, InLoop
<1>8. CASE RecvCancel
  BY <1>8, RecvType DEF RecvCancel
<1>9. CASE RecvCycle
  <2>1. NextEffort \in Nat
    BY DEF NextEffort
  <2>2. <<Event("ConfigChanged", 0, 0, 0)>> \in Seq(EventRecord)
    BY EventType DEF EventKinds
  <2>3. log' \in Seq(EventRecord)
    BY <1>9, <2>2, EmitType, EmptySeq DEF RecvCycle
  <2> QED BY <1>9, <2>1, <2>3, RecvType DEF RecvCycle
<1>10. CASE RecvApproval
  BY <1>10, RecvType DEF RecvApproval
<1>11. CASE ForwardControl
  BY <1>11 DEF ForwardControl
<1>12. ASSUME Teardown, commands' \in Seq(Command)
       PROVE  TypeInv'
  <2>1. /\ Event("TurnCancelled", active, 0, 0) \in EventRecord
        /\ Event("AgentFinished", 0, 0, 0) \in EventRecord
    BY EventType DEF EventKinds
  <2>2. log' \in Seq(EventRecord)
    <3>1. <<Event("TurnCancelled", active, 0, 0),
            Event("AgentFinished", 0, 0, 0)>> \in Seq(EventRecord)
      BY <2>1
    <3>2. <<>> \in Seq(EventRecord)
      BY EmptySeq
    <3> QED BY <1>12, <3>1, <3>2, EmitType DEF Teardown
  <2> QED BY <1>12, <2>2, EmptySeq DEF Teardown
<1>13. CASE RecvShutdown
  BY <1>12, <1>13, RecvType DEF RecvShutdown
<1>14. CASE RecvClosed
  BY <1>12, <1>14 DEF RecvClosed
<1> QED BY <1>1, <1>2, <1>3, <1>5, <1>6, <1>7, <1>8, <1>9, <1>10, <1>11,
           <1>13, <1>14 DEF RuntimeStep

\* A turn that fails drops texts only.
LEMMA FailType ==
  ASSUME TypeInv, NEW drained \in Seq(Nat), Fail(drained)
  PROVE  /\ discarded' \in SUBSET Nat
         /\ produced' \in Seq(Message)
         /\ verdict' = "failed"
         /\ loop' = "report"
<1>1. TextsOf(produced) \subseteq Nat
  BY TextsOfType DEF TypeInv, TypeOK
<1>2. {drained[i] : i \in DOMAIN drained} \subseteq Nat
  BY ElementOfSeq, LenProperties
<1> QED BY <1>1, <1>2, EmptySeq DEF Fail, Conclude, TypeInv, TypeOK

\* Injecting steers extends the transcript by messages.
LEMMA InjectType ==
  ASSUME TypeInv, Inject(steering)
  PROVE  /\ context' \in Seq(Message)
         /\ produced' \in Seq(Message)
         /\ log' \in Seq(EventRecord)
<1>1. UserMessages(steering, loopNextId) \in Seq(Message)
  BY UserMessagesType DEF TypeInv, TypeOK
<1>2. UserEvents(loopTurn, steering, loopNextId) \in Seq(EventRecord)
  BY UserEventsType DEF TypeInv, TypeOK
<1> QED
  BY <1>1, <1>2, ConcatProperties, EmitType DEF Inject, TypeInv, TypeOK

\* Pushing the assistant message keeps the transcript typed.
LEMMA AssistantType ==
  ASSUME TypeInv, NEW n \in Nat, PushAssistant(n)
  PROVE  context' \in Seq(Message) /\ produced' \in Seq(Message)
<1>1. AssistantMsg(loopNextId - 1, n) \in Message
  BY DEF AssistantMsg, Message, TypeInv, TypeOK
<1> QED BY <1>1, AppendProperties DEF PushAssistant, TypeInv, TypeOK

\* Each step of the loop that does not touch the model keeps the types.
LEMMA LoopType == TypeInv /\ LoopStep => TypeInv'
<1> SUFFICES ASSUME TypeInv, LoopStep PROVE TypeInv'
  OBVIOUS
<1>e. \A S : <<>> \in Seq(S)
  BY EmptySeq
<1>n. loopNextId + Len(steering) \in Nat \ {0}
  BY LenProperties DEF TypeInv, TypeOK
<1> USE DEF TypeInv, TypeOK, runtimeVars, handleVars, idVars, LoopPoints, InLoop
<1>1. CASE LoopCancelled
  BY <1>1 DEF LoopCancelled, Conclude
<1>2. CASE BeginIteration
  <2>1. CASE Inject(steering) /\ loop' = "starting"
             /\ UNCHANGED <<verdict, discarded>>
             /\ loopNextId' = loopNextId + Len(steering) + 1
    <3>1. /\ context' \in Seq(Message) /\ produced' \in Seq(Message)
          /\ log' \in Seq(EventRecord)
      BY <2>1, InjectType
    <3>2. loopNextId' \in Nat \ {0}
      BY ONLY <1>n, <2>1
    <3> QED BY <1>2, <1>e, <2>1, <3>1, <3>2 DEF BeginIteration, Inject
  <2>2. CASE Fail(steering) /\ UNCHANGED <<log, context, loopNextId>>
    BY <1>2, <2>2, <1>e, FailType DEF BeginIteration
  <2> QED BY <1>2, <2>1, <2>2 DEF BeginIteration
<1>3. CASE ExecuteTool
  <2>1. ToolMsg(loopNextId) \in Message
    BY DEF ToolMsg, Message
  <2>2. context' \in Seq(Message) /\ produced' \in Seq(Message)
    BY <1>3, <2>1, AppendProperties DEF ExecuteTool
  <2> QED BY <1>3, <2>2 DEF ExecuteTool
<1>4. CASE DrainBeforeFinish
  <2>1. CASE loop' = "announce"
             /\ UNCHANGED <<log, context, produced, loopNextId, verdict,
                    discarded>>
    BY <1>4, <2>1, <1>e DEF DrainBeforeFinish
  <2>2. CASE Inject(steering) /\ loop' = "top"
             /\ UNCHANGED <<verdict, discarded>>
             /\ loopNextId' = loopNextId + Len(steering)
    BY <1>4, <2>2, <1>e, <1>n, InjectType DEF DrainBeforeFinish
  <2>3. CASE Fail(steering) /\ UNCHANGED <<log, context, loopNextId>>
    BY <1>4, <2>3, <1>e, FailType DEF DrainBeforeFinish
  <2> QED BY <1>4, <2>1, <2>2, <2>3 DEF DrainBeforeFinish
<1>5. CASE AnnounceFinish
  <2>1. <<Event("TurnFinished", loopTurn, 0, 0),
          Event("AgentFinished", 0, 0, 0)>> \in Seq(EventRecord)
    BY EventType DEF EventKinds
  <2>2. log' \in Seq(EventRecord)
    BY <1>5, <2>1, EmitType DEF AnnounceFinish
  <2> QED BY <1>5, <2>2 DEF AnnounceFinish, Conclude
<1>6. CASE ReportOutcome
  <2>1. [turn |-> loopTurn, kind |-> verdict, messages |-> produced,
         nextId |-> loopNextId] \in Report
    BY DEF Report
  <2>2. done' \in Seq(Report)
    BY <1>6, <2>1, AppendProperties DEF ReportOutcome
  <2> QED BY <1>6, <2>2, <1>e DEF ReportOutcome
<1>7. CASE TaskEnds
  BY <1>7 DEF TaskEnds
<1> QED BY <1>1, <1>2, <1>3, <1>4, <1>5, <1>6, <1>7 DEF LoopStep

\* Each step of the loop that waits for the model keeps the types.
LEMMA StreamType ==
  TypeInv /\ (StreamStarts \/ StreamFails \/ InterruptStep \/ ReplyStep)
    => TypeInv'
<1> SUFFICES ASSUME TypeInv,
                    StreamStarts \/ StreamFails \/ InterruptStep \/ ReplyStep
             PROVE  TypeInv'
  OBVIOUS
<1>c. CallCounts \subseteq Nat
  BY DEF CallCounts
<1>e. <<>> \in Seq(Nat)
  BY EmptySeq
<1> USE DEF TypeInv, TypeOK, runtimeVars, handleVars, idVars, LoopPoints, InLoop
<1>1. CASE StreamStarts
  <2>1. CASE PushAssistant(0) /\ Conclude("cancelled")
    BY <1>1, <2>1, AssistantType DEF StreamStarts, Conclude
  <2>2. CASE loop' = "streaming" /\ UNCHANGED <<verdict, context, produced>>
    BY <1>1, <2>2 DEF StreamStarts
  <2> QED BY <1>1, <2>1, <2>2 DEF StreamStarts
<1>2. CASE StreamFails
  BY <1>2, <1>e, FailType DEF StreamFails
<1>3. CASE InterruptStep
  <2> PICK n \in CallCounts : Interrupt(n)
    BY <1>3 DEF InterruptStep
  <2>1. PushAssistant(n) /\ n \in Nat
    BY <1>c DEF Interrupt
  <2> QED BY <2>1, AssistantType DEF Interrupt, Conclude
<1>4. CASE ReplyStep
  <2> PICK stop \in StopReasons, n \in CallCounts : ReplyDone(stop, n)
    BY <1>4 DEF ReplyStep
  <2>1. n \in Nat
    BY <1>c
  <2>2. CASE PushAssistant(n) /\ Conclude("cancelled")
             /\ UNCHANGED <<calls, replies, discarded>>
    BY <2>1, <2>2, AssistantType DEF ReplyDone, Conclude
  <2>3. CASE PushAssistant(0) /\ loop' = "closing"
             /\ UNCHANGED <<calls, replies, verdict, discarded>>
    BY <2>3, AssistantType DEF ReplyDone
  <2>4. CASE PushAssistant(n) /\ n \in 1..MaxToolCalls /\ loop' = "tools"
             /\ calls' = n /\ replies' = replies + 1
             /\ UNCHANGED <<verdict, discarded>>
    BY <2>1, <2>4, AssistantType DEF ReplyDone
  <2>5. CASE Fail(<<>>) /\ UNCHANGED <<context, calls, replies>>
    BY <2>5, <1>e, FailType DEF ReplyDone
  <2> QED BY <2>2, <2>3, <2>4, <2>5 DEF ReplyDone
<1> QED BY <1>1, <1>2, <1>3, <1>4

\* Every variable keeps its type, for all capacities, bounds and fault sets.
THEOREM TypeCorrect == Spec => []TypeOK
<1>1. Init => TypeInv
  BY InitType
<1>2. TypeInv /\ [Next]_vars => TypeInv'
  <2> SUFFICES ASSUME TypeInv, [Next]_vars PROVE TypeInv'
    OBVIOUS
  <2>1. CASE Next
    BY <2>1, HandleType, RuntimeType, LoopType, StreamType DEF Next
  <2>2. CASE UNCHANGED vars
    BY <2>2 DEF vars, handleVars, loopVars, idVars, TypeInv, TypeOK
  <2> QED BY <2>1, <2>2
<1>3. TypeInv => TypeOK
  BY DEF TypeInv
<1> QED BY <1>1, <1>2, <1>3, PTL DEF Spec

-----------------------------------------------------------------------------
(* Ownership of the running turn and its report.                           *)

\* Taking the only report out of the channel empties it.
LEMMA OnlyElement ==
  ASSUME NEW S, NEW seq \in Seq(S), Len(seq) = 1
  PROVE  Head(seq) = seq[1] /\ Tail(seq) = <<>>
<1>1. seq # <<>>
  BY EmptySeq
<1>2. Head(seq) = seq[1]
  BY HeadTailProperties, <1>1
<1>3. Tail(seq) \in Seq(S) /\ Len(Tail(seq)) = 0
  BY <1>1, HeadTailProperties
<1>4. Tail(seq) = <<>>
  BY <1>3, EmptySeq, LenProperties
<1> QED BY <1>2, <1>4

USE DEF TypeInv, TypeOK, RtPoints, LoopPoints, InLoop

\* No turn is owned and no report is pending when `run` starts.
LEMMA InitOwnership == Init => Ownership
BY DEF Init, Ownership, ReportIsOwned, OwnedTurnReports, OwnedTurn

\* The handle owns no part of a turn.
LEMMA HandleOwnership == TypeInv /\ Ownership /\ HandleStep => Ownership'
<1> SUFFICES ASSUME TypeInv, Ownership, HandleStep PROVE Ownership'
  OBVIOUS
<1>1. UNCHANGED <<rt, active, settling, aborting, loop, loopTurn, done>>
  BY DEF HandleStep, Submit, SendExtra, DropSender, DropReceiver, loopVars
<1> QED BY <1>1 DEF Ownership, ReportIsOwned, OwnedTurnReports, OwnedTurn

\* `run` moves a turn between active_turn, settle_active_turn and nowhere
\* without ever leaving its report behind.
LEMMA RuntimeOwnership == TypeInv /\ Ownership /\ RuntimeStep => Ownership'
<1> SUFFICES ASSUME TypeInv, Ownership, RuntimeStep PROVE Ownership'
  OBVIOUS
<1> USE DEF Ownership, ReportIsOwned, OwnedTurnReports, OwnedTurn, loopVars,
            Recv
<1>1. CASE RecvSubmit
  BY <1>1 DEF RecvSubmit, IsSteerable
<1>2. CASE PushSteer
  BY <1>2 DEF PushSteer
<1>3. CASE AnnounceSteer
  BY <1>3 DEF AnnounceSteer
<1>4. CASE RecvReport
  BY <1>4, OnlyElement DEF RecvReport
<1>5. CASE SettleReport
  BY <1>5, OnlyElement DEF SettleReport
<1>6. CASE BeginTurn
  BY <1>6 DEF BeginTurn
<1>7. CASE RecvCancel
  BY <1>7 DEF RecvCancel
<1>8. CASE RecvCycle
  BY <1>8 DEF RecvCycle
<1>9. CASE RecvApproval
  BY <1>9 DEF RecvApproval
<1>10. CASE ForwardControl
  BY <1>10 DEF ForwardControl
<1>11. CASE RecvShutdown
  BY <1>11 DEF RecvShutdown, Teardown
<1>12. CASE RecvClosed
  BY <1>12 DEF RecvClosed, Teardown
<1> QED BY <1>1, <1>2, <1>3, <1>4, <1>5, <1>6, <1>7, <1>8, <1>9, <1>10,
           <1>11, <1>12 DEF RuntimeStep

\* A step of the task that stays inside the loop, or concludes it, keeps the
\* runtime's variables, its turn and the empty report channel.
LEMMA InsideOwnership ==
  ASSUME TypeInv, Ownership, loop \in InLoop,
         UNCHANGED <<runtimeVars, loopTurn, done>>,
         loop' \in InLoop \cup {"report"}
  PROVE  Ownership'
BY DEF Ownership, ReportIsOwned, OwnedTurnReports, OwnedTurn, runtimeVars

\* The task reports the turn it was spawned for, once.
LEMMA LoopOwnership == TypeInv /\ Ownership /\ LoopStep => Ownership'
<1> SUFFICES ASSUME TypeInv, Ownership, LoopStep PROVE Ownership'
  OBVIOUS
<1>1. CASE LoopCancelled
  BY <1>1, InsideOwnership DEF LoopCancelled, Conclude
<1>2. CASE BeginIteration
  BY <1>2, InsideOwnership DEF BeginIteration, Fail, Conclude
<1>3. CASE ExecuteTool
  BY <1>3, InsideOwnership DEF ExecuteTool
<1>4. CASE DrainBeforeFinish
  BY <1>4, InsideOwnership DEF DrainBeforeFinish, Fail, Conclude
<1>5. CASE AnnounceFinish
  BY <1>5, InsideOwnership DEF AnnounceFinish, Conclude
<1>6. CASE ReportOutcome
  <2>1. CASE rt = "stopped"
    BY <1>6, <2>1 DEF ReportOutcome, Ownership, ReportIsOwned,
                      OwnedTurnReports, OwnedTurn, runtimeVars
  <2>2. CASE rt # "stopped"
    <3>1. done = <<>> /\ loopTurn = OwnedTurn /\ loopTurn # 0
      BY <1>6, <2>2 DEF ReportOutcome, Ownership, ReportIsOwned
    <3>2. done' = <<[turn |-> loopTurn, kind |-> verdict,
                     messages |-> produced, nextId |-> loopNextId]>>
      BY <1>6, <2>2, <3>1 DEF ReportOutcome
    <3>3. Len(done') = 1 /\ done'[1].turn = loopTurn
      BY <3>2
    <3> QED BY <1>6, <2>2, <3>1, <3>3
            DEF ReportOutcome, Ownership, ReportIsOwned, OwnedTurnReports,
                OwnedTurn, runtimeVars
  <2> QED BY <2>1, <2>2
<1>7. CASE TaskEnds
  BY <1>7 DEF TaskEnds, Ownership, ReportIsOwned, OwnedTurnReports,
              OwnedTurn, runtimeVars
<1> QED BY <1>1, <1>2, <1>3, <1>4, <1>5, <1>6, <1>7 DEF LoopStep

\* Waiting for the model neither changes the turn nor reports it.
LEMMA StreamOwnership ==
  TypeInv /\ Ownership
    /\ (StreamStarts \/ StreamFails \/ InterruptStep \/ ReplyStep)
    => Ownership'
<1> SUFFICES ASSUME TypeInv, Ownership,
                    StreamStarts \/ StreamFails \/ InterruptStep \/ ReplyStep
             PROVE  Ownership'
  OBVIOUS
<1>1. loop \in InLoop
  BY DEF StreamStarts, StreamFails, InterruptStep, Interrupt, ReplyStep,
     ReplyDone
<1>2. UNCHANGED <<runtimeVars, loopTurn, done>>
  BY DEF StreamStarts, StreamFails, InterruptStep, Interrupt, ReplyStep,
     ReplyDone
<1>3. loop' \in InLoop \cup {"report"}
  BY DEF StreamStarts, StreamFails, InterruptStep, Interrupt, ReplyStep,
         ReplyDone, Fail, Conclude
<1> QED BY <1>1, <1>2, <1>3, InsideOwnership

\* Types and ownership are preserved together by every step.
LEMMA StepOwnership ==
  TypeInv /\ Ownership /\ [Next]_vars => TypeInv' /\ Ownership'
<1> SUFFICES ASSUME TypeInv, Ownership, [Next]_vars
             PROVE  TypeInv' /\ Ownership'
  OBVIOUS
<1>1. CASE Next
  BY <1>1, HandleType, RuntimeType, LoopType, StreamType, HandleOwnership,
     RuntimeOwnership, LoopOwnership, StreamOwnership DEF Next
<1>2. CASE UNCHANGED vars
  BY <1>2 DEF vars, handleVars, loopVars, idVars, Ownership, ReportIsOwned,
              OwnedTurnReports, OwnedTurn
<1> QED BY <1>1, <1>2

\* At every moment before teardown there is at most one agent loop and one
\* report, and both belong to the turn that `run` owns.
THEOREM OneLoopRuns == Spec => []Ownership
<1>1. Init => TypeInv /\ Ownership
  BY InitType, InitOwnership
<1>2. TypeInv /\ Ownership /\ [Next]_vars => (TypeInv /\ Ownership)'
  BY StepOwnership
<1> QED BY <1>1, <1>2, PTL DEF Spec

-----------------------------------------------------------------------------
(* The loop's transcript and the session it will be committed to.          *)

\* Both sides of ContextIsCommitted grow by the same messages.
LEMMA ExtendBoth ==
  ASSUME NEW s \in Seq(Message), NEW p \in Seq(Message),
         NEW more \in Seq(Message)
  PROVE  (s \o p) \o more = s \o (p \o more)
BY ConcatAssociative

\* A step of the loop that appends one message to both.
LEMMA AppendOne ==
  ASSUME TypeInv, ContextIsCommitted, loop \in InLoop,
         UNCHANGED <<rt, session>>, NEW m \in Message,
         context' = Append(context, m), produced' = Append(produced, m)
  PROVE  ContextIsCommitted'
<1>1. session \in Seq(Message) /\ produced \in Seq(Message)
        /\ context \in Seq(Message)
  OBVIOUS
<1>2. context' = context \o <<m>> /\ produced' = produced \o <<m>>
  BY <1>1, AppendIsConcat
<1>3. <<m>> \in Seq(Message)
  OBVIOUS
<1>4. (session \o produced) \o <<m>> = session \o (produced \o <<m>>)
  BY ONLY <1>1, <1>3, ExtendBoth
<1>5. rt # "stopped" => context = session \o produced
  BY DEF ContextIsCommitted
<1> QED BY <1>2, <1>4, <1>5 DEF ContextIsCommitted

\* A step of the handle or of the runtime touches neither side while a loop
\* is running, and a new turn starts with both equal.
LEMMA RuntimeContext ==
  TypeInv /\ Ownership /\ ContextIsCommitted /\ (HandleStep \/ RuntimeStep)
    => ContextIsCommitted'
<1> SUFFICES ASSUME TypeInv, Ownership, ContextIsCommitted,
                    HandleStep \/ RuntimeStep
             PROVE  ContextIsCommitted'
  OBVIOUS
<1> USE DEF ContextIsCommitted
<1>1. CASE HandleStep
  <2>1. UNCHANGED <<rt, loop, session, context, produced>>
    BY <1>1 DEF HandleStep, Submit, SendExtra, DropSender, DropReceiver,
       loopVars
  <2> QED BY <2>1
<1>2. CASE RecvReport \/ SettleReport
  <2>1. loop \notin InLoop
    BY <1>2 DEF RecvReport, SettleReport, Ownership, ReportIsOwned
  <2> QED BY <1>2, <2>1 DEF RecvReport, SettleReport, loopVars
<1>3. CASE BeginTurn
  <2>1. context' = session' /\ produced' = <<>>
    BY <1>3 DEF BeginTurn
  <2>2. session' \in Seq(Message)
    BY <1>3, RuntimeType DEF RuntimeStep
  <2>3. session' \o <<>> = session'
    BY <2>2, ConcatEmptySeq
  <2> QED BY <2>1, <2>3
<1>4. CASE RecvShutdown \/ RecvClosed
  BY <1>4 DEF RecvShutdown, RecvClosed, Teardown
<1>5. CASE \/ RecvSubmit \/ PushSteer \/ AnnounceSteer
           \/ RecvCancel \/ RecvCycle \/ RecvApproval \/ ForwardControl
  <2>1. UNCHANGED <<loop, session, context, produced>> /\ rt # "stopped"
    BY <1>5 DEF RecvSubmit, PushSteer, AnnounceSteer, RecvCancel, RecvCycle,
                RecvApproval, ForwardControl, Recv, loopVars
  <2> QED BY <2>1
<1> QED BY <1>1, <1>2, <1>3, <1>4, <1>5 DEF RuntimeStep

\* A step of the loop appends the same messages to its transcript and to what
\* it will ask to commit, or concludes.
LEMMA LoopContext ==
  TypeInv /\ ContextIsCommitted
    /\ (LoopStep \/ StreamStarts \/ StreamFails \/ InterruptStep \/ ReplyStep)
    => ContextIsCommitted'
<1> SUFFICES ASSUME TypeInv, ContextIsCommitted,
                    \/ LoopStep \/ StreamStarts \/ StreamFails
                    \/ InterruptStep \/ ReplyStep
             PROVE  ContextIsCommitted'
  OBVIOUS
<1> USE DEF ContextIsCommitted
<1>1. ASSUME Inject(steering), loop \in InLoop, UNCHANGED <<rt, session>>
      PROVE  ContextIsCommitted'
  <2>1. UserMessages(steering, loopNextId) \in Seq(Message)
    BY UserMessagesType
  <2>4. session \in Seq(Message) /\ produced \in Seq(Message)
    OBVIOUS
  <2>2. (session \o produced) \o UserMessages(steering, loopNextId)
          = session \o (produced \o UserMessages(steering, loopNextId))
    BY ONLY <2>1, <2>4, ExtendBoth
  <2>3. rt # "stopped" => context = session \o produced
    BY <1>1
  <2> QED BY <1>1, <2>2, <2>3 DEF Inject
<1>2. ASSUME NEW n \in Nat, PushAssistant(n), loop \in InLoop,
             UNCHANGED <<rt, session>>
      PROVE  ContextIsCommitted'
  <2>1. AssistantMsg(loopNextId - 1, n) \in Message
    BY DEF AssistantMsg, Message
  <2> QED BY <1>2, <2>1, AppendOne DEF PushAssistant
<1>3. CASE BeginIteration
  BY <1>1, <1>3 DEF BeginIteration, Fail, Conclude, runtimeVars
<1>4. CASE ExecuteTool
  <2>1. ToolMsg(loopNextId) \in Message
    BY DEF ToolMsg, Message
  <2> QED BY <1>4, <2>1, AppendOne DEF ExecuteTool, runtimeVars
<1>5. CASE DrainBeforeFinish
  <2>1. CASE UNCHANGED <<context, produced>>
    BY <1>5, <2>1 DEF DrainBeforeFinish, runtimeVars
  <2>2. CASE Inject(steering)
    BY <1>1, <1>5, <2>2 DEF DrainBeforeFinish, runtimeVars
  <2>3. CASE Fail(steering)
    BY <2>3 DEF Fail, Conclude
  <2> QED BY <1>5, <2>1, <2>2, <2>3 DEF DrainBeforeFinish
<1>6. CASE LoopCancelled \/ AnnounceFinish \/ ReportOutcome \/ TaskEnds
  BY <1>6 DEF LoopCancelled, AnnounceFinish, ReportOutcome, TaskEnds, Conclude
<1>7. CASE StreamStarts
  BY <1>7 DEF StreamStarts, Conclude, runtimeVars
<1>8. CASE StreamFails
  BY <1>8 DEF StreamFails, Fail, Conclude
<1>9. CASE InterruptStep
  BY <1>9 DEF InterruptStep, Interrupt, Conclude
<1>10. CASE ReplyStep
  <2> PICK stop \in StopReasons, n \in CallCounts : ReplyDone(stop, n)
    BY <1>10 DEF ReplyStep
  <2>1. n \in Nat
    BY DEF CallCounts
  <2>2. CASE PushAssistant(n) \/ PushAssistant(0)
    BY <1>2, <2>1, <2>2 DEF ReplyDone, runtimeVars
  <2>3. CASE Fail(<<>>)
    BY <2>3 DEF Fail, Conclude
  <2> QED BY <2>2, <2>3 DEF ReplyDone
<1> QED BY <1>3, <1>4, <1>5, <1>6, <1>7, <1>8, <1>9, <1>10 DEF LoopStep

\* While a loop runs, the transcript it shows the model is the committed
\* session followed by what it will ask the runtime to commit.
THEOREM TranscriptIsCommitted == Spec => []ContextIsCommitted
<1> DEFINE Inv == TypeInv /\ Ownership /\ ContextIsCommitted
<1> HIDE DEF TypeInv, TypeOK
<1>1. Init => Inv
  BY InitType, InitOwnership DEF Init, ContextIsCommitted
<1>2. Inv /\ [Next]_vars => Inv'
  <2> SUFFICES ASSUME TypeInv, Ownership, ContextIsCommitted, [Next]_vars
               PROVE  TypeInv' /\ Ownership' /\ ContextIsCommitted'
    OBVIOUS
  <2>1. TypeInv' /\ Ownership'
    BY StepOwnership
  <2>2. CASE Next
    BY <2>1, <2>2, RuntimeContext, LoopContext DEF Next
  <2>3. CASE UNCHANGED vars
    BY <2>1, <2>3 DEF vars, loopVars, ContextIsCommitted
  <2> QED BY <2>1, <2>2, <2>3
<1> QED BY <1>1, <1>2, PTL DEF Spec

-----------------------------------------------------------------------------
(* Transcripts: the calls a completed turn answers and the ids of messages.*)

\* The types were for the proofs above; what follows cites what it needs.
HIDE ConstantsAssumption
HIDE DEF ConstantsAssumption, MustSettle, StopTask, TypeInv, TypeOK, RtPoints,
         LoopPoints, InLoop

\* Where a turn's messages are: with the loop until it reports, then in the
\* report, and nowhere once the turn has failed.
InFlight ==
  /\ loop \in {"ending", "gone"} /\ rt # "stopped" => produced = <<>>
  /\ loop = "report" /\ verdict = "failed" => produced = <<>>
  /\ done # <<>> =>
       /\ rt # "stopped"
       /\ done[1].kind = "failed" => done[1].messages = <<>>

\* Every assistant message is followed by the results of its calls, except for
\* those the last `left` results, still to come, will answer.
AnsweredExcept(messages, left) ==
  \A i \in 1..Len(messages) :
    messages[i].role = "assistant" =>
      /\ i + messages[i].calls <= Len(messages) + left
      /\ \A k \in 1..messages[i].calls :
           i + k <= Len(messages) => messages[i + k].role = "tool"

\* CompletedCallsAnswered, at every point of the loop.
AnsweredInv ==
  /\ loop \in InLoop =>
       AnsweredExcept(produced, IF loop = "tools" THEN calls ELSE 0)
  /\ loop = "report" /\ verdict = "completed" => AnsweredExcept(produced, 0)
  /\ done # <<>> /\ done[1].kind = "completed" =>
       AnsweredExcept(done[1].messages, 0)

IdsOrdered(messages) ==
  \A i, j \in 1..Len(messages) : i < j => messages[i].id < messages[j].id
IdsBelow(messages, next) == \A i \in 1..Len(messages) : messages[i].id < next

\* The least id that no message of the turn in flight has taken.
NextId ==
  IF loop \in {"starting", "streaming"} THEN loopNextId - 1
  ELSE IF loop \in InLoop \cup {"report"} THEN loopNextId
  ELSE IF done # <<>> THEN done[1].nextId ELSE nextMessageId

\* Message ids, with a counter ahead of them at every point.
IdsInv ==
  rt # "stopped" =>
    /\ IdsOrdered(session) /\ IdsOrdered(session \o Uncommitted)
    /\ IdsBelow(session \o Uncommitted, NextId)
    /\ IdsBelow(session, nextMessageId)
    /\ nextMessageId <= NextId

NoTurnFailed(events) ==
  \A i \in 1..Len(events) : events[i].kind # "TurnFailed"
EventIdsDiffer(events) ==
  \A i, j \in 1..Len(events) :
    events[i].kind = "UserMessage" /\ events[j].kind = "UserMessage" /\ i # j
      => events[i].id # events[j].id
EventIdsBelow(events, next) ==
  \A i \in 1..Len(events) : events[i].kind = "UserMessage"
      => events[i].id < next

\* Ids the consumer was told, with the same counter ahead of them as long as
\* somebody listens and a loop can announce more.
EventIdsInv ==
  NoTurnFailed(log) =>
    /\ EventIdsDiffer(log)
    /\ listening /\ (rt # "stopped" \/ loop \in InLoop) =>
         EventIdsBelow(log, NextId)

\* Together they are inductive.
TranscriptInv ==
  TypeInv /\ Ownership /\ InFlight /\ AnsweredInv /\ IdsInv /\ EventIdsInv

-----------------------------------------------------------------------------
(* Messages.                                                               *)

\* What the loop appends to its messages are messages.
LEMMA MessageTypes ==
  ASSUME NEW id \in Nat, NEW n \in Nat
  PROVE  AssistantMsg(id, n) \in Message /\ ToolMsg(id) \in Message
BY DEF AssistantMsg, ToolMsg, Message

\* The fields of the messages in a sequence.
LEMMA MessageFields ==
  ASSUME NEW m \in Seq(Message)
  PROVE  /\ Len(m) \in Nat
         /\ DOMAIN m = 1..Len(m)
         /\ \A i \in 1..Len(m) :
              /\ m[i] \in Message
              /\ m[i].id \in Nat /\ m[i].text \in Nat /\ m[i].calls \in Nat
<1>1. Len(m) \in Nat /\ DOMAIN m = 1..Len(m)
  BY LenProperties
<1>2. \A i \in 1..Len(m) : m[i] \in Message
  BY ElementOfSeq
<1>3. \A e \in Message : e.id \in Nat /\ e.text \in Nat /\ e.calls \in Nat
  BY DEF Message
<1> QED BY <1>1, <1>2, <1>3

\* A message appended to others.
LEMMA Appended ==
  ASSUME NEW m \in Seq(Message), NEW e \in Message
  PROVE  /\ Append(m, e) \in Seq(Message)
         /\ Len(Append(m, e)) = Len(m) + 1
         /\ \A i \in 1..Len(m) : Append(m, e)[i] = m[i]
         /\ Append(m, e)[Len(m) + 1] = e
BY AppendProperties

\* Messages appended to others.
LEMMA Joined ==
  ASSUME NEW m \in Seq(Message), NEW n \in Seq(Message)
  PROVE  /\ m \o n \in Seq(Message)
         /\ Len(m \o n) = Len(m) + Len(n)
         /\ \A i \in 1..Len(m) : (m \o n)[i] = m[i]
         /\ \A i \in (Len(m) + 1)..(Len(m) + Len(n)) :
              (m \o n)[i] = n[i - Len(m)]
<1>1. /\ m \o n \in Seq(Message) /\ Len(m \o n) = Len(m) + Len(n)
      /\ \A i \in 1..(Len(m) + Len(n)) :
           (m \o n)[i] = IF i <= Len(m) THEN m[i] ELSE n[i - Len(m)]
  BY ConcatProperties
<1>2. Len(m) \in Nat /\ Len(n) \in Nat
  BY LenProperties
<1> QED BY <1>1, <1>2

\* The messages built from texts: as many, with consecutive ids, in order.
LEMMA UserMessagesAre ==
  ASSUME NEW texts \in Seq(Nat), NEW first \in Nat \ {0},
         NEW us, us = UserMessages(texts, first)
  PROVE  /\ us \in Seq(Message) /\ Len(us) = Len(texts)
         /\ \A i \in 1..Len(us) : /\ us[i].role = "user"
                                 /\ us[i].id = first + i - 1
                                 /\ us[i].text = texts[i]
<1>1. us \in Seq(Message)
  BY UserMessagesType
<1>2. Len(texts) \in Nat
  BY LenProperties
<1>3. DOMAIN us = 1..Len(texts)
  BY DEF UserMessages
<1>4. Len(us) = Len(texts)
  BY <1>1, <1>2, <1>3, LenProperties
<1>5. \A i \in 1..Len(texts) : us[i] = UserMsg(first + i - 1, texts[i])
  BY DEF UserMessages
<1>6. \A id, text : /\ UserMsg(id, text).role = "user"
                    /\ UserMsg(id, text).id = id
                    /\ UserMsg(id, text).text = text
  BY DEF UserMsg
<1> QED BY <1>1, <1>4, <1>5, <1>6

-----------------------------------------------------------------------------
(* Tool calls and their results.                                           *)

\* A transcript whose calls are all answered is one CallsAnswered accepts.
LEMMA AnsweredAll ==
  ASSUME NEW m \in Seq(Message), AnsweredExcept(m, 0)
  PROVE  CallsAnswered(m)
<1>1. ASSUME NEW i \in 1..Len(m), m[i].role = "assistant",
             NEW k \in 1..m[i].calls
      PROVE  i + k \in 1..Len(m) /\ m[i + k].role = "tool"
  <2>1. Len(m) \in Nat /\ m[i].calls \in Nat
    BY MessageFields
  <2>2. i + m[i].calls <= Len(m) + 0
    BY <1>1 DEF AnsweredExcept
  <2>3. i + k \in 1..Len(m)
    BY <2>1, <2>2
  <2> QED BY <1>1, <2>3 DEF AnsweredExcept
<1> QED BY <1>1, MessageFields DEF CallsAnswered

\* No messages, no calls.
LEMMA AnsweredEmpty == AnsweredExcept(<<>>, 0)
BY EmptySeq DEF AnsweredExcept

\* A tool result answers one of the calls still to be answered.
LEMMA AnsweredByTool ==
  ASSUME NEW m \in Seq(Message), NEW left \in Nat \ {0},
         AnsweredExcept(m, left), NEW id \in Nat
  PROVE  AnsweredExcept(Append(m, ToolMsg(id)), left - 1)
<1> PICK t \in Message : t = ToolMsg(id) /\ t.role = "tool"
  BY MessageTypes DEF ToolMsg
<1> PICK new : new = Append(m, t)
  OBVIOUS
<1>1. Len(new) = Len(m) + 1 /\ new[Len(m) + 1] = t
        /\ \A i \in 1..Len(m) : new[i] = m[i]
  BY Appended
<1>2. Len(m) \in Nat /\ \A i \in 1..Len(m) : m[i].calls \in Nat
  BY MessageFields
<1>3. ASSUME NEW i \in 1..Len(new), new[i].role = "assistant"
      PROVE  /\ i + new[i].calls <= Len(new) + (left - 1)
             /\ \A k \in 1..new[i].calls :
                  i + k <= Len(new) => new[i + k].role = "tool"
  <2>1. i \in 1..Len(m) /\ new[i] = m[i]
    BY <1>1, <1>2, <1>3
  <2>2. /\ i + m[i].calls <= Len(m) + left
        /\ \A k \in 1..m[i].calls :
             i + k <= Len(m) => m[i + k].role = "tool"
    BY <1>3, <2>1 DEF AnsweredExcept
  <2>3. ASSUME NEW k \in 1..m[i].calls, i + k <= Len(m) + 1
        PROVE  new[i + k].role = "tool"
    <3>1. CASE i + k = Len(m) + 1
      BY <1>1, <3>1
    <3>2. CASE i + k \in 1..Len(m)
      BY <1>1, <2>2, <2>3, <3>2
    <3> QED BY <1>2, <2>1, <2>3, <3>1, <3>2
  <2> QED BY <1>1, <1>2, <2>1, <2>2, <2>3
<1> QED BY <1>3 DEF AnsweredExcept

\* A reply leaves the calls it makes to be answered.
LEMMA AnsweredButReply ==
  ASSUME NEW m \in Seq(Message), AnsweredExcept(m, 0),
         NEW id \in Nat, NEW n \in Nat
  PROVE  AnsweredExcept(Append(m, AssistantMsg(id, n)), n)
<1> PICK a \in Message : a = AssistantMsg(id, n) /\ a.calls = n
  BY MessageTypes DEF AssistantMsg
<1> PICK new : new = Append(m, a)
  OBVIOUS
<1>1. Len(new) = Len(m) + 1 /\ new[Len(m) + 1] = a
        /\ \A i \in 1..Len(m) : new[i] = m[i]
  BY Appended
<1>2. Len(m) \in Nat /\ \A i \in 1..Len(m) : m[i].calls \in Nat
  BY MessageFields
<1>3. ASSUME NEW i \in 1..Len(new), new[i].role = "assistant"
      PROVE  /\ i + new[i].calls <= Len(new) + n
             /\ \A k \in 1..new[i].calls :
                  i + k <= Len(new) => new[i + k].role = "tool"
  <2>1. CASE i = Len(m) + 1
    BY <1>1, <1>2, <2>1
  <2>2. CASE i \in 1..Len(m)
    <3>1. new[i] = m[i]
      BY <1>1, <2>2
    <3>2. /\ i + m[i].calls <= Len(m) + 0
          /\ \A k \in 1..m[i].calls :
               i + k <= Len(m) => m[i + k].role = "tool"
      BY <1>3, <2>2, <3>1 DEF AnsweredExcept
    <3>3. \A k \in 1..m[i].calls : i + k \in 1..Len(m)
      BY <1>2, <2>2, <3>2
    <3>4. \A k \in 1..m[i].calls : new[i + k].role = "tool"
      BY <1>1, <3>2, <3>3
    <3>5. i + new[i].calls <= Len(new) + n
      BY <1>1, <1>2, <2>2, <3>1, <3>2
    <3>6. \A k \in 1..new[i].calls : new[i + k].role = "tool"
      BY <3>1, <3>4
    <3> QED BY <3>5, <3>6
  <2>3. i = Len(m) + 1 \/ i \in 1..Len(m)
    BY <1>1, <1>2
  <2> QED BY <2>1, <2>2, <2>3
<1> QED BY <1>3 DEF AnsweredExcept

\* Messages of the user make no calls.
LEMMA AnsweredWithUsers ==
  ASSUME NEW m \in Seq(Message), AnsweredExcept(m, 0),
         NEW us \in Seq(Message), \A i \in 1..Len(us) : us[i].role = "user"
  PROVE  AnsweredExcept(m \o us, 0)
<1> PICK new : new = m \o us
  OBVIOUS
<1>1. /\ Len(new) = Len(m) + Len(us)
      /\ \A i \in 1..Len(m) : new[i] = m[i]
      /\ \A i \in (Len(m) + 1)..(Len(m) + Len(us)) : new[i] = us[i - Len(m)]
  BY Joined
<1>2. /\ Len(m) \in Nat /\ Len(us) \in Nat
      /\ \A i \in 1..Len(m) : m[i].calls \in Nat
  BY MessageFields
<1>3. ASSUME NEW i \in 1..Len(new), new[i].role = "assistant"
      PROVE  /\ i + new[i].calls <= Len(new) + 0
             /\ \A k \in 1..new[i].calls :
                  i + k <= Len(new) => new[i + k].role = "tool"
  <2>1. i \in 1..Len(m)
    <3>1. CASE i > Len(m)
      <4>1. i - Len(m) \in 1..Len(us) /\ new[i] = us[i - Len(m)]
        BY <1>1, <1>2, <3>1
      <4> QED BY <1>3, <4>1
    <3> QED BY <1>1, <1>2, <3>1
  <2>2. new[i] = m[i]
    BY <1>1, <2>1
  <2>3. /\ i + m[i].calls <= Len(m) + 0
        /\ \A k \in 1..m[i].calls :
             i + k <= Len(m) => m[i + k].role = "tool"
    BY <1>3, <2>1, <2>2 DEF AnsweredExcept
  <2>4. \A k \in 1..m[i].calls : i + k \in 1..Len(m)
    BY <1>2, <2>1, <2>3
  <2> QED BY <1>1, <1>2, <2>1, <2>2, <2>3, <2>4
<1> QED BY <1>3 DEF AnsweredExcept

-----------------------------------------------------------------------------
(* The channel on which the loop reports.                                  *)

\* The report is alone in the channel when it is sent.
LEMMA ReportSent ==
  ASSUME TypeInv, Ownership, ReportOutcome, rt # "stopped"
  PROVE  /\ done = <<>>
         /\ done' = <<[turn |-> loopTurn, kind |-> verdict,
                      messages |-> produced, nextId |-> loopNextId]>>
<1>1. done = <<>>
  BY DEF ReportOutcome, Ownership, ReportIsOwned, InLoop
<1> QED BY <1>1 DEF ReportOutcome

\* `run` takes the only report, of a loop that has sent it.
LEMMA ReportTaken ==
  ASSUME TypeInv, Ownership, RecvReport \/ SettleReport
  PROVE  /\ rt # "stopped" /\ loop \in {"ending", "gone"}
         /\ done # <<>> /\ done[1] \in Report /\ Head(done) = done[1]
         /\ done' = <<>>
         /\ UNCHANGED <<loop, produced, loopNextId, verdict, calls, steering,
                       discarded, commands, submitted, held, listening>>
<1>1. rt # "stopped" /\ done # <<>>
  BY DEF RecvReport, SettleReport
<1>2. Len(done) = 1 /\ done \in Seq(Report)
  BY <1>1 DEF Ownership, ReportIsOwned, TypeInv, TypeOK
<1>3. Head(done) = done[1] /\ Tail(done) = <<>> /\ done[1] \in Report
  BY <1>2, OnlyElement, ElementOfSeq
<1>4. loop \in {"ending", "gone"}
  BY <1>1 DEF Ownership, ReportIsOwned, TypeInv, TypeOK, LoopPoints
<1>5. UNCHANGED <<loop, produced, loopNextId, verdict, calls, steering,
                  discarded, commands, submitted, held, listening>>
  BY DEF RecvReport, SettleReport, loopVars, handleVars
<1> QED BY <1>1, <1>3, <1>4, <1>5 DEF RecvReport, SettleReport

\* A new turn begins when no loop runs and no report is left.
LEMMA NothingLeft ==
  ASSUME TypeInv, Ownership, rt = "begin"
  PROVE  done = <<>> /\ loop \in {"ending", "gone"}
BY DEF Ownership, ReportIsOwned, OwnedTurn, TypeInv, TypeOK, LoopPoints

\* The steps of the handle and of `run` that concern no report and no turn's
\* messages.
LEMMA OtherSteps ==
  ASSUME \/ HandleStep \/ RecvSubmit \/ PushSteer \/ AnnounceSteer
         \/ RecvCancel \/ RecvCycle \/ RecvApproval \/ ForwardControl
  PROVE  /\ UNCHANGED <<loop, produced, loopNextId, verdict, calls, done,
                       session, nextMessageId, discarded>>
         /\ rt' = "stopped" <=> rt = "stopped"
<1>1. CASE HandleStep
  BY <1>1 DEF HandleStep, Submit, SendExtra, DropSender, DropReceiver,
              loopVars, idVars
<1>2. CASE \/ RecvSubmit \/ PushSteer \/ AnnounceSteer
           \/ RecvCancel \/ RecvCycle \/ RecvApproval \/ ForwardControl
  BY <1>2 DEF RecvSubmit, PushSteer, AnnounceSteer, RecvCancel, RecvCycle,
              RecvApproval, ForwardControl, Recv, loopVars, idVars
<1> QED BY <1>1, <1>2

\* Teardown empties the channel and stops `run`.
LEMMA Stops ==
  ASSUME RecvShutdown \/ RecvClosed
  PROVE  /\ rt' = "stopped" /\ done' = <<>>
         /\ UNCHANGED <<loop, produced, loopNextId, verdict, calls, session,
                       nextMessageId, discarded, submitted>>
BY DEF RecvShutdown, RecvClosed, Teardown, loopVars, idVars, handleVars

\* What no step of the task touches.
LoopVarsKept == <<rt, session, nextMessageId, commands, submitted, held,
                  listening, aborting>>

\* The task leaves the committed session and the command channel alone.
LEMMA TaskSteps ==
  ASSUME \/ LoopStep \/ StreamStarts \/ StreamFails
         \/ InterruptStep \/ ReplyStep
  PROVE  UNCHANGED LoopVarsKept
<1> USE DEF runtimeVars, LoopVarsKept, handleVars, idVars
<1>1. CASE LoopStep
  BY <1>1 DEF LoopStep, LoopCancelled, BeginIteration, ExecuteTool,
              DrainBeforeFinish, AnnounceFinish, ReportOutcome, TaskEnds
<1>2. CASE StreamStarts \/ StreamFails
  BY <1>2 DEF StreamStarts, StreamFails
<1>3. CASE InterruptStep
  BY <1>3 DEF InterruptStep, Interrupt
<1>4. CASE ReplyStep
  BY <1>4 DEF ReplyStep, ReplyDone
<1> QED BY <1>1, <1>2, <1>3, <1>4

\* The messages of a turn are where InFlight says, at every step.
LEMMA InFlightStep ==
  ASSUME TypeInv, Ownership, InFlight, [Next]_vars
  PROVE  InFlight'
<1>1. CASE RecvReport \/ SettleReport
  BY <1>1, ReportTaken DEF InFlight
<1>2. CASE BeginTurn
  BY <1>2, NothingLeft DEF BeginTurn, InFlight
<1>3. CASE RecvShutdown \/ RecvClosed
  BY <1>3, Stops DEF InFlight
<1>4. CASE \/ HandleStep \/ RecvSubmit \/ PushSteer \/ AnnounceSteer
           \/ RecvCancel \/ RecvCycle \/ RecvApproval \/ ForwardControl
  BY <1>4, OtherSteps DEF InFlight
<1>5. CASE ReportOutcome
  <2>1. CASE rt = "stopped"
    BY <1>5, <2>1, TaskSteps DEF ReportOutcome, InFlight, LoopStep, LoopVarsKept
  <2>2. CASE rt # "stopped"
    BY <1>5, <2>2, TaskSteps, ReportSent
       DEF ReportOutcome, InFlight, LoopStep, LoopVarsKept
  <2> QED BY <2>1, <2>2
<1>6. CASE TaskEnds
  <2>1. rt # "stopped" => loop = "ending"
    BY <1>6 DEF TaskEnds, Ownership
  <2>2. UNCHANGED <<rt, produced, done>> /\ loop' = "gone"
    BY <1>6 DEF TaskEnds, runtimeVars
  <2> QED BY <2>1, <2>2 DEF InFlight
<1>7. CASE LoopCancelled \/ BeginIteration \/ ExecuteTool
           \/ DrainBeforeFinish \/ AnnounceFinish
  <2>1. UNCHANGED rt /\ UNCHANGED done
    BY <1>7, TaskSteps
       DEF LoopCancelled, BeginIteration, ExecuteTool, DrainBeforeFinish,
           AnnounceFinish, LoopStep, LoopVarsKept
  <2>2. \/ loop' \in InLoop
        \/ /\ loop' = "report"
           /\ verdict' = "failed" => produced' = <<>>
    <3>1. CASE LoopCancelled \/ AnnounceFinish
      BY <3>1 DEF LoopCancelled, AnnounceFinish, Conclude
    <3>2. CASE ExecuteTool
      BY <3>2 DEF ExecuteTool, InLoop
    <3>3. CASE BeginIteration
      BY <3>3 DEF BeginIteration, Fail, Conclude, InLoop
    <3>4. CASE DrainBeforeFinish
      BY <3>4 DEF DrainBeforeFinish, Fail, Conclude, InLoop
    <3> QED BY <1>7, <3>1, <3>2, <3>3, <3>4
  <2> QED BY <2>1, <2>2 DEF InFlight, InLoop
<1>8. CASE StreamStarts \/ StreamFails
  BY <1>8, TaskSteps
     DEF StreamStarts, StreamFails, Fail, Conclude, InFlight, LoopVarsKept
<1>9. CASE InterruptStep \/ ReplyStep
  BY <1>9, TaskSteps
     DEF InterruptStep, Interrupt, ReplyStep, ReplyDone, Fail, Conclude,
         InFlight, LoopVarsKept
<1>10. CASE UNCHANGED vars
  BY <1>10 DEF vars, loopVars, InFlight
<1> QED BY <1>1, <1>2, <1>3, <1>4, <1>5, <1>6, <1>7, <1>8, <1>9, <1>10
        DEF Next, RuntimeStep, LoopStep

-----------------------------------------------------------------------------
(* The calls of a completed turn are answered.                             *)

\* The variables of the loop the lemmas below rely on have their types.
LEMMA LoopTypes ==
  ASSUME TypeInv
  PROVE  /\ produced \in Seq(Message) /\ session \in Seq(Message)
         /\ steering \in Seq(Nat)
         /\ loopNextId \in Nat \ {0} /\ loopNextId - 1 \in Nat
         /\ nextMessageId \in Nat \ {0}
         /\ calls \in Nat /\ (loop = "tools" => calls # 0)
         /\ loop \in InLoop \cup {"report", "ending", "gone"}
         /\ Len(steering) \in Nat
<1>1. steering \in Seq(Nat) /\ loopNextId \in Nat \ {0}
  BY DEF TypeInv, TypeOK
<1>2. loopNextId - 1 \in Nat /\ Len(steering) \in Nat
  BY <1>1, LenProperties
<1> QED BY <1>1, <1>2 DEF TypeInv, TypeOK, LoopPoints

\* The steers a boundary injects are user messages.
LEMMA SteersAreUsers ==
  ASSUME TypeInv
  PROVE  /\ UserMessages(steering, loopNextId) \in Seq(Message)
         /\ \A i \in 1..Len(UserMessages(steering, loopNextId)) :
              UserMessages(steering, loopNextId)[i].role = "user"
<1> PICK us : us = UserMessages(steering, loopNextId)
  OBVIOUS
<1>1. us \in Seq(Message) /\ \A i \in 1..Len(us) : us[i].role = "user"
  BY LoopTypes, UserMessagesAre
<1> QED BY <1>1

\* A step of the loop answers calls, or starts a reply once none is left.
LEMMA AnsweredByLoop ==
  ASSUME TypeInv, AnsweredInv, loop \in InLoop, UNCHANGED done,
         LoopStep \/ StreamStarts \/ StreamFails \/ InterruptStep \/ ReplyStep
  PROVE  AnsweredInv'
<1> USE DEF AnsweredInv
<1>1. ASSUME AnsweredExcept(produced', IF loop' = "tools" THEN calls' ELSE 0)
      PROVE  AnsweredInv'
  BY <1>1
<1>2. ASSUME loop' \notin InLoop, loop' = "report" => verdict' # "completed"
      PROVE  AnsweredInv'
  BY <1>2
<1>3. ASSUME loop # "tools", Inject(steering)
      PROVE  AnsweredExcept(produced', 0)
  BY <1>3, LoopTypes, SteersAreUsers, AnsweredWithUsers DEF Inject
<1>4. CASE LoopCancelled \/ TaskEnds \/ ReportOutcome
  BY <1>2, <1>4 DEF LoopCancelled, TaskEnds, ReportOutcome, Conclude, InLoop
<1>5. CASE BeginIteration
  BY <1>1, <1>2, <1>3, <1>5 DEF BeginIteration, Fail, Conclude, InLoop
<1>6. CASE ExecuteTool
  <2>1. produced' = Append(produced, ToolMsg(loopNextId))
    BY <1>6 DEF ExecuteTool
  <2>2. AnsweredExcept(produced', calls - 1)
    BY <1>6, <2>1, LoopTypes, AnsweredByTool DEF ExecuteTool
  <2>3. calls - 1 = IF loop' = "tools" THEN calls' ELSE 0
    BY <1>6, LoopTypes DEF ExecuteTool
  <2> QED BY <1>1, <2>2, <2>3
<1>7. CASE DrainBeforeFinish
  <2>1. CASE loop' = "announce" /\ UNCHANGED produced
    BY <1>1, <1>7, <2>1 DEF DrainBeforeFinish
  <2>2. CASE loop' = "top" /\ Inject(steering)
    BY <1>1, <1>3, <1>7, <2>2 DEF DrainBeforeFinish
  <2>3. CASE Fail(steering)
    BY <1>2, <2>3 DEF Fail, Conclude, InLoop
  <2> QED BY <1>7, <2>1, <2>2, <2>3 DEF DrainBeforeFinish
<1>8. CASE AnnounceFinish
  BY <1>8 DEF AnnounceFinish, Conclude, InLoop
<1>9. CASE StreamStarts
  BY <1>1, <1>2, <1>9 DEF StreamStarts, Conclude, InLoop
<1>10. CASE StreamFails
  BY <1>2, <1>10 DEF StreamFails, Fail, Conclude, InLoop
<1>11. CASE InterruptStep
  BY <1>2, <1>11 DEF InterruptStep, Interrupt, Conclude, InLoop
<1>12. CASE ReplyStep
  <2> PICK stop \in StopReasons, n \in CallCounts : ReplyDone(stop, n)
    BY <1>12 DEF ReplyStep
  <2>1. CASE loop' = "report" /\ verdict' # "completed"
    BY <1>2, <2>1 DEF InLoop
  <2>2. ASSUME NEW k \in Nat, PushAssistant(k)
        PROVE  AnsweredExcept(produced', k)
    <3>1. AnsweredExcept(produced, 0)
      BY DEF ReplyDone
    <3> QED BY <2>2, <3>1, LoopTypes, AnsweredButReply DEF PushAssistant
  <2>3. CASE PushAssistant(0) /\ loop' = "closing"
    BY <1>1, <2>2, <2>3
  <2>4. CASE PushAssistant(n) /\ n \in 1..MaxToolCalls /\ loop' = "tools"
             /\ calls' = n
    <3>1. n \in Nat
      BY <2>4
    <3> QED BY <1>1, <2>2, <2>4, <3>1
  <2> QED BY <2>1, <2>3, <2>4 DEF ReplyDone, Fail, Conclude
<1> QED BY <1>4, <1>5, <1>6, <1>7, <1>8, <1>9, <1>10, <1>11, <1>12 DEF LoopStep

\* AnsweredInv holds from step to step.
LEMMA AnsweredStep ==
  ASSUME TypeInv, Ownership, InFlight, AnsweredInv, [Next]_vars
  PROVE  AnsweredInv'
<1>1. CASE RecvReport \/ SettleReport
  BY <1>1, ReportTaken DEF AnsweredInv, InLoop
<1>2. CASE BeginTurn
  <2>1. done' = <<>> /\ produced' = <<>> /\ loop' = "top"
    BY <1>2, NothingLeft DEF BeginTurn
  <2> QED BY <2>1, AnsweredEmpty DEF AnsweredInv
<1>3. CASE RecvShutdown \/ RecvClosed
  BY <1>3, Stops DEF AnsweredInv
<1>4. CASE \/ HandleStep \/ RecvSubmit \/ PushSteer \/ AnnounceSteer
           \/ RecvCancel \/ RecvCycle \/ RecvApproval \/ ForwardControl
  BY <1>4, OtherSteps DEF AnsweredInv
<1>5. CASE ReportOutcome
  <2>1. loop = "report" /\ loop' = "ending"
    BY <1>5 DEF ReportOutcome
  <2>2. CASE rt = "stopped"
    BY <1>5, <2>1, <2>2 DEF ReportOutcome, AnsweredInv, InLoop
  <2>3. CASE rt # "stopped"
    <3>1. done' # <<>> /\ done'[1].kind = verdict
            /\ done'[1].messages = produced
      BY <1>5, <2>3, ReportSent
    <3> QED BY <2>1, <3>1 DEF AnsweredInv, InLoop
  <2> QED BY <2>2, <2>3
<1>6. CASE TaskEnds
  BY <1>6 DEF TaskEnds, AnsweredInv, InLoop
<1>7. CASE /\ LoopStep \/ StreamStarts \/ StreamFails
                \/ InterruptStep \/ ReplyStep
           /\ ~ReportOutcome /\ ~TaskEnds
  <2>1. loop \in InLoop /\ UNCHANGED done
    BY <1>7 DEF LoopStep, LoopCancelled, BeginIteration, ExecuteTool,
                DrainBeforeFinish, AnnounceFinish, StreamStarts, StreamFails,
                InterruptStep, Interrupt, ReplyStep, ReplyDone, InLoop
  <2> QED BY <1>7, <2>1, AnsweredByLoop
<1>8. CASE UNCHANGED vars
  BY <1>8 DEF vars, loopVars, AnsweredInv
<1> QED BY <1>1, <1>2, <1>3, <1>4, <1>5, <1>6, <1>7, <1>8
        DEF Next, RuntimeStep

-----------------------------------------------------------------------------
(* What a step of the loop does to the messages of its turn.               *)

\* A boundary delivers every queued steer.
Delivers ==
  /\ produced' = produced \o UserMessages(steering, loopNextId)
  /\ NextId = loopNextId
  /\ NextId' = loopNextId + Len(steering)
  /\ steering' = <<>>
  /\ UNCHANGED discarded
  /\ Emit(UserEvents(loopTurn, steering, loopNextId))

\* A message that is not the user's is produced.
Produces(e) ==
  /\ e \in Message
  /\ e.role # "user"
  /\ e.id = NextId
  /\ NextId' = NextId + 1
  /\ produced' = Append(produced, e)
  /\ UNCHANGED <<steering, discarded, log>>

\* The turn fails: its messages are dropped, with the steers just drained.
Fails(drained) ==
  /\ produced' = <<>>
  /\ NextId \in Nat /\ NextId' \in Nat /\ NextId <= NextId'
  /\ discarded' = discarded \cup TextsOf(produced)
                    \cup {drained[i] : i \in DOMAIN drained}
  /\ \/ drained = <<>> /\ steering' = steering
     \/ drained = steering /\ steering' = <<>>
  /\ UNCHANGED log

\* No message is touched.
Moves ==
  /\ NextId \in Nat /\ NextId' \in Nat /\ NextId <= NextId'
  /\ UNCHANGED <<produced, steering, discarded>>
  /\ \/ UNCHANGED log
     \/ Emit(<<Event("TurnFinished", loopTurn, 0, 0),
               Event("AgentFinished", 0, 0, 0)>>)

\* Each step of the loop does one of the four.
LEMMA LoopEffect ==
  ASSUME TypeInv, loop \in InLoop,
         LoopStep \/ StreamStarts \/ StreamFails \/ InterruptStep \/ ReplyStep,
         ~TaskEnds
  PROVE  /\ UNCHANGED done
         /\ loop' \in InLoop \cup {"report"}
         /\ Delivers \/ (\E e : Produces(e)) \/ Moves
              \/ Fails(<<>>) \/ Fails(steering)
<1> USE DEF InLoop
<1>1. /\ loopNextId \in Nat \ {0} /\ Len(steering) \in Nat
      /\ loopNextId - 1 \in Nat /\ NextId \in Nat
  BY LoopTypes DEF NextId
<1>2. ASSUME NEW n \in Nat, PushAssistant(n),
             loop \in {"starting", "streaming"},
             loop' \in {"report", "tools", "closing"},
             UNCHANGED <<loopNextId, steering, discarded, log>>
      PROVE  \E e : Produces(e)
  <2>1. /\ AssistantMsg(loopNextId - 1, n) \in Message
        /\ AssistantMsg(loopNextId - 1, n).role = "assistant"
        /\ AssistantMsg(loopNextId - 1, n).id = loopNextId - 1
    BY <1>1, MessageTypes DEF AssistantMsg
  <2>2. NextId = loopNextId - 1 /\ NextId' = NextId + 1
    BY <1>1, <1>2 DEF NextId
  <2>3. Produces(AssistantMsg(loopNextId - 1, n))
    BY <1>2, <2>1, <2>2 DEF Produces, PushAssistant
  <2> QED BY <2>3
<1>3. ASSUME NEW drained, Fail(drained), UNCHANGED <<log, loopNextId>>,
             \/ drained = <<>> /\ steering' = steering
             \/ drained = steering /\ steering' = <<>>
      PROVE  Fails(drained)
  <2>1. NextId' = loopNextId /\ NextId <= loopNextId
    BY <1>1, <1>3 DEF NextId, Fail, Conclude
  <2> QED BY <1>1, <1>3, <2>1 DEF Fails, Fail
<1>4. CASE LoopCancelled
  BY <1>1, <1>4 DEF LoopCancelled, Conclude, Moves, NextId
<1>5. CASE BeginIteration
  <2>1. UNCHANGED done /\ loop = "top" /\ steering' = <<>>
    BY <1>5 DEF BeginIteration
  <2>2. CASE Inject(steering) /\ loopNextId' = loopNextId + Len(steering) + 1
             /\ loop' = "starting" /\ UNCHANGED discarded
    BY <1>1, <2>1, <2>2 DEF Inject, Delivers, NextId
  <2>3. CASE Fail(steering) /\ UNCHANGED <<log, context, loopNextId>>
    BY <1>3, <2>1, <2>3 DEF Fail, Conclude
  <2> QED BY <1>5, <2>2, <2>3 DEF BeginIteration
<1>6. CASE ExecuteTool
  <2>1. /\ ToolMsg(loopNextId) \in Message
        /\ ToolMsg(loopNextId).role = "tool"
        /\ ToolMsg(loopNextId).id = loopNextId
    BY <1>1, MessageTypes DEF ToolMsg
  <2>2. NextId = loopNextId /\ NextId' = loopNextId + 1
    BY <1>1, <1>6 DEF ExecuteTool, NextId
  <2>3. Produces(ToolMsg(loopNextId))
    BY <1>6, <2>1, <2>2 DEF ExecuteTool, Produces
  <2> QED BY <1>6, <2>3 DEF ExecuteTool
<1>7. CASE DrainBeforeFinish
  <2>1. UNCHANGED done /\ loop = "closing" /\ steering' = <<>>
    BY <1>7 DEF DrainBeforeFinish
  <2>2. CASE steering = <<>> /\ loop' = "announce"
             /\ UNCHANGED <<log, context, produced, loopNextId, verdict,
                    discarded>>
    BY <1>1, <2>1, <2>2 DEF Moves, NextId
  <2>3. CASE Inject(steering) /\ loopNextId' = loopNextId + Len(steering)
             /\ loop' = "top" /\ UNCHANGED discarded
    BY <1>1, <2>1, <2>3 DEF Inject, Delivers, NextId
  <2>4. CASE Fail(steering) /\ UNCHANGED <<log, context, loopNextId>>
    BY <1>3, <2>1, <2>4 DEF Fail, Conclude
  <2> QED BY <1>7, <2>2, <2>3, <2>4 DEF DrainBeforeFinish
<1>8. CASE AnnounceFinish
  BY <1>1, <1>8 DEF AnnounceFinish, Conclude, Moves, NextId
<1>9. CASE StreamStarts
  <2>1. UNCHANGED <<done, loopNextId, steering, discarded, log>>
          /\ loop = "starting"
    BY <1>9 DEF StreamStarts
  <2>2. CASE loop' = "streaming" /\ UNCHANGED <<verdict, context, produced>>
    BY <1>1, <2>1, <2>2 DEF Moves, NextId
  <2>3. CASE PushAssistant(0) /\ Conclude("cancelled")
    BY <1>2, <2>1, <2>3 DEF Conclude
  <2> QED BY <1>9, <2>2, <2>3 DEF StreamStarts
<1>10. CASE StreamFails
  <2>1. Fail(<<>>) /\ UNCHANGED <<log, loopNextId, steering, done>>
    BY <1>10 DEF StreamFails
  <2> QED BY <1>3, <2>1 DEF Fail, Conclude
<1>11. CASE InterruptStep
  <2> PICK n \in CallCounts : Interrupt(n)
    BY <1>11 DEF InterruptStep
  <2>1. n \in Nat
    BY DEF CallCounts
  <2> QED BY <1>2, <2>1 DEF Interrupt, Conclude
<1>12. CASE ReplyStep
  <2> PICK stop \in StopReasons, n \in CallCounts : ReplyDone(stop, n)
    BY <1>12 DEF ReplyStep
  <2>1. n \in Nat
    BY DEF CallCounts
  <2>2. UNCHANGED <<done, loopNextId, steering, log>> /\ loop = "streaming"
    BY DEF ReplyDone
  <2>3. ASSUME NEW k \in Nat, PushAssistant(k), UNCHANGED discarded,
               loop' \in {"report", "tools", "closing"}
        PROVE  \E e : Produces(e)
    BY <1>2, <2>2, <2>3
  <2>4. CASE Fail(<<>>)
    BY <1>3, <2>2, <2>4 DEF Fail, Conclude
  <2>5. CASE PushAssistant(n) /\ UNCHANGED discarded
             /\ loop' \in {"report", "tools"}
    BY <2>1, <2>2, <2>3, <2>5
  <2>6. CASE PushAssistant(0) /\ UNCHANGED discarded /\ loop' = "closing"
    BY <2>2, <2>3, <2>6
  <2> QED BY <2>4, <2>5, <2>6 DEF ReplyDone, Conclude
<1>13. CASE ReportOutcome
  BY <1>13 DEF ReportOutcome
<1> QED BY <1>4, <1>5, <1>6, <1>7, <1>8, <1>9, <1>10, <1>11, <1>12, <1>13
        DEF LoopStep

-----------------------------------------------------------------------------
(* Message ids.                                                            *)

\* Longer transcripts keep increasing ids when the new ones are not below the
\* counter that was ahead of the old ones.
LEMMA IdsJoined ==
  ASSUME NEW m \in Seq(Message), NEW n \in Seq(Message), NEW next \in Nat,
         NEW after \in Nat, next <= after,
         IdsOrdered(m), IdsBelow(m, next), IdsOrdered(n), IdsBelow(n, after),
         \A i \in 1..Len(n) : next <= n[i].id
  PROVE  IdsOrdered(m \o n) /\ IdsBelow(m \o n, after)
<1> PICK new : new = m \o n
  OBVIOUS
<1>1. /\ Len(new) = Len(m) + Len(n)
      /\ \A i \in 1..Len(m) : new[i] = m[i]
      /\ \A i \in (Len(m) + 1)..(Len(m) + Len(n)) : new[i] = n[i - Len(m)]
  BY Joined
<1>2. /\ Len(m) \in Nat /\ Len(n) \in Nat
      /\ \A i \in 1..Len(m) : m[i].id \in Nat
      /\ \A i \in 1..Len(n) : n[i].id \in Nat
  BY MessageFields
<1>3. \A i \in 1..Len(m) : new[i].id \in Nat /\ new[i].id < next
  BY <1>1, <1>2 DEF IdsBelow
<1>4. ASSUME NEW i \in (Len(m) + 1)..(Len(m) + Len(n))
      PROVE  /\ i - Len(m) \in 1..Len(n)
             /\ new[i].id \in Nat /\ next <= new[i].id /\ new[i].id < after
  <2>1. i - Len(m) \in 1..Len(n) /\ new[i] = n[i - Len(m)]
    BY <1>1, <1>2
  <2> QED BY <1>2, <2>1 DEF IdsBelow
<1>5. IdsBelow(new, after)
  <2>1. ASSUME NEW i \in 1..Len(new)
        PROVE  new[i].id < after
    <3>1. CASE i \in 1..Len(m)
      BY <1>3, <3>1
    <3>2. CASE i \notin 1..Len(m)
      <4>1. i \in (Len(m) + 1)..(Len(m) + Len(n))
        BY <1>1, <1>2, <3>2
      <4> QED BY <1>4, <4>1
    <3> QED BY <3>1, <3>2
  <2> QED BY <2>1 DEF IdsBelow
<1>6. ASSUME NEW i \in 1..Len(new), NEW j \in 1..Len(new), i < j
      PROVE  new[i].id < new[j].id
  <2>1. CASE j \in 1..Len(m)
    <3>1. i \in 1..Len(m)
      BY <1>2, <1>6, <2>1
    <3> QED BY <1>1, <1>6, <2>1, <3>1 DEF IdsOrdered
  <2>2. CASE i \in 1..Len(m) /\ j \in (Len(m) + 1)..(Len(m) + Len(n))
    <3>1. new[i].id \in Nat /\ new[i].id < next
      BY <1>3, <2>2
    <3>2. new[j].id \in Nat /\ next <= new[j].id
      BY <1>4, <2>2
    <3> QED BY ONLY next \in Nat, <3>1, <3>2
  <2>3. CASE i \in (Len(m) + 1)..(Len(m) + Len(n))
    <3>1. j \in (Len(m) + 1)..(Len(m) + Len(n))
      BY <1>1, <1>2, <1>6, <2>3
    <3>2. /\ i - Len(m) \in 1..Len(n) /\ j - Len(m) \in 1..Len(n)
          /\ i - Len(m) < j - Len(m)
      BY <1>2, <1>4, <1>6, <2>3, <3>1
    <3> QED BY <1>1, <2>3, <3>1, <3>2 DEF IdsOrdered
  <2> QED BY <1>1, <1>2, <1>6, <2>1, <2>2, <2>3
<1>7. IdsOrdered(new)
  BY <1>6 DEF IdsOrdered
<1> QED BY <1>5, <1>7

\* One more message.
LEMMA IdsAppended ==
  ASSUME NEW m \in Seq(Message), NEW e \in Message, NEW after \in Nat,
         IdsOrdered(m), IdsBelow(m, e.id), e.id < after
  PROVE  IdsOrdered(Append(m, e)) /\ IdsBelow(Append(m, e), after)
<1> PICK new : new = Append(m, e)
  OBVIOUS
<1>1. Len(new) = Len(m) + 1 /\ new[Len(m) + 1] = e
        /\ \A i \in 1..Len(m) : new[i] = m[i]
  BY Appended
<1>2. /\ Len(m) \in Nat /\ e.id \in Nat
      /\ \A i \in 1..Len(m) : m[i].id \in Nat /\ m[i].id < e.id
  BY MessageFields DEF Message, IdsBelow
<1>3. ASSUME NEW i \in 1..Len(new)
      PROVE  i \in 1..Len(m) \/ i = Len(m) + 1
  BY <1>1, <1>2
<1>4. IdsBelow(new, after)
  BY <1>1, <1>2, <1>3 DEF IdsBelow
<1>5. ASSUME NEW i \in 1..Len(new), NEW j \in 1..Len(new), i < j
      PROVE  new[i].id < new[j].id
  <2>1. i \in 1..Len(m)
    BY <1>1, <1>2, <1>5
  <2>2. CASE j \in 1..Len(m)
    BY <1>1, <1>5, <2>1, <2>2 DEF IdsOrdered
  <2>3. CASE j = Len(m) + 1
    BY <1>1, <1>2, <2>1, <2>3
  <2> QED BY <1>3, <2>2, <2>3
<1>6. IdsOrdered(new)
  BY <1>5 DEF IdsOrdered
<1> QED BY <1>4, <1>6

\* The ids of the messages made of texts are those from `first` on.
LEMMA IdsOfUsers ==
  ASSUME NEW texts \in Seq(Nat), NEW first \in Nat \ {0}
  PROVE  /\ IdsOrdered(UserMessages(texts, first))
         /\ IdsBelow(UserMessages(texts, first), first + Len(texts))
         /\ \A i \in 1..Len(UserMessages(texts, first)) :
              first <= UserMessages(texts, first)[i].id
         /\ first + Len(texts) \in Nat \ {0}
<1> PICK us : us = UserMessages(texts, first)
  OBVIOUS
<1>1. Len(us) = Len(texts) /\ Len(texts) \in Nat
  BY UserMessagesAre, LenProperties
<1>2. \A i \in 1..Len(us) : us[i].id = first + i - 1
  BY UserMessagesAre
<1> QED BY <1>1, <1>2 DEF IdsOrdered, IdsBelow

\* What is not committed yet: the loop's messages, or those of its report.
LEMMA UncommittedNow ==
  ASSUME TypeInv, Ownership, InFlight
  PROVE  /\ Uncommitted \in Seq(Message)
         /\ done = <<>> => Uncommitted = produced
         /\ done # <<>> => Uncommitted = done[1].messages
         /\ loop \in InLoop /\ rt # "stopped" => done = <<>>
         /\ session \in Seq(Message) /\ produced \in Seq(Message)
         /\ done # <<>> => done[1] \in Report /\ loop \notin InLoop
         /\ nextMessageId \in Nat /\ NextId \in Nat
<1> PICK u, p, d : u = Uncommitted /\ p = produced /\ d = done
  OBVIOUS
<1>1. p \in Seq(Message) /\ session \in Seq(Message) /\ nextMessageId \in Nat
  BY LoopTypes
<1>2. ASSUME done # <<>>
      PROVE  /\ done[1] \in Report /\ produced = <<>>
             /\ loop \notin InLoop \cup {"report"}
  <2>1. rt # "stopped" /\ Len(done) = 1 /\ done \in Seq(Report)
    BY <1>2 DEF InFlight, Ownership, ReportIsOwned, TypeInv, TypeOK
  <2>2. done[1] \in Report
    BY <2>1, ElementOfSeq
  <2>3. loop \notin InLoop \cup {"report"}
    BY <1>2, <2>1 DEF Ownership, ReportIsOwned
  <2>4. loop \in {"ending", "gone"}
    BY <2>3, LoopTypes
  <2> QED BY <2>1, <2>2, <2>3, <2>4 DEF InFlight
<1>3. u = p \o (IF d = <<>> THEN <<>> ELSE d[1].messages)
  BY DEF Uncommitted
<1>4. d # <<>> => p = <<>> /\ d[1].messages \in Seq(Message)
  BY <1>2 DEF Report
<1>5. /\ u \in Seq(Message) /\ (d = <<>> => u = p)
      /\ d # <<>> => u = d[1].messages
  <2>1. CASE d = <<>>
    BY <1>1, <1>3, <2>1, ConcatEmptySeq
  <2>2. CASE d # <<>>
    <3>1. u = <<>> \o d[1].messages /\ d[1].messages \in Seq(Message)
      BY <1>3, <1>4, <2>2
    <3> QED BY <2>2, <3>1, ConcatEmptySeq
  <2> QED BY <2>1, <2>2
<1>6. NextId \in Nat
  BY <1>2, LoopTypes DEF NextId, Report
<1>7. loop \in InLoop /\ rt # "stopped" => done = <<>>
  BY DEF Ownership, ReportIsOwned
<1> QED BY <1>1, <1>2, <1>5, <1>6, <1>7

\* Appending to what a turn produced appends to the whole transcript.
LEMMA TranscriptGrows ==
  ASSUME NEW s \in Seq(Message), NEW p \in Seq(Message), NEW e \in Message
  PROVE  s \o Append(p, e) = Append(s \o p, e)
<1>1. <<e>> \in Seq(Message) /\ s \o p \in Seq(Message)
  BY ConcatProperties
<1>2. s \o (p \o <<e>>) = (s \o p) \o <<e>>
  BY ONLY <1>1, ExtendBoth
<1> QED BY <1>1, <1>2, AppendIsConcat

\* The ids of a transcript to which a turn adds several messages.
LEMMA IdsExtended ==
  ASSUME NEW s \in Seq(Message), NEW p \in Seq(Message),
         NEW us \in Seq(Message), NEW next \in Nat, NEW after \in Nat,
         next <= after, IdsOrdered(s \o p), IdsBelow(s \o p, next),
         IdsOrdered(us), IdsBelow(us, after),
         \A i \in 1..Len(us) : next <= us[i].id
  PROVE  IdsOrdered(s \o (p \o us)) /\ IdsBelow(s \o (p \o us), after)
<1> PICK m : m = s \o p
  OBVIOUS
<1>1. m \in Seq(Message)
  BY ConcatProperties
<1>2. m \o us = s \o (p \o us)
  BY ExtendBoth
<1>3. IdsOrdered(m \o us) /\ IdsBelow(m \o us, after)
  BY <1>1, IdsJoined
<1> QED BY <1>2, <1>3

\* The ids of a transcript to which a turn adds one message.
LEMMA IdsExtendedByOne ==
  ASSUME NEW s \in Seq(Message), NEW p \in Seq(Message),
         NEW e \in Message, NEW next \in Nat, e.id = next,
         IdsOrdered(s \o p), IdsBelow(s \o p, next)
  PROVE  /\ IdsOrdered(s \o Append(p, e))
         /\ IdsBelow(s \o Append(p, e), next + 1)
<1> PICK m : m = s \o p
  OBVIOUS
<1>1. m \in Seq(Message)
  BY ConcatProperties
<1>2. Append(m, e) = s \o Append(p, e)
  BY TranscriptGrows
<1>3. IdsOrdered(m) /\ IdsBelow(m, e.id)
  OBVIOUS
<1> PICK after \in Nat : after = next + 1 /\ e.id < after
  OBVIOUS
<1>4. IdsOrdered(Append(m, e)) /\ IdsBelow(Append(m, e), after)
  BY <1>1, <1>3, IdsAppended
<1> QED BY <1>2, <1>4

\* A counter further ahead is still ahead.
LEMMA IdsBelowMore ==
  ASSUME NEW m \in Seq(Message), NEW next \in Nat, NEW after \in Nat,
         next <= after, IdsBelow(m, next)
  PROVE  IdsBelow(m, after)
<1>1. \A i \in 1..Len(m) : m[i].id \in Nat /\ m[i].id < next
  BY MessageFields DEF IdsBelow
<1> QED BY <1>1 DEF IdsBelow

\* The ids of the messages of a turn stay in order while its loop runs.
LEMMA IdsByLoop ==
  ASSUME TypeInv, Ownership, InFlight, IdsInv, loop \in InLoop,
         LoopStep \/ StreamStarts \/ StreamFails \/ InterruptStep \/ ReplyStep,
         ~TaskEnds
  PROVE  IdsInv'
<1> SUFFICES ASSUME rt' # "stopped"
             PROVE  /\ IdsOrdered(session')
                    /\ IdsOrdered(session' \o Uncommitted')
                    /\ IdsBelow(session' \o Uncommitted', NextId')
                    /\ IdsBelow(session', nextMessageId')
                    /\ nextMessageId' <= NextId'
  BY DEF IdsInv
<1>1. UNCHANGED <<rt, session, nextMessageId, done>>
  BY TaskSteps, LoopEffect DEF LoopVarsKept
<1>2. /\ done = <<>> /\ Uncommitted = produced
      /\ session \in Seq(Message) /\ produced \in Seq(Message)
      /\ nextMessageId \in Nat /\ NextId \in Nat
  BY <1>1, UncommittedNow
<1>3. TypeInv'
  BY LoopType, StreamType
<1>4. produced' \in Seq(Message)
  BY <1>3 DEF TypeInv, TypeOK
<1>5. Uncommitted' = produced'
  BY <1>1, <1>2, <1>4, ConcatEmptySeq DEF Uncommitted
<1> PICK s, p, q, n : s = session /\ p = produced /\ q = produced' /\ n = NextId
  OBVIOUS
<1>6. /\ IdsOrdered(s) /\ IdsOrdered(s \o p) /\ IdsBelow(s \o p, n)
      /\ IdsBelow(s, nextMessageId) /\ nextMessageId <= n
  BY <1>1, <1>2 DEF IdsInv
<1>7. /\ s \in Seq(Message) /\ p \in Seq(Message) /\ q \in Seq(Message)
      /\ n \in Nat
  BY <1>2, <1>4
<1>8. SUFFICES /\ IdsOrdered(s \o q) /\ IdsBelow(s \o q, NextId')
               /\ nextMessageId <= NextId'
  BY <1>1, <1>5, <1>6
<1>9. CASE Delivers
  <2>1. steering \in Seq(Nat) /\ loopNextId \in Nat \ {0} /\ n = loopNextId
          /\ Len(steering) \in Nat
    BY <1>9, LoopTypes DEF Delivers
  <2> PICK us : us = UserMessages(steering, loopNextId)
    OBVIOUS
  <2> PICK after \in Nat : after = n + Len(steering) /\ n <= after
    BY <1>7, <2>1
  <2>2. us \in Seq(Message)
    BY <2>1, UserMessagesAre
  <2>3. IdsOrdered(us) /\ IdsBelow(us, after)
          /\ \A i \in 1..Len(us) : n <= us[i].id
    BY <2>1, IdsOfUsers
  <2>4. q = p \o us /\ NextId' = after
    BY <1>9, <2>1 DEF Delivers
  <2>5. IdsOrdered(s \o q) /\ IdsBelow(s \o q, after)
    BY <1>6, <1>7, <2>2, <2>3, <2>4, IdsExtended
  <2> QED BY <1>2, <1>6, <1>7, <2>4, <2>5
<1>10. CASE \E e : Produces(e)
  <2> PICK e : Produces(e)
    BY <1>10
  <2>1. e \in Message /\ e.id = n /\ NextId' = n + 1 /\ q = Append(p, e)
    BY DEF Produces
  <2>2. IdsOrdered(s \o q) /\ IdsBelow(s \o q, n + 1)
    BY <1>6, <1>7, <2>1, IdsExtendedByOne
  <2> QED BY <1>2, <1>6, <1>7, <2>1, <2>2
<1>11. CASE Fails(<<>>) \/ Fails(steering)
  <2>1. s \o q = s
    BY <1>7, <1>11, ConcatEmptySeq DEF Fails
  <2>2. nextMessageId <= NextId' /\ NextId' \in Nat
    BY <1>2, <1>6, <1>11 DEF Fails
  <2> QED BY <1>2, <1>6, <1>7, <2>1, <2>2, IdsBelowMore
<1>12. CASE Moves
  <2> PICK m : m = s \o p
    OBVIOUS
  <2>1. s \o q = m /\ n <= NextId' /\ NextId' \in Nat
    BY <1>12 DEF Moves
  <2>2. m \in Seq(Message) /\ IdsOrdered(m) /\ IdsBelow(m, n)
    BY <1>6, <1>7, ConcatProperties
  <2> PICK after \in Nat : after = NextId'
    BY <2>1
  <2>3. IdsBelow(m, after)
    BY <1>7, <2>1, <2>2, IdsBelowMore
  <2>4. nextMessageId <= NextId'
    BY <1>2, <1>6, <1>7, <2>1
  <2> QED BY <2>1, <2>2, <2>3, <2>4
<1> QED BY <1>9, <1>10, <1>11, <1>12, LoopEffect

\* What the report carries, the runtime commits, with its counter.
LEMMA IdsByReport ==
  ASSUME TypeInv, Ownership, InFlight, IdsInv, RecvReport \/ SettleReport,
         InFlight'
  PROVE  IdsInv'
<1>1. /\ rt # "stopped" /\ loop \in {"ending", "gone"} /\ done # <<>>
      /\ done[1] \in Report /\ Head(done) = done[1] /\ done' = <<>>
      /\ UNCHANGED <<loop, produced>> /\ rt' # "stopped"
  BY ReportTaken DEF RecvReport, SettleReport
<1>2. /\ Uncommitted = done[1].messages /\ NextId = done[1].nextId
      /\ session \in Seq(Message) /\ nextMessageId \in Nat /\ NextId \in Nat
  BY <1>1, UncommittedNow DEF NextId, InLoop
<1>3. Uncommitted' = <<>> /\ NextId' = nextMessageId'
  <2>1. produced' = <<>>
    BY <1>1 DEF InFlight
  <2>2. <<>> \o <<>> = <<>>
    BY EmptySeq, ConcatEmptySeq
  <2> QED BY <1>1, <2>1, <2>2 DEF Uncommitted, NextId, InLoop
<1>4. /\ IdsOrdered(session) /\ IdsOrdered(session \o done[1].messages)
      /\ IdsBelow(session \o done[1].messages, done[1].nextId)
      /\ IdsBelow(session, nextMessageId)
  BY <1>1, <1>2 DEF IdsInv
<1>5. /\ session' \in Seq(Message) /\ IdsOrdered(session')
      /\ IdsBelow(session', nextMessageId') /\ nextMessageId' \in Nat
  <2>1. CASE done[1].kind = "failed"
    <3>1. UNCHANGED <<session, nextMessageId>>
      BY <1>1, <2>1 DEF RecvReport, SettleReport, ApplyOutcome
    <3> QED BY <1>2, <1>4, <3>1
  <2>2. CASE done[1].kind # "failed"
    <3>1. session' = session \o done[1].messages
            /\ nextMessageId' = done[1].nextId
      BY <1>1, <2>2 DEF RecvReport, SettleReport, ApplyOutcome
    <3>2. done[1].messages \in Seq(Message) /\ done[1].nextId \in Nat
      BY <1>1 DEF Report
    <3> QED BY <1>2, <1>4, <3>1, <3>2, ConcatProperties
  <2> QED BY <2>1, <2>2
<1>6. session' \o Uncommitted' = session'
  BY <1>3, <1>5, ConcatEmptySeq
<1> QED BY <1>3, <1>5, <1>6 DEF IdsInv

\* A turn begins with the ids that follow the session's.
LEMMA IdsByBegin ==
  ASSUME TypeInv, Ownership, InFlight, IdsInv, BeginTurn
  PROVE  IdsInv'
<1>1. done = <<>> /\ loop \in {"ending", "gone"} /\ rt = "begin"
  BY NothingLeft DEF BeginTurn
<1> PICK texts : texts = Append(steering, held)
  OBVIOUS
<1>2. texts \in Seq(Nat) /\ Len(texts) \in Nat
  BY AppendProperties, LenProperties DEF TypeInv, TypeOK
<1>3. session \in Seq(Message) /\ nextMessageId \in Nat \ {0}
  BY LoopTypes
<1> PICK us : us = UserMessages(texts, nextMessageId)
  OBVIOUS
<1>4. us \in Seq(Message)
  BY <1>2, <1>3, UserMessagesAre
<1> PICK after \in Nat : /\ after = nextMessageId + Len(texts)
                        /\ nextMessageId <= after
  BY <1>2, <1>3
<1>5. /\ IdsOrdered(us) /\ IdsBelow(us, after)
      /\ \A i \in 1..Len(us) : nextMessageId <= us[i].id
  BY <1>2, <1>3, IdsOfUsers
<1>6. IdsOrdered(session) /\ IdsBelow(session, nextMessageId)
  BY <1>1 DEF IdsInv
<1>7. IdsOrdered(session \o us) /\ IdsBelow(session \o us, after)
  BY <1>3, <1>4, <1>5, <1>6, IdsJoined
<1>8. /\ session' = session \o us /\ nextMessageId' = after /\ NextId' = after
      /\ produced' = <<>> /\ done' = <<>>
  BY <1>1 DEF BeginTurn, NextId, InLoop
<1>9. session' \o Uncommitted' = session'
  <2>1. <<>> \o <<>> = <<>>
    BY EmptySeq, ConcatEmptySeq
  <2>2. session \o us \in Seq(Message)
    BY <1>3, <1>4, ConcatProperties
  <2> QED BY <1>8, <2>1, <2>2, ConcatEmptySeq DEF Uncommitted
<1> QED BY <1>7, <1>8, <1>9 DEF IdsInv

\* IdsInv holds from step to step.
LEMMA IdsStep ==
  ASSUME TypeInv, Ownership, InFlight, IdsInv, [Next]_vars, InFlight'
  PROVE  IdsInv'
<1>1. CASE RecvReport \/ SettleReport
  BY <1>1, IdsByReport
<1>2. CASE BeginTurn
  BY <1>2, IdsByBegin
<1>3. CASE RecvShutdown \/ RecvClosed
  BY <1>3, Stops DEF IdsInv
<1>4. CASE \/ HandleStep \/ RecvSubmit \/ PushSteer \/ AnnounceSteer
           \/ RecvCancel \/ RecvCycle \/ RecvApproval \/ ForwardControl
  BY <1>4, OtherSteps DEF IdsInv, NextId, Uncommitted
<1>5. CASE ReportOutcome
  <2>1. rt # "stopped" <=> rt' # "stopped"
    BY <1>5, TaskSteps DEF LoopStep, LoopVarsKept
  <2>2. CASE rt # "stopped"
    <3>1. /\ loop = "report" /\ loop' = "ending" /\ produced' = <<>>
          /\ UNCHANGED <<session, nextMessageId, loopNextId>>
      BY <1>5, TaskSteps DEF ReportOutcome, LoopStep, LoopVarsKept
    <3>2. done = <<>> /\ done' # <<>> /\ done'[1].messages = produced
            /\ done'[1].nextId = loopNextId
      BY <1>5, <2>2, ReportSent
    <3>3. NextId = loopNextId /\ NextId' = loopNextId
      BY <3>1, <3>2 DEF NextId, InLoop
    <3>4. Uncommitted = produced /\ produced \in Seq(Message)
      BY <3>2, UncommittedNow
    <3>5. Uncommitted' = produced
      BY <3>1, <3>2, <3>4, ConcatEmptySeq DEF Uncommitted
    <3> QED BY <2>2, <3>1, <3>3, <3>4, <3>5 DEF IdsInv
  <2> QED BY <2>1, <2>2 DEF IdsInv
<1>6. CASE TaskEnds
  <2>1. CASE rt = "stopped"
    BY <1>6, <2>1, TaskSteps DEF LoopStep, LoopVarsKept, IdsInv
  <2>2. CASE rt # "stopped"
    <3>1. loop = "ending" /\ loop' = "gone"
      BY <1>6, <2>2 DEF TaskEnds, Ownership
    <3>2. UNCHANGED <<rt, session, nextMessageId, produced, done, loopNextId>>
      BY <1>6, TaskSteps DEF TaskEnds, LoopStep, LoopVarsKept
    <3>3. UNCHANGED Uncommitted /\ UNCHANGED NextId
      BY <3>1, <3>2 DEF Uncommitted, NextId, InLoop
    <3> QED BY <3>2, <3>3 DEF IdsInv
  <2> QED BY <2>1, <2>2
<1>7. CASE /\ LoopStep \/ StreamStarts \/ StreamFails
                \/ InterruptStep \/ ReplyStep
           /\ ~ReportOutcome /\ ~TaskEnds
  <2>1. loop \in InLoop
    BY <1>7 DEF LoopStep, LoopCancelled, BeginIteration, ExecuteTool,
                DrainBeforeFinish, AnnounceFinish, StreamStarts, StreamFails,
                InterruptStep, Interrupt, ReplyStep, ReplyDone, InLoop
  <2>2. CASE rt # "stopped"
    BY <1>7, <2>1, <2>2, IdsByLoop
  <2>3. CASE rt = "stopped"
    BY <1>7, <2>3, TaskSteps DEF LoopVarsKept, IdsInv
  <2> QED BY <2>2, <2>3
<1>8. CASE UNCHANGED vars
  BY <1>8 DEF vars, loopVars, idVars, IdsInv, NextId, Uncommitted
<1> QED BY <1>1, <1>2, <1>3, <1>4, <1>5, <1>6, <1>7, <1>8
        DEF Next, RuntimeStep

-----------------------------------------------------------------------------
(* Ids of announced messages.                                              *)

\* The events that announce messages: one per text, with consecutive ids.
LEMMA UserEventsAre ==
  ASSUME NEW texts \in Seq(Nat), NEW first \in Nat \ {0}, NEW turn \in Nat,
         NEW ev, ev = UserEvents(turn, texts, first)
  PROVE  /\ ev \in Seq(EventRecord) /\ Len(ev) = Len(texts)
         /\ \A i \in 1..Len(ev) : /\ ev[i].kind = "UserMessage"
                                 /\ ev[i].id = first + i - 1
                                 /\ ev[i].turn = turn
<1>1. ev \in Seq(EventRecord)
  BY UserEventsType
<1>2. Len(texts) \in Nat
  BY LenProperties
<1>3. DOMAIN ev = 1..Len(texts)
  BY DEF UserEvents
<1>4. Len(ev) = Len(texts)
  BY <1>1, <1>2, <1>3, LenProperties
<1>5. \A i \in 1..Len(texts) :
        ev[i] = Event("UserMessage", turn, first + i - 1, texts[i])
  BY DEF UserEvents
<1>6. \A id, text : /\ Event("UserMessage", turn, id, text).kind = "UserMessage"
                    /\ Event("UserMessage", turn, id, text).id = id
                    /\ Event("UserMessage", turn, id, text).turn = turn
  BY DEF Event
<1> QED BY <1>1, <1>4, <1>5, <1>6

\* The fields of the events in a sequence.
LEMMA EventFields ==
  ASSUME NEW m \in Seq(EventRecord)
  PROVE  \A i \in 1..Len(m) : m[i].id \in Nat /\ m[i].turn \in Nat
<1>1. \A e \in EventRecord : e.id \in Nat /\ e.turn \in Nat
  BY DEF EventRecord
<1> QED BY <1>1, ElementOfSeq

\* Events appended to others.
LEMMA EventsJoined ==
  ASSUME NEW m \in Seq(EventRecord), NEW n \in Seq(EventRecord)
  PROVE  /\ m \o n \in Seq(EventRecord)
         /\ Len(m) \in Nat /\ Len(n) \in Nat
         /\ Len(m \o n) = Len(m) + Len(n)
         /\ \A i \in 1..Len(m) : (m \o n)[i] = m[i]
         /\ \A i \in (Len(m) + 1)..(Len(m) + Len(n)) :
              i - Len(m) \in 1..Len(n) /\ (m \o n)[i] = n[i - Len(m)]
<1>1. /\ m \o n \in Seq(EventRecord) /\ Len(m \o n) = Len(m) + Len(n)
      /\ \A i \in 1..(Len(m) + Len(n)) :
           (m \o n)[i] = IF i <= Len(m) THEN m[i] ELSE n[i - Len(m)]
  BY ConcatProperties
<1>2. Len(m) \in Nat /\ Len(n) \in Nat
  BY LenProperties
<1> QED BY <1>1, <1>2

\* Ids announced later are different when they start from the counter.
LEMMA EventIdsJoined ==
  ASSUME NEW m \in Seq(EventRecord), NEW n \in Seq(EventRecord),
         NEW next \in Nat, NEW after \in Nat, next <= after,
         EventIdsDiffer(m), EventIdsBelow(m, next),
         EventIdsDiffer(n), EventIdsBelow(n, after),
         \A i \in 1..Len(n) : n[i].kind = "UserMessage" => next <= n[i].id
  PROVE  EventIdsDiffer(m \o n) /\ EventIdsBelow(m \o n, after)
<1> PICK new : new = m \o n
  OBVIOUS
<1>1. /\ Len(m) \in Nat /\ Len(n) \in Nat /\ Len(new) = Len(m) + Len(n)
      /\ \A i \in 1..Len(m) : new[i] = m[i]
      /\ \A i \in (Len(m) + 1)..(Len(m) + Len(n)) :
           i - Len(m) \in 1..Len(n) /\ new[i] = n[i - Len(m)]
  BY EventsJoined
<1>2. \A e \in EventRecord : e.id \in Nat
  BY DEF EventRecord
<1>3. ASSUME NEW i \in 1..Len(m), new[i].kind = "UserMessage"
      PROVE  new[i].id \in Nat /\ new[i].id < next
  BY <1>1, <1>2, <1>3, ElementOfSeq DEF EventIdsBelow
<1>4. ASSUME NEW i \in (Len(m) + 1)..(Len(m) + Len(n)),
             new[i].kind = "UserMessage"
      PROVE  new[i].id \in Nat /\ next <= new[i].id /\ new[i].id < after
  BY <1>1, <1>2, <1>4, ElementOfSeq DEF EventIdsBelow
<1>5. ASSUME NEW i \in 1..Len(new)
      PROVE  i \in 1..Len(m) \/ i \in (Len(m) + 1)..(Len(m) + Len(n))
  BY <1>1
<1>6. EventIdsBelow(new, after)
  BY <1>3, <1>4, <1>5 DEF EventIdsBelow
<1>7. ASSUME NEW i \in 1..Len(new), NEW j \in 1..Len(new), i # j,
             new[i].kind = "UserMessage", new[j].kind = "UserMessage"
      PROVE  new[i].id # new[j].id
  <2>1. CASE i \in 1..Len(m) /\ j \in 1..Len(m)
    BY <1>1, <1>7, <2>1 DEF EventIdsDiffer
  <2>2. CASE /\ i \in (Len(m) + 1)..(Len(m) + Len(n))
             /\ j \in (Len(m) + 1)..(Len(m) + Len(n))
    <3> PICK a \in 1..Len(n), b \in 1..Len(n) :
           a = i - Len(m) /\ b = j - Len(m)
      BY <1>1, <2>2
    <3>0. a # b
      BY <1>7, <2>2
    <3>1. a # b /\ new[i] = n[a] /\ new[j] = n[b]
      BY <1>1, <2>2, <3>0
    <3> QED BY <1>7, <3>1 DEF EventIdsDiffer
  <2>3. CASE i \in 1..Len(m) /\ j \in (Len(m) + 1)..(Len(m) + Len(n))
    <3>1. new[i].id < next /\ new[i].id \in Nat
      BY <1>3, <1>7, <2>3
    <3>2. next <= new[j].id /\ new[j].id \in Nat
      BY <1>4, <1>7, <2>3
    <3> QED BY <3>1, <3>2
  <2>4. CASE j \in 1..Len(m) /\ i \in (Len(m) + 1)..(Len(m) + Len(n))
    <3>1. new[j].id < next /\ next <= new[i].id
            /\ new[i].id \in Nat /\ new[j].id \in Nat
      BY <1>3, <1>4, <1>7, <2>4
    <3> QED BY <3>1
  <2> QED BY <1>5, <2>1, <2>2, <2>3, <2>4
<1>8. EventIdsDiffer(new)
  BY <1>7 DEF EventIdsDiffer
<1> QED BY <1>6, <1>8

\* A failure once announced stays announced.
LEMMA FailureStays ==
  ASSUME NEW m \in Seq(EventRecord), NEW n \in Seq(EventRecord),
         NoTurnFailed(m \o n)
  PROVE  NoTurnFailed(m) /\ NoTurnFailed(n)
<1> PICK new : new = m \o n
  OBVIOUS
<1>1. /\ Len(m) \in Nat /\ Len(n) \in Nat /\ Len(new) = Len(m) + Len(n)
      /\ \A i \in 1..Len(m) : new[i] = m[i]
      /\ \A i \in (Len(m) + 1)..(Len(m) + Len(n)) :
           i - Len(m) \in 1..Len(n) /\ new[i] = n[i - Len(m)]
  BY EventsJoined
<1>2. ASSUME NEW i \in 1..Len(m) PROVE m[i].kind # "TurnFailed"
  <2>1. i \in 1..Len(new)
    BY <1>1
  <2> QED BY <1>1, <2>1 DEF NoTurnFailed
<1>3. ASSUME NEW i \in 1..Len(n) PROVE n[i].kind # "TurnFailed"
  <2>1. i + Len(m) \in (Len(m) + 1)..(Len(m) + Len(n))
          /\ i + Len(m) \in 1..Len(new) /\ (i + Len(m)) - Len(m) = i
    BY <1>1
  <2> QED BY <1>1, <2>1 DEF NoTurnFailed
<1> QED BY <1>2, <1>3 DEF NoTurnFailed

\* An announcement that is of no message, while the counter does not go back.
LEMMA EventIdsKept ==
  ASSUME TypeInv, EventIdsInv, NEW ev \in Seq(EventRecord),
         \A i \in 1..Len(ev) : ev[i].kind # "UserMessage",
         log' = log \/ log' = log \o ev, listening' => listening,
         rt' # "stopped" \/ loop' \in InLoop =>
           /\ rt # "stopped" \/ loop \in InLoop
           /\ NextId \in Nat /\ NextId' \in Nat /\ NextId <= NextId'
  PROVE  EventIdsInv'
<1> SUFFICES ASSUME NoTurnFailed(log')
             PROVE  /\ EventIdsDiffer(log')
                    /\ listening' /\ (rt' # "stopped" \/ loop' \in InLoop) =>
                         EventIdsBelow(log', NextId')
  BY DEF EventIdsInv
<1> PICK l, k : l = log /\ k = log'
  OBVIOUS
<1>1. l \in Seq(EventRecord)
  BY DEF TypeInv, TypeOK
<1>2. NoTurnFailed(l)
  BY <1>1, FailureStays
<1>3. /\ EventIdsDiffer(l)
      /\ listening /\ (rt # "stopped" \/ loop \in InLoop) =>
           EventIdsBelow(l, NextId)
  BY <1>2 DEF EventIdsInv
<1>4. EventIdsDiffer(ev) /\ \A next : EventIdsBelow(ev, next)
  BY DEF EventIdsDiffer, EventIdsBelow
<1>5. ASSUME listening', rt' # "stopped" \/ loop' \in InLoop
      PROVE  EventIdsBelow(k, NextId') /\ EventIdsDiffer(k)
  <2> PICK next \in Nat, after \in Nat :
         next = NextId /\ after = NextId' /\ next <= after
    BY <1>5
  <2>1. EventIdsBelow(l, next)
    BY <1>3, <1>5
  <2>2. EventIdsBelow(l, after)
    <3>1. \A i \in 1..Len(l) : l[i].id \in Nat
      BY <1>1, EventFields
    <3> QED BY <2>1, <3>1 DEF EventIdsBelow
  <2>3. EventIdsDiffer(l \o ev) /\ EventIdsBelow(l \o ev, after)
    BY <1>1, <1>3, <1>4, <2>1, EventIdsJoined
  <2> QED BY <1>3, <2>2, <2>3
<1>6. EventIdsDiffer(k)
  <2>1. EventIdsDiffer(l \o ev)
    <3> PICK new : new = l \o ev
      OBVIOUS
    <3>1. /\ Len(l) \in Nat /\ Len(ev) \in Nat /\ Len(new) = Len(l) + Len(ev)
          /\ \A i \in 1..Len(l) : new[i] = l[i]
          /\ \A i \in (Len(l) + 1)..(Len(l) + Len(ev)) :
               i - Len(l) \in 1..Len(ev) /\ new[i] = ev[i - Len(l)]
      BY <1>1, EventsJoined
    <3>2. \A i \in 1..Len(new) : new[i].kind = "UserMessage" => i \in 1..Len(l)
      BY <3>1
    <3> QED BY <1>3, <3>1, <3>2 DEF EventIdsDiffer
  <2> QED BY <1>3, <2>1
<1> QED BY <1>5, <1>6

\* The events that announce delivered texts carry an id each.
LEMMA UserEventIds ==
  ASSUME NEW turn \in Nat, NEW texts \in Seq(Nat), NEW first \in Nat \ {0},
         NEW ev, ev = UserEvents(turn, texts, first),
         NEW after, after = first + Len(texts)
  PROVE  /\ ev \in Seq(EventRecord) /\ after \in Nat /\ first <= after
         /\ EventIdsDiffer(ev) /\ EventIdsBelow(ev, after)
         /\ \A i \in 1..Len(ev) : first <= ev[i].id
<1>1. /\ ev \in Seq(EventRecord) /\ Len(ev) = Len(texts)
      /\ \A i \in 1..Len(ev) : ev[i].id = first + i - 1
  BY UserEventsAre
<1>2. after \in Nat /\ first <= after
  BY LenProperties
<1>3. ASSUME NEW i \in 1..Len(ev)
      PROVE  first <= ev[i].id /\ ev[i].id < after
  <2>1. ev[i].id = first + i - 1 /\ 1 <= i /\ i <= Len(texts)
    BY <1>1
  <2>2. Len(texts) \in Nat
    BY LenProperties
  <2> QED BY <2>1, <2>2
<1>4. ASSUME NEW i \in 1..Len(ev), NEW j \in 1..Len(ev), i # j
      PROVE  ev[i].id # ev[j].id
  <2>1. ev[i].id = first + i - 1 /\ ev[j].id = first + j - 1
    BY <1>1
  <2>2. i \in Int /\ j \in Int /\ first \in Int
    BY <1>1, LenProperties
  <2> QED BY ONLY <1>4, <2>1, <2>2
<1> QED BY <1>1, <1>2, <1>3, <1>4 DEF EventIdsDiffer, EventIdsBelow

\* The announcement of texts takes ids from the counter on.
LEMMA EventIdsTaken ==
  ASSUME TypeInv, EventIdsInv, NEW first \in Nat, NEW after \in Nat,
         first <= after, NextId <= first, NextId \in Nat, after = NextId',
         NEW ev \in Seq(EventRecord),
         EventIdsDiffer(ev), EventIdsBelow(ev, after),
         \A i \in 1..Len(ev) : ev[i].kind = "UserMessage" => first <= ev[i].id,
         rt # "stopped" \/ loop \in InLoop, Emit(ev), UNCHANGED listening
  PROVE  EventIdsInv'
<1> SUFFICES ASSUME NoTurnFailed(log')
             PROVE  /\ EventIdsDiffer(log')
                    /\ listening => EventIdsBelow(log', NextId')
  BY DEF EventIdsInv
<1> PICK l, k : l = log /\ k = log'
  OBVIOUS
<1>1. l \in Seq(EventRecord) /\ (k = l \/ k = l \o ev)
        /\ (listening => k = l \o ev)
  BY DEF TypeInv, TypeOK, Emit
<1>2. NoTurnFailed(l)
  BY <1>1, FailureStays
<1>3. EventIdsDiffer(l) /\ (listening => EventIdsBelow(l, NextId))
  BY <1>2 DEF EventIdsInv
<1>4. ASSUME listening
      PROVE  EventIdsDiffer(k) /\ EventIdsBelow(k, after)
  <2> PICK next \in Nat : next = NextId /\ next <= after /\ next <= first
    OBVIOUS
  <2>1. EventIdsBelow(l, next) /\ EventIdsDiffer(l)
    BY <1>3, <1>4
  <2>2. \A i \in 1..Len(ev) : ev[i].kind = "UserMessage" => next <= ev[i].id
    <3>1. \A i \in 1..Len(ev) : ev[i].id \in Nat
      BY EventFields
    <3> QED BY <3>1
  <2>3. EventIdsDiffer(l \o ev) /\ EventIdsBelow(l \o ev, after)
    BY <1>1, <2>1, <2>2, EventIdsJoined
  <2> QED BY <1>1, <1>4, <2>3
<1>5. ~listening => k = l
  BY DEF Emit
<1> QED BY <1>3, <1>4, <1>5

\* An event and its fields.
LEMMA EventIs ==
  ASSUME NEW kind \in EventKinds, NEW turn \in Nat, NEW id \in Nat,
         NEW text \in Nat, NEW e, e = Event(kind, turn, id, text)
  PROVE  e \in EventRecord /\ e.kind = kind /\ e.turn = turn
BY DEF Event, EventRecord

\* Two events announced together.
LEMMA TwoEvents ==
  ASSUME NEW e1 \in EventRecord, NEW e2 \in EventRecord, NEW ev, ev = <<e1, e2>>
  PROVE  /\ ev \in Seq(EventRecord) /\ Len(ev) = 2
         /\ ev[1] = e1 /\ ev[2] = e2
         /\ \A i \in 1..Len(ev) : ev[i] = e1 \/ ev[i] = e2
OBVIOUS

\* The end of a turn, announced with the end of its run, is no message.
LEMMA EndEvents ==
  ASSUME NEW kind \in Terminals, NEW turn \in Nat, NEW ev,
         ev = <<Event(kind, turn, 0, 0), Event("AgentFinished", 0, 0, 0)>>
  PROVE  /\ ev \in Seq(EventRecord) /\ Len(ev) = 2
         /\ ev[1].kind = kind /\ ev[1].turn = turn
         /\ ev[2].kind = "AgentFinished"
         /\ \A i \in 1..Len(ev) : ev[i].kind # "UserMessage"
<1> PICK e1, e2 : e1 = Event(kind, turn, 0, 0)
                    /\ e2 = Event("AgentFinished", 0, 0, 0)
  OBVIOUS
<1>0. kind \in EventKinds /\ "AgentFinished" \in EventKinds
  BY DEF Terminals, EventKinds
<1>1. /\ e1 \in EventRecord /\ e1.kind = kind /\ e1.turn = turn
      /\ e2 \in EventRecord /\ e2.kind = "AgentFinished"
  BY <1>0, EventIs
<1>2. ev = <<e1, e2>> /\ kind # "UserMessage"
  BY DEF Terminals
<1> QED BY <1>1, <1>2, TwoEvents

\* Teardown, and the end of a turn that is not a failure, announce no message.
LEMMA EventIdsByRuntime ==
  ASSUME TypeInv, Ownership, InFlight, EventIdsInv, InFlight',
         \/ RecvReport \/ SettleReport \/ RecvShutdown \/ RecvClosed
  PROVE  EventIdsInv'
<1>1. CASE RecvShutdown \/ RecvClosed
  <2>1. /\ rt # "stopped" /\ rt' = "stopped"
        /\ UNCHANGED <<loop, listening, loopNextId>>
    BY <1>1 DEF RecvShutdown, RecvClosed, Recv, Teardown, loopVars
  <2>2. rt' # "stopped" \/ loop' \in InLoop =>
          /\ rt # "stopped" \/ loop \in InLoop
          /\ NextId \in Nat /\ NextId' \in Nat /\ NextId <= NextId'
    BY <2>1, LoopTypes DEF NextId, InLoop
  <2>3. active \in Nat /\ log \in Seq(EventRecord)
    BY DEF TypeInv, TypeOK
  <2> PICK ev : ev = <<Event("TurnCancelled", active, 0, 0),
                       Event("AgentFinished", 0, 0, 0)>>
    OBVIOUS
  <2>4. /\ ev \in Seq(EventRecord)
        /\ \A i \in 1..Len(ev) : ev[i].kind # "UserMessage"
    BY <2>3, EndEvents DEF Terminals
  <2>5. log' = log \/ log' = log \o ev
    BY <1>1, <2>3, ConcatEmptySeq DEF RecvShutdown, RecvClosed, Teardown, Emit
  <2> QED BY <2>1, <2>2, <2>4, <2>5, EventIdsKept
<1>2. CASE RecvReport \/ SettleReport
  <2>1. /\ rt # "stopped" /\ loop \in {"ending", "gone"} /\ done # <<>>
        /\ done[1] \in Report /\ Head(done) = done[1] /\ done' = <<>>
        /\ UNCHANGED <<loop, listening>> /\ ApplyOutcome(done[1])
    BY <1>2, ReportTaken DEF RecvReport, SettleReport
  <2>2. /\ done[1].turn \in Nat /\ done[1].nextId \in Nat
        /\ done[1].kind \in {"completed", "cancelled", "failed"}
    BY <2>1 DEF Report
  <2>3. log \in Seq(EventRecord)
    BY DEF TypeInv, TypeOK
  <2>4. CASE done[1].kind # "failed"
    <3>1. NextId = done[1].nextId /\ NextId' = NextId
      BY <2>1, <2>4 DEF ApplyOutcome, NextId, InLoop
    <3>2. rt' # "stopped" \/ loop' \in InLoop =>
            /\ rt # "stopped" \/ loop \in InLoop
            /\ NextId \in Nat /\ NextId' \in Nat /\ NextId <= NextId'
      BY <2>1, <2>2, <3>1
    <3> PICK ev : ev = <<Event("TurnCancelled", done[1].turn, 0, 0),
                         Event("AgentFinished", 0, 0, 0)>>
      OBVIOUS
    <3>3. /\ ev \in Seq(EventRecord)
          /\ \A i \in 1..Len(ev) : ev[i].kind # "UserMessage"
      BY <2>2, EndEvents DEF Terminals
    <3>4. log' = log \/ log' = log \o ev
      BY <2>1, <2>2, <2>3, <2>4, ConcatEmptySeq
         DEF ApplyOutcome, OutcomeEvents, Emit
    <3> QED BY <2>1, <3>2, <3>3, <3>4, EventIdsKept
  <2>5. CASE done[1].kind = "failed"
    <3> PICK ev : ev = <<Event("TurnFailed", done[1].turn, 0, 0),
                         Event("AgentFinished", 0, 0, 0)>>
      OBVIOUS
    <3>1. ev \in Seq(EventRecord) /\ ev[1].kind = "TurnFailed" /\ Len(ev) = 2
      BY <2>2, EndEvents DEF Terminals
    <3>2. log' = IF listening THEN log \o ev ELSE log
      BY <2>1, <2>5 DEF ApplyOutcome, OutcomeEvents, Emit
    <3>3. CASE listening
      <4>1. ~NoTurnFailed(ev)
        BY <3>1 DEF NoTurnFailed
      <4>2. ~NoTurnFailed(log \o ev)
        BY <2>3, <3>1, <4>1, FailureStays
      <4> QED BY <3>2, <3>3, <4>2 DEF EventIdsInv
    <3>4. CASE ~listening
      BY <2>1, <3>2, <3>4 DEF EventIdsInv
    <3> QED BY <3>3, <3>4
  <2> QED BY <2>4, <2>5
<1> QED BY <1>1, <1>2

\* What a turn opens with: the start of a run and of the turn, then its
\* messages with consecutive ids.
LEMMA OpeningIs ==
  ASSUME NEW texts \in Seq(Nat), NEW first \in Nat \ {0}, NEW turn \in Nat,
         NEW ev, ev = OpeningEvents(turn, texts, first)
  PROVE  /\ ev \in Seq(EventRecord) /\ Len(ev) = 2 + Len(texts)
         /\ Len(texts) \in Nat
         /\ ev[1].kind = "AgentStarted"
         /\ ev[2].kind = "TurnStarted" /\ ev[2].turn = turn
         /\ \A i \in 3..Len(ev) : /\ ev[i].kind = "UserMessage"
                                 /\ ev[i].id = first + (i - 2) - 1
                                 /\ ev[i].turn = turn
<1> PICK e1, e2 : /\ e1 = Event("AgentStarted", 0, 0, 0)
                  /\ e2 = Event("TurnStarted", turn, 0, 0)
  OBVIOUS
<1>0. {"AgentStarted", "TurnStarted"} \subseteq EventKinds
  BY DEF EventKinds
<1>1. /\ e1 \in EventRecord /\ e1.kind = "AgentStarted"
      /\ e2 \in EventRecord /\ e2.kind = "TurnStarted" /\ e2.turn = turn
  BY <1>0, EventIs
<1> PICK two, us : two = <<e1, e2>> /\ us = UserEvents(turn, texts, first)
  OBVIOUS
<1>2. two \in Seq(EventRecord) /\ Len(two) = 2 /\ two[1] = e1 /\ two[2] = e2
  BY <1>1, TwoEvents
<1>3. /\ us \in Seq(EventRecord) /\ Len(us) = Len(texts)
      /\ \A i \in 1..Len(us) : /\ us[i].kind = "UserMessage"
                              /\ us[i].id = first + i - 1
                              /\ us[i].turn = turn
  BY UserEventsAre
<1>4. ev = two \o us
  BY DEF OpeningEvents
<1>5. /\ ev \in Seq(EventRecord) /\ Len(us) \in Nat /\ Len(ev) = 2 + Len(us)
      /\ \A i \in 1..2 : ev[i] = two[i]
      /\ \A i \in 3..Len(ev) : i - 2 \in 1..Len(us) /\ ev[i] = us[i - 2]
  BY <1>2, <1>3, <1>4, EventsJoined
<1>6. ASSUME NEW i \in 3..Len(ev)
      PROVE  /\ ev[i].kind = "UserMessage"
             /\ ev[i].id = first + (i - 2) - 1
             /\ ev[i].turn = turn
  <2> PICK k \in 1..Len(us) : k = i - 2 /\ ev[i] = us[k]
    BY <1>5, <1>6
  <2> QED BY <1>3
<1> QED BY <1>1, <1>2, <1>3, <1>5, <1>6

\* EventIdsInv holds from step to step.
LEMMA EventIdsStep ==
  ASSUME TypeInv, Ownership, InFlight, IdsInv, EventIdsInv, [Next]_vars,
         InFlight'
  PROVE  EventIdsInv'
<1>a. nextMessageId \in Nat \ {0} /\ steering \in Seq(Nat)
        /\ NextId \in Nat /\ loopNextId \in Nat \ {0}
  BY LoopTypes, UncommittedNow
<1>b. <<>> \in Seq(EventRecord) /\ log \in Seq(EventRecord) /\ log \o <<>> = log
        /\ \A i \in 1..Len(<<>>) : <<>>[i].kind # "UserMessage"
  BY EmptySeq, ConcatEmptySeq DEF TypeInv, TypeOK
<1>1. CASE RecvReport \/ SettleReport \/ RecvShutdown \/ RecvClosed
  BY <1>1, EventIdsByRuntime
<1>2. CASE BeginTurn
  <2>1. done = <<>> /\ loop \in {"ending", "gone"} /\ rt = "begin"
    BY <1>2, NothingLeft DEF BeginTurn
  <2> PICK texts : texts = Append(steering, held)
    OBVIOUS
  <2>2. texts \in Seq(Nat)
    BY AppendProperties DEF TypeInv, TypeOK
  <2> PICK first \in Nat \ {0}, turn \in Nat :
         first = nextMessageId /\ turn = nextTurn
    BY <1>a DEF TypeInv, TypeOK
  <2>o. PICK ev : ev = OpeningEvents(turn, texts, first)
    OBVIOUS
  <2>3. /\ ev \in Seq(EventRecord) /\ Len(ev) = 2 + Len(texts)
        /\ Len(texts) \in Nat
        /\ ev[1].kind = "AgentStarted"
        /\ ev[2].kind = "TurnStarted" /\ ev[2].turn = turn
        /\ \A i \in 3..Len(ev) : /\ ev[i].kind = "UserMessage"
                                /\ ev[i].id = first + (i - 2) - 1
                                /\ ev[i].turn = turn
    BY ONLY <2>2, <2>o, OpeningIs
  <2>4. \A i \in 1..Len(ev) : ev[i].kind = "UserMessage" => i \in 3..Len(ev)
    BY <2>3
  <2> PICK after \in Nat : after = first + Len(texts) /\ first <= after
    BY <2>3
  <2>5. EventIdsDiffer(ev)
    BY <2>3, <2>4 DEF EventIdsDiffer
  <2>6. EventIdsBelow(ev, after)
    BY <2>3, <2>4 DEF EventIdsBelow
  <2>7. \A i \in 1..Len(ev) : ev[i].kind = "UserMessage" => first <= ev[i].id
    BY <2>3, <2>4
  <2>8. /\ NextId' = after /\ NextId = first /\ Emit(ev)
        /\ UNCHANGED listening
    BY <1>2, <2>1, <2>o DEF BeginTurn, NextId, InLoop
  <2>9. NextId <= first /\ rt # "stopped"
    BY <2>1, <2>8
  <2>10. ev \in Seq(EventRecord)
    BY <2>3
  <2> QED BY <1>a, <2>5, <2>6, <2>7, <2>8, <2>9, <2>10, EventIdsTaken
<1>3. CASE AnnounceSteer \/ RecvCycle
  <2>1. /\ rt # "stopped" /\ NextId' = NextId
        /\ UNCHANGED listening
    BY <1>3 DEF AnnounceSteer, RecvCycle, Recv, NextId, loopVars, idVars
  <2> PICK kind \in {"SteerQueued", "ConfigChanged"}, id \in Nat, text \in Nat :
         Emit(<<Event(kind, 0, id, text)>>) \/ Emit(<<>>)
    <3>1. held \in Nat /\ nextQueueId - 1 \in Nat
      BY DEF TypeInv, TypeOK
    <3>2. CASE AnnounceSteer
      BY <3>1, <3>2 DEF AnnounceSteer
    <3>3. CASE RecvCycle
      BY <3>3 DEF RecvCycle
    <3> QED BY <1>3, <3>2, <3>3
  <2> PICK e, ev : e = Event(kind, 0, id, text) /\ ev = <<e>>
    OBVIOUS
  <2>2. kind \in EventKinds
    BY DEF EventKinds
  <2>3. e \in EventRecord /\ e.kind # "UserMessage"
    BY <2>2, EventIs
  <2>4. /\ ev \in Seq(EventRecord)
        /\ \A i \in 1..Len(ev) : ev[i].kind # "UserMessage"
    BY <2>3
  <2>5. log' = log \/ log' = log \o ev
    BY <1>b DEF Emit
  <2>6. rt' # "stopped" \/ loop' \in InLoop =>
          /\ rt # "stopped" \/ loop \in InLoop
          /\ NextId \in Nat /\ NextId' \in Nat /\ NextId <= NextId'
    BY <1>a, <2>1
  <2> QED BY <2>1, <2>4, <2>5, <2>6, EventIdsKept
<1>4. CASE HandleStep \/ RecvSubmit \/ PushSteer \/ RecvCancel
             \/ RecvApproval \/ ForwardControl
  <2>1. UNCHANGED log /\ (listening' => listening)
    <3>1. CASE HandleStep
      <4>1. CASE DropReceiver
        BY <4>1 DEF DropReceiver
      <4>2. CASE HandleStep /\ ~DropReceiver
        <5>1. UNCHANGED <<log, listening>>
          BY <4>2 DEF HandleStep, Submit, SendExtra, DropSender
        <5> QED BY <5>1
      <4> QED BY <3>1, <4>1, <4>2
    <3>2. CASE RecvSubmit \/ PushSteer \/ RecvCancel
               \/ RecvApproval \/ ForwardControl
      BY <3>2 DEF RecvSubmit, PushSteer, RecvCancel, RecvApproval,
                  ForwardControl
    <3> QED BY <1>4, <3>1, <3>2
  <2>2. UNCHANGED <<loop, loopNextId, done, nextMessageId>>
          /\ (rt' = "stopped" <=> rt = "stopped")
    BY <1>4, OtherSteps
  <2>3. NextId' = NextId
    BY <2>2 DEF NextId
  <2> QED BY <2>1, <2>2, <2>3 DEF EventIdsInv
<1>5. CASE ReportOutcome
  <2>1. /\ loop = "report" /\ loop' = "ending" /\ UNCHANGED <<log, loopNextId>>
        /\ UNCHANGED <<rt, listening>>
    BY <1>5, TaskSteps DEF ReportOutcome, LoopStep, LoopVarsKept
  <2>2. CASE rt # "stopped"
    <3>1. NextId = loopNextId /\ NextId' = loopNextId
      BY <1>5, <2>1, <2>2, ReportSent DEF NextId, InLoop
    <3> QED BY <2>1, <2>2, <3>1 DEF EventIdsInv
  <2>3. CASE rt = "stopped"
    BY <2>1, <2>3 DEF EventIdsInv, InLoop
  <2> QED BY <2>2, <2>3
<1>6. CASE TaskEnds
  <2>1. UNCHANGED <<log, done, loopNextId, rt, listening, nextMessageId>>
          /\ loop' = "gone"
    BY <1>6, TaskSteps DEF TaskEnds, LoopStep, LoopVarsKept
  <2>2. CASE rt # "stopped"
    <3>1. loop = "ending"
      BY <1>6, <2>2 DEF TaskEnds, Ownership
    <3>2. NextId' = NextId
      BY <2>1, <3>1 DEF NextId, InLoop
    <3> QED BY <2>1, <3>2 DEF EventIdsInv, InLoop
  <2>3. CASE rt = "stopped"
    BY <2>1, <2>3 DEF EventIdsInv, InLoop
  <2> QED BY <2>2, <2>3
<1>7. CASE /\ LoopStep \/ StreamStarts \/ StreamFails
                \/ InterruptStep \/ ReplyStep
           /\ ~ReportOutcome /\ ~TaskEnds
  <2>1. loop \in InLoop
    BY <1>7 DEF LoopStep, LoopCancelled, BeginIteration, ExecuteTool,
                DrainBeforeFinish, AnnounceFinish, StreamStarts, StreamFails,
                InterruptStep, Interrupt, ReplyStep, ReplyDone, InLoop
  <2>2. UNCHANGED listening
    BY <1>7, TaskSteps DEF LoopVarsKept
  <2>3. CASE Delivers
    <3> PICK first \in Nat \ {0}, turn \in Nat, texts \in Seq(Nat) :
           first = loopNextId /\ turn = loopTurn /\ texts = steering
      BY <1>a DEF TypeInv, TypeOK
    <3> PICK ev \in {UserEvents(turn, texts, first)},
             after \in {first + Len(texts)} :
           ev = UserEvents(turn, texts, first) /\ after = first + Len(texts)
      OBVIOUS
    <3>1. /\ ev \in Seq(EventRecord) /\ after \in Nat /\ first <= after
          /\ EventIdsDiffer(ev) /\ EventIdsBelow(ev, after)
          /\ \A i \in 1..Len(ev) : first <= ev[i].id
      BY UserEventIds
    <3>2. NextId' = after /\ NextId <= first /\ Emit(ev)
      BY <2>3 DEF Delivers
    <3>3. NextId \in Nat /\ after = NextId' /\ first \in Nat
      BY <1>a, <3>2
    <3>4. rt # "stopped" \/ loop \in InLoop
      BY <2>1
    <3>5. \A i \in 1..Len(ev) : ev[i].kind = "UserMessage" => first <= ev[i].id
      BY <3>1
    <3>6. TypeInv /\ EventIdsInv
      BY <1>a
    <3> QED BY ONLY <2>2, <3>1, <3>2, <3>3, <3>4, <3>5, <3>6, EventIdsTaken
  <2>4. CASE (\E e : Produces(e)) \/ Fails(<<>>) \/ Fails(steering)
    <3>1. UNCHANGED log /\ NextId' \in Nat /\ NextId <= NextId'
      BY <1>a, <2>4 DEF Produces, Fails
    <3> QED BY <1>a, <1>b, <2>1, <2>2, <3>1, EventIdsKept
  <2>5. CASE Moves
    <3>1. loopTurn \in Nat /\ NextId' \in Nat /\ NextId <= NextId'
      BY <2>5 DEF Moves, TypeInv, TypeOK
    <3> PICK ev : ev = <<Event("TurnFinished", loopTurn, 0, 0),
                         Event("AgentFinished", 0, 0, 0)>>
      OBVIOUS
    <3>2. /\ ev \in Seq(EventRecord)
          /\ \A i \in 1..Len(ev) : ev[i].kind # "UserMessage"
      BY <3>1, EndEvents DEF Terminals
    <3>3. log' = log \/ log' = log \o ev
      BY <2>5 DEF Moves, Emit
    <3> QED BY <1>a, <2>1, <2>2, <3>1, <3>2, <3>3, EventIdsKept
  <2> QED BY <1>7, <2>1, <2>3, <2>4, <2>5, LoopEffect
<1>8. CASE UNCHANGED vars
  BY <1>8 DEF vars, loopVars, idVars, EventIdsInv, NextId
<1> QED BY <1>1, <1>2, <1>3, <1>4, <1>5, <1>6, <1>7, <1>8
        DEF Next, RuntimeStep

-----------------------------------------------------------------------------
(* The theorems.                                                           *)

\* `run` starts with nothing in flight and nothing announced.
LEMMA InitTranscripts == Init => TranscriptInv
<1> SUFFICES ASSUME Init PROVE TranscriptInv
  OBVIOUS
<1>1. TypeInv /\ Ownership
  BY InitType, InitOwnership
<1>2. /\ loop = "gone" /\ rt = "select" /\ done = <<>> /\ produced = <<>>
      /\ session = <<>> /\ nextMessageId = 1
  BY DEF Init
<1>3. InFlight /\ AnsweredInv
  BY <1>2 DEF InFlight, AnsweredInv, InLoop
<1>4. IdsInv
  <2>1. <<>> \o <<>> = <<>> /\ Len(<<>>) = 0
    BY EmptySeq, ConcatEmptySeq
  <2>2. Uncommitted = <<>> /\ session \o Uncommitted = <<>> /\ NextId = 1
    BY <1>2, <2>1 DEF Uncommitted, NextId, InLoop
  <2> QED BY <1>2, <2>1, <2>2 DEF IdsInv, IdsOrdered, IdsBelow
<1>5. EventIdsInv
  <2> PICK e \in EventRecord : e = Event("ConfigChanged", 0, 0, 0)
    BY EventType DEF EventKinds
  <2>1. log = <<e>> /\ e.kind # "UserMessage"
    BY DEF Init, Event
  <2>2. \A i \in 1..Len(log) : log[i].kind # "UserMessage"
    BY <2>1
  <2> QED BY <2>2 DEF EventIdsInv, EventIdsDiffer, EventIdsBelow
<1> QED BY <1>1, <1>3, <1>4, <1>5 DEF TranscriptInv

\* Every step keeps the transcripts as TranscriptInv says.
LEMMA StepTranscripts == TranscriptInv /\ [Next]_vars => TranscriptInv'
<1> SUFFICES ASSUME TranscriptInv, [Next]_vars PROVE TranscriptInv'
  OBVIOUS
<1>1. TypeInv /\ Ownership /\ InFlight /\ AnsweredInv /\ IdsInv /\ EventIdsInv
  BY DEF TranscriptInv
<1>2. TypeInv' /\ Ownership'
  BY <1>1, StepOwnership
<1>3. InFlight'
  BY <1>1, InFlightStep
<1>4. AnsweredInv'
  BY <1>1, AnsweredStep
<1>5. IdsInv'
  BY <1>1, <1>3, IdsStep
<1>6. EventIdsInv'
  BY <1>1, <1>3, EventIdsStep
<1> QED BY <1>2, <1>3, <1>4, <1>5, <1>6 DEF TranscriptInv

\* The invariant the theorems of this module follow from.
LEMMA TranscriptsKept == Spec => []TranscriptInv
BY InitTranscripts, StepTranscripts, PTL DEF Spec

\* What a completed turn asks `run` to commit, and what the loop shows the
\* model, answers every tool call with the results that follow it.
THEOREM CallsAreAnswered == Spec => []CompletedCallsAnswered
<1>1. TranscriptInv => CompletedCallsAnswered
  <2> SUFFICES ASSUME TranscriptInv PROVE CompletedCallsAnswered
    OBVIOUS
  <2>1. TypeInv /\ Ownership /\ InFlight /\ AnsweredInv
    BY DEF TranscriptInv
  <2>2. ASSUME done # <<>>, done[1].kind = "completed"
        PROVE  CallsAnswered(done[1].messages)
    <3>1. done[1].messages \in Seq(Message)
      BY <2>1, <2>2, UncommittedNow
    <3>2. AnsweredExcept(done[1].messages, 0)
      BY <2>1, <2>2 DEF AnsweredInv
    <3> QED BY <3>1, <3>2, AnsweredAll
  <2>3. ASSUME loop \in {"starting", "streaming", "closing", "announce"}
        PROVE  CallsAnswered(produced)
    <3>1. produced \in Seq(Message)
      BY <2>1, LoopTypes
    <3>2. AnsweredExcept(produced, 0)
      BY <2>1, <2>3 DEF AnsweredInv, InLoop
    <3> QED BY <3>1, <3>2, AnsweredAll
  <2> QED BY <2>2, <2>3 DEF CompletedCallsAnswered
<1> QED BY <1>1, TranscriptsKept, PTL

\* The ids of the session and of the turn in flight strictly increase and stay
\* below the id the next message takes, and an id announced to the consumer
\* names one message as long as no turn has failed.
THEOREM IdsAreFresh == Spec => []IdsIncrease
<1>1. TranscriptInv => IdsIncrease
  <2> SUFFICES ASSUME TranscriptInv PROVE IdsIncrease
    OBVIOUS
  <2>1. TypeInv /\ Ownership /\ InFlight /\ IdsInv /\ EventIdsInv
    BY DEF TranscriptInv
  <2> DEFINE messages == session \o Uncommitted
             ids == [i \in DOMAIN messages |-> messages[i].id]
             next == IF Uncommitted = <<>> THEN nextMessageId
                     ELSE IF done # <<>> THEN done[1].nextId ELSE loopNextId
  <2>2. ASSUME rt # "stopped"
        PROVE  IsIncreasing(ids) /\ \A i \in DOMAIN ids : ids[i] < next
    <3>1. /\ session \in Seq(Message) /\ Uncommitted \in Seq(Message)
          /\ nextMessageId \in Nat /\ loopNextId \in Nat /\ NextId \in Nat
          /\ done = <<>> => Uncommitted = produced
          /\ done # <<>> => /\ done[1] \in Report
                           /\ Uncommitted = done[1].messages
                           /\ loop \notin InLoop
      BY <2>1, UncommittedNow, LoopTypes
    <3>2. /\ IdsOrdered(messages) /\ IdsBelow(messages, NextId)
          /\ IdsBelow(session, nextMessageId)
      BY <2>1, <2>2 DEF IdsInv
    <3>3. /\ messages \in Seq(Message)
          /\ Uncommitted = <<>> => messages = session
      BY <3>1, ConcatProperties, ConcatEmptySeq
    <3>4. /\ Len(messages) \in Nat /\ DOMAIN messages = 1..Len(messages)
          /\ \A i \in 1..Len(messages) : messages[i].id \in Nat
      BY <3>3, MessageFields
    <3>5. DOMAIN ids = 1..Len(messages)
            /\ \A i \in 1..Len(messages) : ids[i] = messages[i].id
      BY <3>4
    <3>6. IsIncreasing(ids)
      BY <3>2, <3>5 DEF IsIncreasing, IdsOrdered
    <3>7. \A i \in 1..Len(messages) : messages[i].id < next
      <4>1. CASE Uncommitted = <<>>
        BY <3>2, <3>3, <4>1 DEF IdsBelow
      <4>2. CASE Uncommitted # <<>>
        <5>1. next \in Nat /\ NextId <= next
          <6>1. CASE done # <<>>
            <7>1. loop \in {"ending", "gone"}
              BY <2>1, <2>2, <6>1, LoopTypes DEF Ownership, ReportIsOwned
            <7>2. NextId = next
              BY <4>2, <6>1, <7>1 DEF NextId, InLoop
            <7> QED BY <3>1, <7>2
          <6>2. CASE done = <<>>
            <7>1. loop \in InLoop \cup {"report"}
              BY <2>1, <2>2, <3>1, <4>2, <6>2, LoopTypes DEF InFlight
            <7>2. NextId <= loopNextId
              BY <3>1, <7>1 DEF NextId
            <7> QED BY <3>1, <4>2, <6>2, <7>2
          <6> QED BY <6>1, <6>2
        <5> HIDE DEF messages, next
        <5> QED BY <3>1, <3>2, <3>4, <5>1 DEF IdsBelow
      <4> QED BY <4>1, <4>2
    <3> QED BY <3>5, <3>6, <3>7
  <2>3. ASSUME \A i \in DOMAIN log : log[i].kind # "TurnFailed"
        PROVE  \A i, j \in DOMAIN log :
                 /\ log[i].kind = "UserMessage" /\ log[j].kind = "UserMessage"
                 /\ i # j
                 => log[i].id # log[j].id
    <3>1. log \in Seq(EventRecord)
      BY <2>1 DEF TypeInv, TypeOK
    <3>2. DOMAIN log = 1..Len(log)
      BY <3>1, LenProperties
    <3>3. EventIdsDiffer(log)
      BY <2>1, <2>3, <3>2 DEF EventIdsInv, NoTurnFailed
    <3> QED BY <3>2, <3>3 DEF EventIdsDiffer
  <2> QED BY <2>2, <2>3 DEF IdsIncrease
<1> QED BY <1>1, TranscriptsKept, PTL

-----------------------------------------------------------------------------
\* From here on of the helpers only these.
HIDE DEF PushToolResult, AfterTool, StopTask
USE DEF AfterTexts, TurnTexts, CommitOutcome, MustSettle

-----------------------------------------------------------------------------
(* Where submissions are: the inductive invariant.                         *)

Elements(w) == {w[i] : i \in DOMAIN w}

\* The submitted texts among these commands.
QueuedIn(c) == {c[i].text : i \in {j \in DOMAIN c : c[j].kind = "submit"}}

\* These commands hold submissions in the order in which they were sent, none
\* later than the nth.
InOrder(c, n) ==
  /\ \A i \in 1..Len(c) :
       IF c[i].kind = "submit" THEN c[i].text \in 1..n ELSE c[i].text = 0
  /\ \A i, j \in 1..Len(c) :
       i < j /\ c[i].kind = "submit" /\ c[j].kind = "submit"
         => c[i].text < c[j].text

ChannelInv == InOrder(commands, submitted)

\* `run` holds a text at the points where it serves a submission.
HeldInv ==
  /\ rt \in {"select", "forward"} => held = 0
  /\ rt \in {"pushSteer", "announceSteer", "settle", "begin"} => held # 0

\* A transcript m, the texts w waiting behind it, those still in the channel q,
\* and the accepted ones: m carries them in order, then w, then q, and what
\* was accepted is in m, in w or discarded.
Placed(m, w, q, accepted, dropped) ==
  /\ UsersOrdered(m)
  /\ IsIncreasing(w)
  /\ \A x \in TextsOf(m), y \in Elements(w) : x < y
  /\ \A x \in TextsOf(m) \cup Elements(w), y \in q : x < y
  /\ accepted = dropped \cup TextsOf(m) \cup Elements(w)

Transcript == session \o Uncommitted

\* SubmissionsDelivered, with the channel behind it.
PlacedInv ==
  rt # "stopped" =>
    Placed(Transcript, Waiting, QueuedIn(commands), Accepted, discarded)

SubmissionsInv ==
  TypeInv /\ Ownership /\ InFlight /\ ChannelInv /\ HeldInv /\ PlacedInv

-----------------------------------------------------------------------------
(* Sequences of texts.                                                     *)

\* The places of a sequence of texts.
LEMMA TextFields ==
  ASSUME NEW w \in Seq(Nat)
  PROVE  /\ Len(w) \in Nat
         /\ DOMAIN w = 1..Len(w)
         /\ \A i \in 1..Len(w) : w[i] \in Nat /\ w[i] \in Elements(w)
         /\ Elements(w) \subseteq Nat
         /\ \A x \in Elements(w) : \E i \in 1..Len(w) : w[i] = x
<1>1. Len(w) \in Nat /\ DOMAIN w = 1..Len(w)
  BY LenProperties
<1>2. \A i \in 1..Len(w) : w[i] \in Nat
  BY ElementOfSeq
<1> QED BY <1>1, <1>2 DEF Elements

\* One sequence of texts behind another.
LEMMA TextsBehind ==
  ASSUME NEW v \in Seq(Nat), NEW w \in Seq(Nat)
  PROVE  /\ v \o w \in Seq(Nat)
         /\ Len(v \o w) = Len(v) + Len(w)
         /\ \A i \in 1..Len(v) : (v \o w)[i] = v[i]
         /\ \A i \in (Len(v) + 1)..(Len(v) + Len(w)) :
              (v \o w)[i] = w[i - Len(v)]
         /\ \A k \in 1..Len(w) : /\ Len(v) + k \in 1..Len(v \o w)
                                /\ (v \o w)[Len(v) + k] = w[k]
<1>1. /\ v \o w \in Seq(Nat) /\ Len(v \o w) = Len(v) + Len(w)
      /\ \A i \in 1..(Len(v) + Len(w)) :
           (v \o w)[i] = IF i <= Len(v) THEN v[i] ELSE w[i - Len(v)]
  BY ConcatProperties
<1>2. Len(v) \in Nat /\ Len(w) \in Nat
  BY LenProperties
<1>3. ASSUME NEW k \in 1..Len(w)
      PROVE  /\ Len(v) + k \in 1..Len(v \o w)
             /\ (v \o w)[Len(v) + k] = w[k]
  <2>1. /\ Len(v) + k \in 1..(Len(v) + Len(w)) /\ ~(Len(v) + k <= Len(v))
        /\ (Len(v) + k) - Len(v) = k
    BY <1>2
  <2> QED BY <1>1, <2>1
<1> QED BY <1>1, <1>2, <1>3

\* The texts of both are the texts of the whole.
LEMMA ElementsBehind ==
  ASSUME NEW v \in Seq(Nat), NEW w \in Seq(Nat)
  PROVE  Elements(v \o w) = Elements(v) \cup Elements(w)
<1> PICK u : u = v \o w
  OBVIOUS
<1>1. /\ u \in Seq(Nat) /\ Len(u) = Len(v) + Len(w)
      /\ \A i \in 1..Len(v) : u[i] = v[i]
      /\ \A i \in (Len(v) + 1)..(Len(v) + Len(w)) : u[i] = w[i - Len(v)]
      /\ \A k \in 1..Len(w) : Len(v) + k \in 1..Len(u) /\ u[Len(v) + k] = w[k]
  BY TextsBehind
<1>2. Len(v) \in Nat /\ Len(w) \in Nat
        /\ \A i \in 1..Len(u) : u[i] \in Elements(u)
  BY <1>1, TextFields
<1>3. ASSUME NEW x \in Elements(u) PROVE x \in Elements(v) \cup Elements(w)
  <2> PICK i \in 1..Len(u) : u[i] = x
    BY <1>1, TextFields
  <2>1. CASE i \in 1..Len(v)
    BY <1>1, <2>1, TextFields
  <2>2. CASE i \in (Len(v) + 1)..(Len(v) + Len(w))
    <3>1. i - Len(v) \in 1..Len(w) /\ u[i] = w[i - Len(v)]
      BY <1>1, <1>2, <2>2
    <3> QED BY <3>1, TextFields
  <2> QED BY <1>1, <1>2, <2>1, <2>2
<1>4. ASSUME NEW x \in Elements(v) PROVE x \in Elements(u)
  <2> PICK i \in 1..Len(v) : v[i] = x
    BY TextFields
  <2>1. i \in 1..Len(u) /\ u[i] = x
    BY <1>1, <1>2
  <2> QED BY <1>2, <2>1
<1>5. ASSUME NEW x \in Elements(w) PROVE x \in Elements(u)
  <2> PICK k \in 1..Len(w) : w[k] = x
    BY TextFields
  <2>1. Len(v) + k \in 1..Len(u) /\ u[Len(v) + k] = x
    BY <1>1
  <2> QED BY <1>2, <2>1
<1> QED BY <1>3, <1>4, <1>5

\* Increasing sequences, one behind the other, when every text of the first is
\* below every text of the second; and the converse.
LEMMA IncreasingBehind ==
  ASSUME NEW v \in Seq(Nat), NEW w \in Seq(Nat)
  PROVE  IsIncreasing(v \o w) <=>
           /\ IsIncreasing(v) /\ IsIncreasing(w)
           /\ \A x \in Elements(v), y \in Elements(w) : x < y
<1> PICK u : u = v \o w
  OBVIOUS
<1>1. /\ u \in Seq(Nat) /\ Len(u) = Len(v) + Len(w)
      /\ \A i \in 1..Len(v) : u[i] = v[i]
      /\ \A i \in (Len(v) + 1)..(Len(v) + Len(w)) : u[i] = w[i - Len(v)]
      /\ \A k \in 1..Len(w) : Len(v) + k \in 1..Len(u) /\ u[Len(v) + k] = w[k]
  BY TextsBehind
<1>2. /\ Len(v) \in Nat /\ DOMAIN v = 1..Len(v)
      /\ Len(w) \in Nat /\ DOMAIN w = 1..Len(w)
      /\ Len(u) \in Nat /\ DOMAIN u = 1..Len(u)
      /\ \A i \in 1..Len(v) : v[i] \in Elements(v)
      /\ \A i \in 1..Len(w) : w[i] \in Elements(w)
  BY <1>1, TextFields
<1>3. ASSUME IsIncreasing(u)
      PROVE  /\ IsIncreasing(v) /\ IsIncreasing(w)
             /\ \A x \in Elements(v), y \in Elements(w) : x < y
  <2>1. \A i, j \in 1..Len(u) : i < j => u[i] < u[j]
    BY <1>2, <1>3 DEF IsIncreasing
  <2>2. \A i \in 1..Len(v) : i \in 1..Len(u)
    BY <1>1, <1>2
  <2>3. IsIncreasing(v)
    BY <1>1, <1>2, <2>1, <2>2 DEF IsIncreasing
  <2>4. ASSUME NEW i \in 1..Len(w), NEW j \in 1..Len(w), i < j
        PROVE  w[i] < w[j]
    <3>1. Len(v) + i < Len(v) + j
      BY <1>2, <2>4
    <3> QED BY <1>1, <2>1, <3>1
  <2>5. IsIncreasing(w)
    BY <1>2, <2>4 DEF IsIncreasing
  <2>6. ASSUME NEW x \in Elements(v), NEW y \in Elements(w)
        PROVE  x < y
    <3> PICK i \in 1..Len(v), k \in 1..Len(w) : v[i] = x /\ w[k] = y
      BY TextFields
    <3>1. i < Len(v) + k
      BY <1>2
    <3> QED BY <1>1, <2>1, <2>2, <3>1
  <2> QED BY <2>3, <2>5, <2>6
<1>4. ASSUME IsIncreasing(v), IsIncreasing(w),
             \A x \in Elements(v), y \in Elements(w) : x < y
      PROVE  IsIncreasing(u)
  <2>1. ASSUME NEW i \in 1..Len(u), NEW j \in 1..Len(u), i < j
        PROVE  u[i] < u[j]
    <3>1. CASE j \in 1..Len(v)
      <4>1. i \in 1..Len(v)
        BY <1>2, <2>1, <3>1
      <4> QED BY <1>1, <1>2, <1>4, <2>1, <3>1, <4>1 DEF IsIncreasing
    <3>2. CASE i \in 1..Len(v) /\ j \in (Len(v) + 1)..(Len(v) + Len(w))
      <4>1. j - Len(v) \in 1..Len(w) /\ u[j] = w[j - Len(v)] /\ u[i] = v[i]
        BY <1>1, <1>2, <3>2
      <4> QED BY <1>2, <1>4, <3>2, <4>1
    <3>3. CASE i \in (Len(v) + 1)..(Len(v) + Len(w))
      <4>1. j \in (Len(v) + 1)..(Len(v) + Len(w))
        BY <1>1, <1>2, <2>1, <3>3
      <4>2. /\ i - Len(v) \in 1..Len(w) /\ j - Len(v) \in 1..Len(w)
            /\ i - Len(v) < j - Len(v)
            /\ u[i] = w[i - Len(v)] /\ u[j] = w[j - Len(v)]
        BY <1>1, <1>2, <2>1, <3>3, <4>1
      <4> QED BY <1>2, <1>4, <4>2 DEF IsIncreasing
    <3> QED BY <1>1, <1>2, <2>1, <3>1, <3>2, <3>3
  <2> QED BY <1>2, <2>1 DEF IsIncreasing
<1> QED BY <1>3, <1>4

\* A single text.
LEMMA OneText ==
  ASSUME NEW x \in Nat
  PROVE  /\ <<x>> \in Seq(Nat)
         /\ Elements(<<x>>) = {x} /\ IsIncreasing(<<x>>)
BY DEF Elements, IsIncreasing

\* No text.
LEMMA NoText ==
  <<>> \in Seq(Nat) /\ Elements(<<>>) = {} /\ IsIncreasing(<<>>)
BY EmptySeq DEF Elements, IsIncreasing

-----------------------------------------------------------------------------
(* The texts of transcripts.                                               *)

\* A text of a transcript is that of one of its user messages.
LEMMA TextIs ==
  ASSUME NEW m \in Seq(Message)
  PROVE  /\ \A x \in TextsOf(m) :
              \E i \in 1..Len(m) : m[i].role = "user" /\ m[i].text = x
         /\ \A i \in 1..Len(m) :
              m[i].role = "user" => m[i].text \in TextsOf(m)
         /\ TextsOf(m) \subseteq Nat
         /\ UsersOrdered(m) <=>
              \A i, j \in 1..Len(m) :
                i < j /\ m[i].role = "user" /\ m[j].role = "user"
                  => m[i].text < m[j].text
<1>1. Len(m) \in Nat /\ DOMAIN m = 1..Len(m)
  BY MessageFields
<1> QED BY <1>1, TextsOfType DEF TextsOf, UsersOrdered

\* One transcript behind another.
LEMMA TextsJoined ==
  ASSUME NEW m \in Seq(Message), NEW n \in Seq(Message)
  PROVE  /\ TextsOf(m \o n) = TextsOf(m) \cup TextsOf(n)
         /\ UsersOrdered(m \o n) => UsersOrdered(m)
         /\ /\ UsersOrdered(m) /\ UsersOrdered(n)
            /\ \A x \in TextsOf(m), y \in TextsOf(n) : x < y
            => UsersOrdered(m \o n)
<1> PICK u : u = m \o n
  OBVIOUS
<1>1. /\ u \in Seq(Message) /\ Len(u) = Len(m) + Len(n)
      /\ \A i \in 1..Len(m) : u[i] = m[i]
      /\ \A i \in (Len(m) + 1)..(Len(m) + Len(n)) : u[i] = n[i - Len(m)]
  BY Joined
<1>2. Len(m) \in Nat /\ Len(n) \in Nat
  BY MessageFields
<1>3. \A i \in 1..Len(m) : i \in 1..Len(u)
  BY <1>1, <1>2
<1>4. \A i \in 1..Len(u) :
        i \in 1..Len(m) \/ i \in (Len(m) + 1)..(Len(m) + Len(n))
  BY <1>1, <1>2
<1>5. \A i \in (Len(m) + 1)..(Len(m) + Len(n)) : i - Len(m) \in 1..Len(n)
  BY <1>2
<1>6. TextsOf(u) = TextsOf(m) \cup TextsOf(n)
  <2>1. ASSUME NEW x \in TextsOf(u) PROVE x \in TextsOf(m) \cup TextsOf(n)
    <3> PICK i \in 1..Len(u) : u[i].role = "user" /\ u[i].text = x
      BY <1>1, TextIs
    <3>1. CASE i \in 1..Len(m)
      BY <1>1, <3>1, TextIs
    <3>2. CASE i \in (Len(m) + 1)..(Len(m) + Len(n))
      <4>1. i - Len(m) \in 1..Len(n) /\ u[i] = n[i - Len(m)]
        BY <1>1, <1>5, <3>2
      <4> QED BY <4>1, TextIs
    <3> QED BY <1>4, <3>1, <3>2
  <2>2. ASSUME NEW x \in TextsOf(m) PROVE x \in TextsOf(u)
    <3> PICK i \in 1..Len(m) : m[i].role = "user" /\ m[i].text = x
      BY TextIs
    <3>1. i \in 1..Len(u) /\ u[i] = m[i]
      BY <1>1, <1>3
    <3> QED BY <1>1, <3>1, TextIs
  <2>3. ASSUME NEW x \in TextsOf(n) PROVE x \in TextsOf(u)
    <3> PICK k \in 1..Len(n) : n[k].role = "user" /\ n[k].text = x
      BY TextIs
    <3> PICK i \in (Len(m) + 1)..(Len(m) + Len(n)) : i = Len(m) + k
      BY <1>2
    <3>1. i - Len(m) = k /\ i \in 1..Len(u)
      BY <1>1, <1>2
    <3>2. u[i] = n[k]
      BY <1>1, <3>1
    <3> QED BY <1>1, <3>1, <3>2, TextIs
  <2> QED BY <2>1, <2>2, <2>3
<1>7. ASSUME UsersOrdered(u) PROVE UsersOrdered(m)
  <2>1. \A i, j \in 1..Len(u) :
          i < j /\ u[i].role = "user" /\ u[j].role = "user"
            => u[i].text < u[j].text
    BY <1>1, <1>7, TextIs
  <2>2. \A i, j \in 1..Len(m) :
          i < j /\ m[i].role = "user" /\ m[j].role = "user"
            => m[i].text < m[j].text
    BY <1>1, <1>3, <2>1
  <2> QED BY <2>2, TextIs
<1>8. ASSUME UsersOrdered(m), UsersOrdered(n),
             \A x \in TextsOf(m), y \in TextsOf(n) : x < y
      PROVE  UsersOrdered(u)
  <2>2. /\ \A i, j \in 1..Len(m) :
             i < j /\ m[i].role = "user" /\ m[j].role = "user"
               => m[i].text < m[j].text
        /\ \A i, j \in 1..Len(n) :
             i < j /\ n[i].role = "user" /\ n[j].role = "user"
               => n[i].text < n[j].text
    BY <1>8, TextIs
  <2>1. ASSUME NEW i \in 1..Len(u), NEW j \in 1..Len(u), i < j,
               u[i].role = "user", u[j].role = "user"
        PROVE  u[i].text < u[j].text
    <3>1. CASE j \in 1..Len(m)
      <4>1. i \in 1..Len(m)
        BY <1>2, <2>1, <3>1
      <4>2. u[i] = m[i] /\ u[j] = m[j]
        BY <1>1, <3>1, <4>1
      <4> QED BY <2>1, <2>2, <3>1, <4>1, <4>2
    <3>2. CASE i \in 1..Len(m) /\ j \in (Len(m) + 1)..(Len(m) + Len(n))
      <4>1. /\ u[i] = m[i] /\ u[j] = n[j - Len(m)]
            /\ j - Len(m) \in 1..Len(n)
        BY <1>1, <1>5, <3>2
      <4>2. m[i].text \in TextsOf(m) /\ n[j - Len(m)].text \in TextsOf(n)
        BY <2>1, <3>2, <4>1, TextIs
      <4> QED BY <1>8, <4>1, <4>2
    <3>3. CASE i \in (Len(m) + 1)..(Len(m) + Len(n))
      <4>1. j \in (Len(m) + 1)..(Len(m) + Len(n))
        BY <1>1, <1>2, <2>1, <3>3
      <4> PICK a \in 1..Len(n), b \in 1..Len(n) :
             a = i - Len(m) /\ b = j - Len(m)
        BY <1>5, <3>3, <4>1
      <4>2. a < b /\ u[i] = n[a] /\ u[j] = n[b]
        <5>1. u[i] = n[a] /\ u[j] = n[b]
          BY <1>1, <3>3, <4>1
        <5>2. i \in Int /\ j \in Int /\ Len(m) \in Int
          BY <1>2, <3>3, <4>1
        <5> QED BY <2>1, <5>1, <5>2
      <4>3. n[a].role = "user" /\ n[b].role = "user"
        BY <2>1, <4>2
      <4> QED BY <2>2, <4>2, <4>3
    <3> QED BY <1>4, <3>1, <3>2, <3>3
  <2> QED BY <1>1, <2>1, TextIs
<1> QED BY <1>6, <1>7, <1>8

\* The messages made of texts carry these texts, in their order.
LEMMA TextsOfUsers ==
  ASSUME NEW texts \in Seq(Nat), NEW first \in Nat \ {0}
  PROVE  /\ UserMessages(texts, first) \in Seq(Message)
         /\ TextsOf(UserMessages(texts, first)) = Elements(texts)
         /\ IsIncreasing(texts) => UsersOrdered(UserMessages(texts, first))
<1> PICK us : us = UserMessages(texts, first)
  OBVIOUS
<1>1. /\ us \in Seq(Message) /\ Len(us) = Len(texts)
      /\ \A i \in 1..Len(us) : us[i].role = "user" /\ us[i].text = texts[i]
  BY UserMessagesAre
<1>2. DOMAIN texts = 1..Len(texts)
  BY TextFields
<1>3. TextsOf(us) = Elements(texts)
  <2>1. ASSUME NEW x \in TextsOf(us) PROVE x \in Elements(texts)
    <3> PICK i \in 1..Len(us) : us[i].role = "user" /\ us[i].text = x
      BY <1>1, TextIs
    <3> QED BY <1>1, TextFields
  <2>2. ASSUME NEW x \in Elements(texts) PROVE x \in TextsOf(us)
    <3> PICK i \in 1..Len(texts) : texts[i] = x
      BY TextFields
    <3> QED BY <1>1, TextIs
  <2> QED BY <2>1, <2>2
<1>4. ASSUME IsIncreasing(texts) PROVE UsersOrdered(us)
  <2>1. \A i, j \in 1..Len(us) : i < j => us[i].text < us[j].text
    BY <1>1, <1>2, <1>4 DEF IsIncreasing
  <2> QED BY <1>1, <2>1, TextIs
<1> QED BY <1>1, <1>3, <1>4

\* A message that is not the user's carries no text.
LEMMA NoNewText ==
  ASSUME NEW e \in Message, e.role # "user"
  PROVE  <<e>> \in Seq(Message) /\ TextsOf(<<e>>) = {} /\ UsersOrdered(<<e>>)
BY DEF TextsOf, UsersOrdered

-----------------------------------------------------------------------------
(* What the steps do to the texts, wherever they are.                      *)

\* A boundary or a new turn delivers the texts at the head of those waiting.
LEMMA PlacedDelivered ==
  ASSUME NEW m \in Seq(Message), NEW v \in Seq(Nat), NEW w \in Seq(Nat),
         NEW first \in Nat \ {0}, NEW q, NEW accepted, NEW dropped,
         Placed(m, v \o w, q, accepted, dropped)
  PROVE  Placed(m \o UserMessages(v, first), w, q, accepted, dropped)
<1> PICK us, vw : us = UserMessages(v, first) /\ vw = v \o w
  OBVIOUS
<1>1. /\ us \in Seq(Message) /\ TextsOf(us) = Elements(v)
      /\ IsIncreasing(v) => UsersOrdered(us)
  BY TextsOfUsers
<1>2. Elements(vw) = Elements(v) \cup Elements(w)
  BY ElementsBehind
<1>3. /\ UsersOrdered(m) /\ IsIncreasing(vw)
      /\ \A x \in TextsOf(m), y \in Elements(vw) : x < y
      /\ \A x \in TextsOf(m) \cup Elements(vw), y \in q : x < y
      /\ accepted = dropped \cup TextsOf(m) \cup Elements(vw)
  BY DEF Placed
<1>4. /\ IsIncreasing(v) /\ IsIncreasing(w)
      /\ \A x \in Elements(v), y \in Elements(w) : x < y
  BY <1>3, IncreasingBehind
<1> PICK new : new = m \o us
  OBVIOUS
<1>5. TextsOf(new) = TextsOf(m) \cup Elements(v)
  BY <1>1, TextsJoined
<1>6. UsersOrdered(new)
  <2>1. \A x \in TextsOf(m), y \in TextsOf(us) : x < y
    BY <1>1, <1>2, <1>3
  <2> QED BY <1>1, <1>3, <1>4, <2>1, TextsJoined
<1>7. \A x \in TextsOf(new), y \in Elements(w) : x < y
  BY <1>2, <1>3, <1>4, <1>5
<1>8. \A x \in TextsOf(new) \cup Elements(w), y \in q : x < y
  BY <1>2, <1>3, <1>5
<1>9. accepted = dropped \cup TextsOf(new) \cup Elements(w)
  BY <1>2, <1>3, <1>5
<1> QED BY <1>4, <1>6, <1>7, <1>8, <1>9 DEF Placed

\* A reply or a tool result joins the transcript.
LEMMA PlacedReply ==
  ASSUME NEW m \in Seq(Message), NEW e \in Message, e.role # "user",
         NEW w, NEW q, NEW accepted, NEW dropped,
         Placed(m, w, q, accepted, dropped)
  PROVE  Placed(Append(m, e), w, q, accepted, dropped)
<1> PICK one : one = <<e>>
  OBVIOUS
<1>1. one \in Seq(Message) /\ TextsOf(one) = {} /\ UsersOrdered(one)
  BY NoNewText
<1>2. Append(m, e) = m \o one
  BY AppendIsConcat
<1>3. UsersOrdered(m)
  BY DEF Placed
<1> PICK new : new = m \o one
  OBVIOUS
<1>4. TextsOf(new) = TextsOf(m) \cup TextsOf(one)
  BY <1>1, TextsJoined
<1>5. \A x \in TextsOf(m), y \in TextsOf(one) : x < y
  BY <1>1
<1>6. UsersOrdered(new)
  BY <1>1, <1>3, <1>5, TextsJoined
<1>7. TextsOf(new) = TextsOf(m)
  BY <1>1, <1>4
<1> QED BY <1>2, <1>6, <1>7 DEF Placed

\* A turn fails: what it produced is dropped, with texts it had just taken.
LEMMA PlacedFailed ==
  ASSUME NEW s \in Seq(Message), NEW p \in Seq(Message),
         NEW v \in Seq(Nat), NEW w \in Seq(Nat),
         NEW q, NEW accepted, NEW dropped,
         Placed(s \o p, v \o w, q, accepted, dropped)
  PROVE  Placed(s, w, q, accepted, dropped \cup TextsOf(p) \cup Elements(v))
<1> PICK sp, vw : sp = s \o p /\ vw = v \o w
  OBVIOUS
<1>1. TextsOf(sp) = TextsOf(s) \cup TextsOf(p)
        /\ (UsersOrdered(sp) => UsersOrdered(s))
  BY TextsJoined
<1>2. Elements(vw) = Elements(v) \cup Elements(w)
        /\ (IsIncreasing(vw) => IsIncreasing(w))
  BY ElementsBehind, IncreasingBehind
<1>3. /\ UsersOrdered(sp) /\ IsIncreasing(vw)
      /\ \A x \in TextsOf(sp), y \in Elements(vw) : x < y
      /\ \A x \in TextsOf(sp) \cup Elements(vw), y \in q : x < y
      /\ accepted = dropped \cup TextsOf(sp) \cup Elements(vw)
  BY DEF Placed
<1>4. \A x \in TextsOf(s), y \in Elements(w) : x < y
  BY <1>1, <1>2, <1>3
<1>5. \A x \in TextsOf(s) \cup Elements(w), y \in q : x < y
  BY <1>1, <1>2, <1>3
<1>6. accepted
        = (dropped \cup TextsOf(p) \cup Elements(v))
            \cup TextsOf(s) \cup Elements(w)
  BY <1>1, <1>2, <1>3
<1> QED BY <1>1, <1>2, <1>3, <1>4, <1>5, <1>6 DEF Placed

\* `run` takes the first submission of the channel.
LEMMA PlacedTaken ==
  ASSUME NEW m, NEW w \in Seq(Nat), NEW q, NEW accepted, NEW dropped,
         NEW x \in Nat, x \in q, NEW rest, rest \subseteq q,
         \A y \in rest : x < y,
         Placed(m, w, q, accepted, dropped)
  PROVE  Placed(m, w \o <<x>>, rest, accepted \cup {x}, dropped)
<1> PICK one, more : one = <<x>> /\ more = w \o one
  OBVIOUS
<1>1. one \in Seq(Nat) /\ Elements(one) = {x} /\ IsIncreasing(one)
  BY OneText
<1>2. /\ UsersOrdered(m) /\ IsIncreasing(w)
      /\ \A a \in TextsOf(m), b \in Elements(w) : a < b
      /\ \A a \in TextsOf(m) \cup Elements(w), b \in q : a < b
      /\ accepted = dropped \cup TextsOf(m) \cup Elements(w)
  BY DEF Placed
<1>3. Elements(more) = Elements(w) \cup {x}
  BY <1>1, ElementsBehind
<1>4. IsIncreasing(more)
  <2>1. \A a \in Elements(w), b \in Elements(one) : a < b
    BY <1>1, <1>2
  <2> QED BY <1>1, <1>2, <2>1, IncreasingBehind
<1>5. \A a \in TextsOf(m), b \in Elements(more) : a < b
  BY <1>2, <1>3
<1>6. \A a \in TextsOf(m) \cup Elements(more), b \in rest : a < b
  BY <1>2, <1>3
<1>7. accepted \cup {x} = dropped \cup TextsOf(m) \cup Elements(more)
  BY <1>2, <1>3
<1> QED BY <1>2, <1>4, <1>5, <1>6, <1>7 DEF Placed

\* The channel holds other submissions, the new ones later than the accepted.
LEMMA PlacedChannel ==
  ASSUME NEW m, NEW w, NEW q, NEW accepted, NEW dropped, NEW now,
         Placed(m, w, q, accepted, dropped),
         \A y \in now : y \in q \/ \A x \in accepted : x < y
  PROVE  Placed(m, w, now, accepted, dropped)
BY DEF Placed

-----------------------------------------------------------------------------
(* The command channel.                                                    *)

\* The submissions in a channel, and those that have left it.
LEMMA ChannelIs ==
  ASSUME NEW c \in Seq(Command), NEW n \in Nat, InOrder(c, n)
  PROVE  /\ Len(c) \in Nat /\ DOMAIN c = 1..Len(c)
         /\ \A x \in QueuedIn(c) : /\ x \in 1..n
                                   /\ \E i \in 1..Len(c) :
                                        c[i].kind = "submit" /\ c[i].text = x
         /\ \A i \in 1..Len(c) :
              c[i].kind = "submit" => c[i].text \in QueuedIn(c)
         /\ 1..n \ {c[i].text : i \in DOMAIN c} = 1..n \ QueuedIn(c)
<1>1. Len(c) \in Nat /\ DOMAIN c = 1..Len(c)
  BY LenProperties
<1>2. \A x \in QueuedIn(c) : \E i \in 1..Len(c) :
        c[i].kind = "submit" /\ c[i].text = x
  BY <1>1 DEF QueuedIn
<1>3. \A i \in 1..Len(c) : c[i].kind = "submit" => c[i].text \in QueuedIn(c)
  BY <1>1 DEF QueuedIn
<1>4. \A x \in QueuedIn(c) : x \in 1..n
  BY <1>2 DEF InOrder
<1>5. ASSUME NEW x \in 1..n
      PROVE  x \in QueuedIn(c) <=> x \in {c[i].text : i \in DOMAIN c}
  <2>1. ASSUME NEW i \in DOMAIN c, c[i].text = x
        PROVE  x \in QueuedIn(c)
    <3>1. c[i].kind = "submit"
      BY <1>1, <2>1 DEF InOrder
    <3> QED BY <1>1, <1>3, <2>1, <3>1
  <2>2. x \in QueuedIn(c) => x \in {c[i].text : i \in DOMAIN c}
    BY <1>1, <1>2
  <2> QED BY <2>1, <2>2
<1> QED BY <1>1, <1>2, <1>3, <1>4, <1>5

\* The command e is what the handle sends when it has sent n submissions, and
\* k is their number then.
Sends(e, n, k) ==
  \/ e.kind = "submit" /\ e.text = n + 1 /\ k = n + 1
  \/ e.kind # "submit" /\ e.text = 0 /\ k = n

\* The handle appends a command to the channel.
LEMMA ChannelSent ==
  ASSUME NEW old \in Seq(Command), NEW n \in Nat, InOrder(old, n),
         NEW e \in Command, NEW new, new = Append(old, e), NEW k \in Nat,
         Sends(e, n, k)
  PROVE  /\ InOrder(new, k) /\ new \in Seq(Command)
         /\ 1..k \ QueuedIn(new) = 1..n \ QueuedIn(old)
         /\ \A y \in QueuedIn(new) : y \in QueuedIn(old) \/ y = n + 1
<1>1. /\ Len(old) \in Nat /\ Len(new) = Len(old) + 1
      /\ \A i \in 1..Len(old) : new[i] = old[i]
      /\ new[Len(old) + 1] = e
      /\ new \in Seq(Command)
  BY ChannelIs, AppendProperties
<1>b. \/ e.kind = "submit" /\ e.text = n + 1 /\ k = n + 1
      \/ e.kind # "submit" /\ e.text = 0 /\ k = n
  BY DEF Sends
<1>2. \A i \in 1..Len(new) : i \in 1..Len(old) \/ i = Len(old) + 1
  BY <1>1
<1>3. \A i \in 1..Len(old) :
        IF old[i].kind = "submit" THEN old[i].text \in 1..n
        ELSE old[i].text = 0
  BY DEF InOrder
<1>4. \A i \in 1..Len(new) :
        IF new[i].kind = "submit" THEN new[i].text \in 1..k
        ELSE new[i].text = 0
  <2> TAKE i \in 1..Len(new)
  <2>1. CASE i \in 1..Len(old)
    BY <1>1, <1>3, <1>b, <2>1
  <2>2. CASE i = Len(old) + 1
    BY <1>1, <1>b, <2>2
  <2> QED BY <1>2, <2>1, <2>2
<1>5. \A i, j \in 1..Len(new) :
        i < j /\ new[i].kind = "submit" /\ new[j].kind = "submit"
          => new[i].text < new[j].text
  <2> SUFFICES ASSUME NEW i \in 1..Len(new), NEW j \in 1..Len(new), i < j,
                      new[i].kind = "submit", new[j].kind = "submit"
               PROVE  new[i].text < new[j].text
    OBVIOUS
  <2>1. i \in 1..Len(old)
    BY <1>1, <1>2
  <2>2. CASE j \in 1..Len(old)
    BY <1>1, <2>1, <2>2 DEF InOrder
  <2>3. CASE j = Len(old) + 1
    <3>1. new[i].text \in 1..n
      BY <1>1, <1>3, <2>1
    <3>2. new[j].text = n + 1
      BY <1>1, <1>b, <2>3
    <3> QED BY <3>1, <3>2
  <2> QED BY <1>2, <2>2, <2>3
<1>6. InOrder(new, k)
  BY <1>4, <1>5 DEF InOrder
<1>7. /\ \A x \in QueuedIn(new) :
           \E i \in 1..Len(new) : new[i].kind = "submit" /\ new[i].text = x
      /\ \A i \in 1..Len(new) :
           new[i].kind = "submit" => new[i].text \in QueuedIn(new)
  BY <1>1, <1>6, ChannelIs
<1>8. /\ \A x \in QueuedIn(old) : /\ x \in 1..n
                                  /\ \E i \in 1..Len(old) :
                                       /\ old[i].kind = "submit"
                                       /\ old[i].text = x
      /\ \A i \in 1..Len(old) :
           old[i].kind = "submit" => old[i].text \in QueuedIn(old)
  BY ChannelIs
<1>9. ASSUME NEW y \in QueuedIn(new)
      PROVE  y \in QueuedIn(old) \/ (e.kind = "submit" /\ y = e.text)
  <2> PICK i \in 1..Len(new) : new[i].kind = "submit" /\ new[i].text = y
    BY <1>7
  <2> QED BY <1>1, <1>2, <1>8
<1>10. \A y \in QueuedIn(old) : y \in QueuedIn(new)
  <2> TAKE y \in QueuedIn(old)
  <2> PICK i \in 1..Len(old) : old[i].kind = "submit" /\ old[i].text = y
    BY <1>8
  <2>1. i \in 1..Len(new) /\ new[i] = old[i]
    BY <1>1
  <2> QED BY <1>7, <2>1
<1>11. e.kind = "submit" => e.text \in QueuedIn(new)
  <2>1. Len(old) + 1 \in 1..Len(new)
    BY <1>1
  <2> QED BY <1>1, <1>7, <2>1
<1>12. 1..k \ QueuedIn(new) = 1..n \ QueuedIn(old)
  <2>1. CASE e.kind = "submit"
    <3>1. 1..k = 1..n \cup {n + 1}
      BY <1>b, <2>1
    <3>2. QueuedIn(new) = QueuedIn(old) \cup {n + 1}
      BY <1>b, <1>9, <1>10, <1>11, <2>1
    <3>3. n + 1 \notin 1..n
      OBVIOUS
    <3> QED BY <3>1, <3>2, <3>3
  <2>2. CASE e.kind # "submit"
    BY <1>b, <1>9, <1>10, <2>2
  <2> QED BY <2>1, <2>2
<1> QED BY <1>1, <1>b, <1>6, <1>9, <1>12

\* `run` takes the command h at the head of the channel.
LEMMA ChannelTaken ==
  ASSUME NEW old \in Seq(Command), NEW n \in Nat, InOrder(old, n),
         old # <<>>, NEW new, new = Tail(old), NEW h, h = Head(old)
  PROVE  /\ new \in Seq(Command) /\ InOrder(new, n)
         /\ QueuedIn(new) \subseteq QueuedIn(old)
         /\ h.kind # "submit" => QueuedIn(new) = QueuedIn(old)
         /\ h.kind = "submit" =>
              /\ h.text \in QueuedIn(old) /\ h.text \in 1..n
              /\ \A y \in QueuedIn(new) : h.text < y
              /\ 1..n \ QueuedIn(new) = (1..n \ QueuedIn(old)) \cup {h.text}
<1>1. /\ Len(old) \in Nat \ {0} /\ Len(new) = Len(old) - 1
      /\ \A i \in 1..Len(new) : new[i] = old[i + 1]
      /\ h = old[1] /\ new \in Seq(Command)
  <2>1. Len(old) \in Nat
    BY ChannelIs
  <2>2. Len(old) # 0
    BY <2>1, EmptySeq
  <2>3. /\ Tail(old) \in Seq(Command) /\ Len(Tail(old)) = Len(old) - 1
        /\ \A i \in 1..Len(Tail(old)) : Tail(old)[i] = old[i + 1]
        /\ Head(old) = old[1]
    BY <2>1, HeadTailProperties
  <2> QED BY <2>1, <2>2, <2>3
<1>2. \A i \in 1..Len(new) : i + 1 \in 1..Len(old) /\ 1 < i + 1
  BY <1>1
<1>3. \A i \in 1..Len(old) : i = 1 \/ i - 1 \in 1..Len(new)
  BY <1>1
<1>4. \A i \in 1..Len(old) :
        IF old[i].kind = "submit" THEN old[i].text \in 1..n
        ELSE old[i].text = 0
  BY DEF InOrder
<1>5. \A i, j \in 1..Len(old) :
        i < j /\ old[i].kind = "submit" /\ old[j].kind = "submit"
          => old[i].text < old[j].text
  BY DEF InOrder
<1>6. InOrder(new, n)
  <2>1. \A i \in 1..Len(new) :
          IF new[i].kind = "submit" THEN new[i].text \in 1..n
          ELSE new[i].text = 0
    BY <1>1, <1>2, <1>4
  <2>2. \A i, j \in 1..Len(new) :
          i < j /\ new[i].kind = "submit" /\ new[j].kind = "submit"
            => new[i].text < new[j].text
    <3> TAKE i, j \in 1..Len(new)
    <3>1. /\ new[i] = old[i + 1] /\ new[j] = old[j + 1]
          /\ i + 1 \in 1..Len(old) /\ j + 1 \in 1..Len(old)
          /\ i < j => i + 1 < j + 1
      BY <1>1, <1>2
    <3> QED BY <1>5, <3>1
  <2> QED BY <2>1, <2>2 DEF InOrder
<1>7. /\ \A x \in QueuedIn(new) :
           \E i \in 1..Len(new) : new[i].kind = "submit" /\ new[i].text = x
      /\ \A i \in 1..Len(new) :
           new[i].kind = "submit" => new[i].text \in QueuedIn(new)
  BY <1>1, <1>6, ChannelIs
<1>8. /\ \A x \in QueuedIn(old) : /\ x \in 1..n
                                  /\ \E i \in 1..Len(old) :
                                       /\ old[i].kind = "submit"
                                       /\ old[i].text = x
      /\ \A i \in 1..Len(old) :
           old[i].kind = "submit" => old[i].text \in QueuedIn(old)
  BY ChannelIs
<1>a. 1 \in 1..Len(old)
  BY <1>1
<1>9. ASSUME NEW y \in QueuedIn(new)
      PROVE  y \in QueuedIn(old) /\ (h.kind = "submit" => h.text < y)
  <2> PICK i \in 1..Len(new) : new[i].kind = "submit" /\ new[i].text = y
    BY <1>7
  <2> PICK k \in 1..Len(old) : k = i + 1 /\ 1 < k /\ new[i] = old[k]
    BY <1>1, <1>2
  <2>1. y \in QueuedIn(old)
    BY <1>8
  <2> QED BY <1>1, <1>5, <1>a, <2>1
<1>10. ASSUME NEW y \in QueuedIn(old)
       PROVE  y \in QueuedIn(new) \/ (h.kind = "submit" /\ y = h.text)
  <2> PICK i \in 1..Len(old) : old[i].kind = "submit" /\ old[i].text = y
    BY <1>8
  <2>1. CASE i = 1
    BY <1>1, <2>1
  <2>2. CASE i - 1 \in 1..Len(new)
    <3> PICK k \in 1..Len(new) : k = i - 1
      BY <2>2
    <3>1. k + 1 = i
      OBVIOUS
    <3>2. new[k] = old[i]
      BY <1>1, <3>1
    <3> QED BY <1>7, <3>2
  <2> QED BY <1>3, <2>1, <2>2
<1>11. CASE h.kind # "submit"
  <2>1. QueuedIn(new) = QueuedIn(old)
    BY <1>9, <1>10, <1>11
  <2> QED BY <1>1, <1>6, <1>11, <2>1
<1>12. CASE h.kind = "submit"
  <2>1. h.text \in QueuedIn(old) /\ h.text \in 1..n
    BY <1>1, <1>4, <1>8, <1>12, <1>a
  <2>2. \A y \in QueuedIn(new) : h.text < y
    BY <1>9, <1>12
  <2>3. h.text \notin QueuedIn(new)
    BY <2>1, <2>2
  <2>4. QueuedIn(old) = QueuedIn(new) \cup {h.text}
    BY <1>9, <1>10, <1>12, <2>1
  <2>5. 1..n \ QueuedIn(new) = (1..n \ QueuedIn(old)) \cup {h.text}
    BY <2>1, <2>3, <2>4
  <2> QED BY <1>1, <1>6, <1>9, <1>12, <2>1, <2>2, <2>5
<1> QED BY <1>11, <1>12

-----------------------------------------------------------------------------
(* Every step keeps every text in its place.                               *)

\* What waits behind the steering queue: the text `run` is serving.
Behind == IF held = 0 \/ rt = "announceSteer" THEN <<>> ELSE <<held>>

\* Where the texts are, in a state the invariant holds of.
LEMMA PlacesAre ==
  ASSUME TypeInv, Ownership, InFlight, ChannelInv
  PROVE  /\ Waiting = steering \o Behind
         /\ steering \in Seq(Nat) /\ Behind \in Seq(Nat) /\ held \in Nat
         /\ Transcript \in Seq(Message) /\ session \in Seq(Message)
         /\ Uncommitted \in Seq(Message) /\ produced \in Seq(Message)
         /\ commands \in Seq(Command) /\ submitted \in Nat
         /\ Accepted = 1..submitted \ QueuedIn(commands)
         /\ \A y \in QueuedIn(commands) : y \in 1..submitted
<1>1. /\ steering \in Seq(Nat) /\ held \in Nat
      /\ commands \in Seq(Command) /\ submitted \in Nat
  BY DEF TypeInv, TypeOK
<1>2. Behind \in Seq(Nat)
  BY <1>1, NoText, OneText DEF Behind
<1>3. /\ session \in Seq(Message) /\ Uncommitted \in Seq(Message)
      /\ produced \in Seq(Message)
  BY UncommittedNow
<1>4. Transcript \in Seq(Message)
  BY <1>3, ConcatProperties DEF Transcript
<1>5. InOrder(commands, submitted)
  BY DEF ChannelInv
<1>6. /\ Accepted = 1..submitted \ QueuedIn(commands)
      /\ \A y \in QueuedIn(commands) : y \in 1..submitted
  BY <1>1, <1>5, ChannelIs DEF Accepted
<1> QED BY <1>1, <1>2, <1>3, <1>4, <1>6 DEF Waiting, Behind

\* A step that moves no text and takes none from the channel.
LEMMA PlacedStays ==
  ASSUME ChannelInv, PlacedInv, UNCHANGED <<commands, submitted, discarded>>,
         rt' # "stopped" =>
           /\ rt # "stopped"
           /\ Transcript' = Transcript /\ Waiting' = Waiting
  PROVE  ChannelInv' /\ PlacedInv'
<1>1. ChannelInv' /\ Accepted' = Accepted
  BY DEF ChannelInv, Accepted
<1> QED BY <1>1 DEF PlacedInv

\* The handle's sends add to the channel only.
LEMMA PlacedByHandle ==
  ASSUME TypeInv, Ownership, InFlight, ChannelInv, HeldInv, PlacedInv,
         HandleStep
  PROVE  ChannelInv' /\ HeldInv' /\ PlacedInv'
<1>1. /\ UNCHANGED <<rt, held, steering, session, produced, done, discarded>>
  BY DEF HandleStep, Submit, SendExtra, DropSender, DropReceiver, loopVars
<1>2. HeldInv' /\ Transcript' = Transcript /\ Waiting' = Waiting
  BY <1>1 DEF HeldInv, Transcript, Uncommitted, Waiting
<1>3. ASSUME NEW e \in Command, commands' = Append(commands, e),
             rt # "stopped", NEW k \in Nat, submitted' = k,
             Sends(e, submitted, k)
      PROVE  ChannelInv' /\ PlacedInv'
  <2>n. PICK n \in Nat : n = submitted
    BY PlacesAre
  <2>o. PICK old \in Seq(Command) : old = commands
    BY PlacesAre
  <2>w. PICK new : new = Append(old, e)
    OBVIOUS
  <2>1. InOrder(old, n) /\ Sends(e, n, k)
    BY <1>3, <2>n, <2>o DEF ChannelInv
  <2>2. /\ InOrder(new, k) /\ new \in Seq(Command)
        /\ 1..k \ QueuedIn(new) = 1..n \ QueuedIn(old)
        /\ \A y \in QueuedIn(new) : y \in QueuedIn(old) \/ y = n + 1
    <3>1. e \in Command /\ k \in Nat
      BY <1>3
    <3> QED BY ONLY <2>n, <2>o, <2>w, <2>1, <3>1, ChannelSent
  <2>a. 1..k \ {new[i].text : i \in DOMAIN new} = 1..k \ QueuedIn(new)
    BY ONLY <1>3, <2>2, ChannelIs
  <2>3. Accepted' = 1..k \ QueuedIn(new)
    BY <1>3, <2>o, <2>w, <2>a DEF Accepted
  <2>4. Accepted' = Accepted /\ \A x \in Accepted : x < n + 1
    BY <2>n, <2>o, <2>2, <2>3, PlacesAre
  <2>5. Placed(Transcript, Waiting, QueuedIn(old), Accepted, discarded)
    BY <1>3, <2>o DEF PlacedInv
  <2>6. Placed(Transcript, Waiting, QueuedIn(new), Accepted, discarded)
    BY <2>2, <2>4, <2>5, PlacedChannel
  <2> QED BY <1>1, <1>2, <1>3, <2>o, <2>w, <2>2, <2>4, <2>6
          DEF ChannelInv, PlacedInv
<1>4. CASE Submit
  <2>1. [kind |-> "submit", text |-> submitted + 1] \in Command
    BY PlacesAre DEF Command
  <2>2. submitted + 1 \in Nat
    BY PlacesAre
  <2> QED BY <1>2, <1>3, <1>4, <2>1, <2>2 DEF Submit, TrySend, Sends
<1>5. CASE \E kind \in AllExtras : SendExtra(kind)
  <2> PICK kind \in AllExtras : SendExtra(kind)
    BY <1>5
  <2>1. [kind |-> kind, text |-> 0] \in Command /\ kind # "submit"
    BY DEF Command, AllExtras
  <2> QED BY <1>2, <1>3, <2>1, PlacesAre DEF SendExtra, TrySend, Sends
<1>6. CASE DropSender \/ DropReceiver
  BY <1>1, <1>2, <1>6, PlacedStays DEF DropSender, DropReceiver, handleVars
<1> QED BY <1>2, <1>4, <1>5, <1>6 DEF HandleStep

\* The steps of `run` that take a command from the channel.
LEMMA PlacedByRecv ==
  ASSUME TypeInv, Ownership, InFlight, ChannelInv, HeldInv, PlacedInv,
         NEW kind, Recv(kind), UNCHANGED <<submitted, steering, discarded>>,
         UNCHANGED <<session, produced, done>>,
         IF kind = "submit"
         THEN /\ held' = Head(commands).text
              /\ rt' \in {"pushSteer", "begin", "settle"}
         ELSE rt' \in {"select", "forward"} /\ UNCHANGED held
  PROVE  ChannelInv' /\ HeldInv' /\ PlacedInv'
<1>n. PICK n \in Nat : n = submitted
  BY PlacesAre
<1>o. PICK old \in Seq(Command) : old = commands
  BY PlacesAre
<1>w. PICK new, h : new = Tail(old) /\ h = Head(old)
  OBVIOUS
<1>1. /\ InOrder(old, n) /\ old # <<>> /\ h.kind = kind
      /\ commands' = new /\ rt = "select" /\ held = 0
  BY <1>n, <1>o, <1>w DEF ChannelInv, Recv, HeldInv
<1>2. /\ new \in Seq(Command) /\ InOrder(new, n)
      /\ QueuedIn(new) \subseteq QueuedIn(old)
      /\ h.kind # "submit" => QueuedIn(new) = QueuedIn(old)
      /\ h.kind = "submit" =>
           /\ h.text \in QueuedIn(old) /\ h.text \in 1..n
           /\ \A y \in QueuedIn(new) : h.text < y
           /\ 1..n \ QueuedIn(new) = (1..n \ QueuedIn(old)) \cup {h.text}
  BY ONLY <1>n, <1>o, <1>w, <1>1, ChannelTaken
<1>3. ChannelInv' /\ Accepted' = 1..n \ QueuedIn(new)
  <2>1. 1..n \ {new[i].text : i \in DOMAIN new} = 1..n \ QueuedIn(new)
    BY ONLY <1>n, <1>2, ChannelIs
  <2> QED BY <1>n, <1>1, <1>2, <2>1 DEF ChannelInv, Accepted
<1>4. /\ Accepted = 1..n \ QueuedIn(old)
      /\ Waiting = steering \o Behind /\ steering \in Seq(Nat)
  BY <1>n, <1>o, PlacesAre
<1>5. Placed(Transcript, Waiting, QueuedIn(old), Accepted, discarded)
  BY <1>o, <1>1 DEF PlacedInv
<1>6. Transcript' = Transcript /\ Waiting = steering
  <2>1. Behind = <<>>
    BY <1>1 DEF Behind
  <2> QED BY <1>4, <2>1, ConcatEmptySeq DEF Transcript, Uncommitted
<1>7. CASE kind = "submit"
  <2>1. h.text \in Nat \ {0} /\ held' = h.text
    BY <1>n, <1>o, <1>w, <1>1, <1>2, <1>7
  <2>2. HeldInv'
    BY <1>7, <2>1 DEF HeldInv
  <2> PICK x \in Nat : x = h.text
    BY <2>1
  <2>3. Waiting' = steering \o <<x>>
    BY <1>7, <2>1 DEF Waiting
  <2> PICK m, w, q, acc, d, rest :
         /\ m = Transcript /\ w = steering /\ q = QueuedIn(old)
         /\ acc = Accepted /\ d = discarded /\ rest = QueuedIn(new)
    OBVIOUS
  <2>6. /\ w \in Seq(Nat) /\ x \in q /\ rest \subseteq q
        /\ \A y \in rest : x < y
        /\ Placed(m, w, q, acc, d)
    BY <1>1, <1>2, <1>4, <1>5, <1>6, <1>7
  <2>4. Placed(m, w \o <<x>>, rest, acc \cup {x}, d)
    BY <2>6, PlacedTaken
  <2>5. Accepted' = Accepted \cup {x}
    BY <1>1, <1>2, <1>3, <1>4, <1>7
  <2> QED BY <1>1, <1>3, <1>6, <2>2, <2>3, <2>4, <2>5 DEF PlacedInv
<1>8. CASE kind # "submit"
  <2>1. HeldInv' /\ Waiting' = steering \o <<>>
    BY <1>1, <1>8 DEF HeldInv, Waiting
  <2>2. Waiting' = Waiting
    BY <1>4, <1>6, <2>1, ConcatEmptySeq
  <2>3. QueuedIn(new) = QueuedIn(old) /\ Accepted' = Accepted
    BY <1>1, <1>2, <1>3, <1>4, <1>8
  <2> QED BY <1>1, <1>3, <1>5, <1>6, <2>1, <2>2, <2>3 DEF PlacedInv
<1> QED BY <1>7, <1>8

\* A turn's report moves its messages to the session.
LEMMA PlacedByReport ==
  ASSUME TypeInv, Ownership, InFlight, ChannelInv, HeldInv, PlacedInv,
         InFlight', RecvReport \/ SettleReport
  PROVE  ChannelInv' /\ HeldInv' /\ PlacedInv'
<1>1. /\ rt # "stopped" /\ loop \in {"ending", "gone"} /\ done # <<>>
      /\ done[1] \in Report /\ Head(done) = done[1] /\ done' = <<>>
      /\ UNCHANGED <<loop, produced, steering, discarded, commands, submitted,
                    held>>
  BY ReportTaken
<1>2. \/ rt = "select" /\ rt' = "select"
      \/ rt = "settle" /\ rt' = "begin"
  BY DEF RecvReport, SettleReport
<1>3. Uncommitted = done[1].messages /\ session \in Seq(Message)
  BY <1>1, UncommittedNow
<1>4. produced' = <<>>
  BY <1>1, <1>2 DEF InFlight
<1>5. Uncommitted' = <<>>
  BY <1>1, <1>4, NoText, ConcatEmptySeq DEF Uncommitted
<1>6. session' = session \o done[1].messages
  <2>1. CASE done[1].kind = "failed"
    <3>1. done[1].messages = <<>> /\ session' = session
      BY <1>1, <2>1
         DEF InFlight, RecvReport, SettleReport, ApplyOutcome
    <3> QED BY <1>3, <3>1, ConcatEmptySeq
  <2>2. CASE done[1].kind # "failed"
    BY <1>1, <2>2 DEF RecvReport, SettleReport, ApplyOutcome
  <2> QED BY <2>1, <2>2
<1>7. Transcript' = Transcript
  <2> PICK t \in Seq(Message) : t = session \o done[1].messages
    BY <1>3, PlacesAre DEF Transcript
  <2>1. t \o <<>> = t
    BY ConcatEmptySeq
  <2> QED BY <1>3, <1>5, <1>6, <2>1 DEF Transcript
<1>8. Waiting' = Waiting /\ HeldInv'
  BY <1>1, <1>2 DEF Waiting, HeldInv
<1> QED BY <1>1, <1>7, <1>8, PlacedStays

\* A turn opens with the steers left over and the text `run` holds.
LEMMA PlacedByBegin ==
  ASSUME TypeInv, Ownership, InFlight, ChannelInv, HeldInv, PlacedInv,
         BeginTurn
  PROVE  ChannelInv' /\ HeldInv' /\ PlacedInv'
<1>1. /\ done = <<>> /\ loop \in {"ending", "gone"} /\ rt = "begin"
      /\ held # 0 /\ held \in Nat
  BY NothingLeft, PlacesAre DEF BeginTurn, HeldInv
<1>2. /\ steering \in Seq(Nat) /\ session \in Seq(Message)
      /\ nextMessageId \in Nat \ {0}
  BY LoopTypes
<1> PICK texts, us, s : /\ texts = Append(steering, held)
                       /\ us = UserMessages(texts, nextMessageId)
                       /\ s = session
  OBVIOUS
<1>3. texts \in Seq(Nat) /\ us \in Seq(Message)
  BY <1>1, <1>2, AppendProperties, TextsOfUsers
<1>4. Transcript = s
  <2>1. Uncommitted = <<>>
    BY <1>1, UncommittedNow DEF InFlight
  <2> QED BY <1>2, <2>1, ConcatEmptySeq DEF Transcript
<1>5. Waiting = texts \o <<>>
  <2>1. Waiting = steering \o <<held>>
    BY <1>1 DEF Waiting
  <2>2. steering \o <<held>> = texts
    BY <1>1, <1>2, AppendIsConcat
  <2> QED BY <1>3, <2>1, <2>2, ConcatEmptySeq
<1>6. /\ session' = s \o us /\ done' = <<>> /\ produced' = <<>>
      /\ steering' = <<>> /\ held' = 0 /\ rt' = "select"
      /\ UNCHANGED <<commands, submitted, discarded>>
  BY <1>1 DEF BeginTurn, handleVars
<1>7. Transcript' = s \o us /\ Waiting' = <<>>
  <2>1. <<>> \o <<>> = <<>>
    BY NoText, ConcatEmptySeq
  <2>2. Uncommitted' = <<>> /\ Waiting' = <<>>
    BY <1>6, <2>1 DEF Uncommitted, Waiting
  <2>3. (s \o us) \o <<>> = s \o us
    BY <1>2, <1>3, ConcatProperties, ConcatEmptySeq
  <2> QED BY <1>6, <2>2, <2>3 DEF Transcript
<1>8. Placed(s, texts \o <<>>, QueuedIn(commands), Accepted, discarded)
  BY <1>1, <1>4, <1>5 DEF PlacedInv
<1>9. Placed(s \o us, <<>>, QueuedIn(commands), Accepted, discarded)
  BY <1>2, <1>3, <1>8, NoText, PlacedDelivered
<1>10. HeldInv' /\ ChannelInv' /\ Accepted' = Accepted
  BY <1>6 DEF HeldInv, ChannelInv, Accepted
<1> QED BY <1>6, <1>7, <1>9, <1>10 DEF PlacedInv

\* A step of the loop delivers the whole queue, adds a reply or a result, or
\* drops what it produced.
LEMMA PlacedByLoop ==
  ASSUME TypeInv, Ownership, InFlight, ChannelInv, HeldInv, PlacedInv,
         loop \in InLoop,
         LoopStep \/ StreamStarts \/ StreamFails \/ InterruptStep \/ ReplyStep,
         ~TaskEnds
  PROVE  ChannelInv' /\ HeldInv' /\ PlacedInv'
<1>1. UNCHANGED <<rt, session, done, commands, submitted, held>>
  BY TaskSteps, LoopEffect DEF LoopVarsKept
<1>2. ChannelInv' /\ HeldInv' /\ Accepted' = Accepted /\ Behind' = Behind
  BY <1>1 DEF ChannelInv, HeldInv, Accepted, Behind
<1> SUFFICES ASSUME rt # "stopped"
             PROVE  Placed(Transcript', Waiting', QueuedIn(commands), Accepted,
                           discarded')
  BY <1>1, <1>2 DEF PlacedInv
<1>3. /\ done = <<>> /\ Uncommitted = produced
      /\ session \in Seq(Message) /\ produced \in Seq(Message)
  BY UncommittedNow
<1>4. TypeInv'
  BY LoopType, StreamType
<1>5. produced' \in Seq(Message)
  BY <1>4 DEF TypeInv, TypeOK
<1> PICK s, p, r, w, b : /\ s = session /\ p = produced /\ r = produced'
                         /\ w = steering /\ b = Behind
  OBVIOUS
<1>6. Uncommitted' = r
  BY <1>1, <1>3, <1>5, ConcatEmptySeq DEF Uncommitted
<1>7. /\ s \in Seq(Message) /\ p \in Seq(Message) /\ r \in Seq(Message)
      /\ w \in Seq(Nat) /\ b \in Seq(Nat)
  BY <1>3, <1>5, PlacesAre
<1> PICK q, acc, d : /\ q = QueuedIn(commands) /\ acc = Accepted
                     /\ d = discarded
  OBVIOUS
<1>8. Placed(s \o p, w \o b, q, acc, d)
  BY <1>3, PlacesAre DEF PlacedInv, Transcript
<1>9. Transcript' = s \o r /\ Waiting' = steering' \o b
  BY <1>1, <1>2, <1>6 DEF Transcript, Waiting, Behind
<1>10. <<>> \o b = b
  BY <1>7, ConcatEmptySeq
<1>11. CASE Delivers
  <2> PICK first \in Nat \ {0} : first = loopNextId
    BY LoopTypes
  <2> PICK us : us = UserMessages(w, first)
    OBVIOUS
  <2>1. us \in Seq(Message)
    BY <1>7, TextsOfUsers
  <2>2. r = p \o us /\ steering' = <<>> /\ discarded' = d
    BY <1>11 DEF Delivers
  <2>3. s \o p \in Seq(Message)
    BY <1>7, ConcatProperties
  <2>4. Placed((s \o p) \o us, b, q, acc, d)
    BY <1>7, <1>8, <2>3, PlacedDelivered
  <2>5. (s \o p) \o us = s \o r
    <3>1. (s \o p) \o us = s \o (p \o us)
      BY ONLY <1>7, <2>1, ExtendBoth
    <3> QED BY <2>2, <3>1
  <2> QED BY <1>9, <1>10, <2>2, <2>4, <2>5
<1>12. CASE \E e : Produces(e)
  <2> PICK e : Produces(e)
    BY <1>12
  <2>1. /\ e \in Message /\ e.role # "user" /\ r = Append(p, e)
        /\ steering' = w /\ discarded' = d
    BY DEF Produces
  <2>2. s \o p \in Seq(Message)
    BY <1>7, ConcatProperties
  <2> PICK sp, wb : sp = s \o p /\ wb = w \o b
    OBVIOUS
  <2>3. Placed(Append(sp, e), wb, q, acc, d)
    <3>1. sp \in Seq(Message) /\ Placed(sp, wb, q, acc, d)
      BY <1>8, <2>2
    <3> QED BY <2>1, <3>1, PlacedReply
  <2>4. s \o Append(p, e) = Append(s \o p, e)
    BY <1>7, <2>1, TranscriptGrows
  <2> QED BY <1>9, <2>1, <2>3, <2>4
<1>13. CASE Fails(<<>>)
  <2>1. /\ r = <<>> /\ steering' = w
        /\ discarded' = d \cup TextsOf(p) \cup Elements(<<>>)
    BY <1>13 DEF Fails, Elements
  <2>2. w \o b \in Seq(Nat)
    BY <1>7, ConcatProperties
  <2>3. <<>> \o (w \o b) = w \o b
    BY <2>2, ConcatEmptySeq
  <2> PICK wb \in Seq(Nat) : wb = w \o b
    BY <2>2
  <2>4. Placed(s, wb, q, acc, d \cup TextsOf(p) \cup Elements(<<>>))
    BY <1>7, <1>8, <2>3, NoText, PlacedFailed
  <2>5. s \o r = s
    BY <1>7, <2>1, ConcatEmptySeq
  <2> QED BY <1>9, <2>1, <2>4, <2>5
<1>14. CASE Fails(steering)
  <2>1. /\ r = <<>> /\ steering' = <<>>
        /\ discarded' = d \cup TextsOf(p) \cup Elements(w)
    BY <1>14 DEF Fails, Elements
  <2>2. Placed(s, b, q, acc, d \cup TextsOf(p) \cup Elements(w))
    BY <1>7, <1>8, PlacedFailed
  <2>3. s \o r = s
    BY <1>7, <2>1, ConcatEmptySeq
  <2> QED BY <1>9, <1>10, <2>1, <2>2, <2>3
<1>15. CASE Moves
  BY <1>8, <1>9, <1>15 DEF Moves
<1> QED BY <1>11, <1>12, <1>13, <1>14, <1>15, LoopEffect

\* Every step keeps every text in its place.
LEMMA SubmissionsStep == SubmissionsInv /\ [Next]_vars => SubmissionsInv'
<1> SUFFICES ASSUME SubmissionsInv, [Next]_vars PROVE SubmissionsInv'
  OBVIOUS
<1>1. /\ TypeInv /\ Ownership /\ InFlight
      /\ ChannelInv /\ HeldInv /\ PlacedInv
  BY DEF SubmissionsInv
<1>2. TypeInv' /\ Ownership' /\ InFlight'
  BY <1>1, StepOwnership, InFlightStep
<1> SUFFICES ChannelInv' /\ HeldInv' /\ PlacedInv'
  BY <1>2 DEF SubmissionsInv
<1>3. CASE HandleStep
  BY <1>1, <1>3, PlacedByHandle
<1>4. CASE RecvReport \/ SettleReport
  BY <1>1, <1>2, <1>4, PlacedByReport
<1>5. CASE BeginTurn
  BY <1>1, <1>5, PlacedByBegin
<1>6. CASE RecvShutdown \/ RecvClosed
  <2>1. /\ rt' = "stopped" /\ UNCHANGED submitted
        /\ commands' = commands \/ Recv("shutdown")
    BY <1>6, Stops DEF RecvShutdown, RecvClosed
  <2>2. HeldInv' /\ PlacedInv'
    BY <2>1 DEF HeldInv, PlacedInv
  <2>3. CASE UNCHANGED commands
    BY <1>1, <2>1, <2>2, <2>3 DEF ChannelInv
  <2>4. CASE Recv("shutdown")
    <3>o. PICK old \in Seq(Command), n \in Nat,
               new \in {Tail(commands)}, h \in {Head(commands)} :
             /\ old = commands /\ n = submitted
             /\ new = Tail(old) /\ h = Head(old)
      BY <1>1, PlacesAre
    <3>1. InOrder(old, n) /\ old # <<>> /\ commands' = new
      BY <1>1, <2>4, <3>o DEF ChannelInv, Recv
    <3>2. InOrder(new, n)
      BY ONLY <3>o, <3>1, ChannelTaken
    <3> QED BY <2>1, <2>2, <3>o, <3>1, <3>2 DEF ChannelInv
  <2> QED BY <2>1, <2>3, <2>4
<1>7. CASE RecvSubmit
  <2>1. /\ Recv("submit")
        /\ UNCHANGED <<submitted, steering, discarded, session, produced, done>>
        /\ held' = Head(commands).text
        /\ rt' \in {"pushSteer", "begin", "settle"}
    BY <1>7 DEF RecvSubmit, handleVars, loopVars
  <2> QED BY <1>1, <2>1, PlacedByRecv
<1>8. CASE RecvCancel \/ RecvCycle \/ RecvApproval
  <2>1. /\ Recv("cancel") \/ Recv("cycle") \/ Recv("approve")
        /\ UNCHANGED <<submitted, steering, discarded, session, produced, done>>
        /\ UNCHANGED held /\ rt' \in {"select", "forward"}
    BY <1>8 DEF RecvCancel, RecvCycle, RecvApproval, Recv, handleVars, loopVars,
                idVars
  <2> PICK kind \in {"cancel", "cycle", "approve"} : Recv(kind)
    BY <2>1
  <2> QED BY <1>1, <2>1, PlacedByRecv
<1>9. CASE PushSteer
  <2>1. /\ rt = "pushSteer" /\ rt' = "announceSteer"
        /\ steering' = Append(steering, held)
        /\ UNCHANGED <<commands, submitted, discarded, held>>
        /\ UNCHANGED <<session, produced, done>>
    BY <1>9 DEF PushSteer, handleVars, loopVars
  <2>2. held # 0 /\ HeldInv'
    BY <1>1, <2>1 DEF HeldInv
  <2>3. steering \in Seq(Nat) /\ held \in Nat
    BY <1>1, PlacesAre
  <2>4. Append(steering, held) = steering \o <<held>>
          /\ Append(steering, held) \in Seq(Nat)
    BY <2>3, AppendIsConcat, AppendProperties
  <2>5. /\ Waiting = steering \o <<held>>
        /\ Waiting' = Append(steering, held) \o <<>>
    BY <2>1, <2>2 DEF Waiting
  <2>6. Waiting' = Waiting
    BY <2>4, <2>5, ConcatEmptySeq
  <2>7. Transcript' = Transcript
    BY <2>1 DEF Transcript, Uncommitted
  <2> QED BY <1>1, <2>1, <2>2, <2>6, <2>7, PlacedStays
<1>10. CASE AnnounceSteer \/ ForwardControl
  <2>1. /\ UNCHANGED <<commands, submitted, discarded, steering>>
        /\ UNCHANGED <<session, produced, done>>
        /\ rt' = "select"
        /\ \/ rt = "announceSteer" /\ held' = 0
           \/ rt = "forward" /\ held' = held
    BY <1>10 DEF AnnounceSteer, ForwardControl, handleVars, loopVars, idVars
  <2>2. HeldInv' /\ Waiting' = Waiting /\ Transcript' = Transcript
    BY <1>1, <2>1 DEF HeldInv, Waiting, Transcript, Uncommitted
  <2> QED BY <1>1, <2>1, <2>2, PlacedStays
<1>11. CASE ReportOutcome
  <2>1. /\ loop = "report" /\ produced' = <<>>
        /\ UNCHANGED <<rt, session, commands, submitted, held, steering,
                      discarded>>
    BY <1>11, TaskSteps DEF ReportOutcome, LoopStep, LoopVarsKept
  <2>2. HeldInv' /\ Waiting' = Waiting
    BY <1>1, <2>1 DEF HeldInv, Waiting
  <2>3. ASSUME rt # "stopped" PROVE Transcript' = Transcript
    <3>1. done = <<>> /\ done' # <<>> /\ done'[1].messages = produced
      BY <1>1, <1>11, <2>3, ReportSent
    <3>2. Uncommitted = produced /\ produced \in Seq(Message)
      BY <1>1, <3>1, UncommittedNow
    <3>3. Uncommitted' = produced
      BY <2>1, <3>1, <3>2, ConcatEmptySeq DEF Uncommitted
    <3> QED BY <2>1, <3>2, <3>3 DEF Transcript
  <2> QED BY <1>1, <2>1, <2>2, <2>3, PlacedStays
<1>12. CASE TaskEnds
  <2>1. UNCHANGED <<rt, session, commands, submitted, held, steering,
                    discarded, produced, done>>
    BY <1>12, TaskSteps DEF TaskEnds, LoopStep, LoopVarsKept
  <2>2. HeldInv' /\ Waiting' = Waiting /\ Transcript' = Transcript
    BY <1>1, <2>1 DEF HeldInv, Waiting, Transcript, Uncommitted
  <2> QED BY <1>1, <2>1, <2>2, PlacedStays
<1>13. CASE /\ LoopStep \/ StreamStarts \/ StreamFails
                 \/ InterruptStep \/ ReplyStep
            /\ ~ReportOutcome /\ ~TaskEnds
  <2>1. loop \in InLoop
    BY <1>13 DEF LoopStep, LoopCancelled, BeginIteration, ExecuteTool,
                 DrainBeforeFinish, AnnounceFinish, StreamStarts, StreamFails,
                 InterruptStep, Interrupt, ReplyStep, ReplyDone, InLoop
  <2> QED BY <1>1, <1>13, <2>1, PlacedByLoop
<1>14. CASE UNCHANGED vars
  <2>1. /\ UNCHANGED <<rt, session, commands, submitted, held, steering>>
        /\ UNCHANGED <<discarded, produced, done>>
    BY <1>14 DEF vars, loopVars, handleVars
  <2>2. HeldInv' /\ Waiting' = Waiting /\ Transcript' = Transcript
    BY <1>1, <2>1 DEF HeldInv, Waiting, Transcript, Uncommitted
  <2> QED BY <1>1, <2>1, <2>2, PlacedStays
<1> QED BY <1>3, <1>4, <1>5, <1>6, <1>7, <1>8, <1>9, <1>10, <1>11, <1>12,
           <1>13, <1>14 DEF Next, RuntimeStep

\* `run` starts with no text anywhere.
LEMMA InitSubmissions == Init => SubmissionsInv
<1> SUFFICES ASSUME Init PROVE SubmissionsInv
  OBVIOUS
<1>1. TypeInv /\ Ownership /\ InFlight
  BY InitTranscripts DEF TranscriptInv
<1>2. /\ commands = <<>> /\ submitted = 0 /\ held = 0 /\ rt = "select"
      /\ session = <<>> /\ produced = <<>> /\ done = <<>> /\ steering = <<>>
      /\ discarded = {}
  BY DEF Init
<1>3. Len(<<>>) = 0 /\ <<>> \o <<>> = <<>> /\ DOMAIN <<>> = {}
  BY EmptySeq, ConcatEmptySeq
<1>4. ChannelInv /\ HeldInv
  BY <1>2, <1>3 DEF ChannelInv, InOrder, HeldInv
<1>5. Transcript = <<>> /\ Waiting = <<>> /\ QueuedIn(commands) = {}
  BY <1>2, <1>3 DEF Transcript, Uncommitted, Waiting, QueuedIn
<1>6. TextsOf(<<>>) = {} /\ Elements(<<>>) = {} /\ Accepted = {}
  BY <1>2, <1>3 DEF TextsOf, Elements, Accepted
<1>7. UsersOrdered(<<>>) /\ IsIncreasing(<<>>)
  BY <1>3 DEF UsersOrdered, IsIncreasing
<1>8. PlacedInv
  BY <1>2, <1>5, <1>6, <1>7 DEF PlacedInv, Placed
<1> QED BY <1>1, <1>4, <1>8 DEF SubmissionsInv

\* Submissions reach the session in the order they were sent and none twice,
\* and none disappears except with the messages of a turn that failed, whether
\* `run` gave it a fresh turn or queued it as a steer.
THEOREM SubmissionsAreDelivered == Spec => []SubmissionsDelivered
<1>1. SubmissionsInv => SubmissionsDelivered
  <2> SUFFICES ASSUME PlacedInv PROVE SubmissionsDelivered
    BY DEF SubmissionsInv
  <2> QED BY DEF PlacedInv, Placed, Transcript, Elements, SubmissionsDelivered
<1> QED BY <1>1, InitSubmissions, SubmissionsStep, PTL DEF Spec

-----------------------------------------------------------------------------
(* What the consumer has seen of runs and turns: the inductive invariant.  *)

WellBracketed(s) == Alternates(s) /\ TurnsCountUp(s) /\ MessagesInTurns(s)

\* This turn's TurnStarted, or an event that ends it, has been announced.
Started(s, t) ==
  \E i \in 1..Len(s) : s[i].kind = "TurnStarted" /\ s[i].turn = t
Ended(s, t) ==
  \E i \in 1..Len(s) : s[i].kind \in Terminals /\ s[i].turn = t

\* Exactly the turns before the nth have been announced.
UpTo(s, n) ==
  /\ \A t \in 1..(n - 1) : Started(s, t)
  /\ \A i \in 1..Len(s) :
       /\ s[i].kind = "TurnStarted" => s[i].turn \in 1..(n - 1)
       /\ s[i].kind \in Terminals => s[i].turn \in 1..(n - 1)

\* The bracket event at the place i is the last one.
LastAt(s, i) == s[i].kind \in Brackets /\ NoneBetween(s, i, Len(s) + 1)

\* The last run announced is over, or there was none.
Idle(s) ==
  \/ NoneBetween(s, 0, Len(s) + 1)
  \/ \E i \in 1..Len(s) : LastAt(s, i) /\ s[i].kind = "AgentFinished"

\* The turn t has been announced and its end has not.
InTurn(s, t) ==
  /\ \E i \in 1..Len(s) :
       LastAt(s, i) /\ s[i].kind = "TurnStarted" /\ s[i].turn = t
  /\ ~Ended(s, t)

\* A turn is running whose end has not been announced: neither by its loop,
\* which announces the end of a completed one, nor by `run`, which announces
\* the others when it takes their report.
Turning ==
  \/ loop \in InLoop
  \/ loop = "report" /\ verdict # "completed"
  \/ done # <<>> /\ done[1].kind # "completed"

EventsInv ==
  rt # "stopped" =>
    /\ WellBracketed(log)
    /\ active < nextTurn /\ settling < nextTurn
    /\ listening =>
         /\ UpTo(log, nextTurn)
         /\ IF Turning THEN InTurn(log, OwnedTurn) ELSE Idle(log)

BracketsInv == TypeInv /\ Ownership /\ InFlight /\ EventsInv

-----------------------------------------------------------------------------
(* Longer sequences of events.                                             *)

Prefix(s, new) ==
  /\ s \in Seq(EventRecord) /\ new \in Seq(EventRecord)
  /\ Len(s) \in Nat /\ Len(new) \in Nat /\ Len(s) <= Len(new)
  /\ \A i \in 1..Len(s) : new[i] = s[i]

\* Only events that bracket nothing were added.
AddedPlain(s, new) ==
  \A j \in (Len(s) + 1)..Len(new) : new[j].kind \notin Brackets

\* Events announced after others.
LEMMA PrefixJoined ==
  ASSUME NEW s \in Seq(EventRecord), NEW ev \in Seq(EventRecord),
         NEW new, new = s \o ev
  PROVE  /\ Prefix(s, new)
         /\ \A j \in (Len(s) + 1)..Len(new) :
              j - Len(s) \in 1..Len(ev) /\ new[j] = ev[j - Len(s)]
<1>1. /\ s \o ev \in Seq(EventRecord)
      /\ Len(s) \in Nat /\ Len(ev) \in Nat
      /\ Len(s \o ev) = Len(s) + Len(ev)
      /\ \A i \in 1..Len(s) : (s \o ev)[i] = s[i]
      /\ \A i \in (Len(s) + 1)..(Len(s) + Len(ev)) :
           i - Len(s) \in 1..Len(ev) /\ (s \o ev)[i] = ev[i - Len(s)]
  BY EventsJoined
<1>2. /\ new \in Seq(EventRecord) /\ Len(new) = Len(s) + Len(ev)
      /\ \A i \in 1..Len(s) : new[i] = s[i]
      /\ \A i \in (Len(s) + 1)..(Len(s) + Len(ev)) :
           i - Len(s) \in 1..Len(ev) /\ new[i] = ev[i - Len(s)]
  BY <1>1
<1> QED BY <1>1, <1>2 DEF Prefix

\* One event announced after others.
LEMMA PrefixAppended ==
  ASSUME NEW s \in Seq(EventRecord), NEW e \in EventRecord,
         NEW new, new = Append(s, e)
  PROVE  Prefix(s, new) /\ Len(new) = Len(s) + 1 /\ new[Len(s) + 1] = e
<1>1. /\ Append(s, e) \in Seq(EventRecord)
      /\ Len(Append(s, e)) = Len(s) + 1
      /\ \A i \in 1..Len(s) : Append(s, e)[i] = s[i]
      /\ Append(s, e)[Len(s) + 1] = e
  BY AppendProperties
<1>2. Len(s) \in Nat
  BY LenProperties
<1> QED BY <1>1, <1>2 DEF Prefix

\* What lies between, or before, places of the shorter sequence is as before.
LEMMA PrefixKeeps ==
  ASSUME NEW s, NEW new, Prefix(s, new)
  PROVE  /\ \A i, j \in 0..(Len(s) + 1) :
              NoneBetween(new, i, j) <=> NoneBetween(s, i, j)
         /\ \A i \in 1..Len(s) : \A kinds, turn :
              Before(new, i, kinds, turn) <=> Before(s, i, kinds, turn)
         /\ \A i \in 1..Len(s) : new[i] = s[i] /\ i \in 1..Len(new)
         /\ DOMAIN s = 1..Len(s) /\ DOMAIN new = 1..Len(new)
<1>1. /\ Len(s) \in Nat /\ Len(new) \in Nat /\ Len(s) <= Len(new)
      /\ s \in Seq(EventRecord) /\ new \in Seq(EventRecord)
      /\ \A i \in 1..Len(s) : new[i] = s[i]
  BY DEF Prefix
<1>2. ASSUME NEW i \in 0..(Len(s) + 1), NEW j \in 0..(Len(s) + 1)
      PROVE  NoneBetween(new, i, j) <=> NoneBetween(s, i, j)
  <2>1. \A k \in (i + 1)..(j - 1) : k \in 1..Len(s) /\ new[k] = s[k]
    BY <1>1
  <2> QED BY <2>1 DEF NoneBetween
<1>3. ASSUME NEW i \in 1..Len(s), NEW kinds, NEW turn
      PROVE  Before(new, i, kinds, turn) <=> Before(s, i, kinds, turn)
  <2>1. \A k \in 1..(i - 1) : k \in 1..Len(s) /\ new[k] = s[k]
    BY <1>1
  <2> QED BY <2>1 DEF Before
<1>4. DOMAIN s = 1..Len(s) /\ DOMAIN new = 1..Len(new)
  BY <1>1, LenProperties
<1> QED BY <1>1, <1>2, <1>3, <1>4

\* The brackets still alternate if those that were added follow rightly.
LEMMA AlternatesFurther ==
  ASSUME NEW s, NEW new, Prefix(s, new), Alternates(s),
         \A j \in (Len(s) + 1)..Len(new) :
           new[j].kind \in Brackets =>
             /\ NoneBetween(new, 0, j) => new[j].kind = "AgentStarted"
             /\ \A i \in 1..(j - 1) :
                  new[i].kind \in Brackets /\ NoneBetween(new, i, j)
                    => Follows(new[i], new[j])
  PROVE  Alternates(new)
<1>1. Len(s) \in Nat /\ Len(new) \in Nat /\ Len(s) <= Len(new)
  BY DEF Prefix
<1>2. /\ \A i, j \in 0..(Len(s) + 1) :
           NoneBetween(new, i, j) <=> NoneBetween(s, i, j)
      /\ \A i \in 1..Len(s) : new[i] = s[i]
      /\ DOMAIN s = 1..Len(s) /\ DOMAIN new = 1..Len(new)
  BY PrefixKeeps
<1>3. ASSUME NEW j \in 1..Len(new), new[j].kind \in Brackets
      PROVE  /\ NoneBetween(new, 0, j) => new[j].kind = "AgentStarted"
             /\ \A i \in 1..(j - 1) :
                  new[i].kind \in Brackets /\ NoneBetween(new, i, j)
                    => Follows(new[i], new[j])
  <2>1. CASE j \in 1..Len(s)
    <3>1. new[j] = s[j]
      BY <1>2, <2>1
    <3>2. /\ NoneBetween(s, 0, j) => s[j].kind = "AgentStarted"
          /\ \A i \in 1..(j - 1) :
               s[i].kind \in Brackets /\ NoneBetween(s, i, j)
                 => Follows(s[i], s[j])
      BY <1>2, <1>3, <2>1, <3>1 DEF Alternates
    <3>3. 0 \in 0..(Len(s) + 1) /\ j \in 0..(Len(s) + 1)
      BY <1>1, <2>1
    <3>4. \A i \in 1..(j - 1) : i \in 1..Len(s) /\ i \in 0..(Len(s) + 1)
      BY <1>1, <2>1
    <3>5. \A i \in 1..(j - 1) :
            new[i].kind \in Brackets /\ NoneBetween(new, i, j)
              => Follows(new[i], new[j])
      BY <1>2, <3>1, <3>2, <3>3, <3>4
    <3> QED BY <1>2, <3>1, <3>2, <3>3, <3>5
  <2>2. CASE j \in (Len(s) + 1)..Len(new)
    BY <1>3, <2>2
  <2> QED BY <1>1, <2>1, <2>2
<1> QED BY <1>2, <1>3 DEF Alternates

\* Events that bracket nothing leave the brackets as they were.
LEMMA PlainBrackets ==
  ASSUME NEW s, NEW new, Prefix(s, new), AddedPlain(s, new)
  PROVE  /\ Alternates(s) => Alternates(new)
         /\ \A i \in 1..Len(s) : LastAt(s, i) => LastAt(new, i)
         /\ NoneBetween(s, 0, Len(s) + 1) => NoneBetween(new, 0, Len(new) + 1)
<1>1. Len(s) \in Nat /\ Len(new) \in Nat /\ Len(s) <= Len(new)
  BY DEF Prefix
<1>2. \A i \in 1..Len(s) : new[i] = s[i]
  BY PrefixKeeps
<1>3. \A j \in (Len(s) + 1)..Len(new) : new[j].kind \notin Brackets
  BY DEF AddedPlain
<1>4. Alternates(s) => Alternates(new)
  BY <1>3, AlternatesFurther
<1>5. ASSUME NEW i \in 0..Len(s), NoneBetween(s, i, Len(s) + 1)
      PROVE  NoneBetween(new, i, Len(new) + 1)
  <2> SUFFICES ASSUME NEW k \in (i + 1)..(Len(new) + 1 - 1)
               PROVE  new[k].kind \notin Brackets
    BY DEF NoneBetween
  <2>1. CASE k \in 1..Len(s)
    <3>1. k \in (i + 1)..(Len(s) + 1 - 1)
      BY <1>1, <2>1
    <3> QED BY <1>2, <1>5, <2>1, <3>1 DEF NoneBetween
  <2>2. CASE k \in (Len(s) + 1)..Len(new)
    BY <1>3, <2>2
  <2> QED BY <1>1, <2>1, <2>2
<1>6. \A i \in 1..Len(s) : i \in 0..Len(s)
  OBVIOUS
<1>7. \A i \in 1..Len(s) : LastAt(s, i) => LastAt(new, i)
  BY <1>2, <1>5, <1>6 DEF LastAt
<1>8. 0 \in 0..Len(s)
  BY <1>1
<1> QED BY <1>4, <1>5, <1>7, <1>8

\* Nor do they start or end a turn.
LEMMA PlainTurns ==
  ASSUME NEW s, NEW new, Prefix(s, new), AddedPlain(s, new)
  PROVE  /\ \A t : Started(new, t) <=> Started(s, t)
         /\ \A t : Ended(new, t) <=> Ended(s, t)
         /\ TurnsCountUp(s) => TurnsCountUp(new)
         /\ \A n \in Nat : UpTo(s, n) => UpTo(new, n)
<1>1. Len(s) \in Nat /\ Len(new) \in Nat /\ Len(s) <= Len(new)
  BY DEF Prefix
<1>2. /\ \A i \in 1..Len(s) : new[i] = s[i] /\ i \in 1..Len(new)
      /\ \A i \in 1..Len(s) : \A kinds, turn :
           Before(new, i, kinds, turn) <=> Before(s, i, kinds, turn)
      /\ DOMAIN s = 1..Len(s) /\ DOMAIN new = 1..Len(new)
  BY PrefixKeeps
<1>3. \A j \in 1..Len(new) :
        new[j].kind = "TurnStarted" \/ new[j].kind \in Terminals
          => j \in 1..Len(s)
  <2> SUFFICES ASSUME NEW j \in 1..Len(new), j \notin 1..Len(s)
               PROVE  new[j].kind # "TurnStarted"
                        /\ new[j].kind \notin Terminals
    OBVIOUS
  <2>1. j \in (Len(s) + 1)..Len(new)
    BY <1>1
  <2> QED BY <2>1 DEF AddedPlain, Brackets
<1>4. \A t : Started(new, t) <=> Started(s, t)
  BY <1>2, <1>3 DEF Started
<1>5. \A t : Ended(new, t) <=> Ended(s, t)
  BY <1>2, <1>3 DEF Ended
<1>6. ASSUME TurnsCountUp(s) PROVE TurnsCountUp(new)
  <2> SUFFICES ASSUME NEW i \in 1..Len(new), new[i].kind = "TurnStarted"
               PROVE  /\ new[i].turn # 0
                      /\ \A t \in 1..new[i].turn :
                           Before(new, i, {"TurnStarted"}, t)
                             <=> t < new[i].turn
    BY <1>2 DEF TurnsCountUp
  <2>1. i \in 1..Len(s) /\ new[i] = s[i]
    BY <1>2, <1>3
  <2> QED BY <1>2, <1>6, <2>1 DEF TurnsCountUp
<1>7. ASSUME NEW n \in Nat, UpTo(s, n) PROVE UpTo(new, n)
  <2>1. \A t \in 1..(n - 1) : Started(new, t)
    BY <1>4, <1>7 DEF UpTo
  <2>2. \A i \in 1..Len(new) :
          /\ new[i].kind = "TurnStarted" => new[i].turn \in 1..(n - 1)
          /\ new[i].kind \in Terminals => new[i].turn \in 1..(n - 1)
    BY <1>2, <1>3, <1>7 DEF UpTo
  <2> QED BY <2>1, <2>2 DEF UpTo
<1> QED BY <1>4, <1>5, <1>6, <1>7

\* A message may be added for a turn that has started and not ended.
LEMMA PlainMessages ==
  ASSUME NEW s, NEW new, Prefix(s, new), AddedPlain(s, new),
         MessagesInTurns(s),
         \A j \in (Len(s) + 1)..Len(new) :
           new[j].kind = "UserMessage" =>
             Started(s, new[j].turn) /\ ~Ended(s, new[j].turn)
  PROVE  MessagesInTurns(new)
<1>1. Len(s) \in Nat /\ Len(new) \in Nat /\ Len(s) <= Len(new)
  BY DEF Prefix
<1>2. /\ \A i \in 1..Len(s) : new[i] = s[i]
      /\ \A i \in 1..Len(s) : \A kinds, turn :
           Before(new, i, kinds, turn) <=> Before(s, i, kinds, turn)
      /\ DOMAIN s = 1..Len(s) /\ DOMAIN new = 1..Len(new)
  BY PrefixKeeps
<1> SUFFICES ASSUME NEW i \in 1..Len(new), new[i].kind = "UserMessage"
             PROVE  /\ Before(new, i, {"TurnStarted"}, new[i].turn)
                    /\ ~Before(new, i, Terminals, new[i].turn)
  BY <1>2 DEF MessagesInTurns
<1>3. CASE i \in 1..Len(s)
  BY <1>2, <1>3 DEF MessagesInTurns
<1>4. CASE i \in (Len(s) + 1)..Len(new)
  <2>1. Started(s, new[i].turn) /\ ~Ended(s, new[i].turn)
    BY <1>4
  <2> PICK k \in 1..Len(s) :
        s[k].kind = "TurnStarted" /\ s[k].turn = new[i].turn
    BY <2>1 DEF Started
  <2>2. k \in 1..(i - 1) /\ new[k] = s[k]
    BY <1>1, <1>2, <1>4
  <2>3. Before(new, i, {"TurnStarted"}, new[i].turn)
    BY <2>2 DEF Before
  <2>4. ASSUME NEW j \in 1..(i - 1), new[j].kind \in Terminals,
               new[j].turn = new[i].turn
        PROVE  FALSE
    <3>1. CASE j \in 1..Len(s)
      BY <1>2, <2>1, <2>4, <3>1 DEF Ended
    <3>2. CASE j \notin 1..Len(s)
      <4>1. j \in (Len(s) + 1)..Len(new)
        BY <1>1, <1>4, <3>2
      <4> QED BY <2>4, <4>1 DEF AddedPlain, Brackets
    <3> QED BY <3>1, <3>2
  <2> QED BY <2>3, <2>4 DEF Before
<1> QED BY <1>1, <1>3, <1>4

\* A bracket event that follows the last one rightly.
LEMMA BracketFollows ==
  ASSUME NEW s \in Seq(EventRecord), NEW e \in EventRecord,
         NEW new, new = Append(s, e), e.kind \in Brackets, Alternates(s),
         \/ NoneBetween(s, 0, Len(s) + 1) /\ e.kind = "AgentStarted"
         \/ \E i \in 1..Len(s) : LastAt(s, i) /\ Follows(s[i], e)
  PROVE  Alternates(new) /\ LastAt(new, Len(s) + 1)
<1>1. Prefix(s, new) /\ Len(new) = Len(s) + 1 /\ new[Len(s) + 1] = e
  BY PrefixAppended
<1> PICK n \in Nat : n = Len(s)
  BY <1>1 DEF Prefix
<1>2. /\ \A i, j \in 0..(n + 1) :
           NoneBetween(new, i, j) <=> NoneBetween(s, i, j)
      /\ \A i \in 1..n : new[i] = s[i]
  BY <1>1, PrefixKeeps
<1>3. LastAt(new, n + 1)
  BY <1>1 DEF LastAt, NoneBetween
<1>4. CASE NoneBetween(s, 0, n + 1) /\ e.kind = "AgentStarted"
  <2>1. \A i \in 1..n : new[i].kind \notin Brackets
    BY <1>2, <1>4 DEF NoneBetween
  <2>2. \A j \in (Len(s) + 1)..Len(new) : j = n + 1
    BY <1>1
  <2>3. \A j \in (Len(s) + 1)..Len(new) :
          new[j].kind \in Brackets =>
            /\ NoneBetween(new, 0, j) => new[j].kind = "AgentStarted"
            /\ \A i \in 1..(j - 1) :
                 new[i].kind \in Brackets /\ NoneBetween(new, i, j)
                   => Follows(new[i], new[j])
    BY <1>1, <1>4, <2>1, <2>2
  <2> QED BY <1>1, <1>3, <2>3, AlternatesFurther
<1>5. CASE \E i \in 1..Len(s) : LastAt(s, i) /\ Follows(s[i], e)
  <2> PICK last \in 1..n : LastAt(s, last) /\ Follows(s[last], e)
    BY <1>5
  <2>1. /\ new[last] = s[last] /\ new[last].kind \in Brackets
        /\ \A k \in (last + 1)..n : new[k].kind \notin Brackets
    BY <1>2 DEF LastAt, NoneBetween
  <2>2. ~NoneBetween(new, 0, n + 1)
    BY <2>1 DEF NoneBetween
  <2>3. ASSUME NEW i \in 1..n, new[i].kind \in Brackets,
               NoneBetween(new, i, n + 1)
        PROVE  Follows(new[i], e)
    <3>1. ~(i < last)
      <4>1. i < last => last \in (i + 1)..(n + 1 - 1)
        OBVIOUS
      <4> QED BY <2>1, <2>3, <4>1 DEF NoneBetween
    <3>2. ~(last < i)
      <4>1. last < i => i \in (last + 1)..n
        OBVIOUS
      <4> QED BY <2>1, <2>3, <4>1
    <3>3. i = last
      BY <3>1, <3>2
    <3> QED BY <2>1, <3>3
  <2>4. \A j \in (Len(s) + 1)..Len(new) : j = n + 1 /\ j - 1 = n
    BY <1>1
  <2>5. \A j \in (Len(s) + 1)..Len(new) :
          new[j].kind \in Brackets =>
            /\ NoneBetween(new, 0, j) => new[j].kind = "AgentStarted"
            /\ \A i \in 1..(j - 1) :
                 new[i].kind \in Brackets /\ NoneBetween(new, i, j)
                   => Follows(new[i], new[j])
    BY <1>1, <2>2, <2>3, <2>4
  <2> QED BY <1>1, <1>3, <2>5, AlternatesFurther
<1> QED BY <1>4, <1>5

\* A bracket event announces no message, and starts or ends the turn it names.
LEMMA BracketTurns ==
  ASSUME NEW s \in Seq(EventRecord), NEW e \in EventRecord,
         NEW new, new = Append(s, e), e.kind \in Brackets
  PROVE  /\ MessagesInTurns(s) => MessagesInTurns(new)
         /\ \A t : Started(new, t)
                     <=> Started(s, t) \/ (e.kind = "TurnStarted" /\ e.turn = t)
         /\ \A t : Ended(new, t)
                     <=> Ended(s, t) \/ (e.kind \in Terminals /\ e.turn = t)
<1>1. Prefix(s, new) /\ Len(new) = Len(s) + 1 /\ new[Len(s) + 1] = e
  BY PrefixAppended
<1>2. /\ \A i \in 1..Len(s) : new[i] = s[i] /\ i \in 1..Len(new)
      /\ \A i \in 1..Len(s) : \A kinds, turn :
           Before(new, i, kinds, turn) <=> Before(s, i, kinds, turn)
      /\ DOMAIN s = 1..Len(s) /\ DOMAIN new = 1..Len(new)
  BY <1>1, PrefixKeeps
<1>3. /\ Len(s) \in Nat /\ Len(s) + 1 \in 1..Len(new)
      /\ \A i \in 1..Len(new) : i \in 1..Len(s) \/ i = Len(s) + 1
  BY <1>1 DEF Prefix
<1>4. e.kind # "UserMessage"
  BY DEF Brackets, Terminals
<1>5. ASSUME MessagesInTurns(s) PROVE MessagesInTurns(new)
  <2>1. \A i \in 1..Len(new) :
          new[i].kind = "UserMessage" =>
            /\ Before(new, i, {"TurnStarted"}, new[i].turn)
            /\ ~Before(new, i, Terminals, new[i].turn)
    BY <1>1, <1>2, <1>3, <1>4, <1>5 DEF MessagesInTurns
  <2> QED BY <1>2, <2>1 DEF MessagesInTurns
<1>6. ASSUME NEW t
      PROVE  Started(new, t)
               <=> Started(s, t) \/ (e.kind = "TurnStarted" /\ e.turn = t)
  BY <1>1, <1>2, <1>3 DEF Started
<1>7. ASSUME NEW t
      PROVE  Ended(new, t)
               <=> Ended(s, t) \/ (e.kind \in Terminals /\ e.turn = t)
  BY <1>1, <1>2, <1>3 DEF Ended
<1> QED BY <1>5, <1>6, <1>7

\* A bracket event that starts no turn leaves the turns counted as they were,
\* and so does the start of the next turn.
LEMMA BracketCounts ==
  ASSUME NEW s \in Seq(EventRecord), NEW e \in EventRecord,
         NEW new, new = Append(s, e), e.kind \in Brackets,
         NEW n \in Nat \ {0}, UpTo(s, n), TurnsCountUp(s)
  PROVE  /\ \/ e.kind \in {"AgentStarted", "AgentFinished"}
            \/ e.kind \in Terminals /\ e.turn \in 1..(n - 1)
            => TurnsCountUp(new) /\ UpTo(new, n)
         /\ e.kind = "TurnStarted" /\ e.turn = n
            => TurnsCountUp(new) /\ UpTo(new, n + 1)
<1>1. Prefix(s, new) /\ Len(new) = Len(s) + 1 /\ new[Len(s) + 1] = e
  BY PrefixAppended
<1>2. /\ \A i \in 1..Len(s) : new[i] = s[i] /\ i \in 1..Len(new)
      /\ \A i \in 1..Len(s) : \A kinds, turn :
           Before(new, i, kinds, turn) <=> Before(s, i, kinds, turn)
      /\ DOMAIN s = 1..Len(s) /\ DOMAIN new = 1..Len(new)
  BY <1>1, PrefixKeeps
<1>3. /\ Len(s) \in Nat /\ Len(s) + 1 \in 1..Len(new)
      /\ \A i \in 1..Len(new) : i \in 1..Len(s) \/ i = Len(s) + 1
  BY <1>1 DEF Prefix
<1>4. \A t : Started(new, t)
               <=> Started(s, t) \/ (e.kind = "TurnStarted" /\ e.turn = t)
  BY BracketTurns
<1>5. /\ \A t \in 1..(n - 1) : Started(s, t)
      /\ \A i \in 1..Len(s) :
           /\ s[i].kind = "TurnStarted" => s[i].turn \in 1..(n - 1)
           /\ s[i].kind \in Terminals => s[i].turn \in 1..(n - 1)
  BY DEF UpTo
<1>6. ASSUME e.kind = "TurnStarted" =>
               /\ e.turn # 0
               /\ \A t \in 1..e.turn :
                    Before(new, Len(s) + 1, {"TurnStarted"}, t) <=> t < e.turn
      PROVE  TurnsCountUp(new)
  <2>1. \A i \in 1..Len(new) :
          new[i].kind = "TurnStarted" =>
            /\ new[i].turn # 0
            /\ \A t \in 1..new[i].turn :
                 Before(new, i, {"TurnStarted"}, t) <=> t < new[i].turn
    BY <1>1, <1>2, <1>3, <1>6 DEF TurnsCountUp
  <2> QED BY <1>2, <2>1 DEF TurnsCountUp
<1>7. ASSUME \/ e.kind \in {"AgentStarted", "AgentFinished"}
             \/ e.kind \in Terminals /\ e.turn \in 1..(n - 1)
      PROVE  TurnsCountUp(new) /\ UpTo(new, n)
  <2>1. e.kind # "TurnStarted"
          /\ (e.kind \in Terminals => e.turn \in 1..(n - 1))
    BY <1>7 DEF Terminals
  <2>2. TurnsCountUp(new)
    BY <1>6, <2>1
  <2>3. UpTo(new, n)
    BY <1>1, <1>2, <1>3, <1>4, <1>5, <2>1 DEF UpTo
  <2> QED BY <2>2, <2>3
<1>8. ASSUME e.kind = "TurnStarted", e.turn = n
      PROVE  TurnsCountUp(new) /\ UpTo(new, n + 1)
  <2>1. e.kind \notin Terminals
    BY <1>8 DEF Terminals
  <2>2. ASSUME NEW t \in 1..n
        PROVE  Before(new, Len(s) + 1, {"TurnStarted"}, t) <=> t < n
    <3>1. Before(new, Len(s) + 1, {"TurnStarted"}, t) <=> Started(s, t)
      <4>1. 1..(Len(s) + 1 - 1) = 1..Len(s)
        BY <1>3
      <4> QED BY <1>2, <4>1 DEF Before, Started
    <3>2. t < n => Started(s, t)
      <4>1. t < n => t \in 1..(n - 1)
        OBVIOUS
      <4> QED BY <1>5, <4>1
    <3>3. Started(s, t) => t < n
      <4>1. Started(s, t) => t \in 1..(n - 1)
        BY <1>5 DEF Started
      <4> QED BY <4>1
    <3> QED BY <3>1, <3>2, <3>3
  <2>3. TurnsCountUp(new)
    BY <1>6, <1>8, <2>2
  <2>4. \A t \in 1..(n + 1 - 1) : Started(new, t)
    <3> TAKE t \in 1..(n + 1 - 1)
    <3>1. t \in 1..(n - 1) \/ t = n
      OBVIOUS
    <3> QED BY <1>4, <1>5, <1>8, <3>1
  <2>5. \A i \in 1..Len(new) :
          /\ new[i].kind = "TurnStarted" => new[i].turn \in 1..n
          /\ new[i].kind \in Terminals => new[i].turn \in 1..n
    <3> TAKE i \in 1..Len(new)
    <3>1. CASE i \in 1..Len(s)
      <4>1. \A t : t \in 1..(n - 1) => t \in 1..n
        OBVIOUS
      <4> QED BY <1>2, <1>5, <3>1, <4>1
    <3>2. CASE i = Len(s) + 1
      BY <1>1, <1>8, <2>1, <3>2
    <3> QED BY <1>3, <3>1, <3>2
  <2>6. n + 1 - 1 = n
    OBVIOUS
  <2>7. UpTo(new, n + 1)
    <3>1. 1..(n + 1 - 1) = 1..n
      BY <2>6
    <3> QED BY <2>4, <2>5, <3>1 DEF UpTo
  <2> QED BY <2>3, <2>7
<1> QED BY <1>7, <1>8

\* An event of another kind ends no turn.
LEMMA NotEnded ==
  ASSUME NEW s \in Seq(EventRecord), NEW e \in EventRecord,
         NEW new, new = Append(s, e), e.kind \notin Terminals,
         NEW t, ~Ended(s, t)
  PROVE  ~Ended(new, t)
<1>1. Prefix(s, new) /\ Len(new) = Len(s) + 1 /\ new[Len(s) + 1] = e
  BY PrefixAppended
<1>2. \A i \in 1..Len(s) : new[i] = s[i]
  BY <1>1, PrefixKeeps
<1>3. \A i \in 1..Len(new) : i \in 1..Len(s) \/ i = Len(s) + 1
  BY <1>1 DEF Prefix
<1> QED BY <1>1, <1>2, <1>3 DEF Ended

-----------------------------------------------------------------------------
(* What is announced, piece by piece.                                      *)

\* Two events announced at once are one announced after the other.
LEMMA TwoAppended ==
  ASSUME NEW s \in Seq(EventRecord), NEW e \in EventRecord,
         NEW f \in EventRecord, NEW ev, ev = <<e, f>>
  PROVE  /\ ev \in Seq(EventRecord)
         /\ s \o ev = Append(Append(s, e), f)
<1> PICK mid, new : mid = Append(s, e) /\ new = Append(mid, f)
  OBVIOUS
<1>1. mid \in Seq(EventRecord) /\ Len(mid) = Len(s) + 1 /\ Len(s) \in Nat
      /\ mid[Len(s) + 1] = e /\ \A i \in 1..Len(s) : mid[i] = s[i]
  BY PrefixAppended DEF Prefix
<1>2. new \in Seq(EventRecord) /\ Len(new) = Len(mid) + 1
      /\ new[Len(mid) + 1] = f /\ \A i \in 1..Len(mid) : new[i] = mid[i]
  BY <1>1, PrefixAppended DEF Prefix
<1>3. /\ ev \in Seq(EventRecord) /\ Len(ev) = 2 /\ ev[1] = e /\ ev[2] = f
  BY TwoEvents
<1> PICK both : both = s \o ev
  OBVIOUS
<1>4. /\ both \in Seq(EventRecord) /\ Len(both) = Len(s) + Len(ev)
      /\ \A i \in 1..Len(s) : both[i] = s[i]
      /\ \A i \in (Len(s) + 1)..(Len(s) + Len(ev)) : both[i] = ev[i - Len(s)]
  BY <1>3, EventsJoined
<1>5. Len(both) = Len(new)
  BY <1>1, <1>2, <1>3, <1>4
<1>6. ASSUME NEW i \in 1..Len(both)
      PROVE  both[i] = new[i]
  <2>1. CASE i \in 1..Len(s)
    BY <1>1, <1>2, <1>4, <2>1
  <2>2. CASE i = Len(s) + 1
    <3>1. both[i] = ev[i - Len(s)] /\ i - Len(s) = 1
      BY <1>1, <1>3, <1>4, <2>2
    <3>2. i \in 1..Len(mid)
      BY <1>1, <2>2
    <3> QED BY <1>1, <1>2, <1>3, <2>2, <3>1, <3>2
  <2>3. CASE i = Len(s) + 2
    <3>1. both[i] = ev[i - Len(s)] /\ i - Len(s) = 2
      BY <1>1, <1>3, <1>4, <2>3
    <3>2. i = Len(mid) + 1
      BY <1>1, <2>3
    <3> QED BY <1>2, <1>3, <3>1, <3>2
  <2> QED BY <1>1, <1>3, <1>4, <2>1, <2>2, <2>3
<1>7. both = new
  BY ONLY <1>2, <1>4, <1>5, <1>6, SeqEqual
<1> QED BY <1>3, <1>7

\* Events that bracket nothing and announce no message, and messages of one
\* turn.
Notes(ev) ==
  \A i \in 1..Len(ev) :
    ev[i].kind \notin Brackets /\ ev[i].kind # "UserMessage"
Messages(ev, t) ==
  \A i \in 1..Len(ev) : ev[i].kind = "UserMessage" /\ ev[i].turn = t
MayFollow(ev, s, t) == Notes(ev) \/ (Messages(ev, t) /\ InTurn(s, t))

\* Such events leave everything as it was, the messages when their turn is
\* running.
LEMMA Plain ==
  ASSUME NEW s \in Seq(EventRecord), NEW ev \in Seq(EventRecord),
         NEW new, new = s \o ev, NEW n \in Nat, NEW t,
         MayFollow(ev, s, t), WellBracketed(s)
  PROVE  /\ WellBracketed(new)
         /\ UpTo(s, n) => UpTo(new, n)
         /\ \A u : InTurn(s, u) => InTurn(new, u)
         /\ Idle(s) => Idle(new)
<1>0. new = s \o ev
  OBVIOUS
<1>1. /\ Prefix(s, new)
      /\ \A j \in (Len(s) + 1)..Len(new) :
           j - Len(s) \in 1..Len(ev) /\ new[j] = ev[j - Len(s)]
  <2>1. Prefix(s, new)
    BY <1>0, PrefixJoined
  <2>2. \A j \in (Len(s) + 1)..Len(new) :
          j - Len(s) \in 1..Len(ev) /\ new[j] = ev[j - Len(s)]
    BY <1>0, PrefixJoined
  <2> QED BY <2>1, <2>2
<1>2. ASSUME NEW j \in (Len(s) + 1)..Len(new)
      PROVE  /\ new[j].kind \notin Brackets
             /\ new[j].kind = "UserMessage" => InTurn(s, t) /\ new[j].turn = t
  <2>1. j - Len(s) \in 1..Len(ev) /\ new[j] = ev[j - Len(s)]
    BY <1>1
  <2> PICK k \in 1..Len(ev) : new[j] = ev[k]
    BY <2>1
  <2>2. CASE Notes(ev)
    BY <2>2 DEF Notes
  <2>3. CASE Messages(ev, t) /\ InTurn(s, t)
    BY <2>3 DEF Messages, Brackets, Terminals
  <2> QED BY <2>2, <2>3 DEF MayFollow
<1>3. AddedPlain(s, new)
  BY <1>2 DEF AddedPlain
<1>4. /\ \A i \in 1..Len(s) : LastAt(s, i) => LastAt(new, i)
      /\ NoneBetween(s, 0, Len(s) + 1) => NoneBetween(new, 0, Len(new) + 1)
      /\ \A i \in 1..Len(s) : new[i] = s[i] /\ i \in 1..Len(new)
      /\ \A u : Ended(new, u) <=> Ended(s, u)
  BY <1>1, <1>3, PlainBrackets, PlainTurns, PrefixKeeps
<1>5. InTurn(s, t) => Started(s, t) /\ ~Ended(s, t)
  BY DEF InTurn, Started
<1>6. WellBracketed(new)
  <2>1. MessagesInTurns(new)
    BY <1>1, <1>2, <1>3, <1>5, PlainMessages DEF WellBracketed
  <2> QED BY <1>1, <1>3, <2>1, PlainBrackets, PlainTurns DEF WellBracketed
<1>7. UpTo(s, n) => UpTo(new, n)
  BY <1>1, <1>3, PlainTurns
<1>8. \A u : InTurn(s, u) => InTurn(new, u)
  BY <1>4 DEF InTurn
<1>9. Idle(s) => Idle(new)
  BY <1>4 DEF Idle
<1> QED BY <1>6, <1>7, <1>8, <1>9

\* The end of the running turn, then the end of its run.
LEMMA Ends ==
  ASSUME NEW s \in Seq(EventRecord), NEW n \in Nat \ {0},
         NEW t \in 1..(n - 1), NEW kind \in Terminals,
         NEW ev, ev = <<Event(kind, t, 0, 0), Event("AgentFinished", 0, 0, 0)>>,
         WellBracketed(s), UpTo(s, n), InTurn(s, t)
  PROVE  WellBracketed(s \o ev) /\ UpTo(s \o ev, n) /\ Idle(s \o ev)
<1> PICK e, f, mid, new : /\ e = Event(kind, t, 0, 0)
                          /\ f = Event("AgentFinished", 0, 0, 0)
                          /\ mid = Append(s, e) /\ new = Append(mid, f)
  OBVIOUS
<1>1. /\ e \in EventRecord /\ e.kind = kind /\ e.turn = t
      /\ f \in EventRecord /\ f.kind = "AgentFinished"
  <2>1. kind \in EventKinds /\ "AgentFinished" \in EventKinds
    BY DEF Terminals, EventKinds
  <2>2. t \in Nat /\ 0 \in Nat
    OBVIOUS
  <2>3. e \in EventRecord /\ e.kind = kind /\ e.turn = t
    BY <2>1, <2>2 DEF Event, EventRecord
  <2>4. f \in EventRecord /\ f.kind = "AgentFinished"
    BY <2>1, <2>2 DEF Event, EventRecord
  <2> QED BY <2>3, <2>4
<1>2. e.kind \in Brackets /\ f.kind \in Brackets /\ f.kind \notin Terminals
        /\ e.kind \in Terminals
  BY <1>1 DEF Brackets, Terminals
<1>3. /\ mid \in Seq(EventRecord) /\ Len(mid) = Len(s) + 1
      /\ mid[Len(s) + 1] = e /\ Len(s) \in Nat
      /\ new \in Seq(EventRecord) /\ Len(new) = Len(mid) + 1
      /\ new[Len(mid) + 1] = f
  BY <1>1, PrefixAppended DEF Prefix
<1>4. s \o ev = new
  <2>1. ev = <<e, f>>
    OBVIOUS
  <2> QED BY <1>1, <2>1, TwoAppended
<1>5. Alternates(mid) /\ LastAt(mid, Len(s) + 1)
  <2> PICK i \in 1..Len(s) : /\ LastAt(s, i) /\ s[i].kind = "TurnStarted"
                            /\ s[i].turn = t
    BY DEF InTurn
  <2>1. Follows(s[i], e)
    BY <1>1, <1>2 DEF Follows
  <2> QED BY <1>1, <1>2, <2>1, BracketFollows DEF WellBracketed
<1>6. Alternates(new) /\ LastAt(new, Len(mid) + 1)
  <2>1. Len(s) + 1 \in 1..Len(mid) /\ Follows(mid[Len(s) + 1], f)
    BY <1>1, <1>2, <1>3 DEF Follows
  <2> QED BY <1>1, <1>2, <1>3, <1>5, <2>1, BracketFollows
<1>7. MessagesInTurns(mid) /\ TurnsCountUp(mid) /\ UpTo(mid, n)
  <2>1. MessagesInTurns(s) /\ TurnsCountUp(s)
    BY DEF WellBracketed
  <2>2. MessagesInTurns(mid)
    BY <1>1, <1>2, <2>1, BracketTurns
  <2>3. e.turn \in 1..(n - 1)
    BY <1>1
  <2> QED BY <1>1, <1>2, <2>1, <2>2, <2>3, BracketCounts
<1>8. MessagesInTurns(new) /\ TurnsCountUp(new) /\ UpTo(new, n)
  <2>1. MessagesInTurns(new)
    BY <1>1, <1>2, <1>3, <1>7, BracketTurns
  <2>2. f.kind \in {"AgentStarted", "AgentFinished"}
    BY <1>1
  <2> QED BY <1>1, <1>2, <1>3, <1>7, <2>1, <2>2, BracketCounts
<1>9. Idle(new)
  <2>1. Len(mid) + 1 \in 1..Len(new)
    BY <1>3
  <2> QED BY <1>1, <1>3, <1>6, <2>1 DEF Idle
<1> QED BY <1>4, <1>6, <1>8, <1>9 DEF WellBracketed

\* Appending to the log is associative.
LEMMA EventsAssociate ==
  ASSUME NEW s \in Seq(EventRecord), NEW t \in Seq(EventRecord),
         NEW u \in Seq(EventRecord)
  PROVE  (s \o t) \o u = s \o (t \o u)
BY ConcatAssociative

\* The start of a run and of the next turn, with its messages.
LEMMA Opens ==
  ASSUME NEW s \in Seq(EventRecord), NEW n \in Nat \ {0},
         NEW texts \in Seq(Nat), NEW first \in Nat \ {0},
         NEW ev, ev = OpeningEvents(n, texts, first),
         WellBracketed(s), UpTo(s, n), Idle(s)
  PROVE  WellBracketed(s \o ev) /\ UpTo(s \o ev, n + 1) /\ InTurn(s \o ev, n)
<1> PICK e, f, us, mid, two :
       /\ e = Event("AgentStarted", 0, 0, 0)
       /\ f = Event("TurnStarted", n, 0, 0)
       /\ us = UserEvents(n, texts, first)
       /\ mid = Append(s, e) /\ two = Append(mid, f)
  OBVIOUS
<1>1. /\ e \in EventRecord /\ e.kind = "AgentStarted"
      /\ f \in EventRecord /\ f.kind = "TurnStarted" /\ f.turn = n
  <2>1. e \in EventRecord /\ e.kind = "AgentStarted"
    BY DEF Event, EventRecord, EventKinds
  <2>2. f \in EventRecord /\ f.kind = "TurnStarted" /\ f.turn = n
    BY DEF Event, EventRecord, EventKinds
  <2> QED BY <2>1, <2>2
<1>2. /\ e.kind \in Brackets /\ f.kind \in Brackets
      /\ e.kind \notin Terminals /\ f.kind \notin Terminals
  BY <1>1 DEF Brackets, Terminals
<1>3. /\ mid \in Seq(EventRecord) /\ Len(mid) = Len(s) + 1
      /\ mid[Len(s) + 1] = e /\ Len(s) \in Nat
      /\ two \in Seq(EventRecord) /\ Len(two) = Len(mid) + 1
      /\ two[Len(mid) + 1] = f
  BY <1>1, PrefixAppended DEF Prefix
<1>4. us \in Seq(EventRecord)
        /\ \A i \in 1..Len(us) : us[i].kind = "UserMessage" /\ us[i].turn = n
  BY UserEventsAre
<1>5. s \o ev = two \o us
  <2>1. ev = <<e, f>> \o us
    BY DEF OpeningEvents
  <2> PICK ef : ef = <<e, f>>
    OBVIOUS
  <2>2. ef \in Seq(EventRecord) /\ two = s \o ef
    BY <1>1, TwoAppended
  <2>3. (s \o ef) \o us = s \o (ef \o us)
    BY ONLY s \in Seq(EventRecord), <1>4, <2>2, EventsAssociate
  <2> QED BY <2>1, <2>2, <2>3
<1>6. Alternates(mid) /\ LastAt(mid, Len(s) + 1)
  <2>1. CASE NoneBetween(s, 0, Len(s) + 1)
    BY <1>1, <1>2, <2>1, BracketFollows DEF WellBracketed
  <2>2. CASE \E i \in 1..Len(s) : LastAt(s, i) /\ s[i].kind = "AgentFinished"
    <3>1. \E i \in 1..Len(s) : LastAt(s, i) /\ Follows(s[i], e)
      BY <1>1, <2>2 DEF Follows
    <3> QED BY <1>1, <1>2, <3>1, BracketFollows DEF WellBracketed
  <2> QED BY <2>1, <2>2 DEF Idle
<1>7. Alternates(two) /\ LastAt(two, Len(mid) + 1)
  <2>1. Len(s) + 1 \in 1..Len(mid) /\ Follows(mid[Len(s) + 1], f)
    BY <1>1, <1>3 DEF Follows
  <2> QED BY <1>1, <1>2, <1>3, <1>6, <2>1, BracketFollows
<1>8. MessagesInTurns(mid) /\ TurnsCountUp(mid) /\ UpTo(mid, n)
  <2>1. MessagesInTurns(s) /\ TurnsCountUp(s)
    BY DEF WellBracketed
  <2>2. MessagesInTurns(mid)
    BY <1>1, <1>2, <2>1, BracketTurns
  <2>3. e.kind \in {"AgentStarted", "AgentFinished"}
    BY <1>1
  <2>4. TurnsCountUp(mid) /\ UpTo(mid, n)
    BY <1>1, <1>2, <2>1, <2>3, BracketCounts
  <2> QED BY <2>2, <2>4
<1>9. MessagesInTurns(two) /\ TurnsCountUp(two) /\ UpTo(two, n + 1)
  <2>1. MessagesInTurns(two)
    BY <1>1, <1>2, <1>3, <1>8, BracketTurns
  <2>2. TurnsCountUp(two) /\ UpTo(two, n + 1)
    BY <1>1, <1>2, <1>3, <1>8, BracketCounts
  <2> QED BY <2>1, <2>2
<1>10. ~Ended(two, n)
  <2>1. ~Ended(s, n)
    <3>1. n \notin 1..(n - 1)
      OBVIOUS
    <3>2. \A i \in 1..Len(s) :
            s[i].kind \in Terminals => s[i].turn \in 1..(n - 1)
      BY DEF UpTo
    <3> QED BY <3>1, <3>2 DEF Ended
  <2>2. ~Ended(mid, n)
    BY <1>1, <1>2, <2>1, NotEnded
  <2> QED BY <1>1, <1>2, <1>3, <2>2, NotEnded
<1>11. InTurn(two, n)
  <2>1. Len(mid) + 1 \in 1..Len(two)
    BY <1>3
  <2> QED BY <1>1, <1>3, <1>7, <1>10, <2>1 DEF InTurn
<1>12. MayFollow(us, two, n)
  BY <1>4, <1>11 DEF MayFollow, Messages
<1> PICK m \in Nat : m = n + 1
  OBVIOUS
<1> PICK new : new = two \o us
  OBVIOUS
<1>13. WellBracketed(two) /\ UpTo(two, m)
  BY <1>7, <1>9 DEF WellBracketed
<1>14. WellBracketed(new) /\ UpTo(new, m) /\ InTurn(new, n)
  <2>1. new = two \o us
    OBVIOUS
  <2>2. m \in Nat /\ two \in Seq(EventRecord) /\ us \in Seq(EventRecord)
    BY <1>3, <1>4
  <2> QED BY ONLY <1>11, <1>12, <1>13, <2>1, <2>2, Plain
<1> QED BY <1>5, <1>14

-----------------------------------------------------------------------------
(* The steps keep the brackets.                                            *)

\* The parts of EventsInv while `run` is alive.
LEMMA EventsNow ==
  ASSUME TypeInv, EventsInv, rt # "stopped"
  PROVE  /\ log \in Seq(EventRecord) /\ nextTurn \in Nat \ {0}
         /\ OwnedTurn \in Nat /\ active \in Nat /\ settling \in Nat
         /\ active < nextTurn /\ settling < nextTurn /\ OwnedTurn < nextTurn
         /\ WellBracketed(log)
         /\ listening => UpTo(log, nextTurn)
         /\ listening /\ Turning => InTurn(log, OwnedTurn)
         /\ listening /\ ~Turning => Idle(log)
<1>1. /\ log \in Seq(EventRecord) /\ nextTurn \in Nat \ {0}
      /\ active \in Nat /\ settling \in Nat
  BY DEF TypeInv, TypeOK
<1>2. /\ active < nextTurn /\ settling < nextTurn /\ WellBracketed(log)
      /\ listening => UpTo(log, nextTurn)
      /\ listening /\ Turning => InTurn(log, OwnedTurn)
      /\ listening /\ ~Turning => Idle(log)
  BY DEF EventsInv
<1> QED BY <1>1, <1>2 DEF OwnedTurn

\* A step that announces nothing and neither starts nor ends a turn.
LEMMA Quiet ==
  ASSUME TypeInv, EventsInv, rt # "stopped", UNCHANGED <<log, nextTurn>>,
         listening' => listening, active' < nextTurn, settling' < nextTurn,
         Turning' <=> Turning, Turning => OwnedTurn' = OwnedTurn
  PROVE  EventsInv'
<1>1. /\ WellBracketed(log)
      /\ listening => UpTo(log, nextTurn)
      /\ listening /\ Turning => InTurn(log, OwnedTurn)
      /\ listening /\ ~Turning => Idle(log)
  BY EventsNow
<1>2. CASE Turning
  BY <1>1, <1>2 DEF EventsInv
<1>3. CASE ~Turning
  BY <1>1, <1>3 DEF EventsInv
<1> QED BY <1>2, <1>3

\* A step that announces what brackets nothing, messages only of the turn that
\* is running.
LEMMA Tells ==
  ASSUME TypeInv, EventsInv, rt # "stopped", NEW ev \in Seq(EventRecord),
         Emit(ev), Notes(ev) \/ (Turning /\ Messages(ev, OwnedTurn)),
         UNCHANGED <<listening, nextTurn>>,
         active' < nextTurn, settling' < nextTurn,
         Turning' <=> Turning, Turning => OwnedTurn' = OwnedTurn
  PROVE  EventsInv'
<1>1. CASE ~listening
  BY <1>1, Quiet DEF Emit
<1>2. CASE listening
  <2>o. PICK s \in Seq(EventRecord), n \in Nat, t \in Nat,
             new \in {log \o ev} :
           s = log /\ n = nextTurn /\ t = OwnedTurn /\ new = s \o ev
    BY EventsNow
  <2>1. /\ WellBracketed(s) /\ UpTo(s, n)
        /\ Turning => InTurn(s, t)
        /\ ~Turning => Idle(s)
    BY <1>2, <2>o, EventsNow
  <2>2. log' = new
    BY <1>2, <2>o DEF Emit
  <2>3. MayFollow(ev, s, t)
    BY <2>o, <2>1 DEF MayFollow
  <2>4. ev \in Seq(EventRecord)
    OBVIOUS
  <2>5. /\ WellBracketed(new)
        /\ UpTo(s, n) => UpTo(new, n)
        /\ \A u : InTurn(s, u) => InTurn(new, u)
        /\ Idle(s) => Idle(new)
    BY ONLY <2>o, <2>1, <2>3, <2>4, Plain
  <2>6. CASE Turning
    BY <1>2, <2>o, <2>1, <2>2, <2>5, <2>6 DEF EventsInv
  <2>7. CASE ~Turning
    BY <1>2, <2>o, <2>1, <2>2, <2>5, <2>7 DEF EventsInv
  <2> QED BY <2>6, <2>7
<1> QED BY <1>1, <1>2

\* A step that announces the end of the running turn and of its run.
LEMMA Closes ==
  ASSUME TypeInv, EventsInv, rt # "stopped", Turning, OwnedTurn # 0,
         NEW kind \in Terminals, NEW ev,
         ev = <<Event(kind, OwnedTurn, 0, 0), Event("AgentFinished", 0, 0, 0)>>,
         Emit(ev), UNCHANGED <<listening, nextTurn>>,
         active' < nextTurn, settling' < nextTurn, ~Turning'
  PROVE  EventsInv'
<1>1. CASE ~listening
  <2>1. WellBracketed(log) /\ UNCHANGED log
    BY <1>1, EventsNow DEF Emit
  <2> QED BY <1>1, <2>1 DEF EventsInv
<1>2. CASE listening
  <2>o. PICK s \in Seq(EventRecord), n \in Nat \ {0}, t \in Nat,
             new \in {log \o ev} :
           s = log /\ n = nextTurn /\ t = OwnedTurn /\ new = s \o ev
    BY EventsNow
  <2>t. t \in 1..(n - 1)
    BY <2>o, EventsNow
  <2>1. WellBracketed(s) /\ UpTo(s, n) /\ InTurn(s, t)
    BY <1>2, <2>o, EventsNow
  <2>2. ev = <<Event(kind, t, 0, 0), Event("AgentFinished", 0, 0, 0)>>
          /\ kind \in Terminals
    BY <2>o
  <2>3. WellBracketed(new) /\ UpTo(new, n) /\ Idle(new)
    BY ONLY <2>o, <2>t, <2>1, <2>2, Ends
  <2>4. log' = new
    BY <1>2, <2>o DEF Emit
  <2> QED BY <1>2, <2>o, <2>3, <2>4 DEF EventsInv
<1> QED BY <1>1, <1>2

\* One event that is a note.
LEMMA NoteIs ==
  ASSUME NEW kind \in {"SteerQueued", "ConfigChanged"}, NEW id \in Nat,
         NEW text \in Nat, NEW ev, ev = <<Event(kind, 0, id, text)>>
  PROVE  ev \in Seq(EventRecord) /\ Notes(ev)
<1> PICK e : e = Event(kind, 0, id, text)
  OBVIOUS
<1>1. e \in EventRecord /\ e.kind = kind
  BY DEF Event, EventRecord, EventKinds
<1>2. ev = <<e>>
  OBVIOUS
<1>3. ev \in Seq(EventRecord) /\ Len(ev) = 1 /\ ev[1] = e
  BY <1>1, <1>2
<1>4. e.kind \notin Brackets /\ e.kind # "UserMessage"
  BY <1>1 DEF Brackets, Terminals
<1> QED BY <1>3, <1>4 DEF Notes

\* The report of a turn is taken, and what the loop did not announce is.
LEMMA EventsByReport ==
  ASSUME TypeInv, Ownership, EventsInv, RecvReport \/ SettleReport
  PROVE  EventsInv'
<1>1. /\ rt # "stopped" /\ loop \in {"ending", "gone"}
      /\ done # <<>> /\ done[1] \in Report /\ Head(done) = done[1]
      /\ done' = <<>> /\ UNCHANGED <<loop, verdict, listening>>
  BY ReportTaken
<1>2. done[1].turn = OwnedTurn /\ OwnedTurn # 0
  BY <1>1 DEF Ownership, ReportIsOwned
<1>3. /\ Emit(OutcomeEvents(done[1])) /\ UNCHANGED nextTurn
      /\ active' \in {0, active} /\ settling' \in {0, settling}
  BY <1>1 DEF RecvReport, SettleReport, ApplyOutcome
<1>4. active' < nextTurn /\ settling' < nextTurn
  BY <1>1, <1>3, EventsNow
<1>5. ~Turning' /\ (Turning <=> done[1].kind # "completed")
  BY <1>1 DEF Turning, InLoop
<1>6. CASE done[1].kind = "completed"
  <2>1. UNCHANGED log
    BY <1>1, <1>3, <1>6, EventsNow, ConcatEmptySeq DEF OutcomeEvents, Emit
  <2> QED BY <1>1, <1>3, <1>4, <1>5, <1>6, <2>1, Quiet
<1>7. CASE done[1].kind # "completed"
  <2> PICK kind \in Terminals :
        kind = IF done[1].kind = "cancelled" THEN "TurnCancelled"
               ELSE "TurnFailed"
    BY DEF Terminals
  <2> PICK ev : ev = OutcomeEvents(done[1])
    OBVIOUS
  <2>1. ev = <<Event(kind, OwnedTurn, 0, 0), Event("AgentFinished", 0, 0, 0)>>
    BY <1>2, <1>7 DEF OutcomeEvents
  <2> QED BY <1>1, <1>2, <1>3, <1>4, <1>5, <1>7, <2>1, Closes
<1> QED BY <1>6, <1>7

\* The next turn is announced, once the last run is over.
LEMMA EventsByBegin ==
  ASSUME TypeInv, Ownership, EventsInv, BeginTurn
  PROVE  EventsInv'
<1>1. /\ done = <<>> /\ loop \in {"ending", "gone"} /\ rt = "begin"
      /\ done' = done /\ loop' = "top" /\ rt' = "select"
      /\ active' = nextTurn /\ nextTurn' = nextTurn + 1
      /\ UNCHANGED <<settling, listening>>
  BY NothingLeft DEF BeginTurn
<1>2. ~Turning /\ Turning' /\ OwnedTurn' = nextTurn
  BY <1>1 DEF Turning, InLoop, OwnedTurn
<1>3. steering \in Seq(Nat) /\ held \in Nat /\ nextMessageId \in Nat \ {0}
  BY DEF TypeInv, TypeOK
<1>o. PICK s \in Seq(EventRecord), n \in Nat \ {0}, m \in Nat,
           texts \in Seq(Nat), first \in Nat \ {0},
           ev \in {OpeningEvents(nextTurn, Append(steering, held),
                                 nextMessageId)},
           new \in {log \o OpeningEvents(nextTurn, Append(steering, held),
                                         nextMessageId)} :
         /\ s = log /\ n = nextTurn /\ m = n + 1
         /\ texts = Append(steering, held) /\ first = nextMessageId
         /\ ev = OpeningEvents(n, texts, first) /\ new = s \o ev
  <2>1. Append(steering, held) \in Seq(Nat)
    BY <1>3, AppendProperties
  <2>2. log \in Seq(EventRecord) /\ nextTurn \in Nat \ {0}
          /\ nextTurn + 1 \in Nat
    BY <1>1, EventsNow
  <2> QED BY <1>3, <2>1, <2>2
<1>4. Emit(ev)
  BY <1>o DEF BeginTurn
<1>5. active' < nextTurn' /\ settling' < nextTurn'
  BY <1>1, EventsNow
<1>6. CASE ~listening
  <2>1. WellBracketed(log) /\ UNCHANGED log
    BY <1>1, <1>4, <1>6, EventsNow DEF Emit
  <2> QED BY <1>1, <1>5, <1>6, <2>1 DEF EventsInv
<1>7. CASE listening
  <2>1. WellBracketed(s) /\ UpTo(s, n) /\ Idle(s)
    BY <1>1, <1>2, <1>7, <1>o, EventsNow
  <2>2. WellBracketed(new) /\ UpTo(new, n + 1) /\ InTurn(new, n)
    BY ONLY <1>o, <2>1, Opens
  <2>3. log' = new /\ nextTurn' = n + 1 /\ OwnedTurn' = n
    BY <1>1, <1>2, <1>4, <1>7, <1>o DEF Emit
  <2> QED BY <1>1, <1>2, <1>5, <2>2, <2>3 DEF EventsInv
<1> QED BY <1>6, <1>7

\* The steps of the handle, and those of `run` between turns.
LEMMA EventsByRuntime ==
  ASSUME TypeInv, Ownership, EventsInv, rt # "stopped",
         \/ HandleStep \/ RecvSubmit \/ PushSteer \/ AnnounceSteer
         \/ RecvCancel \/ RecvCycle \/ RecvApproval \/ ForwardControl
  PROVE  EventsInv'
<1>1. UNCHANGED <<loop, verdict, done>> /\ (Turning' <=> Turning)
  BY OtherSteps DEF Turning
<1>2. active < nextTurn /\ settling < nextTurn
  BY EventsNow
<1>3. CASE HandleStep
  <2>1. UNCHANGED <<log, nextTurn, active, settling, rt>>
          /\ (listening' => listening)
    <3> USE DEF idVars
    <3>1. CASE Submit
      BY <3>1 DEF Submit
    <3>2. CASE \E kind \in AllExtras : SendExtra(kind)
      BY <3>2 DEF SendExtra
    <3>3. CASE DropSender
      BY <3>3 DEF DropSender
    <3>4. CASE DropReceiver
      BY <3>4 DEF DropReceiver
    <3> QED BY <1>3, <3>1, <3>2, <3>3, <3>4 DEF HandleStep
  <2> QED BY <1>1, <1>2, <2>1, Quiet DEF OwnedTurn
<1>4. CASE RecvSubmit
  <2>1. /\ UNCHANGED <<log, nextTurn, listening>> /\ rt = "select"
        /\ \/ UNCHANGED <<active, settling>> /\ rt' \in {"pushSteer", "begin"}
           \/ settling' = active /\ active' = 0 /\ rt' = "settle"
    BY <1>4 DEF RecvSubmit, Recv, idVars
  <2>2. OwnedTurn' = OwnedTurn /\ active' < nextTurn /\ settling' < nextTurn
    BY <1>2, <2>1, EventsNow DEF OwnedTurn
  <2> QED BY <1>1, <2>1, <2>2, Quiet
<1>5. CASE PushSteer \/ RecvCancel \/ RecvApproval \/ ForwardControl
  <2>1. /\ UNCHANGED <<log, nextTurn, listening, active, settling>>
        /\ rt # "settle" /\ rt' # "settle"
    BY <1>5 DEF PushSteer, RecvCancel, RecvApproval, ForwardControl, Recv,
       idVars
  <2> QED BY <1>1, <1>2, <2>1, Quiet DEF OwnedTurn
<1>6. CASE AnnounceSteer \/ RecvCycle
  <2>1. /\ UNCHANGED <<nextTurn, listening, active, settling>>
        /\ rt # "settle" /\ rt' # "settle"
    BY <1>6 DEF AnnounceSteer, RecvCycle, Recv, idVars
  <2>2. held \in Nat /\ nextQueueId - 1 \in Nat /\ 0 \in Nat
    BY DEF TypeInv, TypeOK
  <2> PICK steer, config :
        /\ steer = <<Event("SteerQueued", 0, nextQueueId - 1, held)>>
        /\ config = <<Event("ConfigChanged", 0, 0, 0)>>
    OBVIOUS
  <2>3. steer \in Seq(EventRecord) /\ Notes(steer)
    BY <2>2, NoteIs
  <2>4. config \in Seq(EventRecord) /\ Notes(config)
    BY <2>2, NoteIs
  <2>5. <<>> \in Seq(EventRecord) /\ Notes(<<>>)
    BY EmptySeq DEF Notes
  <2>6. Emit(steer) \/ Emit(config) \/ Emit(<<>>)
    BY <1>6 DEF AnnounceSteer, RecvCycle
  <2>7. OwnedTurn' = OwnedTurn /\ active' < nextTurn /\ settling' < nextTurn
    BY <1>2, <2>1 DEF OwnedTurn
  <2>8. ASSUME NEW ev \in Seq(EventRecord), Emit(ev), Notes(ev)
        PROVE  EventsInv'
    BY <1>1, <2>1, <2>7, <2>8, Tells
  <2> QED BY <2>3, <2>4, <2>5, <2>6, <2>8
<1> QED BY <1>3, <1>4, <1>5, <1>6

\* What a step inside the loop announces.
LEMMA LoopEvents ==
  ASSUME TypeInv, loop \in InLoop,
         LoopStep \/ StreamStarts \/ StreamFails \/ InterruptStep \/ ReplyStep,
         ~TaskEnds
  PROVE  \/ AnnounceFinish
         \/ /\ loop' \in InLoop \/ (loop' = "report" /\ verdict' # "completed")
            /\ UNCHANGED log
                 \/ Emit(UserEvents(loopTurn, steering, loopNextId))
<1> USE DEF InLoop, Fail, Conclude
<1>1. CASE LoopCancelled
  BY <1>1 DEF LoopCancelled
<1>2. CASE BeginIteration
  <2>1. CASE Inject(steering) /\ loop' = "starting"
    BY <2>1 DEF Inject
  <2>2. CASE loop' = "report" /\ verdict' = "failed" /\ UNCHANGED log
    BY <2>2
  <2>3. \/ Inject(steering) /\ loop' = "starting"
        \/ loop' = "report" /\ verdict' = "failed" /\ UNCHANGED log
    BY <1>2 DEF BeginIteration
  <2> QED BY <2>1, <2>2, <2>3
<1>3. CASE ExecuteTool
  BY <1>3 DEF ExecuteTool, AfterTool
<1>4. CASE DrainBeforeFinish
  <2>1. CASE Inject(steering) /\ loop' = "top"
    BY <2>1 DEF Inject
  <2>2. CASE loop' = "announce" /\ UNCHANGED log
    BY <2>2
  <2>3. CASE Fail(steering) /\ UNCHANGED log
    BY <2>3
  <2> QED BY <1>4, <2>1, <2>2, <2>3 DEF DrainBeforeFinish
<1>5. CASE StreamStarts \/ StreamFails
  BY <1>5 DEF StreamStarts, StreamFails
<1>6. CASE InterruptStep
  BY <1>6 DEF InterruptStep, Interrupt
<1>7. CASE ReplyStep
  <2> PICK stop \in StopReasons, n \in CallCounts : ReplyDone(stop, n)
    BY <1>7 DEF ReplyStep
  <2> QED BY DEF ReplyDone
<1>8. CASE ReportOutcome
  BY <1>8 DEF ReportOutcome
<1> QED BY <1>1, <1>2, <1>3, <1>4, <1>5, <1>6, <1>7, <1>8 DEF LoopStep

\* What the task never touches.
LEMMA TaskKeeps ==
  ASSUME LoopStep \/ StreamStarts \/ StreamFails \/ InterruptStep \/ ReplyStep
  PROVE  UNCHANGED <<rt, listening, nextTurn, active, settling>>
<1> USE DEF runtimeVars, idVars
<1>1. CASE LoopStep
  BY <1>1 DEF LoopStep, LoopCancelled, BeginIteration, ExecuteTool,
              DrainBeforeFinish, AnnounceFinish, ReportOutcome, TaskEnds
<1>2. CASE StreamStarts \/ StreamFails
  BY <1>2 DEF StreamStarts, StreamFails
<1>3. CASE InterruptStep
  BY <1>3 DEF InterruptStep, Interrupt
<1>4. CASE ReplyStep
  BY <1>4 DEF ReplyStep, ReplyDone
<1> QED BY <1>1, <1>2, <1>3, <1>4

\* The steps of the task while `run` is alive.
LEMMA EventsByTask ==
  ASSUME TypeInv, Ownership, EventsInv, rt # "stopped",
         LoopStep \/ StreamStarts \/ StreamFails \/ InterruptStep \/ ReplyStep
  PROVE  EventsInv'
<1>1. /\ UNCHANGED <<rt, listening, nextTurn, active, settling>>
      /\ OwnedTurn' = OwnedTurn
      /\ active' < nextTurn /\ settling' < nextTurn
  BY TaskKeeps, EventsNow DEF OwnedTurn
<1>2. CASE ReportOutcome
  <2>1. /\ done = <<>> /\ done' # <<>> /\ done'[1].kind = verdict
        /\ loop = "report" /\ loop' = "ending" /\ UNCHANGED log
    BY <1>2, ReportSent DEF ReportOutcome
  <2>2. Turning' <=> Turning
    BY <2>1 DEF Turning, InLoop
  <2> QED BY <1>1, <2>1, <2>2, Quiet
<1>3. CASE TaskEnds
  <2>1. loop = "ending" /\ loop' = "gone" /\ UNCHANGED <<log, verdict, done>>
    BY <1>3 DEF TaskEnds, Ownership
  <2>2. Turning' <=> Turning
    BY <2>1 DEF Turning, InLoop
  <2> QED BY <1>1, <2>1, <2>2, Quiet
<1>4. CASE ~ReportOutcome /\ ~TaskEnds
  <2>1. loop \in InLoop
    BY <1>4 DEF LoopStep, LoopCancelled, BeginIteration, ExecuteTool,
                DrainBeforeFinish, AnnounceFinish, StreamStarts, StreamFails,
                InterruptStep, Interrupt, ReplyStep, ReplyDone, InLoop
  <2>2. /\ loopTurn = OwnedTurn /\ OwnedTurn # 0 /\ done = <<>> /\ Turning
        /\ UNCHANGED done
    BY <1>4, <2>1, LoopEffect DEF Ownership, ReportIsOwned, Turning
  <2>3. CASE AnnounceFinish
    <3>1. /\ Emit(<<Event("TurnFinished", OwnedTurn, 0, 0),
                    Event("AgentFinished", 0, 0, 0)>>)
          /\ loop' = "report" /\ verdict' = "completed"
      BY <2>2, <2>3 DEF AnnounceFinish, Conclude
    <3>2. ~Turning'
      BY <2>2, <3>1 DEF Turning, InLoop
    <3> PICK ev : ev = <<Event("TurnFinished", OwnedTurn, 0, 0),
                         Event("AgentFinished", 0, 0, 0)>>
      OBVIOUS
    <3>3. Emit(ev) /\ "TurnFinished" \in Terminals
      BY <3>1 DEF Terminals
    <3> QED BY <1>1, <2>2, <3>2, <3>3, Closes
  <2>4. CASE /\ loop' \in InLoop \/ (loop' = "report" /\ verdict' # "completed")
             /\ UNCHANGED log
                  \/ Emit(UserEvents(loopTurn, steering, loopNextId))
    <3>1. Turning' <=> Turning
      BY <2>2, <2>4 DEF Turning
    <3>2. CASE UNCHANGED log
      BY <1>1, <3>1, <3>2, Quiet
    <3>3. CASE Emit(UserEvents(loopTurn, steering, loopNextId))
      <4> PICK texts \in Seq(Nat), first \in Nat \ {0}, t \in Nat,
               ev \in {UserEvents(OwnedTurn, steering, loopNextId)} :
             /\ texts = steering /\ first = loopNextId /\ t = OwnedTurn
             /\ ev = UserEvents(t, texts, first)
        BY LoopTypes, EventsNow
      <4>1. ev \in Seq(EventRecord) /\ Messages(ev, t)
        <5>1. /\ ev \in Seq(EventRecord)
              /\ \A i \in 1..Len(ev) : ev[i].kind = "UserMessage"
                                      /\ ev[i].turn = t
          BY UserEventsAre
        <5> QED BY <5>1 DEF Messages
      <4>2. Emit(ev)
        BY <2>2, <3>3
      <4> QED BY <1>1, <2>2, <3>1, <4>1, <4>2, Tells
    <3> QED BY <2>4, <3>2, <3>3
  <2> QED BY <1>4, <2>1, <2>3, <2>4, LoopEvents
<1> QED BY <1>2, <1>3, <1>4

\* Every step keeps the brackets.
LEMMA EventsStep == BracketsInv /\ [Next]_vars => BracketsInv'
<1> SUFFICES ASSUME BracketsInv, [Next]_vars PROVE BracketsInv'
  OBVIOUS
<1>1. TypeInv /\ Ownership /\ InFlight /\ EventsInv
  BY DEF BracketsInv
<1>2. TypeInv' /\ Ownership' /\ InFlight'
  BY <1>1, StepOwnership, InFlightStep
<1> SUFFICES EventsInv'
  BY <1>2 DEF BracketsInv
<1>3. CASE RecvReport \/ SettleReport
  BY <1>1, <1>3, EventsByReport
<1>4. CASE BeginTurn
  BY <1>1, <1>4, EventsByBegin
<1>5. CASE RecvShutdown \/ RecvClosed
  BY <1>5, Stops DEF EventsInv
<1>6. CASE \/ HandleStep \/ RecvSubmit \/ PushSteer \/ AnnounceSteer
           \/ RecvCancel \/ RecvCycle \/ RecvApproval \/ ForwardControl
  <2>1. rt = "stopped" => EventsInv'
    BY <1>6, OtherSteps DEF EventsInv
  <2> QED BY <1>1, <1>6, <2>1, EventsByRuntime
<1>7. CASE LoopStep \/ StreamStarts \/ StreamFails \/ InterruptStep \/ ReplyStep
  <2>1. rt = "stopped" => EventsInv'
    BY <1>7, TaskKeeps DEF EventsInv
  <2> QED BY <1>1, <1>7, <2>1, EventsByTask
<1>8. CASE UNCHANGED vars
  <2>1. UNCHANGED <<rt, log, listening, nextTurn, active, settling>>
          /\ UNCHANGED <<loop, verdict, done>>
    BY <1>8 DEF vars, idVars, loopVars
  <2>2. rt = "stopped" => EventsInv'
    BY <2>1 DEF EventsInv
  <2>3. ASSUME rt # "stopped" PROVE EventsInv'
    <3>1. active' < nextTurn /\ settling' < nextTurn
      BY <1>1, <2>1, <2>3, EventsNow
    <3>2. (Turning' <=> Turning) /\ OwnedTurn' = OwnedTurn
      BY <2>1 DEF Turning, OwnedTurn
    <3> QED BY <1>1, <2>1, <2>3, <3>1, <3>2, Quiet
  <2> QED BY <2>2, <2>3
<1> QED BY <1>3, <1>4, <1>5, <1>6, <1>7, <1>8 DEF Next, RuntimeStep

\* `run` starts between runs, with one note in the log.
LEMMA InitEvents == Init => BracketsInv
<1> SUFFICES ASSUME Init PROVE BracketsInv
  OBVIOUS
<1>1. TypeInv /\ Ownership /\ InFlight
  BY InitTranscripts DEF TranscriptInv
<1>2. PICK s : s = log /\ s = <<Event("ConfigChanged", 0, 0, 0)>>
  BY DEF Init
<1>3. s \in Seq(EventRecord) /\ Notes(s) /\ Len(s) \in Nat
        /\ DOMAIN s = 1..Len(s)
  BY <1>2, NoteIs, LenProperties
<1>4. \A i \in 1..Len(s) : /\ s[i].kind \notin Brackets
                          /\ s[i].kind # "UserMessage"
                          /\ s[i].kind # "TurnStarted"
                          /\ s[i].kind \notin Terminals
  BY <1>3 DEF Notes, Brackets
<1>5. WellBracketed(s)
  BY <1>3, <1>4 DEF WellBracketed, Alternates, TurnsCountUp, MessagesInTurns
<1>6. Idle(s)
  <2>1. \A k \in (0 + 1)..(Len(s) + 1 - 1) : k \in 1..Len(s)
    BY <1>3
  <2> QED BY <1>4, <2>1 DEF Idle, NoneBetween
<1>7. UpTo(s, 1)
  BY <1>4 DEF UpTo
<1>8. /\ ~Turning /\ active = 0 /\ settling = 0 /\ nextTurn = 1
  BY DEF Init, Turning, InLoop
<1>9. EventsInv
  BY <1>2, <1>5, <1>6, <1>7, <1>8 DEF EventsInv
<1> QED BY <1>1, <1>9 DEF BracketsInv

\* Until teardown the consumer sees runs one after another, each with one turn,
\* the next one, whose messages lie inside it, whoever announces its end: the
\* loop that completed it, or `run` when it takes or settles its report.
THEOREM RunsAreInBrackets == Spec => []RunsAreBracketed
<1>1. BracketsInv => RunsAreBracketed
  BY DEF BracketsInv, EventsInv, WellBracketed, RunsAreBracketed
<1> QED BY <1>1, InitEvents, EventsStep, PTL DEF Spec

=============================================================================
