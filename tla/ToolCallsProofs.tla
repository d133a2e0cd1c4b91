-------------------------- MODULE ToolCallsProofs --------------------------
(***************************************************************************)
(* Machine-checked proofs about ToolCalls, for every number of calls, any  *)
(* limit and any capacity of the event channel: its inductive invariant,   *)
(* hence type correctness, and that it implements ToolPromise.             *)
(***************************************************************************)
EXTENDS ToolCalls, SequenceTheorems, TLAPS

USE ToolCallsAssumption DEF ToolCallsAssumption, Calls

-----------------------------------------------------------------------------
(* Events and handles.                                                     *)

\* The empty sequence is a sequence of anything.
LEMMA Nothing == \A S : <<>> \in Seq(S)
BY EmptySeq

\* Nor is there more to one of one or two elements.
LEMMA Few == \A S : \A x, y \in S : <<x>> \in Seq(S) /\ <<x, y>> \in Seq(S)
OBVIOUS

\* What the code emits are events.
LEMMA EventsTyped ==
  ASSUME NEW c \in Calls
  PROVE  /\ \A ok \in BOOLEAN : <<Resolved(c, ok)>> \in Seq(EventType)
         /\ <<Result(c, TRUE)>> \in Seq(EventType)
         /\ <<Result(c, FALSE)>> \in Seq(EventType)
         /\ <<Event("requested", c)>> \in Seq(EventType)
         /\ <<Event("started", c), Other>> \in Seq(EventType)
<1>1. \A ok \in BOOLEAN : Resolved(c, ok) \in EventType
  BY DEF Resolved, Event, EventType
<1>2. Result(c, TRUE) \in EventType /\ Result(c, FALSE) \in EventType
  BY DEF Result, Event, EventType
<1>3. /\ Event("requested", c) \in EventType
      /\ Event("started", c) \in EventType
      /\ Other \in EventType
  BY DEF Event, EventType, Other
<1> QED BY <1>1, <1>2, <1>3, Few

\* However little room there is, the channel stays a sequence of events.
LEMMA EmitTyped ==
  ASSUME events \in Seq(EventType), lost \in BOOLEAN,
         NEW es \in Seq(EventType), Emit(es)
  PROVE  events' \in Seq(EventType) /\ lost' \in BOOLEAN
<1> DEFINE n == IF Fits(es) THEN Len(es) ELSE EventCap - Len(events)
<1>1. n \in Int /\ n <= Len(es)
  BY LenProperties DEF Fits
<1>2. \A i \in 1..n : es[i] \in EventType
  BY <1>1, ElementOfSeq, LenProperties
<1>3. SubSeq(es, 1, n) \in Seq(EventType)
  BY <1>1, <1>2, SubSeqProperties
<1>4. events' = events \o SubSeq(es, 1, n)
  BY DEF Emit
<1>5. events' \in Seq(EventType)
  BY <1>3, <1>4, ConcatProperties
<1>6. lost' \in BOOLEAN
  BY Zenon DEF Emit
<1> QED BY <1>5, <1>6

\* The kernel's operations keep handles handles; approvals appear with a
\* request only.
LEMMA HandlesTyped ==
  ASSUME NEW h \in HandleType
  PROVE  /\ \A g \in {Prepared(h), Start(h), FinishHandle(h), FailHandle(h),
                      CancelHandle(h)} :
              g \in HandleType /\ (g.approval # "none" => h.approval # "none")
         /\ Terminal(FailHandle(h)) /\ Terminal(CancelHandle(h))
         /\ Terminal(FinishHandle(h))
BY DEF HandleType, LifecycleStates, Prepared, Start, FinishHandle, FailHandle,
       CancelHandle, Withdrawn, Terminal

\* The handles a call begins with, and the one that has asked.
LEMMA FirstHandles ==
  /\ NoHandle \in HandleType /\ NewHandle \in HandleType
  /\ Prepared(NewHandle) \in HandleType
  /\ NoHandle.approval = "none" /\ NewHandle.approval = "none"
  /\ Prepared(NewHandle).approval = "none"
  /\ NewHandle.state = "preparing" /\ Prepared(NewHandle).state = "prepared"
  /\ NoHandle.state = "none"
BY DEF NoHandle, NewHandle, Prepared, HandleType, LifecycleStates

\* A prepared handle that has requested its approval.
LEMMA AskedHandle ==
  /\ Asked \in HandleType /\ Asked.id = 1 /\ Asked.state = "pendingApproval"
  /\ Asked.approval = "pending" /\ Asked.resume = "prepared"
<1> DEFINE p == Prepared(NewHandle)
<1>1. p \in HandleType /\ p.nextId = 1 /\ p.state = "prepared"
  BY DEF Prepared, NewHandle, NoHandle, HandleType, LifecycleStates
<1> HIDE DEF p
<1>2. Asked = [p EXCEPT !.state = "pendingApproval", !.approval = "pending",
                        !.id = 1, !.nextId = 2, !.resume = "prepared"]
  BY <1>1 DEF Asked, RequestApproval, p
<1>3. Asked \in HandleType
  BY <1>1, <1>2 DEF HandleType, LifecycleStates
<1> QED BY <1>1, <1>2, <1>3 DEF HandleType

\* What a decision makes of a handle that asked.
LEMMA Decided ==
  ASSUME NEW approved \in BOOLEAN
  PROVE  LET h == Resolve(Asked, 1, approved)
         IN  /\ h \in HandleType
             /\ approved => h.state = "prepared" /\ h.approval = "approved"
             /\ ~approved => h.state = "failed" /\ h.approval = "rejected"
<1>1. CASE approved
  BY <1>1, AskedHandle DEF Resolve, HandleType, LifecycleStates
<1>2. CASE ~approved
  BY <1>2, AskedHandle DEF Resolve, HandleType, LifecycleStates
<1> QED BY <1>1, <1>2

-----------------------------------------------------------------------------
(* What an action makes of the handle of the call it is in.  Every action  *)
(* of the loop and every decision is a Move; Legal compares the handle     *)
(* before and after it the way the promise does.                           *)

Approved(h) == h.approval = "approved"

Legal(h, g) ==
  \/ Became(g) = Became(h) /\ (Approved(g) <=> Approved(h))
  \/ /\ Became(h) = "waiting" /\ ~Approved(h) /\ ~Approved(g)
     /\ \/ Became(g) \in {"done", "failed", "dropped"}
        \/ Became(g) = "asked" /\ plan.kind[call] = "asks"
        \/ Became(g) = "working" /\ plan.kind[call] # "asks" /\ ~aborted
  \/ /\ Became(h) = "asked" /\ ~Approved(h) /\ ~Approved(g)
     /\ Became(g) \in {"refused", "dropped"}
  \/ /\ Became(h) = "asked" /\ ~Approved(h) /\ Approved(g)
     /\ \/ Became(g) \in {"failed", "dropped"}
        \/ Became(g) = "working" /\ ~aborted
  \/ /\ Became(h) = "working" /\ (Approved(g) <=> Approved(h))
     /\ Became(g) \in {"done", "failed", "dropped"}

GoesOn(g) ==
  \/ at' = "next" /\ call' = call + 1 /\ Terminal(g)
  \/ at' = "cancelled" /\ call' = call
  \/ at' = "before" /\ call' = call /\ g = NewHandle
  \/ at' = "approval" /\ call' = call /\ g = Asked
  \/ at' \in {"working", "after"} /\ call' = call /\ AtWork(g)

Moved(g) ==
  /\ g \in HandleType
  /\ handle' = [handle EXCEPT ![call] = g]
  /\ GoesOn(g)
  /\ Legal(handle[call], g)
  /\ g.approval # "none" => plan.kind[call] = "asks"

Move == call \in Calls /\ call <= plan.count /\ \E g : Moved(g)

Told ==
  /\ answered' \in Seq(Calls)
  /\ events' \in Seq(EventType) /\ lost' \in BOOLEAN

\* A move keeps the loop and the handles in step.
LEMMA MoveKeeps ==
  ASSUME IInv, Move, plan' = plan
  PROVE  /\ HandlesFollowLoop' /\ OnlyAskersAsk'
         /\ handle' \in [Calls -> HandleType]
         /\ at' \in Places /\ call' \in 1..(plan'.count + 1)
         /\ at' \in InCall => call' <= plan'.count
<1>1. PICK g : Moved(g)
  BY DEF Move
<1>2. /\ call \in Calls /\ call <= plan.count /\ plan.count \in 1..MaxCalls
      /\ handle \in [Calls -> HandleType]
      /\ handle' = [handle EXCEPT ![call] = g] /\ g \in HandleType
  BY <1>1 DEF Move, Moved, IInv, TypeOK
<1>3. handle' \in [Calls -> HandleType]
  BY <1>2
<1>4. /\ at' \in Places /\ call' \in 1..(plan'.count + 1)
      /\ at' \in InCall => call' <= plan'.count
  BY <1>1, <1>2 DEF Moved, GoesOn, Places, InCall, Ended
<1>5. /\ handle'[call] = g
      /\ \A c \in Calls : c # call => handle'[c] = handle[c]
  BY <1>2
<1>6. OnlyAskersAsk'
  BY <1>1, <1>2, <1>5 DEF IInv, OnlyAskersAsk, Moved
<1>7. HandlesFollowLoop'
  <2>1. \A c \in Calls : c < call' => Terminal(handle'[c])
    BY <1>1, <1>2, <1>5 DEF IInv, HandlesFollowLoop, Moved, GoesOn
  <2>2. \A c \in Calls : c > call' => handle'[c] = NoHandle
    BY <1>1, <1>2, <1>5 DEF IInv, HandlesFollowLoop, Moved, GoesOn
  <2>3. at' = "next" /\ call' \in Calls => handle'[call'] = NoHandle
    BY <1>1, <1>2, <1>5 DEF IInv, HandlesFollowLoop, Moved, GoesOn
  <2>4. /\ at' = "before" => handle'[call'] = NewHandle
        /\ at' = "approval" => handle'[call'] = Asked
        /\ at' \in {"working", "after"} => AtWork(handle'[call'])
    BY <1>1, <1>2, <1>5 DEF Moved, GoesOn
  <2> QED BY <2>1, <2>2, <2>3, <2>4 DEF HandlesFollowLoop, Terminal, AtWork
<1> QED BY <1>3, <1>4, <1>6, <1>7

\* fail() is a move whenever what it may leave behind is legal.
LEMMA FailMoves ==
  ASSUME TypeOK, call \in Calls, call <= plan.count,
         NEW h \in HandleType, NEW es \in Seq(EventType), Fail(h, es),
         h.approval # "none" => plan.kind[call] = "asks",
         Terminal(h) \/ closed => Legal(handle[call], h),
         Legal(handle[call], CancelHandle(h)),
         Legal(handle[call], FailHandle(h))
  PROVE  Move /\ Told /\ at' \in {"next", "cancelled"}
<1> DEFINE c == CancelHandle(h)
           f == FailHandle(h)
           failed == es \o <<Result(call, FALSE)>>
<1>1. /\ c \in HandleType /\ f \in HandleType
      /\ c.approval # "none" => h.approval # "none"
      /\ f.approval # "none" => h.approval # "none"
      /\ Terminal(f)
  BY HandlesTyped
<1>2. failed \in Seq(EventType)
  <2>1. <<Result(call, FALSE)>> \in Seq(EventType)
    BY EventsTyped
  <2> QED BY <2>1, ConcatProperties
<1>3. answered \in Seq(Calls) /\ events \in Seq(EventType) /\ lost \in BOOLEAN
  BY DEF TypeOK
<1>4. CASE aborted
  <2>1. /\ handle' = [handle EXCEPT ![call] =
                        IF Terminal(h) \/ closed THEN h ELSE c]
        /\ Emit(es) /\ at' = "cancelled" /\ call' = call
        /\ answered' = answered
    BY <1>4 DEF Fail
  <2>2. Told
    BY <2>1, <1>3, EmitTyped DEF Told
  <2>3. Move
    <3>1. CASE Terminal(h) \/ closed
      BY <3>1, <2>1 DEF Move, Moved, GoesOn
    <3>2. CASE ~(Terminal(h) \/ closed)
      BY <3>2, <2>1, <1>1 DEF Move, Moved, GoesOn
    <3> QED BY <3>1, <3>2
  <2> QED BY <2>1, <2>2, <2>3
<1>5. CASE ~aborted
  <2>1. /\ handle' = [handle EXCEPT ![call] = IF Terminal(h) THEN h ELSE f]
        /\ answered' = IF Terminal(h) THEN answered
                       ELSE Append(answered, call)
        /\ Emit(IF Terminal(h) THEN es ELSE failed)
        /\ at' = "next" /\ call' = call + 1
    BY <1>5 DEF Fail, GoOn
  <2>2. Told
    <3>1. answered' \in Seq(Calls)
      BY <2>1, <1>3, AppendProperties
    <3>2. CASE Terminal(h)
      <4>1. Emit(es)
        BY <3>2, <2>1
      <4> QED BY <4>1, <3>1, <1>3, EmitTyped DEF Told
    <3>3. CASE ~Terminal(h)
      <4>1. Emit(failed)
        BY <3>3, <2>1
      <4> HIDE DEF failed
      <4> QED BY <4>1, <3>1, <1>2, <1>3, EmitTyped DEF Told
    <3> QED BY <3>2, <3>3
  <2>3. Move
    <3>1. CASE Terminal(h)
      BY <3>1, <2>1 DEF Move, Moved, GoesOn
    <3>2. CASE ~Terminal(h)
      BY <3>2, <2>1, <1>1 DEF Move, Moved, GoesOn
    <3> QED BY <3>1, <3>2
  <2> QED BY <2>1, <2>2, <2>3
<1> QED BY <1>4, <1>5

\* So is beginning to work, which only a call that is not aborted does.
LEMMA WorkMoves ==
  ASSUME TypeOK, call \in Calls, call <= plan.count,
         NEW h \in HandleType, NEW es \in Seq(EventType), Work(h, es),
         h.approval # "none" => plan.kind[call] = "asks",
         h.approval \in {"none", "approved"}, ~Terminal(h), ~closed,
         ~aborted => Legal(handle[call], Start(h)),
         Legal(handle[call], CancelHandle(h)),
         Legal(handle[call], CancelHandle(Start(h))),
         Legal(handle[call], FailHandle(h)),
         Legal(handle[call], FailHandle(Start(h)))
  PROVE  Move /\ Told /\ at' \in {"next", "cancelled", "working"}
<1> DEFINE s == Start(h)
           told == es \o <<Event("started", call), Other>>
<1>1. /\ s \in HandleType /\ s.state = "running" /\ ~Terminal(s)
      /\ s.approval = h.approval
  BY DEF HandleType, LifecycleStates, Start, Terminal
<1>2. told \in Seq(EventType)
  <2>1. <<Event("started", call), Other>> \in Seq(EventType)
    BY EventsTyped
  <2> QED BY <2>1, ConcatProperties
<1> HIDE DEF s, told
<1>3. CASE aborted
  <2>1. Fail(h, es)
    BY <1>3 DEF Work
  <2> QED BY <2>1, FailMoves
<1>4. CASE ~aborted /\ ~Fits(told)
  <2>1. Fail(s, told)
    BY <1>4 DEF Work, s, told
  <2> QED BY <2>1, <1>1, <1>2, FailMoves DEF s
<1>5. CASE ~aborted /\ Fits(told)
  <2>1. /\ handle' = [handle EXCEPT ![call] = s] /\ Emit(told)
        /\ at' = "working" /\ call' = call /\ answered' = answered
    BY <1>5 DEF Work, s, told
  <2>2. Told
    BY <2>1, <1>2, EmitTyped DEF Told, TypeOK
  <2>3. Legal(handle[call], s)
    BY <1>5 DEF s
  <2>4. Move
    BY <2>1, <2>3, <1>1 DEF Move, Moved, GoesOn, AtWork
  <2> QED BY <2>1, <2>2, <2>4
<1> QED BY <1>3, <1>4, <1>5

\* The broker's answer reaches a call that waits for it, and is a move.
LEMMA DecisionMoves ==
  ASSUME IInv, at = "approval", NEW approved \in BOOLEAN,
         TakeDecision(1, approved)
  PROVE  Move /\ Told /\ at' \in {"next", "cancelled", "working"}
<1> DEFINE h == Resolve(handle[call], 1, approved)
           es == <<Resolved(call, approved)>>
<1>1. /\ call \in Calls /\ call <= plan.count /\ handle[call] = Asked
      /\ ~closed
  BY DEF IInv, TypeOK, Placed, HandlesFollowLoop, InCall
<1>2. plan.kind[call] = "asks"
  BY <1>1, AskedHandle DEF IInv, OnlyAskersAsk
<1>3. es \in Seq(EventType)
  BY <1>1, EventsTyped
<1>4. /\ h \in HandleType
      /\ approved => h.state = "prepared" /\ h.approval = "approved"
      /\ ~approved => h.state = "failed" /\ h.approval = "rejected"
  BY <1>1, Decided
<1>5. Became(handle[call]) = "asked" /\ ~Approved(handle[call])
  BY <1>1, AskedHandle DEF Became, Approved
<1>6. TypeOK
  BY DEF IInv
<1>7. /\ ~Fits(es) => Fail(h, es)
      /\ Fits(es) /\ approved => Work(h, es)
      /\ Fits(es) /\ ~approved =>
           /\ handle' = [handle EXCEPT ![call] = h]
           /\ Emit(es) /\ GoOn /\ UNCHANGED answered
  BY DEF TakeDecision
<1> HIDE DEF h, es
<1>8. CASE approved
  <2>1. ~Terminal(h)
    BY <1>4, <1>8 DEF Terminal
  <2>2. /\ CancelHandle(h).state = "cancelled"
        /\ FailHandle(h).state = "failed"
        /\ Start(h).state = "running"
        /\ CancelHandle(Start(h)).state = "cancelled"
        /\ FailHandle(Start(h)).state = "failed"
        /\ \A g \in {CancelHandle(h), FailHandle(h), Start(h),
                     CancelHandle(Start(h)), FailHandle(Start(h))} :
             g.approval = "approved"
    BY <1>4, <1>8
    DEF CancelHandle, FailHandle, Start, Withdrawn, HandleType
  <2>3. /\ Legal(handle[call], CancelHandle(h))
        /\ Legal(handle[call], FailHandle(h))
        /\ ~aborted => Legal(handle[call], Start(h))
        /\ Legal(handle[call], CancelHandle(Start(h)))
        /\ Legal(handle[call], FailHandle(Start(h)))
    BY <2>2, <1>5 DEF Legal, Became, Approved
  <2>4. CASE Fits(es)
    BY <2>1, <2>3, <2>4, <1>1, <1>2, <1>3, <1>4, <1>6, <1>7, <1>8, WorkMoves
  <2>5. CASE ~Fits(es)
    BY <2>1, <2>3, <2>5, <1>1, <1>2, <1>3, <1>4, <1>6, <1>7, FailMoves
  <2> QED BY <2>4, <2>5
<1>9. CASE ~approved
  <2>1. h.state = "failed" /\ h.approval = "rejected"
    BY <1>4, <1>9
  <2>2. /\ Legal(handle[call], h) /\ Terminal(h)
        /\ CancelHandle(h).state = "cancelled"
        /\ CancelHandle(h).approval = "rejected"
        /\ FailHandle(h).state = "failed"
        /\ FailHandle(h).approval = "rejected"
    BY <2>1, <1>4, <1>5 DEF Legal, Became, Approved, Terminal, HandleType,
       CancelHandle, FailHandle, Withdrawn
  <2>3. /\ Legal(handle[call], CancelHandle(h))
        /\ Legal(handle[call], FailHandle(h))
    BY <2>2, <1>5 DEF Legal, Became, Approved
  <2>4. CASE Fits(es)
    <3>1. Told
      BY <2>4, <1>3, <1>6, <1>7, <1>9, EmitTyped DEF Told, TypeOK
    <3>2. Move
      BY <2>2, <2>4, <1>1, <1>2, <1>4, <1>7, <1>9
      DEF Move, Moved, GoesOn, GoOn
    <3> QED BY <3>1, <3>2, <2>4, <1>7, <1>9 DEF GoOn
  <2>5. CASE ~Fits(es)
    BY <2>2, <2>3, <2>5, <1>1, <1>2, <1>3, <1>4, <1>6, <1>7, FailMoves
  <2> QED BY <2>4, <2>5
<1> QED BY <1>8, <1>9

-----------------------------------------------------------------------------
(* The loop's actions.                                                     *)

Waits == pending' = IF at' = "approval" THEN {AskedOf(call')} ELSE {}

\* What the actions before the tool leave of a new call is legal.
LEMMA LegalAtFirst ==
  ASSUME Became(handle[call]) = "waiting", ~Approved(handle[call]),
         NEW h \in HandleType, h.approval = "none"
  PROVE  /\ h.state \in {"none", "preparing", "prepared", "finished", "failed",
                        "cancelled"} => Legal(handle[call], h)
         /\ plan.kind[call] # "asks" /\ ~aborted =>
              Legal(handle[call], Start(h))
         /\ Legal(handle[call], CancelHandle(h))
         /\ Legal(handle[call], FailHandle(h))
         /\ Legal(handle[call], CancelHandle(Start(h)))
         /\ Legal(handle[call], FailHandle(Start(h)))
<1>1. /\ CancelHandle(h).state = "cancelled"
      /\ FailHandle(h).state = "failed"
      /\ Start(h).state = "running"
      /\ CancelHandle(Start(h)).state = "cancelled"
      /\ FailHandle(Start(h)).state = "failed"
      /\ \A g \in {CancelHandle(h), FailHandle(h), Start(h),
                   CancelHandle(Start(h)), FailHandle(Start(h))} :
           g.approval = "none"
  BY DEF CancelHandle, FailHandle, Start, Withdrawn, HandleType
<1> QED BY <1>1 DEF Legal, Became, Approved

\* And what those after it leave of a call at work.
LEMMA LegalAtWork ==
  ASSUME NEW h \in HandleType, h = handle[call], AtWork(h)
  PROVE  /\ Legal(handle[call], h)
         /\ Legal(handle[call], CancelHandle(h))
         /\ Legal(handle[call], FailHandle(h))
         /\ Legal(handle[call], FinishHandle(h))
<1>1. /\ CancelHandle(h).state = "cancelled"
      /\ FailHandle(h).state = "failed"
      /\ FinishHandle(h).state = "finished"
      /\ FinishHandle(h).approval = h.approval
      /\ \A g \in {CancelHandle(h), FailHandle(h)} :
           g.approval = "approved" <=> h.approval = "approved"
      /\ FailHandle(h).approval # "rejected"
  BY DEF CancelHandle, FailHandle, FinishHandle, Withdrawn, HandleType, AtWork
<1>2. /\ Became(h) = "working"
      /\ Became(CancelHandle(h)) = "dropped"
      /\ Became(FailHandle(h)) = "failed"
      /\ Became(FinishHandle(h)) = "done"
  BY <1>1 DEF Became, AtWork
<1> QED BY <1>1, <1>2 DEF Legal, Approved

\* A call nobody can execute is over at once.
LEMMA AnswerUnknownMoves ==
  ASSUME IInv, AnswerUnknown
  PROVE  Move /\ Told /\ Waits
<1> DEFINE started == <<Event("started", call), Other>>
           told == started \o <<Result(call, FALSE)>>
           f == FinishHandle(NewHandle)
           g == FailHandle(Start(Prepared(NewHandle)))
<1>1. /\ call \in Calls /\ call <= plan.count /\ pending = {}
      /\ handle[call] = NoHandle
  BY DEF IInv, TypeOK, Placed, HandlesFollowLoop, AnswerUnknown
<1>2. told \in Seq(EventType)
  <2>1. started \in Seq(EventType) /\ <<Result(call, FALSE)>> \in Seq(EventType)
    BY <1>1, EventsTyped
  <2> QED BY <2>1, ConcatProperties
<1>3. Became(handle[call]) = "waiting" /\ ~Approved(handle[call])
  BY <1>1, FirstHandles DEF Became, Approved
<1>4. /\ f \in HandleType /\ f.state = "finished" /\ f.approval = "none"
  BY FirstHandles DEF HandleType, LifecycleStates, FinishHandle
<1>5. /\ Start(Prepared(NewHandle)) \in HandleType
      /\ Start(Prepared(NewHandle)).approval = "none"
  BY FirstHandles DEF HandleType, LifecycleStates, Start
<1>6. g \in HandleType /\ g.state = "failed" /\ g.approval = "none"
  BY <1>5 DEF HandleType, LifecycleStates, FailHandle, Withdrawn
<1>7. Legal(handle[call], f) /\ Legal(handle[call], g)
  BY <1>3, <1>4, <1>6, LegalAtFirst
<1>8. /\ handle' = [handle EXCEPT ![call] = IF Fits(started) THEN f ELSE g]
      /\ Emit(told) /\ answered' = Append(answered, call)
      /\ at' = "next" /\ call' = call + 1 /\ pending' = pending
  BY DEF AnswerUnknown, GoOn
<1> HIDE DEF started, told, f, g
<1>9. Told
  <2>1. answered' \in Seq(Calls)
    BY <1>1, <1>8, AppendProperties DEF IInv, TypeOK
  <2> QED BY <2>1, <1>2, <1>8, EmitTyped DEF Told, IInv, TypeOK
<1>10. Move
  <2>1. CASE Fits(started)
    BY <2>1, <1>1, <1>4, <1>7, <1>8 DEF Move, Moved, GoesOn, Terminal
  <2>2. CASE ~Fits(started)
    BY <2>2, <1>1, <1>6, <1>7, <1>8 DEF Move, Moved, GoesOn, Terminal
  <2> QED BY <2>1, <2>2
<1> QED BY <1>1, <1>8, <1>9, <1>10 DEF Waits

\* Creating a call's handle.
LEMMA BeginCallMoves ==
  ASSUME IInv, BeginCall
  PROVE  Move /\ Told /\ Waits
<1>1. /\ call \in Calls /\ call <= plan.count /\ pending = {}
      /\ handle[call] = NoHandle
  BY DEF IInv, TypeOK, Placed, HandlesFollowLoop, BeginCall
<1>2. Became(handle[call]) = "waiting" /\ ~Approved(handle[call])
  BY <1>1, FirstHandles DEF Became, Approved
<1>3. Legal(handle[call], NewHandle)
  BY <1>2, FirstHandles, LegalAtFirst
<1>4. Move
  BY <1>1, <1>3, FirstHandles DEF BeginCall, Move, Moved, GoesOn
<1> QED BY <1>1, <1>4 DEF BeginCall, Waits, Told, IInv, TypeOK, channel

\* A new call, between its hook and its tool.
LEMMA NewCall ==
  ASSUME IInv, at = "before"
  PROVE  /\ TypeOK /\ call \in Calls /\ call <= plan.count /\ pending = {}
         /\ handle[call] = NewHandle
         /\ Became(handle[call]) = "waiting" /\ ~Approved(handle[call])
BY FirstHandles DEF IInv, TypeOK, Placed, HandlesFollowLoop, InCall, Became,
   Approved

\* What its hook throws is a move.
LEMMA NewCallFails ==
  ASSUME IInv, at = "before", Fail(handle[call], <<>>), pending' = pending
  PROVE  Move /\ Told /\ Waits
<1>1. /\ Legal(handle[call], NewHandle)
      /\ Legal(handle[call], CancelHandle(NewHandle))
      /\ Legal(handle[call], FailHandle(NewHandle))
  BY NewCall, FirstHandles, LegalAtFirst
<1>2. <<>> \in Seq(EventType)
  BY Nothing
<1> QED BY <1>1, <1>2, NewCall, FirstHandles, FailMoves DEF Waits

\* A call that need not ask goes from its hook to its tool.
LEMMA BeginWorkMoves ==
  ASSUME IInv, BeginWork
  PROVE  Move /\ Told /\ Waits
<1> DEFINE p == Prepared(NewHandle)
<1>1. /\ at = "before" /\ pending' = pending /\ plan.kind[call] # "asks"
      /\ closed => Fail(handle[call], <<>>)
      /\ ~closed => Work(Prepared(handle[call]), <<>>)
  BY DEF BeginWork
<1>2. CASE closed
  BY <1>1, <1>2, NewCallFails
<1>3. CASE ~closed
  <2>1. /\ p \in HandleType /\ p.state = "prepared" /\ p.approval = "none"
        /\ ~Terminal(p)
    BY FirstHandles DEF Terminal
  <2>2. /\ ~aborted => Legal(handle[call], Start(p))
        /\ Legal(handle[call], CancelHandle(p))
        /\ Legal(handle[call], FailHandle(p))
        /\ Legal(handle[call], CancelHandle(Start(p)))
        /\ Legal(handle[call], FailHandle(Start(p)))
    BY <1>1, <2>1, NewCall, LegalAtFirst
  <2>3. <<>> \in Seq(EventType) /\ Work(p, <<>>)
    BY <1>1, <1>3, Nothing, NewCall
  <2> HIDE DEF p
  <2> QED BY <1>1, <1>3, <2>1, <2>2, <2>3, NewCall, WorkMoves DEF Waits
<1> QED BY <1>2, <1>3

\* A call that must ask goes from its hook to its approval.
LEMMA AskApprovalMoves ==
  ASSUME IInv, AskApproval
  PROVE  Move /\ Told /\ Waits /\ (at' = "approval" => ~closed)
<1> DEFINE es == <<Event("requested", call)>>
           failed == es \o <<Result(call, FALSE)>>
           f == FailHandle(Asked)
<1>1. at = "before" /\ plan.kind[call] = "asks"
  BY DEF AskApproval
<1>2. RequestApproval(Prepared(handle[call])) = Asked
  BY <1>1, NewCall DEF Asked
<1>3. /\ Asked.state = "pendingApproval" /\ Asked.approval = "pending"
      /\ Asked \in HandleType /\ ~Terminal(Asked)
  BY AskedHandle DEF Terminal
<1>4. /\ f \in HandleType /\ Terminal(f) /\ f.state = "failed"
      /\ CancelHandle(Asked).state = "cancelled"
      /\ \A g \in {f, CancelHandle(Asked)} : g.approval = "cancelled"
  BY <1>3 DEF HandleType, LifecycleStates, FailHandle, CancelHandle, Withdrawn,
     Terminal
<1>5. /\ Legal(handle[call], Asked)
      /\ Legal(handle[call], f)
      /\ Legal(handle[call], CancelHandle(Asked))
  BY <1>1, <1>3, <1>4, NewCall DEF Legal, Became, Approved
<1>6. /\ <<Result(call, FALSE)>> \in Seq(EventType)
      /\ es \in Seq(EventType)
  BY <1>1, NewCall, EventsTyped
<1>7. failed \in Seq(EventType)
  BY <1>6, ConcatProperties
<1>8. CASE closed
  <2>1. Fail(handle[call], <<>>) /\ pending' = pending
    BY <1>8 DEF AskApproval
  <2> QED BY <1>1, <2>1, NewCall, NewCallFails DEF Move, Moved, GoesOn,
          Waits, AskedOf
<1>9. CASE ~closed /\ ~Fits(es)
  <2>1. Fail(Asked, es) /\ pending' = pending
    BY <1>9, <1>2 DEF AskApproval
  <2> HIDE DEF f, es, failed
  <2>2. Move /\ Told /\ at' \in {"next", "cancelled"}
    BY <1>1, <1>3, <1>5, <1>6, <2>1, NewCall, FailMoves DEF f
  <2> QED BY <1>1, <2>1, <2>2, NewCall DEF Waits
<1>10. CASE ~closed /\ Fits(es) /\ ~plan.resolver
  <2>1. /\ handle' = [handle EXCEPT ![call] = f]
        /\ answered' = Append(answered, call)
        /\ Emit(failed) /\ pending' = pending
        /\ \/ at' = "cancelled" /\ call' = call
           \/ at' = "next" /\ call' = call + 1
    BY <1>10, <1>2 DEF AskApproval, GoOn
  <2> HIDE DEF f, es, failed
  <2>2. answered' \in Seq(Calls)
    BY <1>1, <2>1, NewCall, AppendProperties DEF TypeOK
  <2>3. Told
    BY <1>1, <1>7, <2>1, <2>2, NewCall, EmitTyped DEF Told, TypeOK
  <2>4. Move
    BY <1>1, <1>4, <1>5, <2>1, NewCall DEF Move, Moved, GoesOn
  <2> QED BY <1>1, <2>1, <2>3, <2>4, NewCall DEF Waits
<1>11. CASE ~closed /\ Fits(es) /\ plan.resolver
  <2>1. /\ handle' = [handle EXCEPT ![call] = Asked]
        /\ pending' = {p \in pending : p.id # Asked.id} \cup {AskedOf(call)}
        /\ Emit(es) /\ at' = "approval" /\ call' = call
        /\ answered' = answered
    BY <1>11, <1>2 DEF AskApproval, AskedOf
  <2> HIDE DEF f, es, failed
  <2>2. pending' = {AskedOf(call)}
    BY <1>1, <2>1, NewCall
  <2>3. Told
    BY <1>1, <1>6, <2>1, NewCall, EmitTyped DEF Told, TypeOK
  <2>4. Move
    BY <1>1, <1>3, <1>5, <2>1, NewCall DEF Move, Moved, GoesOn
  <2> QED BY <1>11, <2>1, <2>2, <2>3, <2>4 DEF Waits
<1> QED BY <1>8, <1>9, <1>10, <1>11

\* A call at work.
LEMMA WorkingCall ==
  ASSUME IInv, at \in {"working", "after"}
  PROVE  /\ TypeOK /\ call \in Calls /\ call <= plan.count /\ pending = {}
         /\ handle[call] \in HandleType /\ AtWork(handle[call])
         /\ ~Terminal(handle[call])
         /\ handle[call].approval # "none" => plan.kind[call] = "asks"
BY DEF IInv, TypeOK, Placed, HandlesFollowLoop, OnlyAskersAsk, InCall, AtWork,
   Terminal

\* What the tool or the after hook throws is a move.
LEMMA WorkFails ==
  ASSUME IInv, at \in {"working", "after"}, Fail(handle[call], <<>>),
         pending' = pending
  PROVE  Move /\ Told /\ Waits
<1>1. <<>> \in Seq(EventType)
  BY Nothing
<1> QED BY <1>1, WorkingCall, LegalAtWork, FailMoves DEF Waits

\* The tool's promise settles; its handle does not change yet.
LEMMA ToolReturnsMoves ==
  ASSUME IInv, ToolReturns
  PROVE  Move /\ Told /\ Waits
<1>1. handle' = [handle EXCEPT ![call] = handle[call]]
  BY DEF ToolReturns, IInv, TypeOK
<1>2. Move
  BY <1>1, WorkingCall, LegalAtWork DEF ToolReturns, Move, Moved, GoesOn
<1> QED BY <1>2, WorkingCall
        DEF ToolReturns, Waits, Told, TypeOK, channel

\* The result of a call that went through.
LEMMA FinishCallMoves ==
  ASSUME IInv, FinishCall
  PROVE  Move /\ Told /\ Waits
<1> DEFINE h == FinishHandle(handle[call])
           es == <<Result(call, TRUE)>>
<1>1. at = "after" /\ pending' = pending
  BY DEF FinishCall
<1>2. CASE closed
  <2>1. Fail(handle[call], <<>>)
    BY <1>2 DEF FinishCall
  <2> QED BY <1>1, <2>1, WorkFails
<1>3. CASE ~closed
  <2>1. /\ handle' = [handle EXCEPT ![call] = h]
        /\ answered' = Append(answered, call) /\ Emit(es)
        /\ \/ at' = "cancelled" /\ call' = call
           \/ at' = "next" /\ call' = call + 1
    BY <1>3 DEF FinishCall, GoOn
  <2>2. /\ h \in HandleType /\ Terminal(h)
        /\ h.approval = handle[call].approval
    BY <1>1, WorkingCall
    DEF HandleType, LifecycleStates, FinishHandle, Terminal
  <2>3. Legal(handle[call], h)
    BY <1>1, WorkingCall, LegalAtWork
  <2>4. es \in Seq(EventType)
    BY <1>1, WorkingCall, EventsTyped
  <2> HIDE DEF h, es
  <2>5. answered' \in Seq(Calls)
    BY <1>1, <2>1, WorkingCall, AppendProperties DEF TypeOK
  <2>6. Told
    BY <1>1, <2>1, <2>4, <2>5, WorkingCall, EmitTyped DEF Told, TypeOK
  <2>7. Move
    BY <1>1, <2>1, <2>2, <2>3, WorkingCall DEF Move, Moved, GoesOn
  <2> QED BY <1>1, <2>1, <2>6, <2>7, WorkingCall DEF Waits
<1> QED BY <1>2, <1>3

-----------------------------------------------------------------------------
(* The app, and the invariant.                                             *)

\* The reducer keeps the app's state well formed.
LEMMA UiTyped ==
  ASSUME NEW u \in UiType
  PROVE  /\ CancelLive(u) \in UiType
         /\ [u EXCEPT !.active = FALSE] \in UiType
         /\ [CancelLive(u) EXCEPT !.shown = 0] \in UiType
         /\ \A e \in EventType : e # Other => Reduce(u, e) \in UiType
<1>1. [u EXCEPT !.active = FALSE] \in UiType
  BY DEF UiType
<1>2. CancelLive(u) \in UiType
  <2> DEFINE card == [c \in Calls |-> IF c \in LiveCards(u) THEN "cancelled"
                                     ELSE u.card[c]]
  <2>1. card \in [Calls -> CardStates]
    BY DEF UiType, CardStates
  <2>2. u.frozen \cup LiveCards(u) \in SUBSET Calls
    BY DEF UiType, LiveCards
  <2>3. CancelLive(u) = [u EXCEPT !.card = card,
                                  !.frozen = u.frozen \cup LiveCards(u),
                                  !.active = FALSE]
    BY DEF CancelLive
  <2> HIDE DEF card
  <2> QED BY <2>1, <2>2, <2>3 DEF UiType
<1>3. [CancelLive(u) EXCEPT !.shown = 0] \in UiType
  BY <1>2 DEF UiType
<1>4. ASSUME NEW e \in EventType, e # Other
      PROVE  Reduce(u, e) \in UiType
  <2> DEFINE v == [u EXCEPT !.active = TRUE]
  <2>1. /\ e.kind \in {"requested", "resolved", "started", "result"}
        /\ e.call \in Calls /\ e.ok \in BOOLEAN
    BY <1>4 DEF EventType
  <2>2. v \in UiType
    BY DEF UiType
  <2>3. \A state \in CardStates : SetCard(v, e.call, state) \in UiType
    BY <2>1, <2>2 DEF SetCard, UiType, CardStates
  <2>4. /\ u.frozen \cup {e.call} \in SUBSET Calls
        /\ u.frozen \ {e.call} \in SUBSET Calls
        /\ u.frozen \in SUBSET Calls
    BY <2>1 DEF UiType
  <2>5. \A w \in UiType, s \in Calls \cup {0}, f \in SUBSET Calls :
          /\ [w EXCEPT !.shown = s] \in UiType
          /\ [w EXCEPT !.frozen = f] \in UiType
    BY DEF UiType
  <2>6. [v EXCEPT !.card[e.call] = "running"] \in UiType
    BY <2>1, <2>2 DEF UiType, CardStates
  <2> DEFINE known == u.card[e.call] # "none"
             frozen(cond) == IF ~known THEN u.frozen
                             ELSE IF cond THEN u.frozen \cup {e.call}
                             ELSE u.frozen \ {e.call}
  <2>8. CASE e.kind = "requested"
    <3> DEFINE w == SetCard(v, e.call, "pendingApproval")
    <3>1. Reduce(u, e) = [w EXCEPT !.shown = e.call]
      BY <2>8 DEF Reduce
    <3>2. w \in UiType
      BY <2>3 DEF CardStates
    <3> HIDE DEF v, w
    <3> QED BY <3>1, <3>2, <2>1, <2>5
  <2>9. CASE e.kind = "resolved"
    <3> DEFINE w == SetCard(v, e.call,
                            IF e.ok THEN "running" ELSE "cancelled")
               f == frozen(~e.ok)
    <3>1. Reduce(u, e) = [w EXCEPT !.shown = 0, !.frozen = f]
      BY <2>9 DEF Reduce
    <3>2. w \in UiType /\ f \in SUBSET Calls
      BY <2>3, <2>4 DEF CardStates
    <3> HIDE DEF v, w, f
    <3>3. [w EXCEPT !.shown = 0, !.frozen = f] \in UiType
      BY <3>2 DEF UiType
    <3> QED BY <3>1, <3>3
  <2>10. CASE e.kind = "started"
    BY <2>6, <2>10 DEF Reduce
  <2>11. CASE e.kind = "result"
    <3> DEFINE w == SetCard(v, e.call, IF e.ok THEN "finished" ELSE "failed")
               f == frozen(TRUE)
    <3>1. Reduce(u, e) = [w EXCEPT !.frozen = f]
      BY <2>11 DEF Reduce
    <3>2. w \in UiType /\ f \in SUBSET Calls
      BY <2>3, <2>4 DEF CardStates
    <3> HIDE DEF v, w, f
    <3> QED BY <3>1, <3>2, <2>5
  <2> QED BY <2>1, <2>8, <2>9, <2>10, <2>11
<1> QED BY <1>1, <1>2, <1>3, <1>4

\* What the rest of a step must keep for the invariant to hold.
Flags ==
  /\ at' = "approval" => ~closed'
  /\ closed' => aborted'
  /\ leaving' # "no" => aborted'
  /\ aborted' \in BOOLEAN /\ closed' \in BOOLEAN

Others ==
  /\ leaving' \in {"no", "going", "gone", "left"} /\ ui' \in UiType
  /\ presses' \in 0..MaxPresses /\ escapes' \in 0..MaxEscapes

\* A move keeps the invariant, if the rest of the step is well formed.
LEMMA MoveInv ==
  ASSUME IInv, Move, Told, Waits, plan' = plan, Flags, Others
  PROVE  IInv'
<1>1. /\ HandlesFollowLoop' /\ OnlyAskersAsk'
      /\ handle' \in [Calls -> HandleType]
      /\ at' \in Places /\ call' \in 1..(plan'.count + 1)
      /\ at' \in InCall => call' <= plan'.count
  BY MoveKeeps
<1>2. pending' \subseteq [id : {1}, call : Calls]
  <2>1. CASE at' = "approval"
    <3>1. call' \in Calls
      BY <1>1, <2>1 DEF InCall, IInv, TypeOK
    <3> QED BY <2>1, <3>1, AskedHandle DEF Waits, AskedOf
  <2>2. CASE at' # "approval"
    BY <2>2 DEF Waits
  <2> QED BY <2>1, <2>2
<1>3. TypeOK'
  BY <1>1, <1>2 DEF TypeOK, IInv, Told, Flags, Others
<1>4. Placed'
  BY <1>1 DEF Placed, Waits, Flags
<1> QED BY <1>1, <1>3, <1>4 DEF IInv

\* A step that leaves the loop, the broker and the handles alone.
LEMMA IdleInv ==
  ASSUME IInv, UNCHANGED <<plan, handle, pending, answered, call>>,
         at' = at, events' \in Seq(EventType), lost' \in BOOLEAN,
         Flags, Others
  PROVE  IInv'
<1>1. TypeOK'
  BY DEF IInv, TypeOK, Flags, Others
<1>2. Placed'
  BY DEF IInv, Placed, Flags
<1>3. HandlesFollowLoop' /\ OnlyAskersAsk'
  BY DEF IInv, HandlesFollowLoop, OnlyAskersAsk
<1> QED BY <1>1, <1>2, <1>3 DEF IInv

\* A decision reaches the one call that waits, or nothing at all.
LEMMA DecideMoves ==
  ASSUME IInv, NEW id, NEW approved \in BOOLEAN, Decide(id, approved)
  PROVE  \/ Move /\ Told /\ Waits /\ at' # "approval" /\ at = "approval"
         \/ UNCHANGED <<runVars, channel>>
<1>1. CASE \E p \in pending : p.id = id
  <2>1. at = "approval" /\ pending = {AskedOf(call)}
    BY <1>1 DEF IInv, Placed
  <2>2. id = 1
    BY <1>1, <2>1, AskedHandle DEF AskedOf
  <2>3. TakeDecision(1, approved) /\ pending' = {}
    BY <1>1, <2>1, <2>2, AskedHandle DEF Decide, AskedOf
  <2>4. Move /\ Told /\ at' # "approval"
    BY <2>1, <2>3, DecisionMoves
  <2> QED BY <2>1, <2>3, <2>4 DEF Waits
<1>2. CASE ~\E p \in pending : p.id = id
  BY <1>2 DEF Decide
<1> QED BY <1>1, <1>2

\* Leaving the application while a call waits is a move as well.
LEMMA CleanupMoves ==
  ASSUME IInv, leaving = "gone", Fail(handle[call], <<>>), pending # {},
         pending' = {}
  PROVE  Move /\ Told /\ Waits /\ at' # "approval"
<1>1. /\ TypeOK /\ call \in Calls /\ call <= plan.count
      /\ handle[call] = Asked /\ ~closed /\ plan.kind[call] = "asks"
  BY AskedHandle DEF IInv, TypeOK, Placed, HandlesFollowLoop, OnlyAskersAsk,
     InCall
<1>2. /\ Asked \in HandleType /\ ~Terminal(Asked) /\ Asked.approval = "pending"
      /\ Became(handle[call]) = "asked" /\ ~Approved(handle[call])
  BY <1>1, AskedHandle DEF Terminal, Became, Approved
<1>3. aborted
  BY DEF IInv, Placed
<1> DEFINE c == CancelHandle(Asked)
<1>4. /\ c \in HandleType /\ c.state = "cancelled" /\ c.approval = "cancelled"
  BY <1>2 DEF CancelHandle, Withdrawn, HandleType, LifecycleStates
<1>5. Legal(handle[call], c)
  BY <1>2, <1>4 DEF Legal, Became, Approved
<1>6. /\ handle' = [handle EXCEPT ![call] = c]
      /\ Emit(<<>>) /\ at' = "cancelled" /\ call' = call
      /\ answered' = answered
  BY <1>1, <1>2, <1>3 DEF Fail
<1> HIDE DEF c
<1>7. Move
  BY <1>1, <1>4, <1>5, <1>6 DEF Move, Moved, GoesOn
<1>8. Told
  BY <1>1, <1>6, EmitTyped, Nothing DEF Told, TypeOK
<1> QED BY <1>6, <1>7, <1>8 DEF Waits

-----------------------------------------------------------------------------
(* The promise.                                                            *)

Asking == {c \in Calls : plan.kind[c] = "asks"}
Granted == {c \in Calls : handle[c].approval = "approved"}

\* A move of a call the invariant places is a step of the promise, or none.
LEMMA MoveRefines ==
  ASSUME IInv, Move, plan' = plan, aborted' = aborted
  PROVE  [Promised!PromiseNext]_(Promised!promiseVars)
<1>1. PICK g : Moved(g)
  BY DEF Move
<1>2. /\ call \in Calls /\ handle \in [Calls -> HandleType]
      /\ handle' = [handle EXCEPT ![call] = g] /\ g \in HandleType
      /\ Legal(handle[call], g)
  BY <1>1 DEF Move, Moved, IInv, TypeOK
<1>3. /\ work' = [work EXCEPT ![call] = Became(g)]
      /\ work[call] = Became(handle[call])
  BY <1>2 DEF work
<1>4. /\ Granted' = IF Approved(g) THEN Granted \cup {call}
                    ELSE Granted \ {call}
      /\ call \in Granted <=> Approved(handle[call])
      /\ Asking' = Asking
      /\ call \in Asking <=> plan.kind[call] = "asks"
  BY <1>2 DEF Granted, Approved, Asking
<1>5. \A d \in Calls : d < call => work[d] \in Promised!Settled
  BY DEF IInv, HandlesFollowLoop, Terminal, work, Became, Promised!Settled
<1>6. CASE /\ Became(g) = Became(handle[call])
           /\ Approved(g) <=> Approved(handle[call])
  <2>1. work' = work
    BY <1>3, <1>6 DEF work
  <2>2. Granted' = Granted
    BY <1>4, <1>6
  <2> QED BY <2>1, <2>2, <1>4 DEF Promised!promiseVars, Granted, Asking
<1>7. CASE /\ work[call] = "waiting"
           /\ ~Approved(handle[call]) /\ ~Approved(g)
           /\ \/ Became(g) \in {"done", "failed", "dropped"}
              \/ Became(g) = "asked" /\ plan.kind[call] = "asks"
              \/ Became(g) = "working" /\ plan.kind[call] # "asks" /\ ~aborted
  <2>1. Granted' = Granted
    BY <1>4, <1>7
  <2>2. CASE Became(g) \in {"done", "failed", "dropped"}
    <3>1. Promised!GiveUp(call)
      BY <1>2, <1>3, <1>4, <1>5, <1>7, <2>1, <2>2
      DEF Promised!GiveUp, Promised!Turn, Promised!Become, Promised!Settled,
          Granted, Asking
    <3> QED BY <1>2, <3>1 DEF Promised!PromiseNext
  <2>3. CASE Became(g) = "asked"
    <3>1. Promised!Ask(call)
      BY <1>2, <1>3, <1>4, <1>5, <1>7, <2>1, <2>3
      DEF Promised!Ask, Promised!Turn, Promised!Become, Granted, Asking
    <3> QED BY <1>2, <3>1 DEF Promised!PromiseNext
  <2>4. CASE Became(g) = "working"
    <3>1. Promised!WorkFreely(call)
      BY <1>2, <1>3, <1>4, <1>5, <1>7, <2>1, <2>4
      DEF Promised!WorkFreely, Promised!Turn, Promised!Become, Granted, Asking
    <3> QED BY <1>2, <3>1 DEF Promised!PromiseNext
  <2> QED BY <1>7, <2>2, <2>3, <2>4
<1>8. CASE /\ work[call] = "asked"
           /\ ~Approved(handle[call]) /\ ~Approved(g)
           /\ Became(g) \in {"refused", "dropped"}
  <2>1. Granted' = Granted
    BY <1>4, <1>8
  <2>2. Promised!GiveUp(call) \/ Promised!Refuse(call)
    BY <1>2, <1>3, <1>4, <1>5, <1>8, <2>1
    DEF Promised!GiveUp, Promised!Refuse, Promised!Turn,
        Promised!Become, Promised!Settled, Granted, Asking
  <2> QED BY <1>2, <2>2 DEF Promised!PromiseNext
<1>9. CASE /\ work[call] = "asked"
           /\ ~Approved(handle[call]) /\ Approved(g)
           /\ \/ Became(g) \in {"failed", "dropped"}
              \/ Became(g) = "working" /\ ~aborted
  <2>1. Granted' = Granted \cup {call}
    BY <1>4, <1>9
  <2>2. PICK c \in Calls : c = call
    BY <1>2
  <2>3. Promised!Grant(c)
    BY <1>2, <1>3, <1>4, <1>9, <2>1, <2>2
    DEF Promised!Grant, Promised!Become, Granted, Asking
  <2> QED BY <2>3 DEF Promised!PromiseNext
<1>10. CASE /\ work[call] = "working"
            /\ Approved(g) <=> Approved(handle[call])
            /\ Became(g) \in {"done", "failed", "dropped"}
  <2>1. Granted' = Granted
    BY <1>4, <1>10
  <2>2. Promised!Finish(call)
    BY <1>2, <1>3, <1>4, <1>10, <2>1
    DEF Promised!Finish, Promised!Become, Granted, Asking
  <2> QED BY <1>2, <2>2 DEF Promised!PromiseNext
<1> QED BY <1>2, <1>3, <1>6, <1>7, <1>8, <1>9, <1>10 DEF Legal

\* So is a step that only stops the run, or nothing the promise sees.
LEMMA IdleRefines ==
  ASSUME plan' = plan, handle' = handle, aborted' = aborted \/ aborted' = TRUE
  PROVE  [Promised!PromiseNext]_(Promised!promiseVars)
<1>1. Asking' = Asking /\ Granted' = Granted /\ work' = work
  BY DEF Asking, Granted, work
<1>2. CASE aborted' = aborted
  BY <1>1, <1>2 DEF Promised!promiseVars, Asking, Granted
<1>3. CASE aborted' = TRUE
  <2>1. Promised!Stop
    BY <1>1, <1>3 DEF Promised!Stop, Asking, Granted
  <2> QED BY <2>1 DEF Promised!PromiseNext
<1> QED BY <1>2, <1>3

-----------------------------------------------------------------------------
(* The theorems.                                                           *)

\* A move of the loop, or a decision, keeps the rest as it is.
LEMMA MoveGood ==
  ASSUME IInv, Move, Told, Waits, at' = "approval" => ~closed,
         UNCHANGED <<plan, aborted, closed, leaving, ui, bounds>>
  PROVE  IInv' /\ [Promised!PromiseNext]_(Promised!promiseVars)
<1>1. IInv'
  <2>1. Flags
    BY DEF IInv, Placed, TypeOK, Flags
  <2>2. Others
    BY DEF IInv, TypeOK, bounds, Others
  <2> QED BY <2>1, <2>2, MoveInv
<1>2. [Promised!PromiseNext]_(Promised!promiseVars)
  BY MoveRefines
<1> QED BY <1>1, <1>2

\* The loop's own steps.
LEMMA StepGood ==
  ASSUME IInv, Step
  PROVE  IInv' /\ [Promised!PromiseNext]_(Promised!promiseVars)
<1> DEFINE Rest == UNCHANGED <<plan, aborted, closed, leaving, ui, bounds>>
           Moves == Move /\ Told /\ Waits
           Free == pending' = {}
<1>1. ASSUME Moves, Rest, Free
      PROVE  IInv' /\ [Promised!PromiseNext]_(Promised!promiseVars)
  <2>1. at' # "approval"
    BY <1>1 DEF Waits
  <2> QED BY <1>1, <2>1, MoveGood
<1>2. CASE AnswerUnknown
  <2>1. Rest /\ Free
    BY <1>2 DEF AnswerUnknown, IInv, Placed
  <2> QED BY <1>1, <1>2, <2>1, AnswerUnknownMoves
<1>3. CASE BeginCall
  <2>1. Rest /\ Free
    BY <1>3 DEF BeginCall, IInv, Placed
  <2> QED BY <1>1, <1>3, <2>1, BeginCallMoves
<1>4. CASE HookRefuses
  <2>1. Rest /\ Free /\ Moves
    BY <1>4, NewCallFails, NewCall DEF HookRefuses
  <2> QED BY <1>1, <2>1
<1>5. CASE BeginWork
  <2>1. Rest /\ Free
    BY <1>5, NewCall DEF BeginWork
  <2> QED BY <1>1, <1>5, <2>1, BeginWorkMoves
<1>6. CASE AskApproval
  <2>1. Rest
    BY <1>6 DEF AskApproval
  <2> QED BY <1>6, <2>1, AskApprovalMoves, MoveGood
<1>7. CASE ToolReturns
  <2>1. Rest /\ Free
    BY <1>7, WorkingCall DEF ToolReturns
  <2> QED BY <1>1, <1>7, <2>1, ToolReturnsMoves
<1>8. CASE ToolThrows
  <2>1. Rest /\ Free /\ Moves
    BY <1>8, WorkFails, WorkingCall DEF ToolThrows
  <2> QED BY <1>1, <2>1
<1>9. CASE HookThrows
  <2>1. Rest /\ Free /\ Moves
    BY <1>9, WorkFails, WorkingCall DEF HookThrows
  <2> QED BY <1>1, <2>1
<1>10. CASE FinishCall
  <2>1. Rest /\ Free
    BY <1>10, WorkingCall DEF FinishCall
  <2> QED BY <1>1, <1>10, <2>1, FinishCallMoves
<1>11. CASE TooManyCalls \/ EndPhase
  <2>1. /\ UNCHANGED <<plan, call, handle, pending, answered, aborted, closed,
                       leaving, events, lost, presses, escapes>>
        /\ at = "next" /\ at' \in Ended
        /\ ui' = ui \/ ui' = [ui EXCEPT !.active = FALSE]
    BY <1>11 DEF TooManyCalls, EndPhase, channel, bounds, Ended
  <2>2. ui' \in UiType
    BY <2>1, UiTyped DEF IInv, TypeOK
  <2>3. TypeOK'
    BY <2>1, <2>2 DEF IInv, TypeOK, Places
  <2>4. Placed'
    BY <2>1 DEF IInv, Placed, InCall, Ended
  <2>5. HandlesFollowLoop' /\ OnlyAskersAsk'
    BY <2>1 DEF IInv, HandlesFollowLoop, OnlyAskersAsk, Ended
  <2>6. [Promised!PromiseNext]_(Promised!promiseVars)
    BY <2>1, IdleRefines
  <2> QED BY <2>3, <2>4, <2>5, <2>6 DEF IInv
<1> QED BY <1>2, <1>3, <1>4, <1>5, <1>6, <1>7, <1>8, <1>9, <1>10, <1>11
        DEF Step

\* The app's steps: the bridge, the user and the way out.
LEMMA AppGood ==
  ASSUME IInv,
         Deliver \/ Press \/ EscapeKey \/ Terminate \/ Shutdown \/ Cleanup
  PROVE  IInv' /\ [Promised!PromiseNext]_(Promised!promiseVars)
<1>1. /\ TypeOK /\ ui \in UiType /\ events \in Seq(EventType)
      /\ lost \in BOOLEAN
  BY DEF IInv, TypeOK
<1>2. CASE Deliver
  <2>1. /\ UNCHANGED <<plan, at, call, handle, pending, answered, aborted,
                       closed, leaving, lost, presses, escapes>>
        /\ events # <<>> /\ events' = Tail(events)
        /\ ui' = IF Head(events) = Other THEN ui ELSE Reduce(ui, Head(events))
    BY <1>2 DEF Deliver, runVars, bounds
  <2>2. events' \in Seq(EventType) /\ Head(events) \in EventType
    BY <1>1, <2>1, HeadTailProperties
  <2>3. ui' \in UiType
    BY <1>1, <2>1, <2>2, UiTyped
  <2>4. Flags /\ Others
    BY <2>1, <2>3 DEF IInv, TypeOK, Placed, Flags, Others
  <2> QED BY <1>1, <2>1, <2>2, <2>4, IdleInv, IdleRefines
<1>3. CASE Press
  <2>1. /\ UNCHANGED <<plan, aborted, closed, leaving, ui, escapes>>
        /\ presses' \in 0..MaxPresses
    BY <1>3 DEF Press, IInv, TypeOK
  <2>2. PICK approved \in BOOLEAN : Decide(ShownId, approved)
    BY <1>3 DEF Press
  <2>3. Others
    BY <2>1 DEF IInv, TypeOK, Others
  <2>4. CASE UNCHANGED <<runVars, channel>>
    <3>1. UNCHANGED <<at, call, handle, pending, answered, events, lost>>
      BY <2>4 DEF runVars, channel
    <3>2. Flags
      BY <2>1, <3>1 DEF IInv, TypeOK, Placed, Flags
    <3> QED BY <1>1, <2>1, <2>3, <3>1, <3>2, IdleInv, IdleRefines
  <2>5. CASE Move /\ Told /\ Waits /\ at' # "approval"
    <3>1. Flags
      BY <2>1, <2>5 DEF IInv, TypeOK, Placed, Flags
    <3> QED BY <2>1, <2>3, <2>5, <3>1, MoveInv, MoveRefines
  <2> QED BY <2>2, <2>4, <2>5, DecideMoves
<1>4. CASE EscapeKey
  <2>1. /\ UNCHANGED <<plan, at, call, handle, pending, answered, closed,
                       leaving, events, lost, presses>>
        /\ aborted' = TRUE /\ ui' = CancelLive(ui)
        /\ escapes' \in 0..MaxEscapes
    BY <1>4 DEF EscapeKey, runVars, channel, IInv, TypeOK
  <2>2. ui' \in UiType
    BY <1>1, <2>1, UiTyped
  <2>3. Flags /\ Others
    BY <2>1, <2>2 DEF IInv, TypeOK, Placed, Flags, Others
  <2> QED BY <1>1, <2>1, <2>3, IdleInv, IdleRefines
<1>5. CASE Terminate
  <2>1. /\ UNCHANGED <<plan, at, call, handle, pending, answered, closed,
                       events, lost, ui, presses, escapes>>
        /\ aborted' = TRUE /\ leaving' = "going"
    BY <1>5 DEF Terminate, runVars, channel, bounds
  <2>2. Flags /\ Others
    BY <2>1 DEF IInv, TypeOK, Placed, Flags, Others
  <2> QED BY <1>1, <2>1, <2>2, IdleInv, IdleRefines
<1>6. CASE Shutdown
  <2>1. /\ UNCHANGED <<plan, aborted, closed, presses, escapes>>
        /\ leaving = "going" /\ leaving' = "gone"
        /\ ui' = [CancelLive(ui) EXCEPT !.shown = 0]
    BY <1>6 DEF Shutdown, bounds
  <2>2. ui' \in UiType
    BY <1>1, <2>1, UiTyped
  <2>3. Others
    BY <2>1, <2>2 DEF IInv, TypeOK, Others
  <2>4. \/ Decide(ShownId, FALSE)
        \/ UNCHANGED <<runVars, channel>>
    BY <1>6 DEF Shutdown
  <2>5. CASE UNCHANGED <<runVars, channel>>
    <3>1. UNCHANGED <<at, call, handle, pending, answered, events, lost>>
      BY <2>5 DEF runVars, channel
    <3>2. Flags
      BY <2>1, <3>1 DEF IInv, TypeOK, Placed, Flags
    <3> QED BY <1>1, <2>1, <2>3, <3>1, <3>2, IdleInv, IdleRefines
  <2>6. CASE Move /\ Told /\ Waits /\ at' # "approval"
    <3>1. Flags
      BY <2>1, <2>6 DEF IInv, TypeOK, Placed, Flags
    <3> QED BY <2>1, <2>3, <2>6, <3>1, MoveInv, MoveRefines
  <2> QED BY <2>4, <2>5, <2>6, DecideMoves
<1>7. CASE Cleanup
  <2>1. /\ UNCHANGED <<plan, aborted, ui, presses, escapes>>
        /\ leaving = "gone" /\ leaving' = "left" /\ closed' = TRUE
        /\ pending' = {}
        /\ pending # {} => Fail(handle[call], <<>>)
        /\ pending = {} => UNCHANGED <<at, call, handle, answered, events,
               lost>>
    BY <1>7 DEF Cleanup, bounds, channel
  <2>2. Others
    BY <2>1 DEF IInv, TypeOK, Others
  <2>3. CASE pending = {}
    <3>1. at # "approval"
      BY <2>3 DEF IInv, Placed
    <3>2. Flags
      BY <2>1, <2>3, <3>1 DEF IInv, TypeOK, Placed, Flags
    <3> QED BY <1>1, <2>1, <2>2, <2>3, <3>2, IdleInv, IdleRefines
  <2>4. CASE pending # {}
    <3>1. Move /\ Told /\ Waits /\ at' # "approval"
      BY <2>1, <2>4, CleanupMoves
    <3>2. Flags
      BY <2>1, <3>1 DEF IInv, TypeOK, Placed, Flags
    <3> QED BY <2>1, <2>2, <3>1, <3>2, MoveInv, MoveRefines
  <2> QED BY <2>3, <2>4
<1> QED BY <1>2, <1>3, <1>4, <1>5, <1>6, <1>7

\* Every step keeps the invariant and is a step of the promise or stutters.
LEMMA NextGood ==
  ASSUME IInv, [Next]_vars
  PROVE  IInv' /\ [Promised!PromiseNext]_(Promised!promiseVars)
<1>1. CASE Next
  BY <1>1, StepGood, AppGood DEF Next
<1>2. CASE UNCHANGED vars
  <2>1. /\ UNCHANGED <<plan, at, call, handle, pending, answered, aborted,
                       closed, leaving, events, lost, ui, presses, escapes>>
    BY <1>2 DEF vars, runVars, channel, bounds
  <2>2. IInv'
    BY <2>1 DEF IInv, TypeOK, Placed, HandlesFollowLoop, OnlyAskersAsk
  <2> QED BY <2>1, <2>2, IdleRefines
<1> QED BY <1>1, <1>2

\* No call has been created, and nothing is promised yet.
LEMMA InitGood == Init => IInv /\ Promised!PromiseInit
<1> SUFFICES ASSUME Init PROVE IInv /\ Promised!PromiseInit
  OBVIOUS
<1>1. /\ plan \in [count : 1..MaxCalls, kind : [Calls -> Kinds],
                   resolver : BOOLEAN]
      /\ handle = [c \in Calls |-> NoHandle]
  BY DEF Init
<1>2. ui \in UiType
  BY DEF Init, UiType, CardStates
<1>3. TypeOK
  <2>1. answered \in Seq(Calls) /\ events \in Seq(EventType)
    BY Nothing DEF Init
  <2>2. handle \in [Calls -> HandleType]
    BY <1>1, FirstHandles
  <2>3. /\ at \in Places /\ call \in 1..(plan.count + 1)
        /\ pending \subseteq [id : {1}, call : Calls]
        /\ leaving \in {"no", "going", "gone", "left"}
        /\ presses \in 0..MaxPresses /\ escapes \in 0..MaxEscapes
    BY <1>1 DEF Init, Places
  <2>4. aborted \in BOOLEAN /\ closed \in BOOLEAN /\ lost \in BOOLEAN
    BY DEF Init
  <2> QED BY <1>1, <1>2, <2>1, <2>2, <2>3, <2>4 DEF TypeOK
<1>4. Placed /\ HandlesFollowLoop /\ OnlyAskersAsk
  BY <1>1, FirstHandles
  DEF Init, Placed, HandlesFollowLoop, OnlyAskersAsk, InCall
<1>5. Promised!PromiseInit
  <2>1. work = [c \in Calls |-> "waiting"]
    BY <1>1, FirstHandles DEF work, Became
  <2>2. Granted = {} /\ Asking \in SUBSET Calls
    BY <1>1, FirstHandles DEF Granted, Asking
  <2> QED BY <2>1, <2>2 DEF Init, Promised!PromiseInit, Granted, Asking
<1> QED BY <1>3, <1>4, <1>5 DEF IInv

\* The phase keeps its state well formed, and the loop, the broker, the
\* kernel's handles and the run's signal in step (execution.ts, approval.ts
\* and tool.rs), whatever the tools, the hooks, the user and a full event
\* channel do.
THEOREM LoopAndHandlesAgree == Spec => []IInv
<1>1. Init => IInv
  BY InitGood
<1>2. IInv /\ [Next]_vars => IInv'
  BY NextGood
<1> QED BY <1>1, <1>2, PTL DEF Spec

\* In particular every variable keeps its type, and the first approval id
\* (approval.rs) is the only one an execution uses.
THEOREM PhaseTyped == Spec => []TypeOK
<1>1. IInv => TypeOK
  BY DEF IInv
<1> QED BY <1>1, LoopAndHandlesAgree, PTL

\* The phase implements the promise: calls are taken in order and one at a
\* time, and no tool works before it was granted, if it must ask (tool.rs,
\* approval.ts), or once the run was aborted (execution.ts).
THEOREM PhaseKeepsPromise == Spec => KeepsPromise
<1>1. Init => Promised!PromiseInit
  BY InitGood
<1>2. IInv /\ [Next]_vars => [Promised!PromiseNext]_(Promised!promiseVars)
  BY NextGood
<1> QED BY <1>1, <1>2, LoopAndHandlesAgree, PTL
        DEF Spec, KeepsPromise, Promised!Promise

-----------------------------------------------------------------------------
(* What the session has answered.                                          *)

Answered == {answered[i] : i \in 1..Len(answered)}

\* OnlyRefusedUnanswered, at every point of the loop: the calls before the
\* one it is in are settled.  An abort may cut the loop between a call's
\* result and the next call.
AnsweredInv ==
  /\ \A i, j \in 1..Len(answered) : i < j => answered[i] < answered[j]
  /\ \A i \in 1..Len(answered) :
       answered[i] < call \/ (at = "cancelled" /\ answered[i] = call)
  /\ at = "cancelled" => aborted
  /\ at = "completed" => call > plan.count
  /\ ~aborted \/ at = "completed" =>
       \A c \in Calls :
         c < call => ((handle[c].approval = "rejected") <=> c \notin Answered)

\* What a step of the call `call` does to the answers.
AnswersNothing ==
  /\ answered' = answered
  /\ at' = "next" /\ ~aborted => handle'[call].approval = "rejected"
AnswersCall ==
  /\ answered' = Append(answered, call)
  /\ at' \in {"next", "cancelled"}
  /\ at' = "next" /\ ~aborted => handle'[call].approval # "rejected"
Answers ==
  /\ AnswersNothing \/ AnswersCall
  /\ at' = "cancelled" => aborted

\* The sequence of answers, one longer.
LEMMA AnswerAppended ==
  ASSUME NEW s \in Seq(Calls), NEW c \in Calls, NEW t, t = Append(s, c)
  PROVE  /\ t \in Seq(Calls) /\ Len(s) \in Nat /\ Len(t) = Len(s) + 1
         /\ \A i \in 1..Len(s) : t[i] = s[i] /\ i \in 1..Len(t)
         /\ t[Len(s) + 1] = c /\ Len(s) + 1 \in 1..Len(t)
         /\ \A i \in 1..Len(t) : i \in 1..Len(s) \/ i = Len(s) + 1
         /\ \A x : (\E i \in 1..Len(t) : t[i] = x)
                     <=> (\E i \in 1..Len(s) : s[i] = x) \/ x = c
<1>1. /\ Append(s, c) \in Seq(Calls) /\ Len(Append(s, c)) = Len(s) + 1
      /\ \A i \in 1..Len(s) : Append(s, c)[i] = s[i]
      /\ Append(s, c)[Len(s) + 1] = c /\ Len(s) \in Nat
  BY AppendProperties, LenProperties
<1>2. /\ t \in Seq(Calls) /\ Len(s) \in Nat /\ Len(t) = Len(s) + 1
      /\ \A i \in 1..Len(s) : t[i] = s[i] /\ i \in 1..Len(t)
      /\ t[Len(s) + 1] = c /\ Len(s) + 1 \in 1..Len(t)
      /\ \A i \in 1..Len(t) : i \in 1..Len(s) \/ i = Len(s) + 1
  BY <1>1
<1>3. ASSUME NEW x
      PROVE  (\E i \in 1..Len(t) : t[i] = x)
               <=> (\E i \in 1..Len(s) : s[i] = x) \/ x = c
  <2>1. ASSUME NEW i \in 1..Len(t), t[i] = x
        PROVE  (\E k \in 1..Len(s) : s[k] = x) \/ x = c
    BY <1>2, <2>1
  <2>2. ASSUME NEW i \in 1..Len(s), s[i] = x
        PROVE  \E k \in 1..Len(t) : t[k] = x
    BY <1>2, <2>2
  <2>3. x = c => \E k \in 1..Len(t) : t[k] = x
    BY <1>2
  <2> QED BY <2>1, <2>2, <2>3
<1> QED BY <1>2, <1>3

\* A move that answers rightly keeps the answers in order and complete.
LEMMA MoveAnswered ==
  ASSUME IInv, AnsweredInv, at \notin Ended, Move, Answers,
         UNCHANGED <<plan, aborted>>
  PROVE  AnsweredInv'
<1>1. PICK g : Moved(g)
  BY DEF Move
<1>2. /\ call \in Calls /\ handle \in [Calls -> HandleType]
      /\ handle' = [handle EXCEPT ![call] = g] /\ GoesOn(g)
      /\ answered \in Seq(Calls)
  BY <1>1 DEF Move, Moved, IInv, TypeOK
<1>3. /\ handle'[call] = g
      /\ \A c \in Calls : c # call => handle'[c] = handle[c]
  BY <1>2
<1>4. /\ at # "cancelled" /\ at # "completed" /\ at' # "completed"
      /\ at' = "cancelled" => aborted
      /\ at' = "next" => call' = call + 1
      /\ at' # "next" => call' = call
      /\ \A i \in 1..Len(answered) : answered[i] < call
  BY <1>2 DEF Ended, GoesOn, Answers, AnsweredInv
<1>5. ASSUME ~aborted
      PROVE  \A c \in Calls :
               c < call =>
                 ((handle[c].approval = "rejected") <=> c \notin Answered)
  BY <1>5 DEF AnsweredInv
<1>6. CASE AnswersNothing
  <2>1. answered' = answered
    BY <1>6 DEF AnswersNothing
  <2>2. \A i \in 1..Len(answered) : answered[i] < call'
    <3>1. \A i \in 1..Len(answered) : answered[i] \in Nat /\ call \in Nat
      BY <1>2, ElementOfSeq
    <3> QED BY <1>4, <3>1
  <2>3. ASSUME ~aborted, NEW c \in Calls, c < call'
        PROVE  (handle'[c].approval = "rejected") <=> c \notin Answered
    <3>1. CASE c < call
      <4>1. handle'[c] = handle[c]
        BY <1>3, <3>1
      <4>2. (handle[c].approval = "rejected") <=> c \notin Answered
        BY <1>5, <2>3, <3>1
      <4> QED BY <4>1, <4>2
    <3>2. CASE c = call
      <4>1. at' = "next"
        BY <1>2, <1>4, <2>3, <3>2
      <4>2. handle'[c].approval = "rejected"
        BY <1>6, <2>3, <3>2, <4>1 DEF AnswersNothing
      <4>3. c \notin Answered
        BY <1>4, <3>2 DEF Answered
      <4> QED BY <4>2, <4>3
    <3> QED BY <1>2, <1>4, <2>3, <3>1, <3>2
  <2> QED BY <1>4, <2>1, <2>2, <2>3 DEF AnsweredInv, Answered
<1>7. CASE AnswersCall
  <2>o. PICK s \in Seq(Calls), t \in Seq(Calls) :
          s = answered /\ t = Append(s, call)
    BY <1>2, AppendProperties
  <2>1. answered' = t /\ at' \in {"next", "cancelled"}
    BY <1>7, <2>o DEF AnswersCall
  <2>2. /\ Len(s) \in Nat /\ Len(t) = Len(s) + 1
        /\ \A i \in 1..Len(s) : t[i] = s[i] /\ i \in 1..Len(t)
        /\ t[Len(s) + 1] = call
        /\ \A i \in 1..Len(t) : i \in 1..Len(s) \/ i = Len(s) + 1
        /\ \A x : (\E i \in 1..Len(t) : t[i] = x)
                    <=> (\E i \in 1..Len(s) : s[i] = x) \/ x = call
    BY <1>2, <2>o, AnswerAppended
  <2>3. \A i \in 1..Len(s) : s[i] < call
    BY <1>4, <2>o
  <2>4. \A i, j \in 1..Len(t) : i < j => t[i] < t[j]
    <3> SUFFICES ASSUME NEW i \in 1..Len(t), NEW j \in 1..Len(t), i < j
                 PROVE  t[i] < t[j]
      OBVIOUS
    <3>1. i \in 1..Len(s)
      BY <2>2
    <3>2. CASE j \in 1..Len(s)
      BY <2>2, <2>o, <3>1, <3>2 DEF AnsweredInv
    <3>3. CASE j = Len(s) + 1
      BY <2>2, <2>3, <3>1, <3>3
    <3> QED BY <2>2, <3>2, <3>3
  <2>5. \A i \in 1..Len(t) : t[i] < call' \/ (at' = "cancelled" /\ t[i] = call')
    <3> TAKE i \in 1..Len(t)
    <3>1. t[i] <= call /\ t[i] \in Nat
      <4>1. CASE i \in 1..Len(s)
        <5>1. s[i] \in Calls
          BY <4>1, <2>o, ElementOfSeq
        <5>2. t[i] = s[i] /\ s[i] < call
          BY <2>2, <2>3, <4>1
        <5> QED BY <1>2, <5>1, <5>2
      <4>2. CASE i = Len(s) + 1
        BY <1>2, <2>2, <4>2
      <4> QED BY <2>2, <4>1, <4>2
    <3> QED BY <1>2, <1>4, <2>1, <3>1
  <2>6. ASSUME ~aborted, NEW c \in Calls, c < call'
        PROVE  (handle'[c].approval = "rejected")
                 <=> ~\E i \in 1..Len(t) : t[i] = c
    <3>1. CASE c < call
      <4>1. handle'[c] = handle[c]
        BY <1>2, <1>3, <3>1
      <4>2. (handle[c].approval = "rejected") <=> c \notin Answered
        BY <1>5, <2>6, <3>1
      <4>3. c \in Answered <=> \E i \in 1..Len(s) : s[i] = c
        BY <2>o DEF Answered
      <4>4. (\E i \in 1..Len(t) : t[i] = c)
              <=> (\E i \in 1..Len(s) : s[i] = c)
        <5>1. c # call
          BY <1>2, <3>1
        <5>2. \A x : (\E i \in 1..Len(t) : t[i] = x)
                      <=> (\E i \in 1..Len(s) : s[i] = x) \/ x = call
          BY <2>2
        <5> QED BY ONLY <5>1, <5>2, Zenon
      <4> QED BY <4>1, <4>2, <4>3, <4>4
    <3>2. CASE c = call
      <4>1. at' = "next"
        BY <1>2, <1>4, <2>6, <3>2
      <4>2. handle'[c].approval # "rejected"
        BY <1>7, <2>6, <3>2, <4>1 DEF AnswersCall
      <4> QED BY <2>2, <3>2, <4>2
    <3> QED BY <1>2, <1>4, <2>6, <3>1, <3>2
  <2>7. ~aborted =>
          \A c \in Calls :
            c < call' =>
              ((handle'[c].approval = "rejected")
                 <=> c \notin {t[i] : i \in 1..Len(t)})
    BY <2>6
  <2> QED BY <1>4, <2>1, <2>4, <2>5, <2>7 DEF AnsweredInv, Answered
<1> QED BY <1>6, <1>7 DEF Answers
\* fail() answers a call, unless it was aborted or refused before.
LEMMA FailAnswers ==
  ASSUME TypeOK, call \in Calls, NEW h \in HandleType, NEW es, Fail(h, es),
         Terminal(h) <=> h.approval = "rejected"
  PROVE  Answers
<1>1. handle \in [Calls -> HandleType]
  BY DEF TypeOK
<1>2. h.approval # "rejected" => FailHandle(h).approval # "rejected"
  BY DEF HandleType, FailHandle, Withdrawn
<1>3. CASE aborted
  BY <1>3 DEF Fail, Answers, AnswersNothing
<1>4. CASE ~aborted /\ Terminal(h)
  <2>1. handle' = [handle EXCEPT ![call] = h] /\ answered' = answered
    BY <1>4 DEF Fail
  <2>2. at' = "next"
    BY <1>4 DEF Fail, GoOn
  <2> QED BY <1>1, <1>4, <2>1, <2>2 DEF Answers, AnswersNothing
<1>5. CASE ~aborted /\ ~Terminal(h)
  <2>1. /\ handle' = [handle EXCEPT ![call] = FailHandle(h)]
        /\ answered' = Append(answered, call)
    BY <1>5 DEF Fail
  <2>2. at' = "next"
    BY <1>5 DEF Fail, GoOn
  <2> QED BY <1>1, <1>2, <1>5, <2>1, <2>2 DEF Answers, AnswersCall
<1> QED BY <1>3, <1>4, <1>5

\* Beginning to work answers nothing yet.
LEMMA WorkAnswers ==
  ASSUME TypeOK, call \in Calls, NEW h \in HandleType, NEW es, Work(h, es),
         ~Terminal(h), h.approval # "rejected"
  PROVE  Answers
<1> DEFINE told == es \o <<Event("started", call), Other>>
<1>1. /\ Start(h) \in HandleType /\ ~Terminal(Start(h))
      /\ Start(h).approval # "rejected"
  BY DEF HandleType, LifecycleStates, Start, Terminal
<1> HIDE DEF told
<1>2. CASE aborted
  BY <1>2, FailAnswers DEF Work
<1>3. CASE ~aborted /\ ~Fits(told)
  <2>1. Fail(Start(h), told)
    BY <1>3 DEF Work, told
  <2> QED BY <1>1, <2>1, FailAnswers
<1>4. CASE ~aborted /\ Fits(told)
  <2>1. at' = "working" /\ answered' = answered
    BY <1>4 DEF Work, told
  <2> QED BY <2>1 DEF Answers, AnswersNothing
<1> QED BY <1>2, <1>3, <1>4

\* A refusal is the decision that leaves a call unanswered.
LEMMA DecisionAnswers ==
  ASSUME IInv, at = "approval", NEW approved \in BOOLEAN,
         TakeDecision(1, approved)
  PROVE  Answers
<1> DEFINE h == Resolve(handle[call], 1, approved)
           es == <<Resolved(call, approved)>>
<1>1. /\ TypeOK /\ call \in Calls /\ handle[call] = Asked
      /\ handle \in [Calls -> HandleType]
  BY DEF IInv, TypeOK, Placed, HandlesFollowLoop, InCall
<1>2. /\ h \in HandleType
      /\ approved => h.state = "prepared" /\ h.approval = "approved"
      /\ ~approved => h.state = "failed" /\ h.approval = "rejected"
  BY <1>1, Decided
<1>3. Terminal(h) <=> h.approval = "rejected"
  BY <1>2 DEF Terminal
<1>4. /\ ~Fits(es) => Fail(h, es)
      /\ Fits(es) /\ approved => Work(h, es)
      /\ Fits(es) /\ ~approved =>
           handle' = [handle EXCEPT ![call] = h] /\ GoOn /\ UNCHANGED answered
  BY DEF TakeDecision
<1> HIDE DEF h, es
<1>5. CASE ~Fits(es)
  BY <1>1, <1>2, <1>3, <1>4, <1>5, FailAnswers
<1>6. CASE Fits(es) /\ approved
  BY <1>1, <1>2, <1>3, <1>4, <1>6, WorkAnswers
<1>7. CASE Fits(es) /\ ~approved
  BY <1>1, <1>2, <1>4, <1>7 DEF GoOn, Answers, AnswersNothing
<1> QED BY <1>5, <1>6, <1>7

\* Every step of the loop answers rightly.
LEMMA StepAnswers ==
  ASSUME IInv, Step, at # "next" \/ AnswerUnknown \/ BeginCall
  PROVE  Answers
<1>a. TypeOK /\ handle \in [Calls -> HandleType]
  BY DEF IInv, TypeOK
<1>b. call \in Calls
  <2>1. /\ call \in 1..(plan.count + 1) /\ plan.count \in 1..MaxCalls
        /\ MaxCalls \in Nat
    BY <1>a, ToolCallsAssumption DEF TypeOK
  <2>2. at \in InCall => call <= plan.count
    BY DEF IInv, Placed
  <2>3. call <= plan.count
    BY <2>2 DEF InCall, Step, AnswerUnknown, BeginCall,
                TooManyCalls, EndPhase, HookRefuses, BeginWork, AskApproval,
                ToolReturns, ToolThrows, HookThrows, FinishCall
  <2> QED BY ONLY <2>1, <2>3 DEF Calls
<1>1. TypeOK /\ call \in Calls /\ handle \in [Calls -> HandleType]
  BY <1>a, <1>b
<1>2. /\ NewHandle \in HandleType /\ Prepared(NewHandle) \in HandleType
      /\ ~Terminal(NewHandle) /\ ~Terminal(Prepared(NewHandle))
      /\ NewHandle.approval = "none" /\ Prepared(NewHandle).approval = "none"
  BY FirstHandles DEF Terminal
<1>3. Asked \in HandleType /\ ~Terminal(Asked) /\ Asked.approval = "pending"
  BY AskedHandle DEF Terminal
<1>4. ASSUME at = "before", Fail(handle[call], <<>>)
      PROVE  Answers
  BY <1>1, <1>2, <1>4, NewCall, FailAnswers
<1>5. ASSUME at \in {"working", "after"}, Fail(handle[call], <<>>)
      PROVE  Answers
  <2>1. /\ handle[call] \in HandleType /\ ~Terminal(handle[call])
        /\ handle[call].approval # "rejected"
    BY <1>5, WorkingCall DEF AtWork
  <2> QED BY <1>1, <1>5, <2>1, FailAnswers
<1>6. CASE AnswerUnknown
  <2> DEFINE f == FinishHandle(NewHandle)
             g == FailHandle(Start(Prepared(NewHandle)))
  <2>1. f.approval = "none"
    BY <1>2 DEF HandleType, FinishHandle
  <2>2. /\ Start(Prepared(NewHandle)) \in HandleType
        /\ Start(Prepared(NewHandle)).approval = "none"
    BY <1>2 DEF HandleType, LifecycleStates, Start
  <2>3. g.approval = "none"
    BY <2>2 DEF HandleType, FailHandle, Withdrawn
  <2> HIDE DEF f, g
  <2>4. \E w \in {f, g} : handle' = [handle EXCEPT ![call] = w]
    BY <1>6 DEF AnswerUnknown, f, g
  <2>5. answered' = Append(answered, call) /\ at' = "next"
    BY <1>6 DEF AnswerUnknown, GoOn
  <2> QED BY <1>1, <2>1, <2>3, <2>4, <2>5 DEF Answers, AnswersCall
<1>7. CASE BeginCall
  BY <1>7 DEF BeginCall, Answers, AnswersNothing
<1>8. CASE HookRefuses
  BY <1>4, <1>8 DEF HookRefuses
<1>9. CASE BeginWork
  <2>1. at = "before" /\ handle[call] = NewHandle
    BY <1>9, NewCall DEF BeginWork
  <2>2. Fail(handle[call], <<>>) \/ Work(Prepared(handle[call]), <<>>)
    BY <1>9 DEF BeginWork
  <2>3. CASE Work(Prepared(handle[call]), <<>>)
    BY <1>1, <1>2, <2>1, <2>3, WorkAnswers
  <2> QED BY <1>4, <2>1, <2>2, <2>3
<1>10. CASE AskApproval
  <2> DEFINE es == <<Event("requested", call)>>
  <2>1. at = "before" /\ RequestApproval(Prepared(handle[call])) = Asked
    BY <1>10, NewCall DEF AskApproval, Asked
  <2>2. FailHandle(Asked).approval = "cancelled"
    BY <1>3 DEF HandleType, FailHandle, Withdrawn
  <2>3. \/ Fail(handle[call], <<>>)
        \/ Fail(Asked, es)
        \/ /\ handle' = [handle EXCEPT ![call] = FailHandle(Asked)]
           /\ answered' = Append(answered, call)
           /\ (at' = "cancelled" /\ aborted) \/ at' = "next"
        \/ at' = "approval" /\ answered' = answered
    BY <1>10, <2>1 DEF AskApproval, GoOn
  <2> HIDE DEF es
  <2>4. CASE Fail(Asked, es)
    BY <1>1, <1>3, <2>4, FailAnswers
  <2>5. CASE /\ handle' = [handle EXCEPT ![call] = FailHandle(Asked)]
             /\ answered' = Append(answered, call)
             /\ (at' = "cancelled" /\ aborted) \/ at' = "next"
    BY <1>1, <2>2, <2>5 DEF Answers, AnswersCall
  <2>6. CASE at' = "approval" /\ answered' = answered
    BY <2>6 DEF Answers, AnswersNothing
  <2> QED BY <1>4, <2>1, <2>3, <2>4, <2>5, <2>6
<1>11. CASE ToolReturns
  BY <1>11 DEF ToolReturns, Answers, AnswersNothing
<1>12. CASE ToolThrows \/ HookThrows
  BY <1>5, <1>12 DEF ToolThrows, HookThrows
<1>13. CASE FinishCall
  <2> DEFINE h == FinishHandle(handle[call])
  <2>1. at = "after" /\ (Fail(handle[call], <<>>) \/
          (/\ handle' = [handle EXCEPT ![call] = h]
           /\ answered' = Append(answered, call)
           /\ (at' = "cancelled" /\ aborted) \/ at' = "next"))
    BY <1>13 DEF FinishCall, GoOn
  <2>2. h.approval # "rejected"
    BY <2>1, WorkingCall DEF HandleType, FinishHandle, AtWork
  <2> HIDE DEF h
  <2>3. CASE /\ handle' = [handle EXCEPT ![call] = h]
             /\ answered' = Append(answered, call)
             /\ (at' = "cancelled" /\ aborted) \/ at' = "next"
    BY <1>1, <2>2, <2>3 DEF Answers, AnswersCall
  <2> QED BY <1>5, <2>1, <2>3
<1>14. CASE TooManyCalls \/ EndPhase
  BY <1>14, <1>6, <1>7 DEF TooManyCalls, EndPhase
<1> QED BY <1>6, <1>7, <1>8, <1>9, <1>10, <1>11, <1>12, <1>13, <1>14 DEF Step

\* Nothing else touches the answers; an abort excuses what is not settled.
LEMMA IdleAnswered ==
  ASSUME AnsweredInv, UNCHANGED <<plan, at, call, handle, answered>>,
         aborted' = aborted \/ aborted' = TRUE
  PROVE  AnsweredInv'
BY DEF AnsweredInv, Answered

\* Nor does a decision but through the call that waits for it.
LEMMA DecideAnswered ==
  ASSUME IInv, AnsweredInv, NEW id, NEW approved \in BOOLEAN,
         Decide(id, approved), UNCHANGED <<plan, aborted>>
  PROVE  AnsweredInv'
<1>1. CASE UNCHANGED <<runVars, channel>>
  <2>1. UNCHANGED <<plan, at, call, handle, answered>>
    BY <1>1 DEF runVars
  <2> QED BY <2>1, IdleAnswered
<1>2. CASE ~UNCHANGED <<runVars, channel>>
  <2>1. Move /\ at = "approval"
    BY <1>2, DecideMoves
  <2>2. pending = {AskedOf(call)}
    BY <2>1 DEF IInv, Placed
  <2>3. TakeDecision(1, approved)
    BY <1>2, <2>2, AskedHandle DEF Decide, AskedOf
  <2>4. Answers
    BY <2>1, <2>3, DecisionAnswers
  <2> QED BY <2>1, <2>4, MoveAnswered DEF Ended
<1> QED BY <1>1, <1>2
\* Every step keeps the answers in order, and complete as far as they go.
LEMMA NextAnswered ==
  ASSUME IInv, AnsweredInv, [Next]_vars
  PROVE  AnsweredInv'
<1>1. CASE TooManyCalls \/ EndPhase
  <2>1. /\ UNCHANGED <<plan, call, handle, answered, aborted>>
        /\ at = "next" /\ at' # "next"
        /\ at' = "cancelled" => aborted
        /\ at' = "completed" => call > plan.count /\ ~aborted
    BY <1>1 DEF TooManyCalls, EndPhase
  <2>2. \A i \in 1..Len(answered) : answered[i] < call
    BY <2>1 DEF AnsweredInv
  <2> QED BY <2>1, <2>2 DEF AnsweredInv, Answered
<1>2. CASE Step /\ ~(TooManyCalls \/ EndPhase)
  <2>1. Move /\ at \notin Ended
    BY <1>2, AnswerUnknownMoves, BeginCallMoves, NewCallFails,
       BeginWorkMoves, AskApprovalMoves, ToolReturnsMoves, WorkFails,
       FinishCallMoves
    DEF Step, AnswerUnknown, BeginCall, HookRefuses, BeginWork, AskApproval,
        ToolReturns, ToolThrows, HookThrows, FinishCall, Ended
  <2>2. UNCHANGED <<plan, aborted>>
    BY <1>2 DEF Step, AnswerUnknown, BeginCall, HookRefuses, BeginWork,
       AskApproval, ToolReturns, ToolThrows, HookThrows, FinishCall
  <2>3. at # "next" \/ AnswerUnknown \/ BeginCall
    BY <1>2 DEF Step, HookRefuses, BeginWork, AskApproval,
       ToolReturns, ToolThrows, HookThrows, FinishCall
  <2>4. Answers
    BY <1>2, <2>3, StepAnswers
  <2> QED BY <2>1, <2>2, <2>4, MoveAnswered
<1>3. CASE Deliver \/ EscapeKey \/ Terminate \/ UNCHANGED vars
  <2>1. /\ UNCHANGED <<plan, at, call, handle, answered>>
        /\ aborted' = aborted \/ aborted' = TRUE
    BY <1>3 DEF Deliver, EscapeKey, Terminate, vars, runVars
  <2> QED BY <2>1, IdleAnswered
<1>4. CASE Press
  <2>1. PICK approved \in BOOLEAN : Decide(ShownId, approved)
    BY <1>4 DEF Press
  <2>2. UNCHANGED <<plan, aborted>>
    BY <1>4 DEF Press
  <2> QED BY <2>1, <2>2, DecideAnswered
<1>5. CASE Shutdown
  <2>1. UNCHANGED <<plan, aborted>>
    BY <1>5 DEF Shutdown
  <2>2. CASE Decide(ShownId, FALSE)
    BY <2>1, <2>2, DecideAnswered
  <2>3. CASE UNCHANGED <<runVars, channel>>
    <3>1. UNCHANGED <<plan, at, call, handle, answered>>
      BY <2>1, <2>3 DEF runVars
    <3> QED BY <2>1, <3>1, IdleAnswered
  <2> QED BY <1>5, <2>2, <2>3 DEF Shutdown
<1>6. CASE Cleanup
  <2>1. UNCHANGED <<plan, aborted>>
    BY <1>6 DEF Cleanup
  <2>2. CASE pending = {}
    <3>1. UNCHANGED <<plan, at, call, handle, answered>>
      BY <1>6, <2>1, <2>2 DEF Cleanup
    <3> QED BY <2>1, <3>1, IdleAnswered
  <2>3. CASE pending # {}
    <3>1. Fail(handle[call], <<>>) /\ pending' = {} /\ leaving = "gone"
      BY <1>6, <2>3 DEF Cleanup
    <3>2. /\ at = "approval" /\ TypeOK /\ call \in Calls
          /\ handle[call] = Asked
      BY <2>3 DEF IInv, TypeOK, Placed, HandlesFollowLoop, InCall
    <3>3. Asked \in HandleType /\ ~Terminal(Asked) /\ Asked.approval = "pending"
      BY AskedHandle DEF Terminal
    <3>4. Answers
      BY <3>1, <3>2, <3>3, FailAnswers
    <3>5. Move
      BY <2>3, <3>1, CleanupMoves
    <3> QED BY <2>1, <3>2, <3>4, <3>5, MoveAnswered DEF Ended
  <2> QED BY <2>2, <2>3
<1> QED BY <1>1, <1>2, <1>3, <1>4, <1>5, <1>6 DEF Next

\* The session answers the calls of a reply in the model's order and never
\* twice, and a completed phase leaves only refused calls unanswered
\* (execution.ts, session.rs), whatever fails or is refused on the way.
THEOREM RefusedCallsOnly == Spec => []OnlyRefusedUnanswered
<1>1. Init => AnsweredInv
  BY DEF Init, AnsweredInv, Answered
<1>2. IInv /\ AnsweredInv /\ [Next]_vars => AnsweredInv'
  BY NextAnswered
<1>3. IInv /\ AnsweredInv => OnlyRefusedUnanswered
  <2> SUFFICES ASSUME IInv, AnsweredInv PROVE OnlyRefusedUnanswered
    OBVIOUS
  <2>1. ASSUME at = "completed", NEW c \in 1..plan.count
        PROVE  (handle[c].approval = "rejected") <=> c \notin Answered
    <3>1. c \in Calls /\ c < call
      BY <2>1 DEF IInv, TypeOK, AnsweredInv
    <3> QED BY <2>1, <3>1 DEF AnsweredInv
  <2> QED BY <2>1 DEF OnlyRefusedUnanswered, AnsweredInv, Answered
<1> QED BY <1>1, <1>2, <1>3, LoopAndHandlesAgree, PTL DEF Spec
-----------------------------------------------------------------------------
(* The prompt the app shows.                                               *)

\* The events that change it, and what each of them makes the app show.
IsPrompt(e) == e.kind \in {"requested", "resolved"}
Shows(e) == IF e.kind = "requested" THEN e.call ELSE 0

\* The last of the events that do is about target; or none of them does.
Says(es, target) ==
  \E i \in 1..Len(es) :
    /\ IsPrompt(es[i]) /\ Shows(es[i]) = target
    /\ \A j \in 1..Len(es) : j > i => ~IsPrompt(es[j])
Plain(es) == \A i \in 1..Len(es) : ~IsPrompt(es[i])

\* So the app, which shows one call and has yet to hear es, will show target.
Foretold(es, shown, target) ==
  Says(es, target) \/ (Plain(es) /\ shown = target)

\* PromptMatchesBroker, while the app has not heard everything yet.
AskedCall == IF at = "approval" THEN call ELSE 0
PromptInv ==
  leaving = "no" /\ ~lost /\ plan.resolver =>
    Foretold(events, ui.shown, AskedCall)

\* Plain events do not change what is foretold.
LEMMA ForetoldStill ==
  ASSUME NEW s \in Seq(EventType), NEW a \in Seq(EventType), NEW new,
         new = s \o a, Plain(a), NEW x, NEW t, Foretold(s, x, t)
  PROVE  Foretold(new, x, t)
<1>1. /\ Len(s) \in Nat /\ Len(a) \in Nat /\ Len(new) = Len(s) + Len(a)
      /\ \A i \in 1..Len(s) : new[i] = s[i]
      /\ \A i \in 1..Len(a) : new[Len(s) + i] = a[i]
  BY ConcatProperties, LenProperties
<1>2. \A j \in 1..Len(new) : j > Len(s) => ~IsPrompt(new[j])
  <2> TAKE j \in 1..Len(new)
  <2> HAVE j > Len(s)
  <2>1. j - Len(s) \in 1..Len(a) /\ new[j] = a[j - Len(s)]
    BY <1>1
  <2> QED BY <2>1 DEF Plain
<1>3. CASE Plain(s) /\ x = t
  <2>1. Plain(new)
    BY <1>1, <1>2, <1>3 DEF Plain
  <2> QED BY <1>3, <2>1 DEF Foretold
<1>4. CASE Says(s, t)
  <2>1. PICK i \in 1..Len(s) :
          /\ IsPrompt(s[i]) /\ Shows(s[i]) = t
          /\ \A j \in 1..Len(s) : j > i => ~IsPrompt(s[j])
    BY <1>4 DEF Says
  <2>2. i \in 1..Len(new) /\ new[i] = s[i]
    BY <1>1
  <2>3. \A j \in 1..Len(new) : j > i => ~IsPrompt(new[j])
    <3> SUFFICES ASSUME NEW j \in 1..Len(new), j > i
                 PROVE  ~IsPrompt(new[j])
      OBVIOUS
    <3>1. CASE j <= Len(s)
      <4>1. j \in 1..Len(s) /\ new[j] = s[j]
        BY <1>1, <3>1
      <4> QED BY <2>1, <4>1
    <3>2. CASE j > Len(s)
      BY <1>2, <3>2
    <3> QED BY <1>1, <3>1, <3>2
  <2> QED BY <2>1, <2>2, <2>3 DEF Says, Foretold
<1> QED BY <1>3, <1>4 DEF Foretold

\* What the last prompt of the new events is about is foretold at once.
LEMMA ForetoldAnew ==
  ASSUME NEW s \in Seq(EventType), NEW a \in Seq(EventType), NEW new,
         new = s \o a, NEW t, Says(a, t), NEW x
  PROVE  Foretold(new, x, t)
<1>1. /\ Len(s) \in Nat /\ Len(a) \in Nat /\ Len(new) = Len(s) + Len(a)
      /\ \A i \in 1..Len(a) : new[Len(s) + i] = a[i]
  BY ConcatProperties, LenProperties
<1>2. PICK i \in 1..Len(a) :
        /\ IsPrompt(a[i]) /\ Shows(a[i]) = t
        /\ \A j \in 1..Len(a) : j > i => ~IsPrompt(a[j])
  BY DEF Says
<1>3. Len(s) + i \in 1..Len(new) /\ new[Len(s) + i] = a[i]
  BY <1>1
<1>4. \A j \in 1..Len(new) : j > Len(s) + i => ~IsPrompt(new[j])
  <2> TAKE j \in 1..Len(new)
  <2> HAVE j > Len(s) + i
  <2>1. /\ j - Len(s) \in 1..Len(a) /\ j - Len(s) > i
        /\ new[j] = a[j - Len(s)]
    BY <1>1
  <2> QED BY <1>2, <2>1
<1>5. Says(new, t)
  BY <1>2, <1>3, <1>4 DEF Says
<1> QED BY <1>5 DEF Foretold

\* Hearing an event fulfils its part.
LEMMA ForetoldHeard ==
  ASSUME NEW s \in Seq(EventType), s # <<>>, NEW new, new = Tail(s),
         NEW x, NEW t, Foretold(s, x, t),
         NEW y, y = IF IsPrompt(s[1]) THEN Shows(s[1]) ELSE x
  PROVE  Foretold(new, y, t)
<1>1. /\ Len(s) \in Nat \ {0} /\ Len(new) = Len(s) - 1
      /\ \A i \in 1..Len(new) : new[i] = s[i + 1]
  BY HeadTailProperties, EmptySeq, LenProperties
<1>2. CASE Plain(s) /\ x = t
  <2>1. Plain(new) /\ y = x
    BY <1>1, <1>2 DEF Plain
  <2> QED BY <1>2, <2>1 DEF Foretold
<1>3. CASE Says(s, t)
  <2>1. PICK i \in 1..Len(s) :
          /\ IsPrompt(s[i]) /\ Shows(s[i]) = t
          /\ \A j \in 1..Len(s) : j > i => ~IsPrompt(s[j])
    BY <1>3 DEF Says
  <2>2. CASE i = 1
    <3>1. Plain(new)
      <4> SUFFICES ASSUME NEW j \in 1..Len(new) PROVE ~IsPrompt(new[j])
        BY DEF Plain
      <4>1. j + 1 \in 1..Len(s) /\ j + 1 > i /\ new[j] = s[j + 1]
        BY <1>1, <2>2
      <4> QED BY <2>1, <4>1
    <3>2. y = t
      BY <2>1, <2>2
    <3> QED BY <3>1, <3>2 DEF Foretold
  <2>3. CASE i # 1
    <3>1. i - 1 \in 1..Len(new) /\ new[i - 1] = s[i]
      BY <1>1, <2>3
    <3>2. \A j \in 1..Len(new) : j > i - 1 => ~IsPrompt(new[j])
      <4> TAKE j \in 1..Len(new)
      <4> HAVE j > i - 1
      <4>1. j + 1 \in 1..Len(s) /\ j + 1 > i /\ new[j] = s[j + 1]
        BY <1>1
      <4> QED BY <2>1, <4>1
    <3> QED BY <2>1, <3>1, <3>2 DEF Says, Foretold
  <2> QED BY <2>2, <2>3
<1> QED BY <1>2, <1>3 DEF Foretold

\* The reducer shows what the event says, and nothing else moves the prompt.
LEMMA ReduceShows ==
  ASSUME NEW u \in UiType, NEW e \in EventType
  PROVE  (IF e = Other THEN u ELSE Reduce(u, e)).shown =
           IF IsPrompt(e) THEN Shows(e) ELSE u.shown
<1>1. CASE e = Other
  BY <1>1 DEF Other, Event, IsPrompt
<1>2. CASE e # Other
  <2>1. /\ e.kind \in {"requested", "resolved", "started", "result"}
        /\ e.call \in Calls /\ e.ok \in BOOLEAN
    BY <1>2 DEF EventType
  <2> DEFINE v == [u EXCEPT !.active = TRUE]
  <2>2. v \in UiType /\ v.shown = u.shown
    BY DEF UiType
  <2>3. \A state \in CardStates : /\ SetCard(v, e.call, state) \in UiType
                                  /\ SetCard(v, e.call, state).shown = u.shown
    BY <2>1, <2>2 DEF SetCard, UiType, CardStates
  <2>4. CASE e.kind = "requested"
    <3> DEFINE w == SetCard(v, e.call, "pendingApproval")
    <3>1. Reduce(u, e) = [w EXCEPT !.shown = e.call] /\ w \in UiType
      BY <2>3, <2>4 DEF Reduce, CardStates
    <3> HIDE DEF v, w
    <3> QED BY <1>2, <2>4, <3>1 DEF UiType, IsPrompt, Shows
  <2>5. CASE e.kind = "resolved"
    <3> DEFINE w == SetCard(v, e.call,
                            IF e.ok THEN "running" ELSE "cancelled")
    <3>1. \E f : Reduce(u, e) = [w EXCEPT !.shown = 0, !.frozen = f]
      BY <2>5 DEF Reduce
    <3>2. w \in UiType
      BY <2>3 DEF CardStates
    <3> HIDE DEF v, w
    <3> QED BY <1>2, <2>5, <3>1, <3>2 DEF UiType, IsPrompt, Shows
  <2>6. CASE e.kind = "started"
    <3>1. Reduce(u, e) = [v EXCEPT !.card[e.call] = "running"]
      BY <2>6 DEF Reduce
    <3> HIDE DEF v
    <3> QED BY <1>2, <2>2, <2>6, <3>1 DEF UiType, IsPrompt
  <2>7. CASE e.kind = "result"
    <3> DEFINE w == SetCard(v, e.call, IF e.ok THEN "finished" ELSE "failed")
    <3>1. \E f : Reduce(u, e) = [w EXCEPT !.frozen = f]
      BY <2>7 DEF Reduce
    <3>2. w \in UiType /\ w.shown = u.shown
      BY <2>3 DEF CardStates
    <3> HIDE DEF v, w
    <3> QED BY <1>2, <2>7, <3>1, <3>2 DEF UiType, IsPrompt
  <2> QED BY <2>1, <2>4, <2>5, <2>6, <2>7
<1> QED BY <1>1, <1>2
\* What a step says: nothing the app will be told, which the session knows;
\* or events that keep the prompt it foretells, or foretell one for t.
Speaks(t) ==
  /\ lost => lost'
  /\ lost' \/ \E a \in Seq(EventType) :
                /\ events' = events \o a
                /\ Says(a, t) \/ (Plain(a) /\ t = AskedCall)

\* What speaks keeps the prompt foretold.
LEMMA PromptKept ==
  ASSUME TypeOK, PromptInv, plan.resolver => Speaks(AskedCall'),
         UNCHANGED <<plan, leaving>>, ui'.shown = ui.shown
  PROVE  PromptInv'
<1> SUFFICES ASSUME leaving = "no", ~lost', plan.resolver
             PROVE  Foretold(events', ui.shown, AskedCall')
  BY DEF PromptInv
<1>1. events \in Seq(EventType) /\ Foretold(events, ui.shown, AskedCall)
  BY DEF TypeOK, PromptInv, Speaks
<1>2. PICK a \in Seq(EventType) :
        /\ events' = events \o a
        /\ Says(a, AskedCall') \/ (Plain(a) /\ AskedCall' = AskedCall)
  BY DEF Speaks
<1>3. PICK s \in Seq(EventType), new \in {events'}, x \in {ui.shown},
           t \in {AskedCall}, u \in {AskedCall'} :
        /\ s = events /\ new = events' /\ x = ui.shown
        /\ t = AskedCall /\ u = AskedCall'
  BY <1>1
<1>4. /\ new = s \o a /\ Foretold(s, x, t)
      /\ Says(a, u) \/ (Plain(a) /\ u = t)
  BY <1>1, <1>2, <1>3
<1>5. CASE Says(a, u)
  <2>1. Foretold(new, x, u)
    BY <1>3, <1>4, <1>5, ForetoldAnew
  <2> QED BY <1>3, <2>1
<1>6. CASE Plain(a) /\ u = t
  <2>1. Foretold(new, x, t)
    BY <1>3, <1>4, <1>6, ForetoldStill
  <2> QED BY <1>3, <1>6, <2>1
<1> QED BY <1>4, <1>5, <1>6

\* Emitting tells all of it, or the session knows that some was lost.
LEMMA EmitSpeaks ==
  ASSUME TypeOK, NEW es \in Seq(EventType), Emit(es), NEW t,
         ~Fits(es) \/ Says(es, t) \/ (Plain(es) /\ t = AskedCall)
  PROVE  Speaks(t)
<1>1. /\ events \in Seq(EventType) /\ lost \in BOOLEAN
  BY DEF TypeOK
<1>2. lost' = (lost \/ ~Fits(es))
  BY Zenon DEF Emit
<1>3. CASE ~Fits(es)
  BY <1>2, <1>3, Zenon DEF Speaks
<1>4. CASE Fits(es)
  <2>1. events' = events \o SubSeq(es, 1, Len(es))
    BY <1>4, Zenon DEF Emit
  <2>2. SubSeq(es, 1, Len(es)) = es
    OBVIOUS
  <2>3. events' = events \o es
    BY <2>1, <2>2
  <2> QED BY <1>2, <1>4, <2>3, Zenon DEF Speaks
<1> QED BY <1>3, <1>4

\* What the code emits about the start and the end of a call is plain.
LEMMA PlainEvents ==
  ASSUME NEW c \in Calls
  PROVE  /\ Plain(<<>>)
         /\ Plain(<<Result(c, TRUE)>>)
         /\ Plain(<<>> \o <<Result(c, FALSE)>>)
         /\ Plain(<<>> \o <<Event("started", c), Other>>)
         /\ Plain(<<Event("started", c), Other>> \o <<Result(c, FALSE)>>)
<1>1. /\ ~IsPrompt(Result(c, TRUE)) /\ ~IsPrompt(Result(c, FALSE))
      /\ ~IsPrompt(Event("started", c)) /\ ~IsPrompt(Other)
  BY DEF IsPrompt, Result, Event, Other
<1>2. Plain(<<>>)
  BY DEF Plain
<1>3. ASSUME NEW e, ~IsPrompt(e)
      PROVE  Plain(<<e>>)
  BY <1>3 DEF Plain
<1>4. ASSUME NEW e, NEW f, NEW g,
             ~IsPrompt(e), ~IsPrompt(f), ~IsPrompt(g)
      PROVE  /\ Plain(<<>> \o <<e>>) /\ Plain(<<>> \o <<e, f>>)
             /\ Plain(<<e, f>> \o <<g>>)
  <2> DEFINE p == <<>> \o <<e>>
             q == <<>> \o <<e, f>>
             r == <<e, f>> \o <<g>>
  <2>1. /\ Len(p) = 1 /\ p[1] = e
        /\ Len(q) = 2 /\ q[1] = e /\ q[2] = f
        /\ Len(r) = 3 /\ r[1] = e /\ r[2] = f /\ r[3] = g
    OBVIOUS
  <2> HIDE DEF p, q, r
  <2>2. Plain(p) /\ Plain(q) /\ Plain(r)
    BY <1>4, <2>1 DEF Plain
  <2> QED BY <2>2 DEF p, q, r
<1> QED BY <1>1, <1>2, <1>3, <1>4

\* And what it emits about an approval is not.
LEMMA PromptEvents ==
  ASSUME NEW c \in Calls, NEW ok \in BOOLEAN
  PROVE  /\ Says(<<Event("requested", c)>>, c)
         /\ Says(<<Resolved(c, ok)>>, 0)
         /\ Says(<<Resolved(c, ok)>> \o <<Event("started", c), Other>>, 0)
<1>1. /\ IsPrompt(Event("requested", c)) /\ IsPrompt(Resolved(c, ok))
      /\ ~IsPrompt(Event("started", c)) /\ ~IsPrompt(Other)
      /\ Shows(Event("requested", c)) = c /\ Shows(Resolved(c, ok)) = 0
  BY DEF IsPrompt, Shows, Resolved, Event, Other
<1>2. Says(<<Event("requested", c)>>, c) /\ Says(<<Resolved(c, ok)>>, 0)
  BY <1>1 DEF Says
<1>3. ASSUME NEW e, NEW f, NEW g, IsPrompt(e), Shows(e) = 0,
             ~IsPrompt(f), ~IsPrompt(g)
      PROVE  Says(<<e>> \o <<f, g>>, 0)
  <2> DEFINE s == <<e>> \o <<f, g>>
  <2>1. Len(s) = 3 /\ s[1] = e /\ s[2] = f /\ s[3] = g
    OBVIOUS
  <2> HIDE DEF s
  <2>2. Says(s, 0)
    BY <1>3, <2>1 DEF Says
  <2> QED BY <2>2 DEF s
<1> QED BY <1>1, <1>2, <1>3

\* fail() with nothing emitted before it says nothing of a prompt.
LEMMA FailSpeaks ==
  ASSUME TypeOK, call \in Calls, NEW h, Fail(h, <<>>)
  PROVE  Speaks(AskedCall)
<1> DEFINE failed == <<>> \o <<Result(call, FALSE)>>
<1>1. <<>> \in Seq(EventType) /\ failed \in Seq(EventType)
  BY EventsTyped, Nothing, ConcatProperties
<1>2. Plain(<<>>) /\ Plain(failed)
  BY PlainEvents
<1> HIDE DEF failed
<1>3. Emit(<<>>) \/ Emit(failed)
  BY DEF Fail, failed
<1> QED BY <1>1, <1>2, <1>3, EmitSpeaks

\* What was refused before it, is lost.
LEMMA FailLoses ==
  ASSUME TypeOK, call \in Calls, NEW h, NEW es \in Seq(EventType),
         Fail(h, es), ~Fits(es), NEW t
  PROVE  Speaks(t)
<1> DEFINE failed == es \o <<Result(call, FALSE)>>
<1>1. failed \in Seq(EventType) /\ Len(failed) = Len(es) + 1
  <2>1. <<Result(call, FALSE)>> \in Seq(EventType)
    BY EventsTyped
  <2>2. Len(<<Result(call, FALSE)>>) = 1
    OBVIOUS
  <2> QED BY <2>1, <2>2, ConcatProperties
<1>2. Len(es) \in Nat /\ Len(events) \in Nat
  BY LenProperties DEF TypeOK
<1>3. ~Fits(failed)
  BY <1>1, <1>2 DEF Fits
<1>4. Emit(es) \/ Emit(failed)
  BY DEF Fail
<1> HIDE DEF failed
<1> QED BY <1>1, <1>3, <1>4, EmitSpeaks

\* A decision takes the prompt away.
LEMMA DecisionSpeaks ==
  ASSUME IInv, at = "approval", NEW approved \in BOOLEAN,
         TakeDecision(1, approved)
  PROVE  Speaks(0)
<1> DEFINE h == Resolve(handle[call], 1, approved)
           es == <<Resolved(call, approved)>>
           told == es \o <<Event("started", call), Other>>
<1>1. TypeOK /\ call \in Calls
  BY DEF IInv, TypeOK, Placed, InCall
<1>2. es \in Seq(EventType) /\ told \in Seq(EventType)
  BY <1>1, EventsTyped, ConcatProperties
<1>3. Says(es, 0) /\ Says(told, 0)
  BY <1>1, PromptEvents
<1>4. \/ Fail(h, es) /\ ~Fits(es)
      \/ Fail(Start(h), told) /\ ~Fits(told)
      \/ Emit(es)
      \/ Emit(told)
  BY DEF TakeDecision, Work, Fail
<1> HIDE DEF h, es, told
<1> QED BY <1>1, <1>2, <1>3, <1>4, FailLoses, EmitSpeaks
\* Nor does a step that emits nothing.
LEMMA SilentSpeaks ==
  ASSUME TypeOK, UNCHANGED channel
  PROVE  Speaks(AskedCall)
<1>1. events \in Seq(EventType) /\ events' = events /\ lost' = lost
  BY DEF TypeOK, channel
<1>2. events \o <<>> = events
  BY <1>1, ConcatEmptySeq
<1>3. <<>> \in Seq(EventType) /\ Plain(<<>>)
  BY Nothing DEF Plain
<1> QED BY <1>1, <1>2, <1>3 DEF Speaks

\* Beginning to work without a decision says nothing of a prompt.
LEMMA WorkSpeaks ==
  ASSUME TypeOK, call \in Calls, NEW h, Work(h, <<>>)
  PROVE  Speaks(AskedCall)
<1> DEFINE told == <<>> \o <<Event("started", call), Other>>
<1>1. told \in Seq(EventType) /\ Plain(told)
  BY EventsTyped, Nothing, ConcatProperties, PlainEvents
<1>2. Fail(h, <<>>) \/ (Fail(Start(h), told) /\ ~Fits(told)) \/ Emit(told)
  BY DEF Work
<1> HIDE DEF told
<1> QED BY <1>1, <1>2, FailSpeaks, FailLoses, EmitSpeaks

\* With somebody to ask, the loop's steps tell the app of the prompt that
\* waits, and of no other.
LEMMA StepSpeaks ==
  ASSUME IInv, Step, ~(TooManyCalls \/ EndPhase), plan.resolver
  PROVE  Speaks(AskedCall')
<1>1. TypeOK /\ call \in Calls
  BY DEF IInv, TypeOK, Placed, InCall, Step, AnswerUnknown, BeginCall,
     HookRefuses, BeginWork, AskApproval, ToolReturns, ToolThrows,
     HookThrows, FinishCall
<1>2. at # "approval"
  BY DEF Step, AnswerUnknown, BeginCall, HookRefuses, BeginWork, AskApproval,
     ToolReturns, ToolThrows, HookThrows, FinishCall
<1>3. ASSUME at' # "approval", Speaks(AskedCall)
      PROVE  Speaks(AskedCall')
  <2>1. AskedCall' = AskedCall
    BY <1>2, <1>3 DEF AskedCall
  <2> QED BY <1>3, <2>1
<1>4. ASSUME Fail(handle[call], <<>>)
      PROVE  Speaks(AskedCall')
  <2>1. at' # "approval"
    BY <1>4 DEF Fail, GoOn
  <2> QED BY <1>1, <1>3, <1>4, <2>1, FailSpeaks
<1>5. CASE AnswerUnknown
  <2> DEFINE told == <<Event("started", call), Other>>
                       \o <<Result(call, FALSE)>>
  <2>1. told \in Seq(EventType)
    BY <1>1, EventsTyped, ConcatProperties
  <2>2. Plain(told)
    BY <1>1, PlainEvents
  <2>3. Emit(told) /\ at' # "approval"
    BY <1>5 DEF AnswerUnknown, GoOn
  <2> HIDE DEF told
  <2> QED BY <1>1, <1>3, <2>1, <2>2, <2>3, EmitSpeaks
<1>6. CASE BeginCall
  BY <1>1, <1>3, <1>6, SilentSpeaks DEF BeginCall
<1>7. CASE HookRefuses \/ ToolThrows \/ HookThrows
  BY <1>4, <1>7 DEF HookRefuses, ToolThrows, HookThrows
<1>8. CASE BeginWork
  <2>1. CASE Work(Prepared(handle[call]), <<>>)
    <3>1. at' # "approval"
      BY <2>1 DEF Work, Fail, GoOn
    <3> QED BY <1>1, <1>3, <2>1, <3>1, WorkSpeaks
  <2> QED BY <1>4, <1>8, <2>1 DEF BeginWork
<1>9. CASE AskApproval
  <2> DEFINE es == <<Event("requested", call)>>
             h == RequestApproval(Prepared(handle[call]))
  <2>1. es \in Seq(EventType) /\ Says(es, call)
    BY <1>1, EventsTyped, PromptEvents
  <2>2. \/ Fail(handle[call], <<>>)
        \/ Fail(h, es) /\ ~Fits(es)
        \/ Emit(es) /\ at' = "approval" /\ call' = call
    BY <1>9 DEF AskApproval
  <2> HIDE DEF es, h
  <2>3. CASE Fail(h, es) /\ ~Fits(es)
    BY <1>1, <2>1, <2>3, FailLoses
  <2>4. CASE Emit(es) /\ at' = "approval" /\ call' = call
    <3>1. AskedCall' = call
      BY <2>4 DEF AskedCall
    <3> QED BY <1>1, <2>1, <2>4, <3>1, EmitSpeaks
  <2> QED BY <1>4, <2>2, <2>3, <2>4
<1>10. CASE ToolReturns
  BY <1>1, <1>3, <1>10, SilentSpeaks DEF ToolReturns
<1>11. CASE FinishCall
  <2> DEFINE es == <<Result(call, TRUE)>>
  <2>1. es \in Seq(EventType) /\ Plain(es)
    BY <1>1, EventsTyped, PlainEvents
  <2>2. Fail(handle[call], <<>>) \/ (Emit(es) /\ at' # "approval")
    BY <1>11 DEF FinishCall, GoOn
  <2> HIDE DEF es
  <2> QED BY <1>1, <1>3, <1>4, <2>1, <2>2, EmitSpeaks
<1> QED BY <1>5, <1>6, <1>7, <1>8, <1>9, <1>10, <1>11 DEF Step

\* The app hears the next event, and shows what it says.
LEMMA DeliverPrompt ==
  ASSUME TypeOK, PromptInv, Deliver
  PROVE  PromptInv'
<1> SUFFICES ASSUME leaving = "no", ~lost, plan.resolver
             PROVE  Foretold(events', ui'.shown, AskedCall)
  BY DEF PromptInv, Deliver, runVars, AskedCall
<1>1. PICK s \in Seq(EventType), new \in {events'}, x \in {ui.shown},
           y \in {ui'.shown}, t \in {AskedCall}, e \in EventType :
        /\ s = events /\ new = events' /\ x = ui.shown /\ y = ui'.shown
        /\ t = AskedCall /\ e = Head(events) /\ s # <<>> /\ new = Tail(s)
  BY HeadTailProperties DEF TypeOK, Deliver
<1>2. Foretold(s, x, t)
  BY <1>1 DEF PromptInv
<1>3. e = s[1]
  BY <1>1, HeadTailProperties
<1>4. y = IF IsPrompt(e) THEN Shows(e) ELSE x
  <2>1. ui' = IF e = Other THEN ui ELSE Reduce(ui, e)
    BY <1>1 DEF Deliver
  <2>2. ui \in UiType
    BY DEF TypeOK
  <2> QED BY <1>1, <2>1, <2>2, ReduceShows
<1>5. Foretold(new, y, t)
  BY <1>1, <1>2, <1>3, <1>4, ForetoldHeard
<1> QED BY <1>1, <1>5

\* Every step keeps what the app will show.
LEMMA NextPrompt ==
  ASSUME IInv, PromptInv, [Next]_vars
  PROVE  PromptInv'
<1>1. TypeOK
  BY DEF IInv
<1>2. ASSUME UNCHANGED <<plan, at, call, leaving, channel>>,
             ui'.shown = ui.shown
      PROVE  PromptInv'
  BY <1>2 DEF PromptInv, AskedCall, channel
<1>3. CASE Step /\ ~(TooManyCalls \/ EndPhase)
  <2>1. UNCHANGED <<plan, leaving, ui>>
    BY <1>3 DEF Step, AnswerUnknown, BeginCall, HookRefuses, BeginWork,
       AskApproval, ToolReturns, ToolThrows, HookThrows, FinishCall
  <2> QED BY <1>1, <1>3, <2>1, StepSpeaks, PromptKept
<1>4. CASE TooManyCalls \/ EndPhase
  <2>1. /\ UNCHANGED <<plan, leaving, events, lost>>
        /\ at # "approval" /\ at' # "approval"
        /\ ui' = ui \/ ui' = [ui EXCEPT !.active = FALSE]
    BY <1>4 DEF TooManyCalls, EndPhase, channel
  <2>2. ui'.shown = ui.shown
    BY <1>1, <2>1 DEF TypeOK, UiType
  <2> QED BY <2>1, <2>2 DEF PromptInv, AskedCall
<1>5. CASE Deliver
  BY <1>1, <1>5, DeliverPrompt
<1>6. CASE Press
  <2>1. PICK approved \in BOOLEAN : Decide(ShownId, approved)
    BY <1>6 DEF Press
  <2>2. UNCHANGED <<plan, leaving, ui>>
    BY <1>6 DEF Press
  <2>3. CASE UNCHANGED <<runVars, channel>>
    BY <1>2, <2>2, <2>3 DEF runVars
  <2>4. CASE ~UNCHANGED <<runVars, channel>>
    <3>1. at = "approval" /\ at' # "approval"
      BY <2>1, <2>4, DecideMoves
    <3>2. pending = {AskedOf(call)}
      BY <3>1 DEF IInv, Placed
    <3>3. TakeDecision(1, approved)
      BY <2>1, <2>4, <3>2, AskedHandle DEF Decide, AskedOf
    <3>4. AskedCall' = 0
      BY <3>1 DEF AskedCall
    <3> QED BY <1>1, <2>2, <3>1, <3>3, <3>4, DecisionSpeaks, PromptKept
  <2> QED BY <2>3, <2>4
<1>7. CASE EscapeKey
  <2>1. UNCHANGED <<plan, at, call, leaving, channel>>
    BY <1>7 DEF EscapeKey, runVars
  <2>2. ui'.shown = ui.shown
    BY <1>1, <1>7 DEF EscapeKey, CancelLive, TypeOK, UiType
  <2> QED BY <1>2, <2>1, <2>2
<1>8. CASE Terminate \/ Shutdown \/ Cleanup
  BY <1>8 DEF Terminate, Shutdown, Cleanup, PromptInv
<1>9. CASE UNCHANGED vars
  BY <1>2, <1>9 DEF vars, runVars
<1> QED BY <1>3, <1>4, <1>5, <1>6, <1>7, <1>8, <1>9 DEF Next

\* While the application runs, no event was lost and somebody can be asked,
\* an app that has heard everything shows a prompt exactly while the broker
\* waits, and for the call that waits (approval.ts, state.ts, execution.ts):
\* a decision, an abort or an error of a hook never leaves one behind.
THEOREM PromptsMatchBroker == Spec => []PromptMatchesBroker
<1>1. Init => PromptInv
  BY DEF Init, PromptInv, AskedCall, Foretold, Plain
<1>2. IInv /\ PromptInv /\ [Next]_vars => PromptInv'
  BY NextPrompt
<1>3. IInv /\ PromptInv => PromptMatchesBroker
  <2> SUFFICES ASSUME IInv, PromptInv, leaving = "no", events = <<>>, ~lost,
                      plan.resolver
               PROVE  {ui.shown} \ {0} = {p.call : p \in pending}
    BY DEF PromptMatchesBroker
  <2>1. ui.shown = AskedCall
    <3>1. Foretold(events, ui.shown, AskedCall)
      BY DEF PromptInv
    <3>2. ~Says(<<>>, AskedCall)
      BY DEF Says
    <3> QED BY <3>1, <3>2 DEF Foretold
  <2>2. pending = IF at = "approval" THEN {AskedOf(call)} ELSE {}
    BY DEF IInv, Placed
  <2>3. CASE at = "approval"
    <3>1. call # 0 /\ AskedCall = call
      BY <2>3 DEF IInv, TypeOK, AskedCall
    <3>2. {p.call : p \in {AskedOf(call)}} = {call}
      BY DEF AskedOf
    <3> QED BY <2>1, <2>2, <2>3, <3>1, <3>2
  <2>4. CASE at # "approval"
    BY <2>1, <2>2, <2>4 DEF AskedCall
  <2> QED BY <2>3, <2>4
<1> QED BY <1>1, <1>2, <1>3, LoopAndHandlesAgree, PTL DEF Spec

=============================================================================
