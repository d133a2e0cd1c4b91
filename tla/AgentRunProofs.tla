---------------------------- MODULE AgentRunProofs ----------------------------
(***************************************************************************)
(* Machine-checked proofs about AgentRun, for every capacity of the queues *)
(* and of the event channel and every number of submissions, replies and   *)
(* cancellations: the ids of the session, the replies it commits, the      *)
(* prompts it keeps and the steers that wait for the end of a tool cycle.  *)
(***************************************************************************)
EXTENDS AgentRun, SequenceTheorems, FiniteSetTheorems, TLAPS

-----------------------------------------------------------------------------
(* What is true of a session by itself.                                    *)

EntryType ==
  [id : Nat \ {0}, from : {"prompt", "steer", "tool", "assistant"},
   about : Nat, tool : BOOLEAN]

EventType == [kind : EventKinds, about : Nat]

SessionType ==
  [prompts : Seq(Nat), steers : Seq(Nat), entries : Seq(EntryType),
   nextId : Nat \ {0}, nextTurn : Nat \ {0}, events : Seq(EventType)]

Numbered(s) ==
  /\ \A i, j \in 1..Len(s.entries) :
       i < j => s.entries[i].id < s.entries[j].id
  /\ \A i \in 1..Len(s.entries) : s.entries[i].id < s.nextId

\* Entry i is the reply of turn n.
IsReply(s, i, n) == s.entries[i].from = "assistant" /\ s.entries[i].about = n
NoReply(s, n) == \A i \in 1..Len(s.entries) : ~IsReply(s, i, n)

Committed(s) ==
  /\ \A i \in 1..Len(s.entries) :
       s.entries[i].from = "assistant" =>
         s.entries[i].about \in 1..(s.nextTurn - 1)
  /\ \A i, j \in 1..Len(s.entries) :
       /\ s.entries[i].from = "assistant" /\ s.entries[j].from = "assistant"
       /\ s.entries[i].about = s.entries[j].about
       => i = j

Good(s) == s \in SessionType /\ Numbered(s) /\ Committed(s) /\ InOrder(s)

-----------------------------------------------------------------------------
(* What relates the session to the turn, the run, the cancels and the app. *)

TurnType ==
  [n : Nat, id : Nat, state : {"active", "finished", "failed", "cancelled"},
   text : BOOLEAN, tool : BOOLEAN,
   reason : {"none", "stop", "toolUse", "error"}]

CancelType ==
  [turn : Nat \ {0}, id : Nat, tool : BOOLEAN,
   phase : {"spawned", "flagged", "marked"}]

\* Where the run is tells how its turn may stand.
TurnFollowsRun ==
  CASE run \in {"idle", "failed"} -> turn.state # "active"
    [] run \in {"streaming", "finishing"} ->
         turn.state \in {"active", "cancelled"}
    [] run \in {"pushing", "cancelling"} ->
         turn.state \in {"active", "failed", "cancelled"}
    [] run = "failing" -> turn.state \in {"active", "failed"}
    [] run = "reporting" -> turn.state = "failed"
    [] run \in {"settling", "executing"} -> turn.state = "finished"
    [] OTHER -> FALSE

TurnInv ==
  /\ turn \in TurnType /\ aborted \in BOOLEAN
  /\ sending \in Seq(EventType)
  /\ TurnFollowsRun
  /\ turn.n < session.nextTurn
  /\ run \notin {"idle", "failed"} => turn.n # 0
  /\ turn.state = "cancelled" /\ run \notin {"idle", "failed"} => aborted
  /\ turn.state = "active" => turn.id = session.nextId
  /\ turn.state \in {"active", "failed"} => NoReply(session, turn.n)
  /\ turn.state \in {"finished", "cancelled"} =>
       (NoReply(session, turn.n) <=> Settling(turn.n))

\* A cancel that an abort listener called is of the latest turn or comes too
\* late: then the id it would use is taken.
CancelsInv ==
  /\ cancels \subseteq CancelType
  /\ \A c \in cancels : c.turn < session.nextTurn
  /\ \A c, d \in cancels : c.turn = d.turn => c = d
  /\ \A c \in cancels :
       c.turn = turn.n =>
         c.id = turn.id /\ aborted /\ run \notin {"failing", "reporting"}
  /\ \A c \in cancels :
       c.phase = "marked" =>
         /\ NoReply(session, c.turn)
         /\ IF c.turn = turn.n
            THEN turn.state = "cancelled" /\ c.id = session.nextId
            ELSE IdTaken(session, c.id)

\* A submission is accepted or refused before the next one is made.
PromptsInv ==
  /\ submits \in Nat
  /\ handler # <<>> => Head(handler).text = submits
  /\ \A x \in PromptsKept(session) :
       x <= submits /\ (handler # <<>> => x < submits)
  /\ prompted \in Seq(Nat)
  /\ PromptsKept(session) = {prompted[i] : i \in 1..Len(prompted)}
  /\ run = "failed" => ended = "failed"
  /\ run = "idle" /\ ended = "drained" => session.prompts = <<>>

IInv == Good(session) /\ TurnInv /\ CancelsInv /\ PromptsInv

-----------------------------------------------------------------------------
(* What the operations of the session do to it.                            *)

\* t is s with something else changed than what Good is about.
SameCore(s, t) ==
  /\ t \in SessionType
  /\ t.prompts = s.prompts /\ t.entries = s.entries
  /\ t.nextId = s.nextId /\ t.nextTurn = s.nextTurn

\* t is s after some messages, none of them a reply, and perhaps a new turn.
Extends(s, t) ==
  /\ Len(s.entries) <= Len(t.entries)
  /\ \A i \in 1..Len(s.entries) : t.entries[i] = s.entries[i]
  /\ \A i \in 1..Len(t.entries) :
       i > Len(s.entries) => t.entries[i].from # "assistant"
  /\ s.nextTurn <= t.nextTurn
  /\ PromptsKept(t) = PromptsKept(s)

\* A step that leaves messages, ids and prompts alone (an event emitted or
\* taken, a steer queued) keeps all that is true of the session.
LEMMA SameIsGood ==
  ASSUME NEW s, Good(s), NEW t, SameCore(s, t)
  PROVE  Good(t) /\ Extends(s, t)
<1>1. Len(s.entries) \in Nat /\ s.nextTurn \in Nat
  BY LenProperties DEF Good, SessionType
<1>2. PromptEntries(t) = PromptEntries(s)
  BY DEF SameCore, PromptEntries
<1>3. PromptsKept(t) = PromptsKept(s)
  BY <1>2 DEF SameCore, PromptsKept
<1>4. InOrder(t)
  BY <1>2 DEF Good, SameCore, InOrder
<1>5. Numbered(t) /\ Committed(t)
  BY DEF Good, SameCore, Numbered, Committed
<1> QED BY <1>1, <1>3, <1>4, <1>5 DEF Good, SameCore, Extends

\* Whichever events are refused, emitting leaves the messages alone.
LEMMA EmitIsSame ==
  ASSUME NEW s \in SessionType, NEW es \in Seq(EventType)
  PROVE  SameCore(s, TryEmit(s, es))
<1> DEFINE room == EventCap - Len(s.events)
           n == IF Len(es) <= room THEN Len(es) ELSE room
           new == s.events \o SubSeq(es, 1, n)
<1>1. s.events \in Seq(EventType)
  BY DEF SessionType
<1>2. n \in Int /\ n <= Len(es)
  BY <1>1, LenProperties, AgentRunAssumption DEF AgentRunAssumption
<1>3. \A i \in 1..n : es[i] \in EventType
  BY <1>2, ElementOfSeq, LenProperties
<1>4. SubSeq(es, 1, n) \in Seq(EventType)
  BY <1>2, <1>3, SubSeqProperties
<1>5. new \in Seq(EventType)
  BY <1>1, <1>4, ConcatProperties
<1>6. TryEmit(s, es) = [s EXCEPT !.events = new]
  BY DEF TryEmit
<1> HIDE DEF new
<1> QED BY <1>5, <1>6 DEF SessionType, SameCore

\* What extends is extended is extended.
LEMMA ExtendsFurther ==
  ASSUME NEW s, Good(s), NEW t, Good(t), NEW u, Good(u),
         Extends(s, t), Extends(t, u)
  PROVE  Extends(s, u)
<1>1. /\ Len(s.entries) \in Nat /\ Len(t.entries) \in Nat
      /\ Len(u.entries) \in Nat
      /\ s.nextTurn \in Nat /\ t.nextTurn \in Nat /\ u.nextTurn \in Nat
  BY LenProperties DEF Good, SessionType
<1>2. \A i \in 1..Len(s.entries) :
        i \in 1..Len(t.entries) /\ u.entries[i] = s.entries[i]
  BY <1>1 DEF Extends
<1>3. ASSUME NEW i \in 1..Len(u.entries), i > Len(s.entries)
      PROVE  u.entries[i].from # "assistant"
  <2>1. CASE i \in 1..Len(t.entries)
    BY <1>3, <2>1 DEF Extends
  <2>2. CASE i > Len(t.entries)
    BY <1>3, <2>2 DEF Extends
  <2> QED BY <1>1, <1>3, <2>1, <2>2
<1> QED BY <1>1, <1>2, <1>3 DEF Extends

\* An id once taken stays taken, and a turn without a reply has none yet.
LEMMA ExtendsKeeps ==
  ASSUME NEW s, Good(s), NEW t, Good(t), Extends(s, t)
  PROVE  /\ \A id : IdTaken(s, id) => IdTaken(t, id)
         /\ \A n : NoReply(s, n) <=> NoReply(t, n)
<1>1. Len(s.entries) \in Nat /\ Len(t.entries) \in Nat
  BY LenProperties DEF Good, SessionType
<1>2. \A i \in 1..Len(s.entries) :
        i \in 1..Len(t.entries) /\ t.entries[i] = s.entries[i]
  BY <1>1 DEF Extends
<1>3. \A id : IdTaken(s, id) => IdTaken(t, id)
  BY <1>2 DEF IdTaken
<1>4. ASSUME NEW n, NoReply(t, n)
      PROVE  NoReply(s, n)
  BY <1>2, <1>4 DEF NoReply, IsReply
<1>5. ASSUME NEW n, NoReply(s, n)
      PROVE  NoReply(t, n)
  <2> SUFFICES ASSUME NEW i \in 1..Len(t.entries) PROVE ~IsReply(t, i, n)
    BY DEF NoReply
  <2>1. CASE i \in 1..Len(s.entries)
    BY <1>2, <1>5, <2>1 DEF NoReply, IsReply
  <2>2. CASE i > Len(s.entries)
    BY <2>2 DEF Extends, IsReply
  <2> QED BY <1>1, <2>1, <2>2
<1> QED BY <1>3, <1>4, <1>5

\* t is s with one more entry, under the next id.
Adds(s, t, e) ==
  /\ t \in SessionType /\ e \in EntryType
  /\ t.entries = Append(s.entries, e)
  /\ e.id = s.nextId /\ t.nextId = s.nextId + 1
  /\ t.nextTurn = s.nextTurn

\* What push of an entry leaves: the earlier ones, and the new one last.
LEMMA AddsOne ==
  ASSUME NEW s, Good(s), NEW t, NEW e, Adds(s, t, e)
  PROVE  /\ Len(s.entries) \in Nat /\ Len(t.entries) = Len(s.entries) + 1
         /\ \A i \in 1..Len(s.entries) :
              i \in 1..Len(t.entries) /\ t.entries[i] = s.entries[i]
         /\ Len(t.entries) \in 1..Len(t.entries)
         /\ t.entries[Len(t.entries)] = e
         /\ \A i \in 1..Len(t.entries) :
              i \in 1..Len(s.entries) \/ i = Len(t.entries)
<1>1. s.entries \in Seq(EntryType) /\ e \in EntryType
  BY DEF Good, SessionType, Adds
<1>2. t.entries = Append(s.entries, e)
  BY DEF Adds
<1> QED BY <1>1, <1>2, AppendProperties, LenProperties

\* append_message under the next id keeps the ids increasing, and takes that
\* id.
LEMMA AddsNumbers ==
  ASSUME NEW s, Good(s), NEW t, NEW e, Adds(s, t, e)
  PROVE  Numbered(t) /\ IdTaken(t, s.nextId)
<1>1. /\ \A i \in 1..Len(s.entries) :
           /\ i \in 1..Len(t.entries) /\ t.entries[i] = s.entries[i]
           /\ s.entries[i].id \in Nat /\ s.entries[i].id < s.nextId
      /\ s.nextId \in Nat
  <2>1. \A i \in 1..Len(s.entries) : s.entries[i] \in EntryType
    BY ElementOfSeq DEF Good, SessionType
  <2> QED BY <2>1, AddsOne DEF Good, Numbered, EntryType, SessionType
<1>2. /\ Len(t.entries) \in 1..Len(t.entries)
      /\ t.entries[Len(t.entries)].id = s.nextId
      /\ t.nextId = s.nextId + 1
  BY AddsOne DEF Adds
<1>3. \A i \in 1..Len(t.entries) :
        i \in 1..Len(s.entries) \/ i = Len(t.entries)
  BY AddsOne
<1>4. ASSUME NEW i \in 1..Len(t.entries), NEW j \in 1..Len(t.entries), i < j
      PROVE  t.entries[i].id < t.entries[j].id
  <2>1. i \in 1..Len(s.entries)
    BY <1>3, <1>4, AddsOne
  <2>2. CASE j \in 1..Len(s.entries)
    <3>1. s.entries[i].id < s.entries[j].id
      BY <1>4, <2>1, <2>2 DEF Good, Numbered
    <3> QED BY <1>1, <2>1, <2>2, <3>1
  <2>3. CASE j = Len(t.entries)
    BY <1>1, <1>2, <2>1, <2>3
  <2> QED BY <1>3, <2>2, <2>3
<1>5. ASSUME NEW i \in 1..Len(t.entries)
      PROVE  t.entries[i].id < t.nextId
  <2>1. CASE i \in 1..Len(s.entries)
    <3>1. t.entries[i].id \in Nat /\ t.entries[i].id < s.nextId
      BY <1>1, <2>1
    <3> QED BY <1>1, <1>2, <3>1
  <2>2. CASE i = Len(t.entries)
    BY <1>1, <1>2, <2>2
  <2> QED BY <1>3, <2>1, <2>2
<1>6. IdTaken(t, s.nextId)
  BY <1>2 DEF IdTaken
<1> QED BY <1>4, <1>5, <1>6 DEF Numbered

\* A message that is no reply commits none.
LEMMA AddsMessage ==
  ASSUME NEW s, Good(s), NEW t, NEW e, Adds(s, t, e), e.from # "assistant"
  PROVE  /\ Committed(t)
         /\ PromptsKept(t) = PromptsKept(s) => Extends(s, t)
<1>1. \A i \in 1..Len(t.entries) :
        t.entries[i].from = "assistant" =>
          i \in 1..Len(s.entries) /\ t.entries[i] = s.entries[i]
  BY AddsOne
<1>2. \A i \in 1..Len(t.entries) :
        i > Len(s.entries) => t.entries[i].from # "assistant"
  BY AddsOne
<1>3. t.nextTurn = s.nextTurn /\ s.nextTurn \in Nat
  BY DEF Adds, Good, SessionType
<1>4. Committed(t)
  BY <1>1, <1>3 DEF Good, Committed
<1> QED BY <1>2, <1>3, <1>4, AddsOne DEF Extends

\* A message that is no prompt leaves the prompts as they are.
LEMMA AddsOther ==
  ASSUME NEW s, Good(s), NEW t, NEW e, Adds(s, t, e), e.from # "prompt",
         t.prompts = s.prompts
  PROVE  PromptsKept(t) = PromptsKept(s) /\ InOrder(t)
<1>1. PromptEntries(t) = PromptEntries(s)
  <2>1. \A i \in PromptEntries(t) : i \in PromptEntries(s)
    BY AddsOne DEF PromptEntries
  <2>2. \A i \in PromptEntries(s) : i \in PromptEntries(t)
    BY AddsOne DEF PromptEntries
  <2> QED BY <2>1, <2>2
<1>2. \A i \in PromptEntries(s) : t.entries[i] = s.entries[i]
  BY AddsOne DEF PromptEntries
<1>3. PromptsKept(t) = PromptsKept(s)
  BY <1>1, <1>2 DEF PromptsKept
<1>4. InOrder(t)
  BY <1>1, <1>2 DEF Good, InOrder
<1> QED BY <1>3, <1>4

\* A prompt that is delivered moves from the queue to the messages.
LEMMA AddsPrompt ==
  ASSUME NEW s, Good(s), s.prompts # <<>>, NEW t, NEW e, Adds(s, t, e),
         e.from = "prompt", e.about = Head(s.prompts),
         t.prompts = Tail(s.prompts)
  PROVE  PromptsKept(t) = PromptsKept(s) /\ InOrder(t)
<1> DEFINE last == Len(t.entries)
<1>1. /\ Len(s.prompts) \in Nat \ {0}
      /\ Len(t.prompts) = Len(s.prompts) - 1
      /\ \A j \in 1..Len(t.prompts) :
           j + 1 \in 1..Len(s.prompts) /\ t.prompts[j] = s.prompts[j + 1]
      /\ \A j \in 1..Len(s.prompts) : j = 1 \/ j - 1 \in 1..Len(t.prompts)
      /\ e.about = s.prompts[1]
  <2>1. s.prompts \in Seq(Nat)
    BY DEF Good, SessionType
  <2> QED BY <2>1, HeadTailProperties, EmptySeq, LenProperties
<1>2. /\ \A i \in PromptEntries(t) : i \in PromptEntries(s) \/ i = last
      /\ \A i \in PromptEntries(s) :
           i \in PromptEntries(t) /\ t.entries[i] = s.entries[i] /\ i < last
      /\ last \in PromptEntries(t) /\ t.entries[last].about = s.prompts[1]
      /\ last \in Nat /\ \A i \in PromptEntries(t) : i <= last
  BY <1>1, AddsOne DEF PromptEntries
<1> HIDE DEF last
<1>3. PromptsKept(t) = PromptsKept(s)
  <2>1. ASSUME NEW x \in PromptsKept(t)
        PROVE  x \in PromptsKept(s)
    <3>1. CASE \E i \in PromptEntries(t) : x = t.entries[i].about
      BY <1>1, <1>2, <3>1 DEF PromptsKept
    <3>2. CASE \E j \in 1..Len(t.prompts) : x = t.prompts[j]
      BY <1>1, <3>2 DEF PromptsKept
    <3> QED BY <2>1, <3>1, <3>2 DEF PromptsKept
  <2>2. ASSUME NEW x \in PromptsKept(s)
        PROVE  x \in PromptsKept(t)
    <3>1. CASE \E i \in PromptEntries(s) : x = s.entries[i].about
      BY <1>2, <3>1 DEF PromptsKept
    <3>2. CASE \E j \in 1..Len(s.prompts) : x = s.prompts[j]
      <4>1. PICK j \in 1..Len(s.prompts) : x = s.prompts[j]
        BY <3>2
      <4>2. CASE j = 1
        BY <1>2, <4>1, <4>2 DEF PromptsKept
      <4>3. CASE j - 1 \in 1..Len(t.prompts)
        <5>1. x = t.prompts[j - 1]
          BY <1>1, <4>1, <4>3
        <5> QED BY <4>3, <5>1 DEF PromptsKept
      <4> QED BY <1>1, <4>2, <4>3
    <3> QED BY <2>2, <3>1, <3>2 DEF PromptsKept
  <2> QED BY <2>1, <2>2
<1>4. InOrder(t)
  <2>0. 1 \in 1..Len(s.prompts)
    BY <1>1
  <2>1. ASSUME NEW i \in PromptEntries(t), NEW j \in PromptEntries(t), i < j
        PROVE  t.entries[i].about < t.entries[j].about
    <3>1. i \in PromptEntries(s)
      BY <1>2, <2>1 DEF PromptEntries
    <3>2. CASE j \in PromptEntries(s)
      BY <1>2, <2>1, <3>1, <3>2 DEF Good, InOrder
    <3>3. CASE j = last
      BY <1>2, <2>0, <3>1, <3>3 DEF Good, InOrder
    <3> QED BY <1>2, <3>2, <3>3
  <2>2. ASSUME NEW i \in PromptEntries(t), NEW j \in 1..Len(t.prompts)
        PROVE  t.entries[i].about < t.prompts[j]
    <3>1. CASE i \in PromptEntries(s)
      BY <1>1, <1>2, <3>1 DEF Good, InOrder
    <3>2. CASE i = last
      <4>1. 1 < j + 1 /\ j + 1 \in 1..Len(s.prompts)
        BY <1>1
      <4>2. s.prompts[1] < s.prompts[j + 1]
        BY <2>0, <4>1 DEF Good, InOrder
      <4> QED BY <1>1, <1>2, <3>2, <4>2
    <3> QED BY <1>2, <3>1, <3>2
  <2>3. ASSUME NEW i \in 1..Len(t.prompts), NEW j \in 1..Len(t.prompts), i < j
        PROVE  t.prompts[i] < t.prompts[j]
    <3>1. /\ i + 1 \in 1..Len(s.prompts) /\ j + 1 \in 1..Len(s.prompts)
          /\ i + 1 < j + 1
      BY <1>1, <2>3
    <3>2. s.prompts[i + 1] < s.prompts[j + 1]
      BY <3>1 DEF Good, InOrder
    <3> QED BY <1>1, <3>2
  <2> QED BY <2>1, <2>2, <2>3 DEF InOrder
<1> QED BY <1>3, <1>4

\* A turn without a reply gets one.
LEMMA AddsReply ==
  ASSUME NEW s, Good(s), NEW t, NEW e, Adds(s, t, e), e.from = "assistant",
         e.about \in 1..(s.nextTurn - 1), NoReply(s, e.about)
  PROVE  /\ Committed(t) /\ ~NoReply(t, e.about)
         /\ \A n : n # e.about => (NoReply(t, n) <=> NoReply(s, n))
         /\ \A id : IdTaken(s, id) => IdTaken(t, id)
<1> DEFINE last == Len(t.entries)
<1>1. /\ \A i \in 1..Len(t.entries) : i \in 1..Len(s.entries) \/ i = last
      /\ \A i \in 1..Len(s.entries) :
           i \in 1..Len(t.entries) /\ t.entries[i] = s.entries[i] /\ i # last
      /\ last \in 1..Len(t.entries) /\ t.entries[last] = e
  BY AddsOne
<1>2. t.nextTurn = s.nextTurn
  BY DEF Adds
<1> HIDE DEF last
<1>3. \A i \in 1..Len(s.entries) :
        s.entries[i].from = "assistant" => s.entries[i].about # e.about
  BY DEF NoReply, IsReply
<1>4. \A i \in 1..Len(t.entries) :
        t.entries[i].from = "assistant" =>
          t.entries[i].about \in 1..(t.nextTurn - 1)
  BY <1>1, <1>2 DEF Good, Committed
<1>5. ASSUME NEW i \in 1..Len(t.entries), NEW j \in 1..Len(t.entries),
             t.entries[i].from = "assistant", t.entries[j].from = "assistant",
             t.entries[i].about = t.entries[j].about
      PROVE  i = j
  <2>1. CASE i = last
    BY <1>1, <1>3, <1>5, <2>1
  <2>2. CASE j = last
    BY <1>1, <1>3, <1>5, <2>2
  <2>3. CASE i \in 1..Len(s.entries) /\ j \in 1..Len(s.entries)
    BY <1>1, <1>5, <2>3 DEF Good, Committed
  <2> QED BY <1>1, <2>1, <2>2, <2>3
<1>6. ~NoReply(t, e.about)
  BY <1>1 DEF NoReply, IsReply
<1>7. ASSUME NEW n, n # e.about
      PROVE  NoReply(t, n) <=> NoReply(s, n)
  BY <1>1, <1>7 DEF NoReply, IsReply
<1>8. \A id : IdTaken(s, id) => IdTaken(t, id)
  BY <1>1 DEF IdTaken
<1> QED BY <1>4, <1>5, <1>6, <1>7, <1>8 DEF Committed

\* append_message of a message of the run.
LEMMA AppendNewGood ==
  ASSUME NEW s, Good(s), NEW from \in {"steer", "tool"}, NEW about \in Nat
  PROVE  /\ Good(AppendNew(s, from, about))
         /\ Extends(s, AppendNew(s, from, about))
<1> DEFINE e == Entry(s.nextId, from, about, FALSE)
           es == Append(s.entries, e)
           t == AppendNew(s, from, about)
<1>1. /\ s \in SessionType /\ e \in EntryType /\ e.id = s.nextId
      /\ e.from = from
  BY DEF Good, SessionType, EntryType, Entry
<1>2. es \in Seq(EntryType)
  BY <1>1, AppendProperties DEF SessionType
<1>3. t = [s EXCEPT !.entries = es, !.nextId = s.nextId + 1]
  BY DEF AppendNew
<1> HIDE DEF e, es, t
<1>4. Adds(s, t, e) /\ t.prompts = s.prompts
  <2>1. s.nextId + 1 \in Nat \ {0}
    BY <1>1 DEF SessionType
  <2>2. /\ t \in SessionType /\ t.entries = es /\ t.nextId = s.nextId + 1
        /\ t.prompts = s.prompts /\ t.nextTurn = s.nextTurn
    BY <1>1, <1>2, <1>3, <2>1 DEF SessionType
  <2> QED BY <1>1, <2>2 DEF Adds, es
<1>5. Numbered(t) /\ Committed(t) /\ InOrder(t) /\ Extends(s, t)
  BY <1>1, <1>4, AddsNumbers, AddsMessage, AddsOther
<1>6. t \in SessionType
  BY <1>4 DEF Adds
<1> QED BY <1>5, <1>6 DEF Good, t

\* append_result of a reply under the id its turn reserved.
LEMMA AppendReplyGood ==
  ASSUME NEW s, Good(s), NEW n \in 1..(s.nextTurn - 1), NoReply(s, n),
         NEW id, id = s.nextId, NEW tool \in BOOLEAN,
         NEW t, t = AppendReply(s, id, n, tool)
  PROVE  /\ Good(t) /\ ~NoReply(t, n)
         /\ \A m : m # n => (NoReply(t, m) <=> NoReply(s, m))
         /\ \A x : IdTaken(s, x) => IdTaken(t, x)
         /\ t.nextTurn = s.nextTurn /\ t.prompts = s.prompts
         /\ PromptsKept(t) = PromptsKept(s)
<1> DEFINE e == Entry(id, "assistant", n, tool)
           es == Append(s.entries, e)
<1>1. /\ s \in SessionType /\ e \in EntryType /\ e.id = s.nextId
      /\ e.from = "assistant" /\ e.about = n
  BY DEF Good, SessionType, EntryType, Entry
<1>2. es \in Seq(EntryType)
  BY <1>1, AppendProperties DEF SessionType
<1>3. t = [s EXCEPT !.entries = es, !.nextId = s.nextId + 1]
  <2>1. /\ id + 1 > s.nextId
        /\ s.nextId + 1 = id + 1
    BY <1>1 DEF SessionType
  <2> HIDE DEF e
  <2> QED BY <2>1 DEF AppendReply, e
<1> HIDE DEF e, es
<1>4. Adds(s, t, e) /\ t.prompts = s.prompts
  <2>1. s.nextId + 1 \in Nat \ {0}
    BY <1>1 DEF SessionType
  <2>2. /\ t \in SessionType /\ t.entries = es /\ t.nextId = s.nextId + 1
        /\ t.prompts = s.prompts /\ t.nextTurn = s.nextTurn
    BY <1>1, <1>2, <1>3, <2>1 DEF SessionType
  <2> QED BY <1>1, <2>2 DEF Adds, es
<1>5. Numbered(t) /\ PromptsKept(t) = PromptsKept(s) /\ InOrder(t)
  BY <1>1, <1>4, AddsNumbers, AddsOther
<1>6. /\ Committed(t) /\ ~NoReply(t, n)
      /\ \A m : m # n => (NoReply(t, m) <=> NoReply(s, m))
      /\ \A x : IdTaken(s, x) => IdTaken(t, x)
  BY <1>1, <1>4, AddsReply
<1>7. t \in SessionType /\ t.nextTurn = s.nextTurn
  BY <1>4 DEF Adds
<1> QED BY <1>4, <1>5, <1>6, <1>7 DEF Good

\* Events of the session, as the code emits them.
LEMMA Emitted ==
  ASSUME NEW n \in Nat
  PROVE  /\ UserMessageEvents(n) \in Seq(EventType)
         /\ <<Other>> \in Seq(EventType)
         /\ <<Other, Event("turnCancelled", n)>> \in Seq(EventType)
         /\ <<Other, Event("turnFinished", n)>> \in Seq(EventType)
         /\ <<Event("toolStarted", n), Other>> \in Seq(EventType)
         /\ \A kind \in EventKinds : <<Event(kind, n)>> \in Seq(EventType)
<1>1. /\ Other \in EventType
      /\ \A kind \in EventKinds : Event(kind, n) \in EventType
  BY DEF Other, Event, EventType, EventKinds
<1>2. {"userMessage", "turnCancelled", "turnFinished", "toolStarted"}
        \subseteq EventKinds
  BY DEF EventKinds
<1>3. \A x, y, z \in EventType : /\ <<x>> \in Seq(EventType)
                                /\ <<x, y>> \in Seq(EventType)
                                /\ <<x, y, z>> \in Seq(EventType)
  OBVIOUS
<1> QED BY <1>1, <1>2, <1>3 DEF UserMessageEvents

\* deliver_user_message of a steer, if there is one.
LEMMA SteerDelivered ==
  ASSUME NEW d, Good(d.session), NEW texts,
         texts # <<>> => Head(texts) \in Nat
  PROVE  LET r == Deliver(d, texts, "steer")
         IN  Good(r.session) /\ Extends(d.session, r.session)
<1> DEFINE r == Deliver(d, texts, "steer")
           s == d.session
<1>1. Good(s) /\ s \in SessionType
  BY DEF Good
<1>2. CASE texts = <<>> \/ ~d.ok
  <2>1. r = d
    BY <1>2 DEF Deliver
  <2>2. SameCore(s, s)
    BY <1>1 DEF SameCore
  <2> QED BY <1>1, <2>1, <2>2, SameIsGood
<1>3. CASE texts # <<>> /\ d.ok
  <2> DEFINE t == AppendNew(s, "steer", Head(texts))
             es == UserMessageEvents(Head(texts))
  <2>1. r.session = TryEmit(t, es)
    BY <1>3 DEF Deliver
  <2>2. Good(t) /\ Extends(s, t)
    BY <1>1, <1>3, AppendNewGood
  <2>3. es \in Seq(EventType)
    BY <1>3, Emitted
  <2> HIDE DEF s, t, es, r
  <2>4. SameCore(t, r.session)
    BY <2>1, <2>2, <2>3, EmitIsSame DEF Good
  <2>5. Good(r.session) /\ Extends(t, r.session)
    BY <2>2, <2>4, SameIsGood
  <2>6. Extends(s, r.session)
    BY <1>1, <2>2, <2>5, ExtendsFurther
  <2> QED BY <2>5, <2>6 DEF r, s
<1> QED BY <1>2, <1>3

\* dequeue("prompt") and deliver_user_message of what it returned: q is the
\* session with the queues already taken from.
LEMMA PromptDelivered ==
  ASSUME NEW s, Good(s), s.prompts # <<>>, NEW q \in SessionType,
         q.entries = s.entries, q.nextId = s.nextId,
         q.nextTurn = s.nextTurn, q.prompts = Tail(s.prompts)
  PROVE  LET r == Deliver([session |-> q, ok |-> TRUE],
                          <<Head(s.prompts)>>, "prompt")
         IN  /\ Good(r.session) /\ Extends(s, r.session)
             /\ IdTaken(r.session, s.nextId)
<1> DEFINE r == Deliver([session |-> q, ok |-> TRUE], <<Head(s.prompts)>>,
                        "prompt")
           text == Head(s.prompts)
           e == Entry(s.nextId, "prompt", text, FALSE)
           es == Append(q.entries, e)
           t == AppendNew(q, "prompt", text)
           ev == UserMessageEvents(text)
<1>1. text \in Nat /\ s \in SessionType
  BY HeadTailProperties DEF Good, SessionType
<1>2. e \in EntryType /\ e.id = s.nextId /\ e.from = "prompt" /\ e.about = text
  BY <1>1 DEF SessionType, EntryType, Entry
<1>3. es \in Seq(EntryType)
  BY <1>2, AppendProperties DEF SessionType
<1>4. t = [q EXCEPT !.entries = es, !.nextId = q.nextId + 1]
  BY DEF AppendNew
<1>5. r.session = TryEmit(t, ev)
  <2>1. <<text>> # <<>> /\ Head(<<text>>) = text
    OBVIOUS
  <2> QED BY <2>1 DEF Deliver
<1>6. ev \in Seq(EventType)
  BY <1>1, Emitted
<1> HIDE DEF e, es, t, ev, r
<1>7. Adds(s, t, e) /\ t.prompts = Tail(s.prompts)
  <2>1. q.nextId + 1 \in Nat \ {0}
    BY DEF SessionType
  <2>2. /\ t \in SessionType /\ t.entries = es /\ t.nextId = q.nextId + 1
        /\ t.prompts = q.prompts /\ t.nextTurn = q.nextTurn
    BY <1>3, <1>4, <2>1 DEF SessionType
  <2> QED BY <1>2, <2>2 DEF Adds, es
<1>8. /\ Numbered(t) /\ Committed(t) /\ InOrder(t) /\ Extends(s, t)
      /\ IdTaken(t, s.nextId)
  BY <1>2, <1>7, AddsNumbers, AddsMessage, AddsPrompt
<1>9. Good(t)
  BY <1>7, <1>8 DEF Good, Adds
<1>10. SameCore(t, r.session)
  BY <1>5, <1>6, <1>9, EmitIsSame DEF Good
<1>11. Good(r.session) /\ Extends(t, r.session)
  BY <1>9, <1>10, SameIsGood
<1>12. Extends(s, r.session)
  BY <1>8, <1>9, <1>11, ExtendsFurther
<1>13. IdTaken(r.session, s.nextId)
  BY <1>8, <1>9, <1>11, ExtendsKeeps
<1> QED BY <1>11, <1>12, <1>13 DEF r

\* The run's drain takes the first prompt and delivers it.
LEMMA DrainGood ==
  ASSUME NEW s, Good(s), NEW withSteers \in BOOLEAN
  PROVE  LET r == DrainAndDeliver(s, withSteers)
         IN  /\ Good(r.session) /\ Extends(s, r.session)
             /\ s.prompts # <<>> => IdTaken(r.session, s.nextId)
<1> DEFINE left == AfterTakePrompt(s.prompts)
           steers == IF withSteers THEN <<>> ELSE s.steers
           q == [s EXCEPT !.prompts = left, !.steers = steers]
           first == Deliver([session |-> q, ok |-> TRUE], First(s.prompts),
                            "prompt")
           texts == IF withSteers THEN First(s.steers) ELSE <<>>
           r == Deliver(first, texts, "steer")
<1>1. s \in SessionType /\ s.prompts \in Seq(Nat) /\ s.steers \in Seq(Nat)
  BY DEF Good, SessionType
<1>2. left \in Seq(Nat) /\ steers \in Seq(Nat)
  BY <1>1, HeadTailProperties, EmptySeq DEF AfterTakePrompt
<1>3. texts # <<>> => Head(texts) \in Nat
  <2> SUFFICES ASSUME texts # <<>> PROVE Head(texts) \in Nat
    OBVIOUS
  <2>1. s.steers # <<>> /\ texts = <<Head(s.steers)>>
    BY DEF First
  <2>2. Head(s.steers) \in Nat
    BY <1>1, <2>1, HeadTailProperties
  <2>3. Head(<<Head(s.steers)>>) = Head(s.steers)
    OBVIOUS
  <2> QED BY <2>1, <2>2, <2>3
<1>4. r = DrainAndDeliver(s, withSteers)
  BY Zenon DEF DrainAndDeliver, AfterDrainSteers
<1> HIDE DEF texts, left, steers
<1>5. /\ q \in SessionType /\ q.entries = s.entries /\ q.nextId = s.nextId
      /\ q.nextTurn = s.nextTurn /\ q.prompts = left
  BY <1>1, <1>2 DEF SessionType
<1> HIDE DEF q
<1>6. CASE s.prompts = <<>>
  <2>1. first = [session |-> q, ok |-> TRUE]
    BY <1>6 DEF Deliver, First
  <2>2. SameCore(s, q)
    BY <1>5, <1>6 DEF SameCore, left, AfterTakePrompt
  <2>3. Good(first.session) /\ Extends(s, first.session)
    BY <2>1, <2>2, SameIsGood
  <2> HIDE DEF first, r
  <2>4. Good(r.session) /\ Extends(first.session, r.session)
    BY <1>3, <2>3, SteerDelivered DEF r
  <2>5. Extends(s, r.session)
    BY <2>3, <2>4, ExtendsFurther
  <2> QED BY <1>4, <1>6, <2>4, <2>5
<1>7. CASE s.prompts # <<>>
  <2>1. left = Tail(s.prompts) /\ First(s.prompts) = <<Head(s.prompts)>>
    BY <1>7 DEF left, AfterTakePrompt, First
  <2>2. /\ Good(first.session) /\ Extends(s, first.session)
        /\ IdTaken(first.session, s.nextId)
    BY <1>5, <1>7, <2>1, PromptDelivered
  <2> HIDE DEF first, r
  <2>3. Good(r.session) /\ Extends(first.session, r.session)
    BY <1>3, <2>2, SteerDelivered DEF r
  <2>4. Extends(s, r.session)
    BY <2>2, <2>3, ExtendsFurther
  <2>5. IdTaken(r.session, s.nextId)
    BY <2>2, <2>3, ExtendsKeeps
  <2> QED BY <1>4, <2>3, <2>4, <2>5
<1> QED BY <1>6, <1>7

\* The id the next message gets is free.
LEMMA NextIdFree ==
  ASSUME NEW s, Good(s)
  PROVE  ~IdTaken(s, s.nextId)
<1>1. \A i \in 1..Len(s.entries) : s.entries[i] \in EntryType
  BY ElementOfSeq DEF Good, SessionType
<1>2. /\ \A i \in 1..Len(s.entries) :
           s.entries[i].id \in Nat /\ s.entries[i].id < s.nextId
      /\ s.nextId \in Nat
  BY <1>1 DEF Good, Numbered, SessionType, EntryType
<1> QED BY <1>2 DEF IdTaken

\* A turn number used up.
LEMMA TurnTaken ==
  ASSUME NEW s, Good(s), NEW t, t = [s EXCEPT !.nextTurn = s.nextTurn + 1]
  PROVE  /\ Good(t) /\ Extends(s, t)
         /\ t.nextTurn = s.nextTurn + 1 /\ t.nextId = s.nextId
         /\ NoReply(t, s.nextTurn)
<1>1. s \in SessionType /\ s.nextTurn \in Nat \ {0}
  BY DEF Good, SessionType
<1>2. /\ t \in SessionType /\ t.nextTurn = s.nextTurn + 1
      /\ t.entries = s.entries /\ t.prompts = s.prompts /\ t.nextId = s.nextId
  <2>1. s.nextTurn + 1 \in Nat \ {0}
    BY <1>1
  <2> QED BY <1>1, <2>1 DEF SessionType
<1>3. PromptEntries(t) = PromptEntries(s)
  BY <1>2 DEF PromptEntries
<1>4. PromptsKept(t) = PromptsKept(s) /\ InOrder(t)
  BY <1>2, <1>3 DEF PromptsKept, Good, InOrder
<1>5. Numbered(t)
  BY <1>2 DEF Good, Numbered
<1>6. Committed(t) /\ NoReply(t, s.nextTurn)
  BY <1>1, <1>2 DEF Good, Committed, NoReply, IsReply
<1>7. Extends(s, t)
  BY <1>1, <1>2, <1>4, LenProperties DEF Extends, SessionType
<1> QED BY <1>2, <1>4, <1>5, <1>6, <1>7 DEF Good

\* What begins a turn: a fresh number, and the id its reply will have.
Began(t, new) ==
  \/ new = NoTurn
  \/ /\ new \in TurnType /\ new.state = "active"
     /\ new.n # 0 /\ new.n + 1 = t.nextTurn /\ new.id = t.nextId
     /\ NoReply(t, new.n)

\* begin_session_turn uses up a turn number, and the turn it begins has no
\* reply yet and reserves the next id; or it throws and there is no turn.
LEMMA BeginGood ==
  ASSUME NEW s, Good(s)
  PROVE  LET r == BeginTurn(s)
         IN  /\ Good(r.session) /\ Extends(s, r.session)
             /\ r.session.nextTurn = s.nextTurn + 1
             /\ Began(r.session, r.turn) /\ (r.turn = NoTurn) = ~r.ok
<1> DEFINE r == BeginTurn(s)
           q == TryEmit(s, <<Other>>)
           t == [q EXCEPT !.nextTurn = q.nextTurn + 1]
<1>1. s \in SessionType /\ <<Other>> \in Seq(EventType)
  BY Emitted DEF Good
<1>2. SameCore(s, q)
  BY <1>1, EmitIsSame
<1>3. /\ r.session = t /\ (Fits(s, <<Other>>) => r.turn = NewTurn(s) /\ r.ok)
      /\ ~Fits(s, <<Other>>) => r.turn = NoTurn /\ ~r.ok
  BY DEF BeginTurn
<1> HIDE DEF q, t, r
<1>4. Good(q) /\ Extends(s, q)
  BY <1>2, SameIsGood
<1>5. /\ Good(t) /\ Extends(q, t) /\ t.nextTurn = q.nextTurn + 1
      /\ t.nextId = q.nextId /\ NoReply(t, q.nextTurn)
  BY <1>4, TurnTaken DEF t
<1>6. Extends(s, t)
  BY <1>4, <1>5, ExtendsFurther
<1>7. q.nextTurn = s.nextTurn /\ q.nextId = s.nextId
  BY <1>2 DEF SameCore
<1>8. /\ NewTurn(s) \in TurnType /\ NewTurn(s).state = "active"
      /\ NewTurn(s).n = s.nextTurn /\ s.nextTurn # 0
      /\ NewTurn(s).id = s.nextId
  BY <1>1 DEF SessionType, NewTurn, TurnType
<1>9. NewTurn(s) # NoTurn
  BY DEF NewTurn, NoTurn
<1>10. Began(t, r.turn) /\ (r.turn = NoTurn) = ~r.ok
  <2>1. CASE Fits(s, <<Other>>)
    BY <1>3, <1>5, <1>7, <1>8, <1>9, <2>1 DEF Began
  <2>2. CASE ~Fits(s, <<Other>>)
    BY <1>3, <2>2 DEF Began
  <2> QED BY <2>1, <2>2
<1> QED BY <1>3, <1>5, <1>6, <1>7, <1>10 DEF r

\* The loop from its top: it drains, delivers and begins a turn, or throws.
LEMMA IterationGood ==
  ASSUME NEW s, Good(s), NEW withSteers \in BOOLEAN
  PROVE  LET r == NextIteration(s, withSteers)
         IN  /\ Good(r.session) /\ Extends(s, r.session)
             /\ s.prompts # <<>> => IdTaken(r.session, s.nextId)
             /\ Began(r.session, r.turn) /\ (r.turn = NoTurn) = ~r.ok
             /\ r.turn # NoTurn => r.turn.n >= s.nextTurn
<1> DEFINE r == NextIteration(s, withSteers)
           told == DrainAndDeliver(s, withSteers)
           q == told.session
<1>1. /\ Good(q) /\ Extends(s, q)
      /\ s.prompts # <<>> => IdTaken(q, s.nextId)
  BY DrainGood
<1>2. s.nextTurn \in Nat /\ q.nextTurn \in Nat /\ s.nextTurn <= q.nextTurn
  BY <1>1 DEF Good, SessionType, Extends
<1>3. /\ told.ok => r = BeginTurn(q)
      /\ ~told.ok => r = [session |-> q, ok |-> FALSE, turn |-> NoTurn]
  BY DEF NextIteration
<1> HIDE DEF told, q, r
<1>4. CASE told.ok
  <2>1. /\ Good(r.session) /\ Extends(q, r.session)
        /\ r.session.nextTurn = q.nextTurn + 1
        /\ Began(r.session, r.turn) /\ (r.turn = NoTurn) = ~r.ok
    BY <1>1, <1>3, <1>4, BeginGood
  <2>2. Extends(s, r.session)
    BY <1>1, <2>1, ExtendsFurther
  <2>3. s.prompts # <<>> => IdTaken(r.session, s.nextId)
    BY <1>1, <2>1, ExtendsKeeps
  <2>4. r.turn # NoTurn => r.turn.n >= s.nextTurn
    BY <1>2, <2>1 DEF Began, TurnType
  <2> QED BY <2>1, <2>2, <2>3, <2>4 DEF r
<1>5. CASE ~told.ok
  BY <1>1, <1>3, <1>5 DEF Began, r
<1> QED BY <1>4, <1>5

\* A prompt joins the queue behind every earlier one.
LEMMA QueuedPrompt ==
  ASSUME NEW s, Good(s), NEW x \in Nat, \A y \in PromptsKept(s) : y < x,
         NEW t, t = [s EXCEPT !.prompts = Append(s.prompts, x)]
  PROVE  /\ Good(t) /\ PromptsKept(t) = PromptsKept(s) \cup {x}
         /\ t.entries = s.entries /\ t.nextId = s.nextId
         /\ t.nextTurn = s.nextTurn /\ t.prompts # <<>>
<1> DEFINE ps == Append(s.prompts, x)
<1>1. s \in SessionType /\ s.prompts \in Seq(Nat)
  BY DEF Good, SessionType
<1>2. /\ ps \in Seq(Nat) /\ Len(s.prompts) \in Nat
      /\ Len(ps) = Len(s.prompts) + 1 /\ ps # <<>>
      /\ \A i \in 1..Len(s.prompts) : i \in 1..Len(ps) /\ ps[i] = s.prompts[i]
      /\ Len(ps) \in 1..Len(ps) /\ ps[Len(ps)] = x
      /\ \A i \in 1..Len(ps) : i \in 1..Len(s.prompts) \/ i = Len(ps)
  BY <1>1, AppendProperties, LenProperties, EmptySeq
<1> HIDE DEF ps
<1>3. /\ t \in SessionType /\ t.prompts = ps /\ t.entries = s.entries
      /\ t.nextId = s.nextId /\ t.nextTurn = s.nextTurn
  BY <1>1, <1>2 DEF SessionType, ps
<1>4. PromptEntries(t) = PromptEntries(s)
  BY <1>3 DEF PromptEntries
<1>5. /\ \A i \in PromptEntries(s) : s.entries[i].about < x
      /\ \A i \in 1..Len(s.prompts) : s.prompts[i] < x
  BY DEF PromptsKept
<1>6. PromptsKept(t) = PromptsKept(s) \cup {x}
  <2>1. {ps[i] : i \in 1..Len(ps)}
          = {s.prompts[i] : i \in 1..Len(s.prompts)} \cup {x}
    BY <1>2
  <2> QED BY <1>3, <1>4, <2>1 DEF PromptsKept
<1>7. InOrder(t)
  <2>1. \A i, j \in PromptEntries(t) :
          i < j => t.entries[i].about < t.entries[j].about
    BY <1>3, <1>4 DEF Good, InOrder
  <2>2. ASSUME NEW i \in PromptEntries(t), NEW j \in 1..Len(ps)
        PROVE  t.entries[i].about < ps[j]
    <3>1. CASE j \in 1..Len(s.prompts)
      BY <1>2, <1>3, <1>4, <3>1 DEF Good, InOrder
    <3>2. CASE j = Len(ps)
      BY <1>2, <1>3, <1>4, <1>5, <3>2
    <3> QED BY <1>2, <3>1, <3>2
  <2>3. ASSUME NEW i \in 1..Len(ps), NEW j \in 1..Len(ps), i < j
        PROVE  ps[i] < ps[j]
    <3>1. i \in 1..Len(s.prompts)
      BY <1>2, <2>3
    <3>2. CASE j \in 1..Len(s.prompts)
      BY <1>2, <2>3, <3>1, <3>2 DEF Good, InOrder
    <3>3. CASE j = Len(ps)
      BY <1>2, <1>5, <3>1, <3>3
    <3> QED BY <1>2, <3>2, <3>3
  <2> QED BY <1>3, <2>1, <2>2, <2>3 DEF InOrder
<1>8. Numbered(t) /\ Committed(t)
  BY <1>3 DEF Good, Numbered, Committed
<1> QED BY <1>2, <1>3, <1>6, <1>7, <1>8 DEF Good

\* A steer that is queued is no message yet.
LEMMA QueuedSteer ==
  ASSUME NEW s \in SessionType, NEW x \in Nat,
         NEW t, t = [s EXCEPT !.steers = Append(s.steers, x)]
  PROVE  SameCore(s, t)
<1> DEFINE ss == Append(s.steers, x)
<1>1. ss \in Seq(Nat)
  BY AppendProperties DEF SessionType
<1> HIDE DEF ss
<1> QED BY <1>1 DEF SessionType, SameCore, ss

\* Nor does the bridge touch the messages when it takes events.
LEMMA TakenEvents ==
  ASSUME NEW s \in SessionType, NEW n \in 0..Len(s.events), NEW t,
         t = [s EXCEPT !.events = SubSeq(s.events, n + 1, Len(s.events))]
  PROVE  SameCore(s, t)
<1> DEFINE es == SubSeq(s.events, n + 1, Len(s.events))
<1>1. s.events \in Seq(EventType) /\ Len(s.events) \in Nat
  BY LenProperties DEF SessionType
<1>2. \A i \in (n + 1)..Len(s.events) : s.events[i] \in EventType
  BY <1>1, ElementOfSeq
<1>3. es \in Seq(EventType)
  BY <1>1, <1>2, SubSeqProperties
<1> HIDE DEF es
<1> QED BY <1>3 DEF SessionType, SameCore, es

-----------------------------------------------------------------------------
(* What a step must keep of the rest.                                      *)

\* Some cancel of turn n has yet to go through its second lock.
Unsettled(cs, n) == \E c \in cs : c.turn = n /\ c.phase = "marked"

\* A step that leaves the run with the same turn, at most failed, and with
\* the same cancels in their second lock.
LEMMA SameTurn ==
  ASSUME Good(session), TurnInv, Good(session'), Extends(session, session'),
         turn' \in TurnType, turn'.n = turn.n, turn'.id = turn.id,
         turn'.state = "active" =>
           turn.state = "active" /\ session'.nextId = session.nextId,
         turn'.state \in {"finished", "cancelled"} => turn'.state = turn.state,
         turn'.state = "failed" => turn.state \in {"active", "failed"},
         Unsettled(cancels', turn.n) <=> Unsettled(cancels, turn.n),
         aborted' \in BOOLEAN, aborted => aborted', sending' \in Seq(EventType),
         TurnFollowsRun',
         run' \in {"idle", "failed"} \/ run \notin {"idle", "failed"}
  PROVE  TurnInv'
<1>1. \A n : NoReply(session, n) <=> NoReply(session', n)
  BY ExtendsKeeps
<1>2. session.nextTurn <= session'.nextTurn /\ session.nextTurn \in Nat
      /\ session'.nextTurn \in Nat /\ turn.n \in Nat
  BY DEF Extends, Good, SessionType, TurnInv, TurnType
<1>3. turn'.n < session'.nextTurn
  BY <1>2 DEF TurnInv
<1>4. turn'.state = "active" => turn'.id = session'.nextId
  BY DEF TurnInv
<1>5. turn'.state \in {"active", "failed"} => NoReply(session', turn'.n)
  BY <1>1 DEF TurnInv
<1>6. Settling(turn.n) <=> Unsettled(cancels, turn.n)
  BY DEF Settling, Unsettled
<1>7. turn'.state \in {"finished", "cancelled"} =>
        (NoReply(session', turn'.n) <=> Unsettled(cancels', turn'.n))
  BY <1>1, <1>6 DEF TurnInv
<1>8. turn'.state = "cancelled" /\ run' \notin {"idle", "failed"} => aborted'
  BY DEF TurnInv
<1> QED BY <1>3, <1>4, <1>5, <1>7, <1>8
           DEF TurnInv, NoReply, IsReply, Settling, Unsettled

\* Such a step keeps the cancels, if it takes no message under the id that
\* a cancel of the turn has yet to use, and reports no failure beside one.
LEMMA SameCancels ==
  ASSUME Good(session), CancelsInv, Good(session'), Extends(session, session'),
         cancels' = cancels, turn'.n = turn.n, turn'.id = turn.id,
         turn.state = "cancelled" =>
           turn'.state = "cancelled" /\ session'.nextId = session.nextId,
         aborted => aborted',
         run' \in {"failing", "reporting"} => \A c \in cancels : c.turn # turn.n
  PROVE  CancelsInv'
<1>1. /\ \A n : NoReply(session, n) <=> NoReply(session', n)
      /\ \A id : IdTaken(session, id) => IdTaken(session', id)
  BY ExtendsKeeps
<1>2. \A c \in cancels : c.turn \in Nat
  BY DEF CancelsInv, CancelType
<1>3. session.nextTurn <= session'.nextTurn /\ session.nextTurn \in Nat
      /\ session'.nextTurn \in Nat
  BY DEF Extends, Good, SessionType
<1>4. \A c \in cancels : c.turn < session'.nextTurn
  BY <1>2, <1>3 DEF CancelsInv
<1>5. \A c \in cancels :
        c.turn = turn'.n =>
          c.id = turn'.id /\ aborted' /\ run' \notin {"failing", "reporting"}
  BY DEF CancelsInv
<1>6. ASSUME NEW c \in cancels, c.phase = "marked"
      PROVE  /\ NoReply(session', c.turn)
             /\ IF c.turn = turn'.n
                THEN turn'.state = "cancelled" /\ c.id = session'.nextId
                ELSE IdTaken(session', c.id)
  BY <1>1, <1>6 DEF CancelsInv
<1> QED BY <1>4, <1>5, <1>6 DEF CancelsInv, NoReply, IsReply, IdTaken

\* Ids stay taken, and no reply is committed.
KeepsReplies(s, t) ==
  /\ \A id : IdTaken(s, id) => IdTaken(t, id)
  /\ \A n : NoReply(s, n) <=> NoReply(t, n)
  /\ s.nextTurn <= t.nextTurn

\* A step that begins another turn, or fails to: no cancel is about the new
\* turn, and the one that may still be about the old finds its id taken.
LEMMA NextTurn ==
  ASSUME Good(session), TurnInv, CancelsInv,
         Good(session'), KeepsReplies(session, session'), cancels' = cancels,
         Began(session', turn'),
         turn' # NoTurn => turn'.n >= session.nextTurn,
         run' = IF turn' # NoTurn THEN "streaming" ELSE "failed",
         turn.state = "cancelled" /\ Unsettled(cancels, turn.n) =>
           IdTaken(session', session.nextId),
         sending' = sending, aborted' \in BOOLEAN
  PROVE  TurnInv' /\ CancelsInv'
<1>1. /\ \A n : NoReply(session, n) <=> NoReply(session', n)
      /\ \A id : IdTaken(session, id) => IdTaken(session', id)
  BY DEF KeepsReplies
<1>2. /\ session.nextTurn <= session'.nextTurn
      /\ session.nextTurn \in Nat \ {0} /\ session'.nextTurn \in Nat \ {0}
  BY DEF KeepsReplies, Good, SessionType
<1>3. \A c \in cancels :
        c.turn \in Nat \ {0} /\ c.turn < session.nextTurn
  BY DEF CancelsInv, CancelType
<1>4. \A i \in 1..Len(session'.entries) :
        session'.entries[i].from = "assistant" =>
          session'.entries[i].about # 0
  BY <1>2 DEF Good, Committed
<1>5. /\ turn' \in TurnType /\ turn'.state \in {"active", "failed"}
      /\ turn'.state = "active" => turn'.id = session'.nextId
      /\ turn'.n < session'.nextTurn
      /\ NoReply(session', turn'.n)
      /\ \A c \in cancels : c.turn # turn'.n
  <2>1. CASE turn' = NoTurn
    <3>1. NoTurn \in TurnType /\ NoTurn.n = 0 /\ NoTurn.state = "failed"
      BY DEF NoTurn, TurnType
    <3>2. NoReply(session', 0)
      BY <1>4 DEF NoReply, IsReply
    <3> QED BY <1>2, <1>3, <2>1, <3>1, <3>2
  <2>2. CASE turn' # NoTurn
    <3>1. /\ turn' \in TurnType /\ turn'.state = "active"
          /\ turn'.n # 0 /\ turn'.n + 1 = session'.nextTurn
          /\ turn'.id = session'.nextId /\ NoReply(session', turn'.n)
      BY <2>2 DEF Began
    <3>2. turn'.n \in Nat
      BY <3>1 DEF TurnType
    <3> QED BY <1>2, <1>3, <2>2, <3>1, <3>2
  <2> QED BY <2>1, <2>2
<1>6. /\ TurnFollowsRun'
      /\ run' \notin {"idle", "failed"} => turn'.n # 0
  <2>1. CASE turn' = NoTurn
    BY <2>1 DEF NoTurn, TurnFollowsRun
  <2>2. CASE turn' # NoTurn
    BY <2>2 DEF Began, TurnFollowsRun
  <2> QED BY <2>1, <2>2
<1>7. TurnInv'
  <2>1. sending' \in Seq(EventType)
    BY DEF TurnInv
  <2>2. turn'.state \notin {"finished", "cancelled"}
    BY <1>5
  <2> QED BY <1>5, <1>6, <2>1, <2>2 DEF TurnInv, NoReply, IsReply
<1>8. ASSUME NEW c \in cancels, c.phase = "marked"
      PROVE  NoReply(session', c.turn) /\ IdTaken(session', c.id)
  <2>1. CASE c.turn = turn.n
    <3>1. turn.state = "cancelled" /\ c.id = session.nextId
      BY <1>8, <2>1 DEF CancelsInv
    <3>2. Unsettled(cancels, turn.n)
      BY <1>8, <2>1 DEF Unsettled
    <3> QED BY <1>1, <1>8, <3>1, <3>2 DEF CancelsInv
  <2>2. CASE c.turn # turn.n
    BY <1>1, <1>8, <2>2 DEF CancelsInv
  <2> QED BY <2>1, <2>2
<1>9. CancelsInv'
  <2>1. \A c \in cancels : c.turn < session'.nextTurn
    BY <1>2, <1>3
  <2> QED BY <1>5, <1>8, <2>1 DEF CancelsInv, NoReply, IsReply, IdTaken
<1> QED BY <1>7, <1>9

\* A step that is no submission keeps the prompts, unless the run ends by
\* itself with one.
LEMMA SamePrompts ==
  ASSUME PromptsInv, PromptsKept(session') = PromptsKept(session),
         prompted' = prompted, submits' = submits,
         handler' = handler \/ handler' = <<>>,
         run' = "failed" => ended' = "failed",
         run' = "idle" /\ ended' = "drained" => session'.prompts = <<>>
  PROVE  PromptsInv'
<1>1. /\ handler' # <<>> => Head(handler').text = submits'
      /\ \A x \in PromptsKept(session') :
           x <= submits' /\ (handler' # <<>> => x < submits')
  BY DEF PromptsInv
<1> QED BY <1>1 DEF PromptsInv, PromptsKept, PromptEntries

\* And a step that leaves the session and the turn alone keeps all of it.
LEMMA SameSession ==
  ASSUME Good(session), session' = session
  PROVE  /\ Good(session') /\ Extends(session, session')
         /\ session'.nextId = session.nextId
         /\ PromptsKept(session') = PromptsKept(session)
<1>1. SameCore(session, session')
  BY DEF SameCore, Good
<1> QED BY <1>1, SameIsGood DEF SameCore, Extends

\* Prompts are submission numbers.
LEMMA NumbersAreKept ==
  ASSUME Good(session)
  PROVE  \A x \in PromptsKept(session) : x \in Nat
<1>1. /\ \A i \in 1..Len(session.entries) : session.entries[i] \in EntryType
      /\ \A i \in 1..Len(session.prompts) : session.prompts[i] \in Nat
  BY ElementOfSeq DEF Good, SessionType
<1> QED BY <1>1 DEF PromptsKept, PromptEntries, EntryType

-----------------------------------------------------------------------------
(* The user and the app keep it.                                           *)

\* A submission (handleIyonAction) touches nothing yet; its number is new.
LEMMA SubmitKeeps ==
  ASSUME IInv, Submit
  PROVE  IInv'
<1>1. /\ session' = session /\ turn' = turn /\ sending' = sending
      /\ cancels' = cancels /\ run' = run /\ aborted' = aborted
      /\ prompted' = prompted /\ ended' = ended /\ submits' = submits + 1
      /\ handler' = <<[text |-> submits + 1, ui |-> ui]>>
  BY DEF Submit, nativeVars, runVars, history
<1>2. Good(session)' /\ TurnInv' /\ CancelsInv'
  BY <1>1 DEF IInv, Good, Numbered, Committed, InOrder, PromptEntries,
              TurnInv, TurnFollowsRun, NoReply, IsReply, Settling,
              CancelsInv, IdTaken
<1>3. /\ handler' # <<>> /\ Head(handler').text = submits'
      /\ submits' \in Nat
  BY <1>1 DEF IInv, PromptsInv
<1>4. \A x \in PromptsKept(session) : x <= submits' /\ x < submits'
  <2>1. \A x \in PromptsKept(session) : x \in Nat
    BY NumbersAreKept DEF IInv
  <2>2. submits \in Nat /\ \A x \in PromptsKept(session) : x <= submits
    BY DEF IInv, PromptsInv
  <2>3. ASSUME NEW x \in PromptsKept(session)
        PROVE  x <= submits' /\ x < submits'
    <3>1. x \in Nat /\ submits \in Nat /\ x <= submits
      BY <2>1, <2>2
    <3>2. submits' = submits + 1
      BY <1>1
    <3> QED BY <3>1, <3>2
  <2> QED BY <2>3
<1>5. PromptsInv'
  <2>1. PromptsKept(session)' = PromptsKept(session)
    BY <1>1 DEF PromptsKept, PromptEntries
  <2>2. \A x \in PromptsKept(session)' :
          x <= submits' /\ (handler' # <<>> => x < submits')
    BY <1>4, <2>1
  <2> QED BY <1>1, <1>3, <2>1, <2>2 DEF IInv, PromptsInv
<1> QED BY <1>2, <1>5 DEF IInv

\* What a step does that leaves session, turn and run alone.
LEMMA IdleKeeps ==
  ASSUME IInv, session' = session, turn' = turn, sending' = sending,
         cancels' = cancels, run' = run, aborted' = aborted,
         prompted' = prompted, ended' = ended, submits' = submits,
         handler' = handler \/ handler' = <<>>
  PROVE  IInv'
<1>1. Good(session)' /\ TurnInv' /\ CancelsInv'
  BY DEF IInv, Good, Numbered, Committed, InOrder, PromptEntries,
         TurnInv, TurnFollowsRun, NoReply, IsReply, Settling,
         CancelsInv, IdTaken
<1>2. PromptsKept(session') = PromptsKept(session)
  BY SameSession DEF IInv
<1>3. PromptsInv'
  BY <1>2, SamePrompts DEF IInv, PromptsInv
<1> QED BY <1>1, <1>3 DEF IInv

\* What one does that changes only what is not a message: an event sent or
\* taken, a steer queued.
LEMMA EventsKeep ==
  ASSUME IInv, SameCore(session, session'), turn' = turn,
         sending' \in Seq(EventType), cancels' = cancels, run' = run,
         aborted' = aborted, prompted' = prompted, ended' = ended,
         submits' = submits, handler' = handler \/ handler' = <<>>
  PROVE  IInv'
<1>1. /\ Good(session') /\ Extends(session, session')
      /\ session'.nextId = session.nextId
      /\ session'.prompts = session.prompts
  BY SameIsGood DEF IInv, SameCore
<1>2. TurnFollowsRun' /\ turn' \in TurnType /\ aborted' \in BOOLEAN
  BY DEF IInv, TurnInv, TurnFollowsRun
<1>3. turn.state \in {"active", "finished", "failed", "cancelled"}
  BY DEF IInv, TurnInv, TurnType
<1>4. TurnInv'
  <2>1. Unsettled(cancels', turn.n) <=> Unsettled(cancels, turn.n)
    BY DEF Unsettled
  <2>2. TurnInv /\ Good(session)
    BY DEF IInv
  <2> QED BY <1>1, <1>2, <1>3, <2>1, <2>2, SameTurn
<1>5. CancelsInv'
  <2>1. run' \in {"failing", "reporting"} =>
          \A c \in cancels : c.turn # turn.n
    BY DEF IInv, CancelsInv
  <2>2. CancelsInv /\ Good(session)
    BY DEF IInv
  <2> QED BY <1>1, <2>1, <2>2, SameCancels
<1>6. PromptsInv'
  <2>1. PromptsKept(session') = PromptsKept(session)
    BY <1>1 DEF Extends
  <2> QED BY <1>1, <2>1, SamePrompts DEF IInv, PromptsInv
<1> QED BY <1>1, <1>4, <1>5, <1>6 DEF IInv

\* submitSteering queues a text that is no message yet, or is refused.
LEMMA SteersKeep ==
  ASSUME IInv, SteerAccepted \/ SteerRefused
  PROVE  IInv'
<1>1. CASE SteerRefused
  BY <1>1, IdleKeeps
     DEF SteerRefused, nativeVars, runVars, history
<1>2. CASE SteerAccepted
  <2> DEFINE text == Head(handler).text
             queued == [session EXCEPT !.steers = Append(session.steers, text)]
             events == <<Event("steerQueued", text)>>
  <2>1. /\ session' = TryEmit(queued, events) /\ turn' = turn
        /\ sending' = sending /\ cancels' = cancels /\ run' = run
        /\ aborted' = aborted /\ prompted' = prompted /\ ended' = ended
        /\ submits' = submits /\ handler' = <<>>
    BY <1>2 DEF SteerAccepted, runVars
  <2>2. text \in Nat
    BY <1>2 DEF SteerAccepted, IInv, PromptsInv
  <2>3. events \in Seq(EventType)
    BY <2>2, Emitted DEF EventKinds
  <2>4. session \in SessionType
    BY DEF IInv, Good
  <2>5. SameCore(session, queued)
    BY <2>2, <2>4, QueuedSteer
  <2> HIDE DEF text, queued, events
  <2>6. SameCore(queued, session')
    BY <2>1, <2>3, <2>5, EmitIsSame DEF SameCore
  <2>7. SameCore(session, session')
    BY <2>5, <2>6 DEF SameCore
  <2>8. sending' \in Seq(EventType)
    BY <2>1 DEF IInv, TurnInv
  <2> QED BY <2>1, <2>7, <2>8, EventsKeep
<1> QED BY <1>1, <1>2

\* A prompt that the queue refuses changes only what the app shows.
LEMMA PromptRefusedKeeps ==
  ASSUME IInv, PromptRefused
  PROVE  IInv'
BY IdleKeeps DEF PromptRefused, nativeVars, runVars, history

\* Nor does the bridge, which takes events and dispatches them.
LEMMA BridgeKeeps ==
  ASSUME IInv, TakeBatch \/ Dispatch
  PROVE  IInv'
<1>1. CASE Dispatch
  BY <1>1, IdleKeeps DEF Dispatch, nativeVars, runVars, history
<1>2. CASE TakeBatch
  <2> DEFINE n == IF Len(session.events) <= MaxBatch
                  THEN Len(session.events) ELSE MaxBatch
  <2>1. /\ session' = [session EXCEPT !.events =
                         SubSeq(session.events, n + 1, Len(session.events))]
        /\ turn' = turn
        /\ sending' = sending /\ cancels' = cancels /\ run' = run
        /\ aborted' = aborted /\ prompted' = prompted /\ ended' = ended
        /\ submits' = submits /\ handler' = handler
    BY <1>2 DEF TakeBatch, runVars, history
  <2>2. session \in SessionType /\ sending \in Seq(EventType)
    BY DEF IInv, Good, TurnInv
  <2>3. n \in 0..Len(session.events)
    BY <2>2, LenProperties, AgentRunAssumption
       DEF SessionType, AgentRunAssumption
  <2> HIDE DEF n
  <2>4. SameCore(session, session')
    BY <2>1, <2>2, <2>3, TakenEvents
  <2> QED BY <2>1, <2>2, <2>4, EventsKeep
<1> QED BY <1>1, <1>2

\* send_event: one more event, if it fits.
LEMMA SendKeeps ==
  ASSUME IInv, Send
  PROVE  IInv'
<1>1. /\ session' = TryEmit(session, <<Head(sending)>>) /\ turn' = turn
      /\ sending' = Tail(sending) /\ cancels' = cancels /\ run' = run
      /\ aborted' = aborted /\ prompted' = prompted /\ ended' = ended
      /\ submits' = submits /\ handler' = handler /\ sending # <<>>
  BY DEF Send, runVars, appVars, history
<1>2. session \in SessionType /\ sending \in Seq(EventType)
  BY DEF IInv, Good, TurnInv
<1>3. Head(sending) \in EventType /\ Tail(sending) \in Seq(EventType)
  BY <1>1, <1>2, HeadTailProperties
<1>4. <<Head(sending)>> \in Seq(EventType)
  <2>1. \A e \in EventType : <<e>> \in Seq(EventType)
    OBVIOUS
  <2> QED BY <1>3, <2>1
<1>5. SameCore(session, session')
  BY <1>1, <1>2, <1>4, EmitIsSame
<1> QED BY <1>1, <1>3, <1>5, EventsKeep

\* submitPrompt: the prompt is queued, and starts a run if there is none.
LEMMA PromptAcceptedKeeps ==
  ASSUME IInv, PromptAccepted
  PROVE  IInv'
<1> DEFINE text == Head(handler).text
           queued == [session EXCEPT !.prompts =
                        Append(session.prompts, text)]
           next == NextIteration(queued, TRUE)
<1>1. /\ Good(session) /\ TurnInv /\ CancelsInv /\ PromptsInv
      /\ turn \in TurnType /\ sending \in Seq(EventType)
      /\ text = submits /\ submits \in Nat
      /\ \A x \in PromptsKept(session) : x < text
  BY DEF PromptAccepted, IInv, PromptsInv, TurnInv
<1>2. /\ prompted' = Append(prompted, text) /\ handler' = <<>>
      /\ submits' = submits /\ sending' = sending /\ cancels' = cancels
      /\ run = "idle" =>
           /\ session' = next.session /\ turn' = next.turn
           /\ run' = IF next.ok THEN "streaming" ELSE "failed"
           /\ ended' = IF next.ok THEN ended ELSE "failed"
           /\ aborted' = FALSE
      /\ run # "idle" =>
           /\ session' = queued /\ turn' = turn /\ run' = run
           /\ aborted' = aborted /\ ended' = ended
  BY DEF PromptAccepted
<1>3. /\ Good(queued) /\ PromptsKept(queued) = PromptsKept(session) \cup {text}
      /\ queued.entries = session.entries /\ queued.nextId = session.nextId
      /\ queued.nextTurn = session.nextTurn /\ queued.prompts # <<>>
  <2>1. text \in Nat /\ \A x \in PromptsKept(session) : x < text
    BY <1>1
  <2> HIDE DEF text
  <2>2. \A t : t = [session EXCEPT !.prompts = Append(session.prompts, text)]
          => /\ Good(t) /\ PromptsKept(t) = PromptsKept(session) \cup {text}
             /\ t.entries = session.entries /\ t.nextId = session.nextId
             /\ t.nextTurn = session.nextTurn /\ t.prompts # <<>>
    BY <1>1, <2>1, QueuedPrompt
  <2> QED BY <2>2
<1>4. /\ Good(next.session) /\ Extends(queued, next.session)
      /\ IdTaken(next.session, queued.nextId)
      /\ Began(next.session, next.turn) /\ (next.turn = NoTurn) = ~next.ok
      /\ next.turn # NoTurn => next.turn.n >= queued.nextTurn
  BY <1>3, IterationGood
<1> HIDE DEF text, queued, next
<1>5. /\ Good(session') /\ TurnInv' /\ CancelsInv'
      /\ PromptsKept(session') = PromptsKept(session) \cup {text}
      /\ run' = "failed" => ended' = "failed"
      /\ run' # "idle"
  <2>1. CASE run = "idle"
    <3>1. PromptsKept(session') = PromptsKept(session) \cup {text}
      BY <1>2, <1>3, <1>4, <2>1 DEF Extends
    <3>2. TurnInv' /\ CancelsInv'
      <4>1. KeepsReplies(session, session')
        <5>1. /\ \A id : IdTaken(session, id) => IdTaken(queued, id)
              /\ \A n : NoReply(session, n) <=> NoReply(queued, n)
          BY <1>3 DEF IdTaken, NoReply, IsReply
        <5>2. /\ \A id : IdTaken(queued, id) => IdTaken(session', id)
              /\ \A n : NoReply(queued, n) <=> NoReply(session', n)
          BY <1>2, <1>3, <1>4, <2>1, ExtendsKeeps
        <5>3. session.nextTurn <= session'.nextTurn
          BY <1>2, <1>3, <1>4, <2>1 DEF Extends
        <5> QED BY <5>1, <5>2, <5>3 DEF KeepsReplies
      <4>2. /\ Began(session', turn') /\ IdTaken(session', session.nextId)
            /\ turn' # NoTurn => turn'.n >= session.nextTurn
            /\ run' = IF turn' # NoTurn THEN "streaming" ELSE "failed"
        BY <1>2, <1>3, <1>4, <2>1
      <4>3. aborted' \in BOOLEAN /\ Good(session')
        BY <1>2, <1>4, <2>1
      <4> QED BY <1>1, <1>2, <4>1, <4>2, <4>3, NextTurn
    <3>3. /\ run' = "failed" => ended' = "failed"
          /\ run' # "idle"
      BY <1>2, <2>1
    <3> QED BY <1>2, <1>4, <2>1, <3>1, <3>2, <3>3
  <2>2. CASE run # "idle"
    <3>1. /\ session'.entries = session.entries
          /\ session'.nextId = session.nextId
          /\ session'.nextTurn = session.nextTurn
          /\ session' = queued
      BY <1>2, <1>3, <2>2
    <3>2. TurnInv' /\ CancelsInv'
      BY <1>1, <1>2, <2>2, <3>1
         DEF TurnInv, TurnFollowsRun, NoReply, IsReply, Settling,
             CancelsInv, IdTaken
    <3> QED BY <1>1, <1>2, <1>3, <2>2, <3>1, <3>2 DEF PromptsInv
  <2> QED BY <2>1, <2>2
<1>6. PromptsInv'
  <2>1. /\ prompted' \in Seq(Nat)
        /\ {prompted'[i] : i \in 1..Len(prompted')}
             = {prompted[i] : i \in 1..Len(prompted)} \cup {text}
    <3>1. prompted \in Seq(Nat) /\ text \in Nat
      BY <1>1 DEF PromptsInv
    <3>2. /\ prompted' \in Seq(Nat) /\ Len(prompted) \in Nat
          /\ Len(prompted') = Len(prompted) + 1
          /\ \A i \in 1..Len(prompted) :
               i \in 1..Len(prompted') /\ prompted'[i] = prompted[i]
          /\ Len(prompted') \in 1..Len(prompted')
          /\ prompted'[Len(prompted')] = text
          /\ \A i \in 1..Len(prompted') :
               i \in 1..Len(prompted) \/ i = Len(prompted')
      BY <1>2, <3>1, AppendProperties, LenProperties
    <3> QED BY <3>2
  <2>2. PromptsKept(session') = {prompted'[i] : i \in 1..Len(prompted')}
    BY <1>1, <1>5, <2>1 DEF PromptsInv
  <2>3. \A x \in PromptsKept(session') : x <= submits'
    <3>1. \A x \in PromptsKept(session) : x \in Nat
      BY <1>1, NumbersAreKept
    <3>2. ASSUME NEW x \in PromptsKept(session')
          PROVE  x <= submits'
      <4>1. x \in PromptsKept(session) \/ x = text
        BY <1>5, <3>2
      <4> QED BY <1>1, <1>2, <3>1, <4>1
    <3> QED BY <3>2
  <2>4. PromptsKept(session)' = PromptsKept(session')
    BY DEF PromptsKept, PromptEntries
  <2>5. submits' \in Nat /\ handler' = <<>>
    BY <1>1, <1>2
  <2> QED BY <1>5, <2>1, <2>2, <2>3, <2>4, <2>5 DEF PromptsInv
<1>7. Good(session)'
  BY <1>5 DEF Good, Numbered, Committed, InOrder, PromptEntries
<1> QED BY <1>5, <1>6, <1>7 DEF IInv

-----------------------------------------------------------------------------
(* The run keeps it.                                                       *)

\* What a step of the run does that leaves the session and the cancels
\* alone, and the turn at most failed.
LEMMA RunKeeps ==
  ASSUME IInv, session' = session, cancels' = cancels, aborted' = aborted,
         turn' \in TurnType, turn'.n = turn.n, turn'.id = turn.id,
         \/ turn'.state = turn.state
         \/ turn'.state = "failed" /\ turn.state = "active",
         sending' \in Seq(EventType), TurnFollowsRun',
         run' \in {"idle", "failed"} \/ run \notin {"idle", "failed"},
         run' \in {"failing", "reporting"} =>
           \A c \in cancels : c.turn # turn.n,
         prompted' = prompted, submits' = submits, handler' = handler,
         run' = "failed" => ended' = "failed",
         run' = "idle" => ended' # "drained"
  PROVE  IInv'
<1>1. /\ Good(session) /\ TurnInv /\ CancelsInv /\ PromptsInv
      /\ aborted \in BOOLEAN
  BY DEF IInv, TurnInv
<1>2. /\ Good(session') /\ Extends(session, session')
      /\ session'.nextId = session.nextId
      /\ PromptsKept(session') = PromptsKept(session)
  BY <1>1, SameSession
<1>3. TurnInv'
  <2>1. Unsettled(cancels', turn.n) <=> Unsettled(cancels, turn.n)
    BY DEF Unsettled
  <2> QED BY <1>1, <1>2, <2>1, SameTurn
<1>4. CancelsInv'
  BY <1>1, <1>2, SameCancels
<1>5. PromptsInv'
  BY <1>1, <1>2, SamePrompts
<1> QED BY <1>2, <1>3, <1>4, <1>5 DEF IInv

\* What the run knows of its turn.
LEMMA TurnOfRun ==
  ASSUME IInv
  PROVE  /\ turn \in TurnType /\ turn.n \in Nat /\ turn.id \in Nat
         /\ turn.tool \in BOOLEAN /\ aborted \in BOOLEAN
         /\ sending \in Seq(EventType)
         /\ ~aborted => \A c \in cancels : c.turn # turn.n
         /\ ~aborted /\ run \notin {"idle", "failed"} =>
              turn.state # "cancelled"
         /\ run \in {"failing", "reporting"} =>
              \A c \in cancels : c.turn # turn.n
         /\ Good(session) /\ TurnInv /\ CancelsInv /\ PromptsInv
BY DEF IInv, TurnInv, CancelsInv, TurnType

\* What the provider's stream yields changes the native turn, and the session
\* not at all.
LEMMA StreamKeeps ==
  ASSUME IInv, StreamStep
  PROVE  IInv'
<1>1. /\ session' = session /\ cancels' = cancels /\ aborted' = aborted
      /\ prompted' = prompted /\ submits' = submits /\ handler' = handler
      /\ run = "streaming" /\ run' \notin {"idle", "failed"}
  BY DEF StreamStep, StreamText, StreamToolCall, StreamDone, StreamError,
         StreamInvalidCall, StreamBreaks, StreamEnds, Push, Await, Streaming,
         appVars, history, nativeVars
<1>2. turn.state \in {"active", "cancelled"}
  BY <1>1, TurnOfRun DEF TurnInv, TurnFollowsRun
<1>3. \A kind \in EventKinds : <<Event(kind, turn.n)>> \in Seq(EventType)
  BY TurnOfRun, Emitted
<1>4. turn \in TurnType /\ sending \in Seq(EventType)
  BY TurnOfRun
<1>5. CASE StreamText
  <2>1. /\ turn' = [turn EXCEPT !.text = TRUE] /\ run' = "pushing"
        /\ sending' = <<Event("assistantDelta", turn.n)>>
    BY <1>5 DEF StreamText, Push, Await
  <2>2. /\ turn' \in TurnType /\ turn'.n = turn.n /\ turn'.id = turn.id
        /\ turn'.state = turn.state
    BY <1>4, <2>1 DEF TurnType
  <2>3. sending' \in Seq(EventType)
    BY <1>3, <2>1 DEF EventKinds
  <2>4. TurnFollowsRun'
    BY <1>2, <2>1, <2>2 DEF TurnFollowsRun
  <2> QED BY <1>1, <2>1, <2>2, <2>3, <2>4, RunKeeps
<1>6. CASE StreamToolCall
  <2>1. /\ turn' = [turn EXCEPT !.tool = TRUE] /\ run' = "pushing"
        /\ sending' = <<Event("toolPrepared", turn.n)>>
    BY <1>6 DEF StreamToolCall, Push, Await
  <2>2. /\ turn' \in TurnType /\ turn'.n = turn.n /\ turn'.id = turn.id
        /\ turn'.state = turn.state
    BY <1>4, <2>1 DEF TurnType
  <2>3. sending' \in Seq(EventType)
    BY <1>3, <2>1 DEF EventKinds
  <2>4. TurnFollowsRun'
    BY <1>2, <2>1, <2>2 DEF TurnFollowsRun
  <2> QED BY <1>1, <2>1, <2>2, <2>3, <2>4, RunKeeps
<1>7. CASE StreamDone
  <2>1. PICK reason \in {"stop", "toolUse", "error"} :
          turn' = [turn EXCEPT !.reason = reason]
    BY <1>7 DEF StreamDone, Push
  <2>2. sending' = <<>> /\ run' = "pushing"
    BY <1>7 DEF StreamDone, Push, Await
  <2>3. /\ turn' \in TurnType /\ turn'.n = turn.n /\ turn'.id = turn.id
        /\ turn'.state = turn.state
    BY <1>4, <2>1 DEF TurnType
  <2>4. TurnFollowsRun' /\ sending' \in Seq(EventType)
    BY <1>2, <2>2, <2>3 DEF TurnFollowsRun
  <2> QED BY <1>1, <2>2, <2>3, <2>4, RunKeeps
<1>8. CASE StreamError
  <2>1. /\ turn' = [turn EXCEPT !.state = "failed"] /\ run' = "pushing"
        /\ sending' = <<>> /\ ~aborted
    BY <1>8 DEF StreamError, Push, Await, Streaming
  <2>2. /\ turn' \in TurnType /\ turn'.n = turn.n /\ turn'.id = turn.id
        /\ turn'.state = "failed"
    BY <1>4, <2>1 DEF TurnType
  <2>3. turn.state = "active"
    BY <1>1, <1>2, <2>1, TurnOfRun
  <2>4. TurnFollowsRun' /\ sending' \in Seq(EventType)
    BY <2>1, <2>2 DEF TurnFollowsRun
  <2> QED BY <1>1, <2>1, <2>2, <2>3, <2>4, RunKeeps
<1>9. CASE StreamInvalidCall \/ StreamBreaks \/ StreamEnds
  <2>1. /\ turn' = turn /\ sending' = sending
        /\ \/ run' \in {"cancelling", "finishing"}
           \/ run' = "failing" /\ ~aborted
    BY <1>9 DEF StreamInvalidCall, StreamBreaks, StreamEnds, Await,
                nativeVars
  <2>2. /\ run' = "failing" => turn.state = "active"
        /\ ~aborted => \A c \in cancels : c.turn # turn.n
    BY <1>1, <1>2, <2>1, TurnOfRun
  <2>3. TurnFollowsRun'
    BY <1>2, <2>1, <2>2 DEF TurnFollowsRun
  <2>4. /\ turn' \in TurnType /\ turn'.n = turn.n /\ turn'.id = turn.id
        /\ turn'.state = turn.state /\ sending' \in Seq(EventType)
        /\ run' \in {"failing", "reporting"} =>
             \A c \in cancels : c.turn # turn.n
    BY <1>4, <2>1, <2>2
  <2> QED BY <1>1, <2>3, <2>4, RunKeeps
<1> QED BY <1>5, <1>6, <1>7, <1>8, <1>9 DEF StreamStep

\* A push that returns, or that the cancel of its turn interrupts.
LEMMA PushedKeeps ==
  ASSUME IInv, Pushed \/ PushInterrupted
  PROVE  IInv'
<1>1. /\ session' = session /\ cancels' = cancels /\ aborted' = aborted
      /\ prompted' = prompted /\ submits' = submits /\ handler' = handler
      /\ run = "pushing" /\ turn' = turn
      /\ sending' = sending \/ sending' = <<>>
      /\ \/ run' = "cancelling"
         \/ run' = "streaming" /\ turn.state # "failed"
         \/ run' = "failing" /\ turn.state = "failed" /\ ~aborted
  BY DEF Pushed, PushInterrupted, Await, appVars, history, nativeVars
<1>2. /\ turn.state \in {"active", "failed", "cancelled"}
      /\ turn' \in TurnType /\ sending' \in Seq(EventType)
  <2>1. turn.state \in {"active", "failed", "cancelled"}
    BY <1>1, TurnOfRun DEF TurnInv, TurnFollowsRun
  <2>2. sending \in Seq(EventType) /\ turn \in TurnType
    BY TurnOfRun
  <2>3. <<>> \in Seq(EventType)
    OBVIOUS
  <2> QED BY <1>1, <2>1, <2>2, <2>3
<1>3. TurnFollowsRun'
  BY <1>1, <1>2 DEF TurnFollowsRun
<1>4. run' \in {"failing", "reporting"} =>
        \A c \in cancels : c.turn # turn.n
  BY <1>1, TurnOfRun
<1>5. run' \notin {"idle", "failed"} /\ run \notin {"idle", "failed"}
  BY <1>1
<1> QED BY <1>1, <1>2, <1>3, <1>4, <1>5, RunKeeps

\* turn.fail and the end of its report.
LEMMA FailureKeeps ==
  ASSUME IInv, FailTurn \/ FailReported
  PROVE  IInv'
<1>1. /\ session' = session /\ cancels' = cancels /\ aborted' = aborted
      /\ prompted' = prompted /\ submits' = submits /\ handler' = handler
      /\ run \in {"failing", "reporting"}
  BY DEF FailTurn, FailReported, Await, appVars, history, nativeVars
<1>2. /\ turn \in TurnType /\ turn.state \in {"active", "failed"}
      /\ \A c \in cancels : c.turn # turn.n
  BY <1>1, TurnOfRun DEF TurnInv, TurnFollowsRun
<1>3. CASE FailTurn
  <2>1. /\ turn' = [turn EXCEPT !.state = "failed"] /\ run' = "reporting"
        /\ sending' = <<Event("turnFailed", turn.n)>>
    BY <1>3 DEF FailTurn, Await
  <2>2. /\ turn' \in TurnType /\ turn'.n = turn.n /\ turn'.id = turn.id
        /\ turn'.state = "failed"
    BY <1>2, <2>1 DEF TurnType
  <2>3. sending' \in Seq(EventType)
    BY <2>1, TurnOfRun, Emitted DEF EventKinds
  <2>4. TurnFollowsRun'
    BY <2>1, <2>2 DEF TurnFollowsRun
  <2> QED BY <1>1, <1>2, <2>1, <2>2, <2>3, <2>4, RunKeeps
<1>4. CASE FailReported
  <2>1. /\ turn' = turn /\ run' = "failed" /\ ended' = "failed"
        /\ sending' = sending /\ run = "reporting"
    BY <1>4 DEF FailReported, Throw, nativeVars
  <2>2. TurnFollowsRun' /\ sending' \in Seq(EventType)
    BY <2>1, TurnOfRun DEF TurnFollowsRun, TurnInv
  <2> QED BY <1>1, <1>2, <2>1, <2>2, RunKeeps
<1> QED BY <1>3, <1>4

\* The steps that end a run without a word to the session.
LEMMA EndKeeps ==
  ASSUME IInv, ReturnAborted \/ StopMismatch \/ ToolAborted \/ ClearFailedRun
  PROVE  IInv'
<1>1. /\ session' = session /\ cancels' = cancels /\ aborted' = aborted
      /\ prompted' = prompted /\ submits' = submits /\ handler' = handler
      /\ turn' = turn /\ sending' = sending
      /\ run \in {"settling", "executing", "failed"}
      /\ run' \in {"idle", "failed"}
      /\ run' = "failed" => ended' = "failed"
      /\ run' = "idle" /\ run # "failed" => ended' = "cancelled"
      /\ run = "failed" => ended' = ended
  BY DEF ReturnAborted, StopMismatch, ToolAborted, ClearFailedRun, Return,
         Throw, Settled, appVars, history, nativeVars
<1>2. /\ turn' \in TurnType /\ turn.state # "active"
      /\ sending' \in Seq(EventType)
      /\ run = "failed" => ended = "failed"
  BY <1>1, TurnOfRun DEF TurnInv, TurnFollowsRun, PromptsInv
<1>3. TurnFollowsRun'
  BY <1>1, <1>2 DEF TurnFollowsRun
<1>4. run' = "idle" => ended' # "drained"
  BY <1>1, <1>2
<1> QED BY <1>1, <1>2, <1>3, <1>4, RunKeeps

\* The cancels without c, or with c one lock further.
LEMMA CancelMoves ==
  ASSUME CancelsInv, NEW c \in cancels,
         NEW phase \in {"spawned", "flagged", "marked"}, NEW d,
         d = [c EXCEPT !.phase = phase]
  PROVE  /\ d \in CancelType /\ d.turn = c.turn /\ d.id = c.id
         /\ d.tool = c.tool /\ d.phase = phase
         /\ (cancels \ {c}) \cup {d} \subseteq CancelType
         /\ \A e \in cancels \ {c} : e.turn # c.turn
         /\ \A x, y \in (cancels \ {c}) \cup {d} : x.turn = y.turn => x = y
<1>1. c \in CancelType
  BY DEF CancelsInv
<1>2. /\ d \in CancelType /\ d.turn = c.turn /\ d.id = c.id
      /\ d.tool = c.tool /\ d.phase = phase
  BY <1>1 DEF CancelType
<1>3. \A e \in cancels \ {c} : e.turn # c.turn
  BY DEF CancelsInv
<1>4. \A x, y \in cancels \ {c} : x.turn = y.turn => x = y
  BY DEF CancelsInv
<1>5. \A x, y \in (cancels \ {c}) \cup {d} : x.turn = y.turn => x = y
  <2> SUFFICES ASSUME NEW x \in (cancels \ {c}) \cup {d},
                      NEW y \in (cancels \ {c}) \cup {d}, x.turn = y.turn
               PROVE  x = y
    OBVIOUS
  <2> QED BY <1>2, <1>3, <1>4
<1> QED BY <1>2, <1>3, <1>5 DEF CancelsInv

\* What a step does that changes only the cancels: none is marked by it, or
\* loses its mark, and none is made.
LEMMA CancelsKeep ==
  ASSUME IInv, session' = session, turn' = turn, sending' = sending,
         run' = run, aborted' = aborted, prompted' = prompted,
         ended' = ended, submits' = submits, handler' = handler,
         cancels' \subseteq CancelType,
         \A x \in cancels' :
           \E y \in cancels : /\ x.turn = y.turn /\ x.id = y.id
                              /\ x.phase = "marked" => y.phase = "marked",
         \A x, y \in cancels' : x.turn = y.turn => x = y,
         Unsettled(cancels, turn.n) => Unsettled(cancels', turn.n)
  PROVE  IInv'
<1>1. Good(session') /\ PromptsInv'
  <2>1. Good(session) /\ PromptsInv
    BY DEF IInv
  <2>2. Good(session') /\ PromptsKept(session') = PromptsKept(session)
    BY <2>1, SameSession
  <2> QED BY <2>1, <2>2, SamePrompts DEF PromptsInv
<1>2. Unsettled(cancels', turn.n) <=> Unsettled(cancels, turn.n)
  BY DEF Unsettled
<1>3. TurnInv'
  BY <1>2 DEF IInv, TurnInv, TurnFollowsRun, NoReply, IsReply, Settling,
              Unsettled
<1>4. CancelsInv'
  <2>1. CancelsInv
    BY DEF IInv
  <2>2. ASSUME NEW x \in cancels'
        PROVE  /\ x.turn < session.nextTurn
               /\ x.turn = turn.n =>
                    /\ x.id = turn.id /\ aborted
                    /\ run \notin {"failing", "reporting"}
               /\ x.phase = "marked" =>
                    /\ NoReply(session, x.turn)
                    /\ IF x.turn = turn.n
                       THEN turn.state = "cancelled"
                            /\ x.id = session.nextId
                       ELSE IdTaken(session, x.id)
    <3>1. PICK y \in cancels : /\ x.turn = y.turn /\ x.id = y.id
                               /\ x.phase = "marked" => y.phase = "marked"
      OBVIOUS
    <3> QED BY <2>1, <3>1 DEF CancelsInv
  <2> QED BY <2>2 DEF CancelsInv, NoReply, IsReply, IdTaken
<1> QED BY <1>1, <1>3, <1>4 DEF IInv

\* The cancel's flag and token.
LEMMA FlagKeeps ==
  ASSUME IInv, FlagCancel
  PROVE  IInv'
<1>1. PICK c \in cancels : c.phase = "spawned" /\ Advance(c, "flagged")
  BY DEF FlagCancel
<1>2. /\ session' = session /\ turn' = turn /\ sending' = sending
      /\ run' = run /\ aborted' = aborted /\ prompted' = prompted
      /\ ended' = ended /\ submits' = submits /\ handler' = handler
  BY DEF FlagCancel, runVars, appVars, history
<1>3. PICK d \in {[c EXCEPT !.phase = "flagged"]} :
        d = [c EXCEPT !.phase = "flagged"]
  OBVIOUS
<1>4. cancels' = (cancels \ {c}) \cup {d}
  BY <1>1, <1>3 DEF Advance
<1>5. CancelsInv
  BY DEF IInv
<1>6. /\ d.turn = c.turn /\ d.id = c.id /\ d.phase = "flagged"
      /\ cancels' \subseteq CancelType
      /\ \A x, y \in cancels' : x.turn = y.turn => x = y
  BY <1>3, <1>4, <1>5, CancelMoves
<1>7. \A x \in cancels' :
        \E y \in cancels : /\ x.turn = y.turn /\ x.id = y.id
                           /\ x.phase = "marked" => y.phase = "marked"
  BY <1>4, <1>6
<1>8. Unsettled(cancels, turn.n) => Unsettled(cancels', turn.n)
  BY <1>1, <1>4 DEF Unsettled
<1> QED BY <1>2, <1>6, <1>7, <1>8, CancelsKeep

\* The cancel's first lock: it finds its turn active and marks it, or it
\* fails.
LEMMA MarkKeeps ==
  ASSUME IInv, MarkCancel
  PROVE  IInv'
<1>1. PICK c \in cancels :
        /\ c.phase = "flagged"
        /\ IF CanCancel(c.turn)
           THEN MarkCancelled /\ Advance(c, "marked")
           ELSE UNCHANGED turn /\ cancels' = cancels \ {c}
  BY DEF MarkCancel
<1>2. /\ session' = session /\ sending' = sending
      /\ run' = run /\ aborted' = aborted /\ prompted' = prompted
      /\ ended' = ended /\ submits' = submits /\ handler' = handler
  BY DEF MarkCancel, runVars, appVars
<1>3. /\ Good(session) /\ TurnInv /\ CancelsInv /\ PromptsInv
      /\ turn \in TurnType
  BY TurnOfRun
<1>4. CASE ~CanCancel(c.turn)
  <2>1. turn' = turn /\ cancels' = cancels \ {c}
    BY <1>1, <1>4
  <2>2. /\ cancels' \subseteq CancelType
        /\ \A x, y \in cancels' : x.turn = y.turn => x = y
    BY <1>3, <2>1 DEF CancelsInv
  <2>3. \A x \in cancels' :
          \E y \in cancels : /\ x.turn = y.turn /\ x.id = y.id
                             /\ x.phase = "marked" => y.phase = "marked"
    BY <2>1
  <2>4. Unsettled(cancels, turn.n) => Unsettled(cancels', turn.n)
    BY <1>1, <2>1 DEF Unsettled
  <2> QED BY <1>2, <2>1, <2>2, <2>3, <2>4, CancelsKeep
<1>5. CASE CanCancel(c.turn)
  <2>1. PICK d \in {[c EXCEPT !.phase = "marked"]} :
          d = [c EXCEPT !.phase = "marked"]
    OBVIOUS
  <2>2. /\ turn' = [turn EXCEPT !.state = "cancelled"]
        /\ cancels' = (cancels \ {c}) \cup {d}
        /\ turn.n = c.turn /\ turn.state = "active"
    BY <1>1, <1>5, <2>1 DEF MarkCancelled, Advance, CanCancel
  <2>3. /\ turn' \in TurnType /\ turn'.n = turn.n /\ turn'.id = turn.id
        /\ turn'.state = "cancelled"
    BY <1>3, <2>2 DEF TurnType
  <2>4. /\ d.turn = c.turn /\ d.id = c.id /\ d.phase = "marked"
        /\ cancels' \subseteq CancelType
        /\ \A e \in cancels \ {c} : e.turn # c.turn
        /\ \A x, y \in cancels' : x.turn = y.turn => x = y
    BY <1>3, <2>1, <2>2, CancelMoves
  <2>5. /\ c.id = turn.id /\ aborted /\ run \notin {"failing", "reporting"}
        /\ turn.id = session.nextId /\ NoReply(session, turn.n)
        /\ c.turn < session.nextTurn
    BY <1>3, <2>2 DEF CancelsInv, TurnInv
  <2>6. Unsettled(cancels', turn.n)
    BY <2>2, <2>4 DEF Unsettled
  <2>7. TurnFollowsRun'
    BY <1>2, <1>3, <2>2, <2>3, <2>5 DEF TurnInv, TurnFollowsRun
  <2>8. TurnInv'
    BY <1>2, <1>3, <2>2, <2>3, <2>5, <2>6, <2>7
       DEF TurnInv, NoReply, IsReply, Settling, Unsettled
  <2>9. CancelsInv'
    <3>1. ASSUME NEW x \in cancels'
          PROVE  /\ x.turn < session.nextTurn
                 /\ x.turn = turn.n =>
                      /\ x.id = turn.id /\ aborted
                      /\ run \notin {"failing", "reporting"}
                 /\ x.phase = "marked" =>
                      /\ NoReply(session, x.turn)
                      /\ IF x.turn = turn.n THEN x.id = session.nextId
                         ELSE IdTaken(session, x.id)
      <4>1. CASE x = d
        BY <2>2, <2>4, <2>5, <4>1
      <4>2. CASE x \in cancels \ {c}
        BY <1>3, <2>2, <2>4, <4>2 DEF CancelsInv
      <4> QED BY <2>2, <3>1, <4>1, <4>2
    <3> QED BY <1>2, <2>3, <2>4, <3>1 DEF CancelsInv, NoReply, IsReply,
                                          IdTaken
  <2>10. Good(session') /\ PromptsInv'
    <3>1. Good(session') /\ PromptsKept(session') = PromptsKept(session)
      BY <1>2, <1>3, SameSession
    <3> QED BY <1>2, <1>3, <3>1, SamePrompts DEF PromptsInv
  <2> QED BY <2>8, <2>9, <2>10 DEF IInv
<1> QED BY <1>4, <1>5

\* The cancel's second lock: it commits the partial reply of the latest
\* turn, or finds the id of an older one taken.
LEMMA SettleKeeps ==
  ASSUME IInv, SettleCancel
  PROVE  IInv'
<1>1. PICK c \in cancels :
        /\ c.phase = "marked" /\ cancels' = cancels \ {c}
        /\ session' = SettleCancelled(session, c.turn, c.id, c.tool)
  BY DEF SettleCancel
<1>2. /\ turn' = turn /\ sending' = sending
      /\ run' = run /\ aborted' = aborted /\ prompted' = prompted
      /\ ended' = ended /\ submits' = submits /\ handler' = handler
  BY DEF SettleCancel, runVars, appVars, history
<1>3. /\ Good(session) /\ TurnInv /\ CancelsInv /\ PromptsInv
      /\ turn \in TurnType /\ turn.n \in Nat
  BY TurnOfRun
<1>4. /\ cancels' \subseteq CancelType
      /\ \A x, y \in cancels' : x.turn = y.turn => x = y
      /\ \A e \in cancels' : e \in cancels /\ e.turn # c.turn
      /\ c.turn \in Nat \ {0} /\ c.tool \in BOOLEAN
      /\ c.turn < session.nextTurn /\ NoReply(session, c.turn)
  BY <1>1, <1>3 DEF CancelsInv, CancelType
<1>5. CASE c.turn # turn.n
  <2>1. session' = session
    BY <1>1, <1>3, <1>5 DEF CancelsInv, SettleCancelled
  <2>2. \A x \in cancels' :
          \E y \in cancels : /\ x.turn = y.turn /\ x.id = y.id
                             /\ x.phase = "marked" => y.phase = "marked"
    BY <1>4
  <2>3. Unsettled(cancels, turn.n) => Unsettled(cancels', turn.n)
    BY <1>1, <1>5 DEF Unsettled
  <2> QED BY <1>2, <1>4, <2>1, <2>2, <2>3, CancelsKeep
<1>6. CASE c.turn = turn.n
  <2>1. turn.state = "cancelled" /\ c.id = session.nextId
    BY <1>1, <1>3, <1>6 DEF CancelsInv
  <2>2. PICK q \in {AppendReply(session, c.id, c.turn, c.tool)} :
          q = AppendReply(session, c.id, c.turn, c.tool)
    OBVIOUS
  <2>3. session' = TryEmit(q, <<Other, Event("turnCancelled", c.turn)>>)
    <3>1. ~IdTaken(session, c.id)
      BY <1>3, <2>1, NextIdFree
    <3> QED BY <1>1, <2>2, <3>1 DEF SettleCancelled
  <2>4. /\ Good(q) /\ ~NoReply(q, c.turn)
        /\ \A m : m # c.turn => (NoReply(q, m) <=> NoReply(session, m))
        /\ \A x : IdTaken(session, x) => IdTaken(q, x)
        /\ q.nextTurn = session.nextTurn /\ q.prompts = session.prompts
        /\ PromptsKept(q) = PromptsKept(session)
    <3>1. c.turn \in 1..(session.nextTurn - 1)
      BY <1>3, <1>4 DEF Good, SessionType
    <3> QED BY <1>3, <1>4, <2>1, <2>2, <3>1, AppendReplyGood
  <2>5. SameCore(q, session')
    <3>1. <<Other, Event("turnCancelled", c.turn)>> \in Seq(EventType)
      BY <1>4, Emitted
    <3> QED BY <2>3, <2>4, <3>1, EmitIsSame DEF Good
  <2>6. /\ Good(session') /\ PromptsKept(session') = PromptsKept(session)
        /\ \A m : NoReply(session', m) <=> NoReply(q, m)
        /\ \A x : IdTaken(q, x) => IdTaken(session', x)
        /\ session'.nextTurn = session.nextTurn
        /\ session'.prompts = session.prompts
    <3>1. Good(session') /\ Extends(q, session')
      BY <2>4, <2>5, SameIsGood
    <3> QED BY <2>4, <2>5, <3>1, ExtendsKeeps DEF Extends, SameCore
  <2>7. ~Unsettled(cancels', turn.n)
    BY <1>4, <1>6 DEF Unsettled
  <2>8. TurnInv'
    <3>1. TurnFollowsRun'
      BY <1>2, <1>3 DEF TurnInv, TurnFollowsRun
    <3>2. ~NoReply(session', turn.n)
      BY <1>6, <2>4, <2>6
    <3> QED BY <1>2, <1>3, <2>1, <2>6, <2>7, <3>1, <3>2
            DEF TurnInv, NoReply, IsReply, Settling, Unsettled
  <2>9. CancelsInv'
    <3>1. ASSUME NEW x \in cancels'
          PROVE  /\ x.turn < session'.nextTurn /\ x.turn # turn.n
                 /\ x.phase = "marked" =>
                      NoReply(session', x.turn) /\ IdTaken(session', x.id)
      <4>1. x \in cancels /\ x.turn # c.turn
        BY <1>4
      <4> QED BY <1>3, <1>6, <2>4, <2>6, <4>1 DEF CancelsInv
    <3> QED BY <1>2, <1>4, <3>1 DEF CancelsInv, NoReply, IsReply, IdTaken
  <2>10. PromptsInv'
    BY <1>2, <1>3, <2>6, SamePrompts DEF PromptsInv
  <2> QED BY <2>6, <2>8, <2>9, <2>10 DEF IInv
<1> QED BY <1>5, <1>6

\* The run commits the reply of its active turn: finish, or the cancel it
\* awaits.
LEMMA CommitKeeps ==
  ASSUME IInv, turn.state = "active", run \notin {"idle", "failed"},
         NEW q, q = AppendReply(session, turn.id, turn.n, turn.tool),
         SameCore(q, session'), cancels' = cancels, aborted' = aborted,
         turn' \in TurnType, turn'.n = turn.n, turn'.id = turn.id,
         turn'.state \in {"finished", "cancelled"},
         \/ run' = "idle" /\ ended' = "cancelled"
         \/ run' = "settling" /\ turn'.state = "finished",
         sending' \in Seq(EventType),
         prompted' = prompted, submits' = submits, handler' = handler
  PROVE  IInv'
<1>1. /\ Good(session) /\ TurnInv /\ CancelsInv /\ PromptsInv
      /\ turn \in TurnType /\ turn.n \in Nat /\ turn.tool \in BOOLEAN
      /\ aborted \in BOOLEAN
  BY TurnOfRun
<1>2. /\ turn.id = session.nextId /\ NoReply(session, turn.n)
      /\ turn.n \in 1..(session.nextTurn - 1)
  BY <1>1 DEF TurnInv, Good, SessionType
<1>3. /\ Good(q) /\ ~NoReply(q, turn.n)
      /\ \A m : m # turn.n => (NoReply(q, m) <=> NoReply(session, m))
      /\ \A x : IdTaken(session, x) => IdTaken(q, x)
      /\ q.nextTurn = session.nextTurn
      /\ PromptsKept(q) = PromptsKept(session)
  BY <1>1, <1>2, AppendReplyGood
<1>4. /\ Good(session') /\ PromptsKept(session') = PromptsKept(session)
      /\ \A m : NoReply(session', m) <=> NoReply(q, m)
      /\ \A x : IdTaken(q, x) => IdTaken(session', x)
      /\ session'.nextTurn = session.nextTurn
  <2>1. Good(session') /\ Extends(q, session')
    BY <1>3, SameIsGood
  <2> QED BY <1>3, <2>1, ExtendsKeeps DEF Extends, SameCore
<1>5. \A c \in cancels : c.phase = "marked" => c.turn # turn.n
  BY <1>1 DEF CancelsInv
<1>6. TurnInv'
  <2>1. TurnFollowsRun'
    BY DEF TurnFollowsRun
  <2>2. ~NoReply(session', turn'.n) /\ ~Unsettled(cancels', turn'.n)
    BY <1>3, <1>4, <1>5 DEF Unsettled
  <2>3. /\ turn'.n < session'.nextTurn
        /\ run' \notin {"idle", "failed"} => turn'.n # 0
        /\ turn'.state = "cancelled" /\ run' \notin {"idle", "failed"} =>
             aborted'
    BY <1>1, <1>4 DEF TurnInv
  <2> QED BY <1>1, <2>1, <2>2, <2>3
          DEF TurnInv, NoReply, IsReply, Settling, Unsettled
<1>7. CancelsInv'
  <2>1. ASSUME NEW c \in cancels, c.phase = "marked"
        PROVE  NoReply(session', c.turn) /\ IdTaken(session', c.id)
    BY <1>1, <1>3, <1>4, <1>5, <2>1 DEF CancelsInv
  <2> QED BY <1>1, <1>4, <1>5, <2>1 DEF CancelsInv, NoReply, IsReply, IdTaken
<1>8. PromptsInv'
  BY <1>1, <1>4, SamePrompts
<1> QED BY <1>4, <1>6, <1>7, <1>8 DEF IInv

\* The cancel runProviderTurn awaits commits the partial reply of a turn that
\* is still active, or throws.
LEMMA AwaitedKeeps ==
  ASSUME IInv, AwaitedCancel
  PROVE  IInv'
<1>1. /\ run = "cancelling" /\ sending' = sending /\ cancels' = cancels
      /\ aborted' = aborted /\ prompted' = prompted /\ submits' = submits
      /\ handler' = handler
  BY DEF AwaitedCancel
<1>2. /\ Good(session) /\ TurnInv /\ turn \in TurnType /\ turn.n \in Nat
      /\ sending' \in Seq(EventType)
  BY <1>1, TurnOfRun
<1>3. CASE turn.state = "active"
  <2>1. /\ turn' = [turn EXCEPT !.state = "cancelled"]
        /\ session' = SettleCancelled(session, turn.n, turn.id, turn.tool)
        /\ run' = "idle" /\ ended' = "cancelled"
    BY <1>3 DEF AwaitedCancel, CanCancel, MarkCancelled, Return
  <2>2. /\ turn' \in TurnType /\ turn'.n = turn.n /\ turn'.id = turn.id
        /\ turn'.state = "cancelled"
    BY <1>2, <2>1 DEF TurnType
  <2>3. turn.id = session.nextId /\ NoReply(session, turn.n)
        /\ turn.n \in 1..(session.nextTurn - 1) /\ turn.tool \in BOOLEAN
    BY <1>1, <1>2, <1>3, TurnOfRun DEF TurnInv, Good, SessionType
  <2>4. PICK q \in {AppendReply(session, turn.id, turn.n, turn.tool)} :
          q = AppendReply(session, turn.id, turn.n, turn.tool)
    OBVIOUS
  <2>5. Good(q)
    BY <1>2, <2>3, <2>4, AppendReplyGood
  <2>6. SameCore(q, session')
    <3>1. ~IdTaken(session, turn.id)
      BY <1>2, <2>3, NextIdFree
    <3>2. session' = TryEmit(q, <<Other, Event("turnCancelled", turn.n)>>)
      BY <2>1, <2>4, <3>1 DEF SettleCancelled
    <3>3. <<Other, Event("turnCancelled", turn.n)>> \in Seq(EventType)
      BY <1>2, Emitted
    <3> QED BY <2>5, <3>2, <3>3, EmitIsSame DEF Good
  <2> QED BY <1>1, <1>2, <1>3, <2>1, <2>2, <2>4, <2>6, CommitKeeps
<1>4. CASE turn.state # "active"
  <2>1. /\ session' = session /\ turn' = turn /\ run' = "failed"
        /\ ended' = "failed"
    BY <1>4 DEF AwaitedCancel, CanCancel, Throw
  <2>2. TurnFollowsRun'
    BY <1>4, <2>1 DEF TurnFollowsRun
  <2> QED BY <1>1, <1>2, <2>1, <2>2, RunKeeps
<1> QED BY <1>3, <1>4

\* ModelTurn::finish commits the reply, unless a cancel was first.
LEMMA FinishKeeps ==
  ASSUME IInv, FinishTurn
  PROVE  IInv'
<1>1. /\ run = "finishing" /\ cancels' = cancels
      /\ aborted' = aborted /\ prompted' = prompted /\ submits' = submits
      /\ handler' = handler
  BY DEF FinishTurn, appVars, history
<1>2. /\ Good(session) /\ TurnInv /\ turn \in TurnType /\ turn.n \in Nat
      /\ sending \in Seq(EventType)
      /\ turn.state \in {"active", "cancelled"}
  BY <1>1, TurnOfRun DEF TurnInv, TurnFollowsRun
<1>3. CASE turn.state = "active"
  <2>1. /\ turn' = [turn EXCEPT !.state = "finished"]
        /\ session' = AppendReply(session, turn.id, turn.n, turn.tool)
        /\ sending' = <<Other, Event("turnFinished", turn.n)>>
        /\ run' = "settling"
    BY <1>3 DEF FinishTurn, CommitTurn, Await
  <2>2. /\ turn' \in TurnType /\ turn'.n = turn.n /\ turn'.id = turn.id
        /\ turn'.state = "finished"
    BY <1>2, <2>1 DEF TurnType
  <2>3. turn.id = session.nextId /\ NoReply(session, turn.n)
        /\ turn.n \in 1..(session.nextTurn - 1) /\ turn.tool \in BOOLEAN
    BY <1>1, <1>2, <1>3, TurnOfRun DEF TurnInv, Good, SessionType
  <2>4. Good(session')
    BY <1>2, <2>1, <2>3, AppendReplyGood
  <2>5. SameCore(session', session')
    BY <2>4 DEF SameCore, Good
  <2>6. sending' \in Seq(EventType)
    BY <1>2, <2>1, Emitted
  <2> QED BY <1>1, <1>3, <2>1, <2>2, <2>5, <2>6, CommitKeeps
<1>4. CASE turn.state = "cancelled"
  <2>1. /\ session' = session /\ turn' = turn /\ sending' = sending
        /\ run' = IF aborted THEN "cancelling" ELSE "failing"
    BY <1>4 DEF FinishTurn, Await
  <2>2. aborted
    BY <1>1, <1>4, TurnOfRun
  <2>3. TurnFollowsRun'
    BY <1>4, <2>1, <2>2 DEF TurnFollowsRun
  <2> QED BY <1>1, <1>2, <2>1, <2>2, <2>3, RunKeeps
<1> QED BY <1>2, <1>3, <1>4

\* Escape: the run's signal is aborted, and a push in progress has the
\* turn's cancel called beside it, once per turn.
LEMMA EscapeKeeps ==
  ASSUME IInv, Escape
  PROVE  IInv'
<1> DEFINE d == [turn |-> turn.n, id |-> turn.id, tool |-> turn.tool,
                 phase |-> "spawned"]
<1>1. /\ session' = session /\ turn' = turn /\ sending' = sending
      /\ run' = run /\ prompted' = prompted /\ ended' = ended
      /\ submits' = submits /\ handler' = handler
      /\ aborted' = (aborted \/ run \notin {"idle", "failed"})
      /\ run = "pushing" /\ ~aborted => cancels' = cancels \cup {d}
      /\ ~(run = "pushing" /\ ~aborted) => cancels' = cancels
  BY DEF Escape, history
<1>2. /\ Good(session) /\ TurnInv /\ CancelsInv /\ PromptsInv
      /\ turn \in TurnType /\ turn.n \in Nat /\ turn.id \in Nat
      /\ turn.tool \in BOOLEAN /\ aborted \in BOOLEAN
      /\ ~aborted => \A c \in cancels : c.turn # turn.n
  BY TurnOfRun
<1>3. /\ aborted' \in BOOLEAN
      /\ aborted => aborted'
  BY <1>1, <1>2
<1>4. Good(session') /\ PromptsInv'
  <2>1. Good(session') /\ PromptsKept(session') = PromptsKept(session)
    BY <1>1, <1>2, SameSession
  <2> QED BY <1>1, <1>2, <2>1, SamePrompts DEF PromptsInv
<1>5. run = "pushing" /\ ~aborted =>
        /\ d \in CancelType /\ d.turn = turn.n /\ d.id = turn.id
        /\ d.phase = "spawned" /\ aborted' /\ d.turn < session.nextTurn
  <2> SUFFICES ASSUME run = "pushing", ~aborted
               PROVE  /\ d \in CancelType /\ d.turn = turn.n
                      /\ d.id = turn.id /\ d.phase = "spawned" /\ aborted'
                      /\ d.turn < session.nextTurn
    OBVIOUS
  <2>1. turn.n \in Nat \ {0} /\ turn.n < session.nextTurn
    BY <1>2 DEF TurnInv
  <2>2. aborted'
    BY <1>1
  <2> QED BY <1>2, <2>1, <2>2 DEF CancelType
<1> HIDE DEF d
<1>6. Unsettled(cancels', turn.n) <=> Unsettled(cancels, turn.n)
  BY <1>1, <1>5 DEF Unsettled
<1>7. TurnInv'
  <2>1. TurnFollowsRun'
    BY <1>1, <1>2 DEF TurnInv, TurnFollowsRun
  <2>2. turn.state = "cancelled" /\ run \notin {"idle", "failed"} => aborted'
    BY <1>2, <1>3 DEF TurnInv
  <2> QED BY <1>1, <1>2, <1>3, <1>6, <2>1, <2>2
          DEF TurnInv, NoReply, IsReply, Settling, Unsettled
<1>8. CancelsInv'
  <2>1. ASSUME NEW x \in cancels'
        PROVE  /\ x \in CancelType /\ x.turn < session.nextTurn
               /\ x.turn = turn.n =>
                    /\ x.id = turn.id /\ aborted'
                    /\ run \notin {"failing", "reporting"}
               /\ x.phase = "marked" =>
                    /\ NoReply(session, x.turn)
                    /\ IF x.turn = turn.n
                       THEN turn.state = "cancelled"
                            /\ x.id = session.nextId
                       ELSE IdTaken(session, x.id)
    <3>1. CASE x \in cancels
      BY <1>2, <1>3, <3>1 DEF CancelsInv
    <3>2. CASE x = d /\ run = "pushing" /\ ~aborted
      BY <1>5, <3>2
    <3> QED BY <1>1, <2>1, <3>1, <3>2
  <2>2. \A x, y \in cancels' : x.turn = y.turn => x = y
    <3>1. CASE run = "pushing" /\ ~aborted
      BY <1>1, <1>2, <1>5, <3>1 DEF CancelsInv
    <3>2. CASE ~(run = "pushing" /\ ~aborted)
      BY <1>1, <1>2, <3>2 DEF CancelsInv
    <3> QED BY <3>1, <3>2
  <2> QED BY <1>1, <2>1, <2>2 DEF CancelsInv, NoReply, IsReply, IdTaken
<1> QED BY <1>4, <1>7, <1>8 DEF IInv

\* The loop goes on after a finished turn, on a session the step prepared.
LEMMA ContinueKeeps ==
  ASSUME IInv, turn.state = "finished", run \notin {"idle", "failed"},
         NEW q, Good(q), Extends(session, q), NEW withSteers \in BOOLEAN,
         Continue(q, withSteers),
         sending' = sending, cancels' = cancels, aborted' = aborted,
         prompted' = prompted, submits' = submits, handler' = handler
  PROVE  IInv'
<1> DEFINE next == NextIteration(q, withSteers)
<1>1. /\ Good(session) /\ TurnInv /\ CancelsInv /\ PromptsInv
      /\ aborted \in BOOLEAN
  BY TurnOfRun
<1>2. /\ session' = next.session /\ turn' = next.turn
      /\ run' = IF next.ok THEN "streaming" ELSE "failed"
      /\ ended' = IF next.ok THEN ended ELSE "failed"
  BY DEF Continue
<1>3. /\ Good(next.session) /\ Extends(q, next.session)
      /\ Began(next.session, next.turn) /\ (next.turn = NoTurn) = ~next.ok
      /\ next.turn # NoTurn => next.turn.n >= q.nextTurn
  BY IterationGood
<1> HIDE DEF next
<1>4. Extends(session, session')
  BY <1>1, <1>2, <1>3, ExtendsFurther
<1>5. /\ session.nextTurn \in Nat /\ q.nextTurn \in Nat
      /\ session.nextTurn <= q.nextTurn
  BY <1>1 DEF Good, SessionType, Extends
<1>6. turn' # NoTurn => turn'.n >= session.nextTurn
  <2>1. turn' # NoTurn => turn'.n \in Nat
    BY <1>2, <1>3 DEF Began, TurnType
  <2> QED BY <1>2, <1>3, <1>5, <2>1
<1>7. KeepsReplies(session, session')
  <2>1. Good(session')
    BY <1>2, <1>3
  <2> QED BY <1>1, <1>4, <2>1, ExtendsKeeps DEF KeepsReplies, Extends
<1>8. run' = IF turn' # NoTurn THEN "streaming" ELSE "failed"
  BY <1>2, <1>3
<1>9. TurnInv' /\ CancelsInv'
  BY <1>1, <1>2, <1>3, <1>6, <1>7, <1>8, NextTurn
<1>10. PromptsInv'
  <2>1. PromptsKept(session') = PromptsKept(session)
    BY <1>4 DEF Extends
  <2>2. /\ run' = "failed" => ended' = "failed"
        /\ run' # "idle"
    BY <1>2
  <2> QED BY <1>1, <2>1, <2>2, SamePrompts
<1> QED BY <1>2, <1>3, <1>9, <1>10 DEF IInv

\* A step after a finished turn that adds messages to the session and goes
\* no further, and leaves the prompts in the queue.
LEMMA AfterwardsKeeps ==
  ASSUME IInv, turn.state = "finished", run \notin {"idle", "failed"},
         Good(session'), Extends(session, session'), turn' = turn,
         run' \in {"idle", "failed", "executing"},
         run' = "failed" => ended' = "failed",
         run' = "idle" /\ ended' = "drained" => session'.prompts = <<>>,
         sending' = sending, cancels' = cancels, aborted' = aborted,
         prompted' = prompted, submits' = submits, handler' = handler
  PROVE  IInv'
<1>1. /\ Good(session) /\ TurnInv /\ CancelsInv /\ PromptsInv
      /\ turn \in TurnType /\ aborted \in BOOLEAN
      /\ sending \in Seq(EventType)
  BY TurnOfRun
<1>2. TurnInv'
  <2>1. TurnFollowsRun'
    BY DEF TurnFollowsRun
  <2>2. Unsettled(cancels', turn.n) <=> Unsettled(cancels, turn.n)
    BY DEF Unsettled
  <2> QED BY <1>1, <2>1, <2>2, SameTurn
<1>3. CancelsInv'
  BY <1>1, SameCancels
<1>4. PromptsInv'
  <2>1. PromptsKept(session') = PromptsKept(session)
    BY DEF Extends
  <2> QED BY <1>1, <2>1, SamePrompts
<1> QED BY <1>2, <1>3, <1>4 DEF IInv

\* A tool's result, or the error in its place, is a message of its own.
LEMMA ResultKept ==
  ASSUME IInv, NEW s, Good(s), Extends(session, s), NEW es \in Seq(EventType),
         NEW t, t = TryEmit(AppendNew(s, "tool", turn.n), es)
  PROVE  Good(t) /\ Extends(session, t)
<1>1. turn.n \in Nat /\ Good(session)
  BY TurnOfRun
<1>2. PICK q \in {AppendNew(s, "tool", turn.n)} :
        q = AppendNew(s, "tool", turn.n)
  OBVIOUS
<1>3. Good(q) /\ Extends(s, q)
  BY <1>1, <1>2, AppendNewGood
<1>4. SameCore(q, t)
  BY <1>2, <1>3, EmitIsSame DEF Good
<1>5. Good(t) /\ Extends(q, t)
  BY <1>3, <1>4, SameIsGood
<1>6. Extends(s, t)
  BY <1>3, <1>5, ExtendsFurther
<1> QED BY <1>1, <1>5, <1>6, ExtendsFurther

\* executeTool up to the tool's execute: two events, or an error in place of
\* the result, after which the loop goes on.
LEMMA StartKeeps ==
  ASSUME IInv, StartTool
  PROVE  IInv'
<1>1. /\ run = "settling" /\ sending' = sending /\ cancels' = cancels
      /\ aborted' = aborted /\ prompted' = prompted /\ submits' = submits
      /\ handler' = handler
  BY DEF StartTool, Settled, history
<1>2. /\ turn.state = "finished" /\ run \notin {"idle", "failed"}
      /\ turn.n \in Nat /\ Good(session)
  BY <1>1, TurnOfRun DEF TurnInv, TurnFollowsRun
<1>3. PICK started \in {TryEmit(session, ToolStarts)} :
        started = TryEmit(session, ToolStarts)
  OBVIOUS
<1>4. Good(started) /\ Extends(session, started)
  <2>1. ToolStarts \in Seq(EventType)
    BY <1>2, Emitted DEF ToolStarts
  <2>2. SameCore(session, started)
    BY <1>2, <1>3, <2>1, EmitIsSame DEF Good
  <2> QED BY <1>2, <2>2, SameIsGood
<1>5. CASE Fits(session, ToolStarts)
  <2>1. session' = started /\ turn' = turn /\ run' = "executing"
    BY <1>3, <1>5 DEF StartTool
  <2> QED BY <1>1, <1>2, <1>4, <2>1, AfterwardsKeeps
<1>6. CASE ~Fits(session, ToolStarts)
  <2>1. PICK q \in {AppendNew(started, "tool", turn.n)} :
          q = AppendNew(started, "tool", turn.n)
    OBVIOUS
  <2>2. Continue(q, FALSE)
    BY <1>3, <1>6, <2>1 DEF StartTool
  <2>3. Good(q) /\ Extends(started, q)
    BY <1>2, <1>4, <2>1, AppendNewGood
  <2>4. Extends(session, q)
    BY <1>2, <1>4, <2>3, ExtendsFurther
  <2>5. FALSE \in BOOLEAN
    OBVIOUS
  <2> QED BY <1>1, <1>2, <2>2, <2>3, <2>4, <2>5, ContinueKeeps
<1> QED BY <1>5, <1>6

\* A tool that returns: its result joins the session and the loop goes on, or
\* the run returns because its signal was aborted.
LEMMA ReturnsKeep ==
  ASSUME IInv, ToolReturns
  PROVE  IInv'
<1>1. /\ run = "executing" /\ sending' = sending /\ cancels' = cancels
      /\ aborted' = aborted /\ prompted' = prompted /\ submits' = submits
      /\ handler' = handler
  BY DEF ToolReturns, history
<1>2. /\ turn.state = "finished" /\ run \notin {"idle", "failed"}
      /\ turn.n \in Nat /\ Good(session)
  BY <1>1, TurnOfRun DEF TurnInv, TurnFollowsRun
<1> DEFINE kept == TryEmit(AppendNew(session, "tool", turn.n),
                           <<Event("toolResult", turn.n)>>)
<1>3. Good(kept) /\ Extends(session, kept)
  <2>1. <<Event("toolResult", turn.n)>> \in Seq(EventType)
    BY <1>2, Emitted DEF EventKinds
  <2>2. Extends(session, session)
    BY <1>2, SameIsGood DEF SameCore, Good
  <2> QED BY <1>2, <2>1, <2>2, ResultKept
<1>4. IF aborted
      THEN session' = kept /\ turn' = turn /\ run' = "idle"
           /\ ended' = "cancelled"
      ELSE Continue(kept, FALSE)
  BY DEF ToolReturns, Return
<1> HIDE DEF kept
<1>5. CASE aborted
  BY <1>1, <1>2, <1>3, <1>4, <1>5, AfterwardsKeeps
<1>6. CASE ~aborted
  <2>1. FALSE \in BOOLEAN /\ Continue(kept, FALSE)
    BY <1>4, <1>6
  <2> QED BY <1>1, <1>2, <1>3, <2>1, ContinueKeeps
<1> QED BY <1>5, <1>6

\* The run's last drain: it ends by itself only when no prompt was left.
LEMMA LastDrainKeeps ==
  ASSUME IInv, LastDrain
  PROVE  IInv'
<1>1. /\ run = "settling" /\ sending' = sending /\ cancels' = cancels
      /\ aborted' = aborted /\ prompted' = prompted /\ submits' = submits
      /\ handler' = handler
  BY DEF LastDrain, Settled, history
<1>2. /\ turn.state = "finished" /\ run \notin {"idle", "failed"}
      /\ Good(session)
  BY <1>1, TurnOfRun DEF TurnInv, TurnFollowsRun
<1> DEFINE told == DrainAndDeliver(session, TRUE)
           q == told.session
<1>3. Good(q) /\ Extends(session, q)
  BY <1>2, DrainGood
<1>4. IF session.prompts = <<>> /\ session.steers = <<>>
      THEN /\ run' = "idle" /\ ended' = "drained"
           /\ session' = session /\ turn' = turn
      ELSE IF told.ok THEN Continue(q, ~toolCycle)
           ELSE /\ session' = q /\ run' = "failed" /\ ended' = "failed"
                /\ turn' = turn
  BY DEF LastDrain, Return
<1> HIDE DEF told, q
<1>5. CASE session.prompts = <<>> /\ session.steers = <<>>
  <2>1. Good(session') /\ Extends(session, session')
    BY <1>2, <1>4, <1>5, SameSession
  <2>2. /\ run' = "idle" /\ turn' = turn /\ session'.prompts = <<>>
    BY <1>4, <1>5
  <2> QED BY <1>1, <1>2, <2>1, <2>2, AfterwardsKeeps
<1>6. CASE ~(session.prompts = <<>> /\ session.steers = <<>>) /\ told.ok
  <2>1. Continue(q, ~toolCycle) /\ (~toolCycle) \in BOOLEAN
    BY <1>4, <1>6
  <2> QED BY <1>1, <1>2, <1>3, <2>1, ContinueKeeps
<1>7. CASE ~(session.prompts = <<>> /\ session.steers = <<>>) /\ ~told.ok
  BY <1>1, <1>2, <1>3, <1>4, <1>7, AfterwardsKeeps
<1> QED BY <1>5, <1>6, <1>7

-----------------------------------------------------------------------------
(* The theorems.                                                           *)

\* The empty session, without run, turn or cancel.
LEMMA InitHolds == Init => IInv
<1> SUFFICES ASSUME Init PROVE IInv
  OBVIOUS
<1>1. /\ session \in SessionType
      /\ session.entries = <<>> /\ session.prompts = <<>>
      /\ session.nextTurn = 1
  <2>1. /\ <<>> \in Seq(Nat) /\ <<>> \in Seq(EntryType)
        /\ <<>> \in Seq(EventType)
    OBVIOUS
  <2> QED BY <2>1 DEF Init, SessionType
<1>2. Good(session)
  BY <1>1 DEF Good, Numbered, Committed, InOrder, PromptEntries
<1>3. TurnInv
  <2>1. turn \in TurnType /\ turn.n = 0 /\ turn.state = "failed"
    <3>1. turn = NoTurn
      BY DEF Init
    <3> QED BY <3>1 DEF NoTurn, TurnType
  <2>2. sending \in Seq(EventType) /\ aborted \in BOOLEAN /\ run = "idle"
    <3>1. sending = <<>> /\ aborted = FALSE /\ run = "idle"
      BY DEF Init
    <3>2. <<>> \in Seq(EventType)
      OBVIOUS
    <3> QED BY <3>1, <3>2
  <2>3. NoReply(session, 0)
    BY <1>1 DEF NoReply, IsReply
  <2> QED BY <1>1, <2>1, <2>2, <2>3 DEF TurnInv, TurnFollowsRun
<1>4. CancelsInv
  BY DEF Init, CancelsInv
<1>5. PromptsInv
  <2>1. PromptsKept(session) = {}
    BY <1>1 DEF PromptsKept, PromptEntries
  <2>2. /\ prompted \in Seq(Nat) /\ Len(prompted) = 0 /\ submits = 0
        /\ handler = <<>> /\ run = "idle" /\ ended = "none"
    BY DEF Init
  <2> QED BY <2>1, <2>2 DEF PromptsInv
<1> QED BY <1>2, <1>3, <1>4, <1>5 DEF IInv

\* Every step of the loop, the session and the app keeps the invariant.
LEMMA NextKeeps == IInv /\ [Next]_vars => IInv'
<1> SUFFICES ASSUME IInv, [Next]_vars PROVE IInv'
  OBVIOUS
<1>1. CASE UserStep
  BY <1>1, SubmitKeeps, EscapeKeeps DEF UserStep
<1>2. CASE HandlerStep
  BY <1>2, SteersKeep, PromptAcceptedKeeps, PromptRefusedKeeps
     DEF HandlerStep
<1>3. CASE TakeBatch \/ Dispatch
  BY <1>3, BridgeKeeps
<1>4. CASE StreamStep
  BY <1>4, StreamKeeps
<1>5. CASE NativeStep
  BY <1>5, SendKeeps, PushedKeeps, AwaitedKeeps, FinishKeeps, FailureKeeps
     DEF NativeStep
<1>6. CASE RunStep
  BY <1>6, PushedKeeps, FailureKeeps, EndKeeps, StartKeeps, LastDrainKeeps
     DEF RunStep
<1>7. CASE ToolStep
  BY <1>7, ReturnsKeep, EndKeeps DEF ToolStep
<1>8. CASE BackgroundCancel
  BY <1>8, FlagKeeps, MarkKeeps, SettleKeeps DEF BackgroundCancel
<1>9. CASE UNCHANGED vars
  BY <1>9, IdleKeeps DEF vars, nativeVars, runVars, appVars, history
<1> QED BY <1>1, <1>2, <1>3, <1>4, <1>5, <1>6, <1>7, <1>8, <1>9 DEF Next

\* IInv holds in every state the loop, the session and the app can reach.
THEOREM RunIsKept == Spec => []IInv
<1> QED BY InitHolds, NextKeeps, PTL DEF Spec

\* Every id the session gave a message is its own, and the one a turn has
\* reserved stays free until the turn is over (IdsFresh), so that
\* append_message reports ConflictingMessageId only to a late cancel.
THEOREM IdsStayFresh == Spec => []IdsFresh
<1>1. IInv => IdsFresh
  BY DEF IInv, Good, Numbered, TurnInv, IdsFresh
<1> QED BY <1>1, RunIsKept, PTL

\* A turn commits one reply at most, none while it is active or when it
\* failed, and one once it is finished, or cancelled and settled
\* (RepliesCommittedOnce), whichever of finish, the cancel the run awaits
\* and the cancel of an abort listener comes first.
THEOREM RepliesOnce == Spec => []RepliesCommittedOnce
<1>1. ASSUME IInv, NEW n \in 1..session.nextTurn
      PROVE  Cardinality(Replies(n)) <= 1
  <2>1. \A i, j \in Replies(n) : i = j
    BY <1>1 DEF IInv, Good, Committed, Replies
  <2>2. CASE Replies(n) = {}
    BY <2>2, FS_EmptySet
  <2>3. CASE Replies(n) # {}
    <3>1. PICK i \in Replies(n) : TRUE
      BY <2>3
    <3>2. Replies(n) = {i}
      BY <2>1, <3>1
    <3>3. Cardinality({i}) = 1
      BY FS_Singleton
    <3> QED BY <3>2, <3>3
  <2> QED BY <2>2, <2>3
<1>2. \A n : Replies(n) = {} <=> NoReply(session, n)
  BY DEF Replies, NoReply, IsReply
<1>3. IInv => RepliesCommittedOnce
  <2> SUFFICES ASSUME IInv PROVE RepliesCommittedOnce
    OBVIOUS
  <2>1. /\ turn.state \in {"active", "failed"} => NoReply(session, turn.n)
        /\ turn.state \in {"finished", "cancelled"} =>
             (NoReply(session, turn.n) <=> Settling(turn.n))
    BY DEF IInv, TurnInv
  <2>2. turn.state \in {"finished", "cancelled"} =>
          (Replies(turn.n) # {}) # Settling(turn.n)
    BY <1>2, <2>1 DEF Settling
  <2> QED BY <1>1, <1>2, <2>1, <2>2 DEF RepliesCommittedOnce
<1> QED BY <1>3, RunIsKept, PTL

\* Every prompt the queue accepted is in the session or still queued, in the
\* order of acceptance, whatever the user does and whichever events are
\* refused; and a run that ends by itself leaves none (PromptsInOrder).
THEOREM PromptsStayInOrder == Spec => []PromptsInOrder
<1>1. IInv => PromptsInOrder
  BY DEF IInv, Good, PromptsInv, PromptsInOrder
<1> QED BY <1>1, RunIsKept, PTL

-----------------------------------------------------------------------------
(* Steers wait for a reply without tools.                                  *)

\* A finished turn's reply tells whether it asked for a tool, as the turn
\* does.
ReplyTellsTools(s, t) ==
  t.state = "finished" =>
    \A i \in 1..Len(s.entries) :
      IsReply(s, i, t.n) => s.entries[i].tool = t.tool

\* And a tool cycle is a run's: no run takes one over from an earlier run.
SteersInv ==
  /\ run = "idle" => ~toolCycle
  /\ ReplyTellsTools(session, turn)

\* Messages that are no replies leave the replies as they are.
LEMMA TellsAfterMessages ==
  ASSUME NEW s, Good(s), NEW t, Good(t), Extends(s, t), NEW u,
         ReplyTellsTools(s, u)
  PROVE  ReplyTellsTools(t, u)
<1>1. Len(s.entries) \in Nat /\ Len(t.entries) \in Nat
  BY LenProperties DEF Good, SessionType
<1>2. ASSUME NEW i \in 1..Len(t.entries), IsReply(t, i, u.n)
      PROVE  i \in 1..Len(s.entries) /\ t.entries[i] = s.entries[i]
  <2>1. ~(i > Len(s.entries))
    BY <1>2 DEF Extends, IsReply
  <2>2. i \in 1..Len(s.entries)
    BY <1>1, <2>1
  <2> QED BY <2>2 DEF Extends
<1> QED BY <1>2 DEF ReplyTellsTools, IsReply

\* The operations on the session that leave its steer queue alone.
LEMMA SteersUntouched ==
  ASSUME NEW s \in SessionType
  PROVE  /\ \A es \in Seq(EventType) : TryEmit(s, es).steers = s.steers
         /\ \A from, about : AppendNew(s, from, about).steers = s.steers
         /\ \A id, n, tool : AppendReply(s, id, n, tool).steers = s.steers
BY DEF SessionType, TryEmit, AppendNew, AppendReply

\* A drain during a tool cycle takes a prompt and leaves the steers.
LEMMA DrainLeavesSteers ==
  ASSUME NEW s, Good(s)
  PROVE  DrainAndDeliver(s, FALSE).session.steers = s.steers
<1> DEFINE left == AfterTakePrompt(s.prompts)
           q == [s EXCEPT !.prompts = left, !.steers = s.steers]
           text == Head(s.prompts)
           t == AppendNew(q, "prompt", text)
           ev == UserMessageEvents(text)
           first == Deliver([session |-> q, ok |-> TRUE], First(s.prompts),
                            "prompt")
<1>1. s \in SessionType /\ s.prompts \in Seq(Nat)
  BY DEF Good, SessionType
<1>2. left \in Seq(Nat)
  BY <1>1, HeadTailProperties, EmptySeq DEF AfterTakePrompt
<1>3. DrainAndDeliver(s, FALSE) = Deliver(first, <<>>, "steer")
  BY DEF DrainAndDeliver
<1>4. Deliver(first, <<>>, "steer") = first
  BY DEF Deliver
<1> HIDE DEF left
<1>5. q \in SessionType /\ q.steers = s.steers
  BY <1>1, <1>2 DEF SessionType
<1> HIDE DEF q
<1>6. CASE s.prompts = <<>>
  <2>1. first.session = q
    BY <1>6 DEF Deliver, First
  <2> QED BY <1>3, <1>4, <1>5, <2>1
<1>7. CASE s.prompts # <<>>
  <2>1. First(s.prompts) = <<text>>
    BY <1>7 DEF First
  <2>2. <<text>> # <<>> /\ Head(<<text>>) = text
    OBVIOUS
  <2>3. first.session = TryEmit(t, ev)
    BY <2>1, <2>2 DEF Deliver
  <2>4. text \in Nat
    BY <1>1, <1>7, HeadTailProperties
  <2>5. TryEmit(t, ev).steers = t.steers /\ t.steers = q.steers
    <3>1. t \in SessionType /\ t.steers = q.steers
      <4> DEFINE es == Append(q.entries, Entry(q.nextId, "prompt", text, FALSE))
      <4>1. es \in Seq(EntryType)
        <5>1. Entry(q.nextId, "prompt", text, FALSE) \in EntryType
          BY <1>5, <2>4 DEF SessionType, EntryType, Entry
        <5> QED BY <1>5, <5>1, AppendProperties DEF SessionType
      <4>2. t = [q EXCEPT !.entries = es, !.nextId = q.nextId + 1]
        BY DEF AppendNew
      <4>3. q.nextId + 1 \in Nat \ {0}
        BY <1>5 DEF SessionType
      <4> HIDE DEF es, t
      <4> QED BY <1>5, <4>1, <4>2, <4>3 DEF SessionType
    <3>2. ev \in Seq(EventType)
      BY <2>4, Emitted
    <3> HIDE DEF t, ev
    <3> QED BY <3>1, <3>2, SteersUntouched
  <2> QED BY <1>3, <1>4, <1>5, <2>3, <2>5
<1> QED BY <1>6, <1>7

\* And so does the iteration that goes on from a tool.
LEMMA IterationLeavesSteers ==
  ASSUME NEW s, Good(s)
  PROVE  NextIteration(s, FALSE).session.steers = s.steers
<1> DEFINE told == DrainAndDeliver(s, FALSE)
           q == told.session
           e == TryEmit(q, <<Other>>)
<1>1. Good(q) /\ q.steers = s.steers
  BY DrainGood, DrainLeavesSteers
<1>2. q \in SessionType /\ <<Other>> \in Seq(EventType)
  BY <1>1, Emitted DEF Good
<1>3. e \in SessionType /\ e.steers = q.steers
  BY <1>2, EmitIsSame, SteersUntouched DEF SameCore
<1>4. [e EXCEPT !.nextTurn = e.nextTurn + 1].steers = e.steers
  BY <1>3 DEF SessionType
<1>5. BeginTurn(q).session = [e EXCEPT !.nextTurn = e.nextTurn + 1]
  BY DEF BeginTurn
<1>6. NextIteration(s, FALSE).session = IF told.ok THEN BeginTurn(q).session
                                        ELSE q
  BY DEF NextIteration
<1> HIDE DEF told, q, e
<1> QED BY <1>1, <1>3, <1>4, <1>5, <1>6

\* What SteersWaitForFinalReply says of one step.
SteersWait ==
  toolCycle /\ Len(session'.steers) < Len(session.steers) =>
    \E i \in 1..Len(session.entries) :
      /\ session.entries[i].from = "assistant"
      /\ session.entries[i].about = turn.n
      /\ ~session.entries[i].tool

\* A step that adds no message and takes no steer.
LEMMA QuietStep ==
  ASSUME IInv, SteersInv, session'.entries = session.entries,
         session'.steers = session.steers,
         turn'.state = "finished" =>
           /\ turn.state = "finished"
           /\ turn'.n = turn.n /\ turn'.tool = turn.tool,
         run' = "idle" => ~toolCycle'
  PROVE  SteersInv' /\ SteersWait
<1>1. ReplyTellsTools(session', turn')
  BY DEF SteersInv, ReplyTellsTools, IsReply
<1>2. Len(session.steers) \in Nat
  BY LenProperties DEF IInv, Good, SessionType
<1>3. SteersWait
  BY <1>2 DEF SteersWait
<1> QED BY <1>1, <1>3 DEF SteersInv, ReplyTellsTools, IsReply

\* One that leaves session and turn alone.
LEMMA StillStep ==
  ASSUME IInv, SteersInv, session' = session, turn' = turn,
         run' = "idle" => ~toolCycle'
  PROVE  SteersInv' /\ SteersWait
BY QuietStep

\* One that goes on to another turn, out of a tool or without a tool cycle.
LEMMA NextTurnStep ==
  ASSUME IInv, SteersInv, turn'.state # "finished", run' # "idle",
         ~toolCycle \/ session'.steers = session.steers
  PROVE  SteersInv' /\ SteersWait
<1>1. ReplyTellsTools(session', turn')
  BY DEF ReplyTellsTools
<1>2. Len(session.steers) \in Nat
  BY LenProperties DEF IInv, Good, SessionType
<1>3. SteersWait
  BY <1>2 DEF SteersWait
<1> QED BY <1>1, <1>3 DEF SteersInv, ReplyTellsTools, IsReply

\* A turn just begun is active, or there is none.
LEMMA BegunIsOpen ==
  ASSUME NEW s, NEW t, Began(s, t)
  PROVE  t.state # "finished"
BY DEF Began, NoTurn

\* A submission joins a queue or starts a run; it takes no steer from a run.
LEMMA HandlerWaits ==
  ASSUME IInv, SteersInv, HandlerStep
  PROVE  SteersInv' /\ SteersWait
<1>1. /\ Good(session) /\ session \in SessionType
      /\ Len(session.steers) \in Nat
      /\ handler # <<>> => Head(handler).text \in Nat
  BY TurnOfRun, LenProperties DEF Good, SessionType, PromptsInv
<1>2. CASE SteerRefused \/ PromptRefused
  BY <1>2, StillStep DEF SteerRefused, PromptRefused, nativeVars, runVars,
                         SteersInv
<1>3. CASE SteerAccepted
  <2> DEFINE text == Head(handler).text
             queued == [session EXCEPT !.steers = Append(session.steers, text)]
             events == <<Event("steerQueued", text)>>
  <2>1. /\ session' = TryEmit(queued, events) /\ turn' = turn
        /\ run' = run /\ toolCycle' = toolCycle /\ handler # <<>>
    BY <1>3 DEF SteerAccepted, runVars
  <2>2. text \in Nat
    BY <1>1, <2>1
  <2>3. events \in Seq(EventType)
    BY <2>2, Emitted DEF EventKinds
  <2>4. queued \in SessionType /\ queued.entries = session.entries
    BY <1>1, <2>2, QueuedSteer DEF SameCore
  <2>5. queued.steers = Append(session.steers, text)
    BY <1>1 DEF SessionType
  <2>6. Len(queued.steers) = Len(session.steers) + 1
    BY <1>1, <2>2, <2>5, AppendProperties DEF SessionType
  <2> HIDE DEF text, queued, events
  <2>7. /\ session'.entries = session.entries
        /\ session'.steers = queued.steers
    BY <2>1, <2>3, <2>4, EmitIsSame, SteersUntouched DEF SameCore
  <2>8. SteersWait
    BY <1>1, <2>6, <2>7 DEF SteersWait
  <2> QED BY <2>1, <2>7, <2>8 DEF SteersInv, ReplyTellsTools, IsReply
<1>4. CASE PromptAccepted
  <2> DEFINE queued == [session EXCEPT !.prompts =
                          Append(session.prompts, Head(handler).text)]
             next == NextIteration(queued, TRUE)
  <2>1. /\ handler # <<>> /\ toolCycle' = toolCycle
        /\ run = "idle" =>
             /\ turn' = next.turn /\ run' # "idle" /\ session' = next.session
        /\ run # "idle" => session' = queued /\ turn' = turn /\ run' = run
    BY <1>4 DEF PromptAccepted
  <2>2. CASE run # "idle"
    <3>1. queued.entries = session.entries /\ queued.steers = session.steers
      BY <1>1 DEF SessionType
    <3> HIDE DEF queued
    <3> QED BY <2>1, <2>2, <3>1, QuietStep
  <2>3. CASE run = "idle"
    <3>1. ~toolCycle
      BY <2>3 DEF SteersInv
    <3>2. turn'.state # "finished"
      <4>1. /\ Head(handler).text \in Nat
            /\ \A y \in PromptsKept(session) : y < Head(handler).text
        BY <1>1, <2>1 DEF IInv, PromptsInv
      <4>2. \A t : t = [session EXCEPT !.prompts =
                          Append(session.prompts, Head(handler).text)]
              => Good(t)
        BY <1>1, <4>1, QueuedPrompt
      <4>3. Good(queued)
        BY <4>2
      <4> HIDE DEF queued
      <4>4. Began(next.session, next.turn)
        BY <4>3, IterationGood
      <4> HIDE DEF next
      <4> QED BY <2>1, <2>3, <4>4, BegunIsOpen
    <3> QED BY <2>1, <2>3, <3>1, <3>2, NextTurnStep
  <2> QED BY <2>2, <2>3
<1> QED BY <1>2, <1>3, <1>4 DEF HandlerStep

\* The bridge, the stream and the pushes: no message, no steer taken.
LEMMA PassingWaits ==
  ASSUME IInv, SteersInv, TakeBatch \/ Dispatch \/ StreamStep \/ Send
  PROVE  SteersInv' /\ SteersWait
<1>1. session \in SessionType /\ turn \in TurnType
  BY TurnOfRun DEF Good
<1>2. CASE Dispatch
  BY <1>2, StillStep DEF Dispatch, nativeVars, runVars, SteersInv
<1>3. CASE TakeBatch
  <2>1. /\ \E es : session' = [session EXCEPT !.events = es]
        /\ turn' = turn /\ run' = run /\ toolCycle' = toolCycle
    BY <1>3 DEF TakeBatch, runVars
  <2>2. /\ session'.entries = session.entries
        /\ session'.steers = session.steers
    BY <1>1, <2>1 DEF SessionType
  <2> QED BY <2>1, <2>2, QuietStep DEF SteersInv
<1>4. CASE Send
  <2>1. /\ session' = TryEmit(session, <<Head(sending)>>) /\ turn' = turn
        /\ run' = run /\ toolCycle' = toolCycle /\ sending # <<>>
    BY <1>4 DEF Send, runVars
  <2>2. <<Head(sending)>> \in Seq(EventType)
    <3>1. Head(sending) \in EventType
      BY <2>1, TurnOfRun, HeadTailProperties
    <3>2. \A e \in EventType : <<e>> \in Seq(EventType)
      OBVIOUS
    <3> QED BY <3>1, <3>2
  <2>3. /\ session'.entries = session.entries
        /\ session'.steers = session.steers
    BY <1>1, <2>1, <2>2, EmitIsSame, SteersUntouched DEF SameCore
  <2> QED BY <2>1, <2>3, QuietStep DEF SteersInv
<1>5. CASE StreamStep
  <2>1. /\ session' = session /\ run = "streaming" /\ run' # "idle"
    BY <1>5 DEF StreamStep, StreamText, StreamToolCall, StreamDone,
                StreamError, StreamInvalidCall, StreamBreaks, StreamEnds,
                Push, Await, Streaming, nativeVars
  <2>2. \/ turn' = turn
        \/ turn' = [turn EXCEPT !.text = TRUE]
        \/ turn' = [turn EXCEPT !.tool = TRUE]
        \/ \E reason : turn' = [turn EXCEPT !.reason = reason]
        \/ turn' = [turn EXCEPT !.state = "failed"]
    BY <1>5 DEF StreamStep, StreamText, StreamToolCall, StreamDone,
                StreamError, StreamInvalidCall, StreamBreaks, StreamEnds,
                Push, nativeVars
  <2>3. turn.state # "finished"
    BY <2>1 DEF IInv, TurnInv, TurnFollowsRun
  <2>4. turn'.state # "finished"
    BY <1>1, <2>2, <2>3 DEF TurnType
  <2> QED BY <2>1, <2>4, QuietStep
<1> QED BY <1>2, <1>3, <1>4, <1>5

\* Commits, cancels and failures add replies and take no steer.
LEMMA CommitsWait ==
  ASSUME IInv, IInv', SteersInv,
         \/ AwaitedCancel \/ FinishTurn \/ FailTurn \/ PushInterrupted
         \/ BackgroundCancel
  PROVE  SteersInv' /\ SteersWait
<1>1. /\ Good(session) /\ session \in SessionType /\ turn \in TurnType
      /\ turn.n \in Nat /\ turn.id \in Nat /\ turn.tool \in BOOLEAN
  BY TurnOfRun DEF Good
<1>2. CASE PushInterrupted
  BY <1>2, StillStep DEF PushInterrupted, Await
<1>3. CASE FailTurn
  <2>1. /\ session' = session /\ turn' = [turn EXCEPT !.state = "failed"]
        /\ run' # "idle"
    BY <1>3 DEF FailTurn, Await
  <2>2. turn'.state # "finished"
    BY <1>1, <2>1 DEF TurnType
  <2> QED BY <2>1, <2>2, QuietStep
<1>4. CASE FlagCancel
  BY <1>4, StillStep DEF FlagCancel, runVars, SteersInv
<1>5. CASE MarkCancel
  <2>1. /\ session' = session /\ run' = run /\ toolCycle' = toolCycle
        /\ turn' = turn \/ turn' = [turn EXCEPT !.state = "cancelled"]
    BY <1>5 DEF MarkCancel, MarkCancelled, runVars
  <2>2. turn' = turn \/ turn'.state # "finished"
    BY <1>1, <2>1 DEF TurnType
  <2> QED BY <2>1, <2>2, QuietStep DEF SteersInv
<1>6. \A n \in Nat, id \in Nat, tool \in BOOLEAN :
        AppendReply(session, id, n, tool) \in SessionType =>
          SettleCancelled(session, n, id, tool).steers = session.steers
  <2> SUFFICES ASSUME NEW n \in Nat, NEW id \in Nat, NEW tool \in BOOLEAN,
                      AppendReply(session, id, n, tool) \in SessionType
               PROVE  SettleCancelled(session, n, id, tool).steers
                        = session.steers
    OBVIOUS
  <2>1. <<Other, Event("turnCancelled", n)>> \in Seq(EventType)
    BY Emitted
  <2> DEFINE q == AppendReply(session, id, n, tool)
  <2>2. q.steers = session.steers
    BY <1>1, SteersUntouched
  <2>3. TryEmit(q, <<Other, Event("turnCancelled", n)>>).steers = q.steers
    <3> HIDE DEF q
    <3> QED BY <2>1, SteersUntouched DEF q
  <2> QED BY <2>2, <2>3 DEF SettleCancelled
<1>7. CASE SettleCancel
  <2>1. PICK c \in cancels :
          /\ c.phase = "marked"
          /\ session' = SettleCancelled(session, c.turn, c.id, c.tool)
    BY <1>7 DEF SettleCancel
  <2>2. turn' = turn /\ run' = run /\ toolCycle' = toolCycle
    BY <1>7 DEF SettleCancel, runVars
  <2>3. /\ c.turn \in Nat /\ c.id \in Nat /\ c.tool \in BOOLEAN
        /\ c.turn < session.nextTurn
        /\ c.turn # 0 /\ NoReply(session, c.turn)
        /\ IF c.turn = turn.n
           THEN turn.state = "cancelled" /\ c.id = session.nextId
           ELSE IdTaken(session, c.id)
    BY <2>1 DEF IInv, CancelsInv, CancelType
  <2>4. CASE c.turn # turn.n
    <3>1. session' = session
      BY <2>1, <2>3, <2>4 DEF SettleCancelled
    <3> QED BY <2>2, <3>1, StillStep DEF SteersInv
  <2>5. CASE c.turn = turn.n
    <3>1. AppendReply(session, c.id, c.turn, c.tool) \in SessionType
      <4>1. c.turn \in 1..(session.nextTurn - 1)
        BY <1>1, <2>3 DEF SessionType
      <4>2. Good(AppendReply(session, c.id, c.turn, c.tool))
        BY <1>1, <2>3, <2>5, <4>1, AppendReplyGood
      <4> QED BY <4>2 DEF Good
    <3>2. session'.steers = session.steers
      BY <1>6, <2>1, <2>3, <3>1
    <3>3. SteersWait
      BY <1>1, <3>2, LenProperties DEF SteersWait, SessionType
    <3>4. turn'.state # "finished"
      BY <2>2, <2>3, <2>5
    <3> QED BY <2>2, <3>3, <3>4 DEF SteersInv, ReplyTellsTools
  <2> QED BY <2>4, <2>5
<1>8. CASE AwaitedCancel
  <2>1. run = "cancelling" /\ ~toolCycle'
    BY <1>8 DEF AwaitedCancel, Return, Throw
  <2>2. turn.state # "finished"
    BY <2>1 DEF IInv, TurnInv, TurnFollowsRun
  <2>3. CASE turn.state # "active"
    <3>1. session' = session /\ turn' = turn
      BY <1>8, <2>3 DEF AwaitedCancel, CanCancel
    <3> QED BY <2>1, <3>1, StillStep
  <2>4. CASE turn.state = "active"
    <3>1. /\ turn' = [turn EXCEPT !.state = "cancelled"]
          /\ session' = SettleCancelled(session, turn.n, turn.id, turn.tool)
      BY <1>8, <2>4 DEF AwaitedCancel, CanCancel, MarkCancelled
    <3>2. turn'.state # "finished"
      BY <1>1, <3>1 DEF TurnType
    <3>3. session'.steers = session.steers
      <4>1. /\ turn.id = session.nextId /\ NoReply(session, turn.n)
            /\ turn.n \in 1..(session.nextTurn - 1)
        BY <1>1, <2>1, <2>4 DEF IInv, TurnInv, SessionType
      <4>2. Good(AppendReply(session, turn.id, turn.n, turn.tool))
        BY <1>1, <4>1, AppendReplyGood
      <4>3. AppendReply(session, turn.id, turn.n, turn.tool) \in SessionType
        BY <4>2 DEF Good
      <4> QED BY <1>1, <1>6, <3>1, <4>3
    <3>4. SteersWait
      BY <1>1, <3>3, LenProperties DEF SteersWait, SessionType
    <3> QED BY <2>1, <3>2, <3>4 DEF SteersInv, ReplyTellsTools
  <2> QED BY <2>3, <2>4
<1>9. CASE FinishTurn
  <2>1. run = "finishing" /\ run' # "idle"
    BY <1>9 DEF FinishTurn, Await
  <2>2. CASE turn.state # "active"
    <3>1. session' = session /\ turn' = turn
      BY <1>9, <2>2 DEF FinishTurn
    <3> QED BY <2>1, <3>1, StillStep
  <2>3. CASE turn.state = "active"
    <3> DEFINE e == Entry(turn.id, "assistant", turn.n, turn.tool)
    <3>1. /\ turn' = [turn EXCEPT !.state = "finished"]
          /\ session' = AppendReply(session, turn.id, turn.n, turn.tool)
      BY <1>9, <2>3 DEF FinishTurn, CommitTurn
    <3>2. turn'.n = turn.n /\ turn'.tool = turn.tool
      BY <1>1, <3>1 DEF TurnType
    <3>3. /\ session'.entries = Append(session.entries, e)
          /\ session'.steers = session.steers
      BY <1>1, <3>1 DEF AppendReply, SessionType
    <3>4. e \in EntryType /\ e.tool = turn.tool
      <4>1. turn.id \in Nat \ {0}
        BY <1>1, <2>3 DEF IInv, TurnInv, SessionType
      <4> QED BY <1>1, <4>1 DEF Entry, EntryType
    <3>5. NoReply(session, turn.n)
      BY <2>3 DEF IInv, TurnInv
    <3> HIDE DEF e
    <3>6. ASSUME NEW i \in 1..Len(session'.entries),
                 IsReply(session', i, turn.n)
          PROVE  session'.entries[i].tool = turn.tool
      <4>1. /\ Len(session.entries) \in Nat
            /\ Len(session'.entries) = Len(session.entries) + 1
            /\ \A j \in 1..Len(session.entries) :
                 session'.entries[j] = session.entries[j]
            /\ session'.entries[Len(session.entries) + 1] = e
        <5>1. session.entries \in Seq(EntryType)
          BY <1>1 DEF SessionType
        <5> QED BY <3>3, <3>4, <5>1, AppendProperties, LenProperties
      <4>2. i \notin 1..Len(session.entries)
        BY <3>5, <3>6, <4>1 DEF NoReply, IsReply
      <4>3. i = Len(session.entries) + 1
        BY <4>1, <4>2
      <4> QED BY <3>4, <4>1, <4>3
    <3>7. ReplyTellsTools(session', turn')
      BY <3>2, <3>6 DEF ReplyTellsTools
    <3>8. SteersWait
      BY <1>1, <3>3, LenProperties DEF SteersWait, SessionType
    <3> QED BY <2>1, <3>7, <3>8 DEF SteersInv, ReplyTellsTools, IsReply
  <2> QED BY <2>2, <2>3
<1> QED BY <1>2, <1>3, <1>4, <1>5, <1>7, <1>8, <1>9 DEF BackgroundCancel

\* A finished turn's reply is in the session and asks for no tool.
ReplyWithoutTools ==
  \E i \in 1..Len(session.entries) :
    /\ session.entries[i].from = "assistant"
    /\ session.entries[i].about = turn.n
    /\ ~session.entries[i].tool

\* One that adds messages, none of them a reply, after a finished turn.
LEMMA SettledStep ==
  ASSUME IInv, SteersInv, Good(session'), Extends(session, session'),
         turn' = turn, run' = "idle" => ~toolCycle',
         session'.steers = session.steers \/ ReplyWithoutTools
  PROVE  SteersInv' /\ SteersWait
<1>1. ReplyTellsTools(session', turn')
  <2>1. Good(session)
    BY DEF IInv
  <2> QED BY <2>1, TellsAfterMessages DEF SteersInv
<1>2. Len(session.steers) \in Nat
  BY LenProperties DEF IInv, Good, SessionType
<1>3. SteersWait
  BY <1>2 DEF SteersWait, ReplyWithoutTools
<1> QED BY <1>1, <1>3 DEF SteersInv

\* The loop that goes on from a tool leaves the steers in their queue.
LEMMA ContinueWaits ==
  ASSUME IInv, SteersInv, NEW q, Good(q), q.steers = session.steers,
         Continue(q, FALSE)
  PROVE  SteersInv' /\ SteersWait
<1> DEFINE next == NextIteration(q, FALSE)
<1>1. /\ session' = next.session /\ turn' = next.turn
      /\ run' = IF next.ok THEN "streaming" ELSE "failed"
  BY DEF Continue
<1>2. next.session.steers = q.steers
  BY IterationLeavesSteers
<1>3. Began(next.session, next.turn)
  <2>1. FALSE \in BOOLEAN
    OBVIOUS
  <2> QED BY <2>1, IterationGood
<1> HIDE DEF next
<1>4. turn'.state # "finished"
  BY <1>1, <1>3, BegunIsOpen
<1>5. session'.steers = session.steers /\ run' # "idle"
  BY <1>1, <1>2
<1> QED BY <1>4, <1>5, NextTurnStep

\* A tool's result leaves the steers in their queue.
LEMMA ResultLeavesSteers ==
  ASSUME NEW s, Good(s), NEW n \in Nat, NEW es \in Seq(EventType)
  PROVE  TryEmit(AppendNew(s, "tool", n), es).steers = s.steers
<1> DEFINE q == AppendNew(s, "tool", n)
<1>1. q \in SessionType
  BY AppendNewGood DEF Good
<1>2. q.steers = s.steers
  BY SteersUntouched DEF Good
<1> HIDE DEF q
<1>3. TryEmit(q, es).steers = q.steers
  BY <1>1, SteersUntouched
<1> QED BY <1>2, <1>3 DEF q

\* Tools: their results are messages, and the loop goes on without steers.
LEMMA ToolsWait ==
  ASSUME IInv, SteersInv, StartTool \/ ToolReturns \/ ToolAborted
  PROVE  SteersInv' /\ SteersWait
<1>1. /\ Good(session) /\ session \in SessionType /\ turn.n \in Nat
      /\ Extends(session, session)
  BY TurnOfRun, SameIsGood DEF SameCore, Good
<1>2. CASE ToolAborted
  BY <1>2, StillStep DEF ToolAborted, Return, nativeVars
<1>3. CASE StartTool
  <2>1. ToolStarts \in Seq(EventType)
    BY <1>1, Emitted DEF ToolStarts
  <2>2. PICK started \in {TryEmit(session, ToolStarts)} :
          started = TryEmit(session, ToolStarts)
    OBVIOUS
  <2>3. /\ Good(started) /\ Extends(session, started)
        /\ started.steers = session.steers
    <3>1. SameCore(session, started) /\ started.steers = session.steers
      BY <1>1, <2>1, <2>2, EmitIsSame, SteersUntouched
    <3> QED BY <1>1, <3>1, SameIsGood
  <2>4. CASE Fits(session, ToolStarts)
    <3>1. session' = started /\ turn' = turn /\ run' = "executing"
      BY <1>3, <2>2, <2>4 DEF StartTool
    <3> QED BY <2>3, <3>1, SettledStep
  <2>5. CASE ~Fits(session, ToolStarts)
    <3>1. PICK q \in {AppendNew(started, "tool", turn.n)} :
            q = AppendNew(started, "tool", turn.n)
      OBVIOUS
    <3>2. Continue(q, FALSE)
      BY <1>3, <2>2, <2>5, <3>1 DEF StartTool
    <3>3. Good(q) /\ q.steers = started.steers
      <4>1. Good(q)
        BY <1>1, <2>3, <3>1, AppendNewGood
      <4>2. started \in SessionType
        BY <2>3 DEF Good
      <4>3. \A about : AppendNew(started, "tool", about).steers
                        = started.steers
        BY <4>2, SteersUntouched
      <4> QED BY <3>1, <4>1, <4>3
    <3>4. q.steers = session.steers
      BY <2>3, <3>3
    <3> QED BY <3>2, <3>3, <3>4, ContinueWaits
  <2> QED BY <2>4, <2>5
<1>4. CASE ToolReturns
  <2> DEFINE kept == TryEmit(AppendNew(session, "tool", turn.n),
                             <<Event("toolResult", turn.n)>>)
  <2>1. <<Event("toolResult", turn.n)>> \in Seq(EventType)
    BY <1>1, Emitted DEF EventKinds
  <2>2. kept.steers = session.steers
    BY <1>1, <2>1, ResultLeavesSteers
  <2>3. Good(kept) /\ Extends(session, kept)
    BY <1>1, <2>1, ResultKept
  <2>4. IF aborted
        THEN /\ session' = kept /\ turn' = turn /\ run' = "idle"
             /\ ~toolCycle'
        ELSE Continue(kept, FALSE)
    BY <1>4 DEF ToolReturns, Return
  <2> HIDE DEF kept
  <2>5. CASE aborted
    <3>1. /\ Good(session') /\ Extends(session, session')
          /\ session'.steers = session.steers
          /\ turn' = turn /\ ~toolCycle'
      BY <2>2, <2>3, <2>4, <2>5
    <3> QED BY <3>1, SettledStep
  <2>6. CASE ~aborted
    <3>1. Continue(kept, FALSE)
      BY <2>4, <2>6
    <3> QED BY <2>2, <2>3, <3>1, ContinueWaits
  <2> QED BY <2>5, <2>6
<1> QED BY <1>2, <1>3, <1>4

\* The last drain takes the steers after a reply that asked for no tool.
LEMMA LastDrainWaits ==
  ASSUME IInv, SteersInv, LastDrain
  PROVE  SteersInv' /\ SteersWait
<1>1. /\ run = "settling" /\ ~aborted /\ ~turn.tool
  BY DEF LastDrain, Settled
<1>2. turn.state = "finished" /\ Good(session)
  BY <1>1, TurnOfRun DEF TurnInv, TurnFollowsRun
<1>3. ReplyWithoutTools
  <2>1. ~Settling(turn.n)
    BY <1>1, TurnOfRun DEF Settling
  <2>2. ~NoReply(session, turn.n)
    BY <1>2, <2>1 DEF IInv, TurnInv
  <2>3. PICK i \in 1..Len(session.entries) : IsReply(session, i, turn.n)
    BY <2>2 DEF NoReply
  <2>4. session.entries[i].tool = turn.tool
    BY <1>2, <2>3 DEF SteersInv, ReplyTellsTools
  <2> QED BY <1>1, <2>3, <2>4 DEF ReplyWithoutTools, IsReply
<1>4. SteersWait
  BY <1>3 DEF SteersWait, ReplyWithoutTools
<1> DEFINE told == DrainAndDeliver(session, TRUE)
           q == told.session
<1>5. Good(q) /\ Extends(session, q)
  BY <1>2, DrainGood
<1>6. IF session.prompts = <<>> /\ session.steers = <<>>
      THEN run' = "idle" /\ ~toolCycle' /\ session' = session /\ turn' = turn
      ELSE IF told.ok THEN Continue(q, ~toolCycle)
           ELSE session' = q /\ run' = "failed" /\ turn' = turn
  BY DEF LastDrain, Return
<1> HIDE DEF told, q
<1>7. CASE session.prompts = <<>> /\ session.steers = <<>>
  BY <1>6, <1>7, StillStep
<1>8. CASE ~(session.prompts = <<>> /\ session.steers = <<>>) /\ ~told.ok
  BY <1>3, <1>5, <1>6, <1>8, SettledStep
<1>9. CASE ~(session.prompts = <<>> /\ session.steers = <<>>) /\ told.ok
  <2> DEFINE next == NextIteration(q, ~toolCycle)
  <2>1. Continue(q, ~toolCycle) /\ (~toolCycle) \in BOOLEAN
    BY <1>6, <1>9
  <2>2. /\ turn' = next.turn
        /\ run' = IF next.ok THEN "streaming" ELSE "failed"
    BY <2>1 DEF Continue
  <2>3. Began(next.session, next.turn)
    BY <1>5, <2>1, IterationGood
  <2> HIDE DEF next
  <2>4. turn'.state # "finished" /\ run' # "idle"
    BY <2>2, <2>3, BegunIsOpen
  <2>5. SteersInv'
    BY <2>4 DEF SteersInv, ReplyTellsTools
  <2> QED BY <1>4, <2>5
<1> QED BY <1>7, <1>8, <1>9

\* The rest of the run, and the user, leave session and turn alone.
LEMMA OthersWait ==
  ASSUME IInv, SteersInv,
         \/ UserStep \/ Pushed \/ FailReported \/ ReturnAborted
         \/ StopMismatch \/ ClearFailedRun \/ UNCHANGED vars
  PROVE  SteersInv' /\ SteersWait
<1>1. session' = session /\ turn' = turn
  BY DEF UserStep, Submit, Escape, Pushed, FailReported, ReturnAborted,
         StopMismatch, ClearFailedRun, vars, nativeVars
<1>2. run' = "idle" => ~toolCycle'
  BY DEF UserStep, Submit, Escape, Pushed, FailReported, ReturnAborted,
         StopMismatch, ClearFailedRun, Await, Return, Throw, vars, runVars,
         SteersInv
<1> QED BY <1>1, <1>2, StillStep

\* Every step of the system.
LEMMA NextWaits ==
  ASSUME IInv, IInv', SteersInv, [Next]_vars
  PROVE  SteersInv' /\ SteersWait
<1>1. CASE UserStep \/ UNCHANGED vars
  BY <1>1, OthersWait
<1>2. CASE HandlerStep
  BY <1>2, HandlerWaits
<1>3. CASE TakeBatch \/ Dispatch \/ StreamStep
  BY <1>3, PassingWaits
<1>4. CASE NativeStep
  BY <1>4, PassingWaits, CommitsWait DEF NativeStep
<1>5. CASE RunStep
  BY <1>5, OthersWait, ToolsWait, LastDrainWaits DEF RunStep
<1>6. CASE ToolStep
  BY <1>6, ToolsWait DEF ToolStep
<1>7. CASE BackgroundCancel
  BY <1>7, CommitsWait
<1> QED BY <1>1, <1>2, <1>3, <1>4, <1>5, <1>6, <1>7 DEF Next

\* While a run is in a tool cycle nothing takes a steer from its queue before
\* a reply of the latest turn is in the session that asks for no tool
\* (SteersWaitForFinalReply): the drains between tools leave the steers, and
\* the run of an earlier submission leaves no tool cycle behind.
THEOREM SteersWaitInLine == Spec => SteersWaitForFinalReply
<1>1. Init => SteersInv
  BY DEF Init, SteersInv, ReplyTellsTools, NoTurn
<1>2. IInv /\ IInv' /\ SteersInv /\ [Next]_vars => SteersInv'
  BY NextWaits
<1>3. Spec => []SteersInv
  BY <1>1, <1>2, RunIsKept, PTL DEF Spec
<1>4. IInv /\ IInv' /\ SteersInv /\ [Next]_vars => [SteersWait]_vars
  BY NextWaits
<1>5. Spec => [][SteersWait]_vars
  BY <1>3, <1>4, RunIsKept, PTL DEF Spec
<1>6. [SteersWait]_vars =>
        [toolCycle /\ Len(session'.steers) < Len(session.steers) =>
           \E i \in 1..Len(session.entries) :
             /\ session.entries[i].from = "assistant"
             /\ session.entries[i].about = turn.n
             /\ ~session.entries[i].tool]_vars
  BY DEF SteersWait
<1> QED BY <1>5, <1>6, PTL DEF SteersWaitForFinalReply

=============================================================================
