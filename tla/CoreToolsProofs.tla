-------------------------- MODULE CoreToolsProofs --------------------------
(***************************************************************************)
(* Machine-checked proofs about CoreTools, for every reply, any number of  *)
(* hooks and decisions and any capacity of the control channel: that the   *)
(* core's tool phase implements ToolPromise, and that the consumer is told *)
(* what the session holds.                                                 *)
(***************************************************************************)
EXTENDS CoreTools, SequenceTheorems, TLAPS

USE CoreToolsAssumption DEF CoreToolsAssumption, Calls

-----------------------------------------------------------------------------
(* The inductive invariant.                                                *)

InCall == {"before", "approval", "working", "after"}
Places == InCall \cup Ended \cup {"next"}

\* How a call that the loop has left ended; "dropped" is one it never left.
Outcomes == {"done", "failed", "refused"}

EventKinds == {"started", "requested", "resolved", "result", "finished"}
EventType == [kind : EventKinds, call : Nat, id : Nat, flag : BOOLEAN]
AnswerType == [call : Nat, error : BOOLEAN]
DecisionType == [id : Nat, approve : BOOLEAN]

Typed ==
  /\ reply \in Seq(Kinds) /\ Last \in 0..MaxCalls
  /\ at \in Places /\ call \in 1..(Last + 1) /\ hook \in Nat
  /\ approval \in [Calls -> Nat] /\ nextApproval \in Nat \ {0}
  /\ isError \in BOOLEAN /\ override \in {"none", "ok", "error"}
  /\ answers \in Seq(AnswerType) /\ log \in Seq(EventType)
  /\ control \in Seq(DecisionType)
  /\ fate \in [Calls -> Outcomes \cup {"none", "dropped"}]
  /\ granted \subseteq Calls

\* The loop is in a call of the reply, or behind the last one.
Placed ==
  /\ at \notin {"next", "completed"} => call <= Last
  /\ at = "completed" => call = Last + 1
  /\ at \in InCall => reply[call] # "invalid"

\* The calls before the one the loop is in have ended, those behind it have
\* not begun.
FatesFollowLoop ==
  \A c \in Calls :
    /\ c < call => fate[c] \in Outcomes
    /\ c > call => fate[c] = "none" /\ approval[c] = 0
    /\ c = call => fate[c] = IF at = "cancelled" THEN "dropped" ELSE "none"

\* No two requests have the same id, so that a decision is on one call only.
RequestsDiffer ==
  /\ \A c \in Calls : approval[c] < nextApproval
  /\ \A c, d \in Calls : approval[c] = approval[d] => c = d \/ approval[c] = 0
  /\ at \in {"next", "before"} /\ call \in Calls => approval[call] = 0
  /\ at \in {"approval", "cancelled"} => approval[call] # 0

IInv == Typed /\ Placed /\ FatesFollowLoop /\ RequestsDiffer

\* The requests a consumer was shown, and those it saw resolved.
Shows == {approval[c] : c \in Calls} \ {0}
Open == IF at \in {"approval", "cancelled"} THEN {approval[call]} ELSE {}

\* EventsTellSession, at every point of the loop.
EventsInv ==
  /\ Len(answers) = call - 1
  /\ \A i \in 1..Len(answers) : answers[i].call = i
  /\ Tells("result", 1..(call - 1))
  /\ Tells("finished", {c \in 1..(call - 1) : reply[c] # "invalid"})
  /\ IdsOf("requested") = Shows
  /\ IdsOf("resolved") = Shows \ Open

-----------------------------------------------------------------------------
(* Events and answers.                                                     *)

\* The empty sequence is a sequence of anything.
LEMMA Nothing == \A S : <<>> \in Seq(S)
BY EmptySeq

\* What the code sends are events, and what it pushes are answers.
LEMMA Sent ==
  ASSUME NEW id \in Nat, NEW flag \in BOOLEAN, call \in Nat
  PROVE  /\ Started \in EventType /\ Requested(id) \in EventType
         /\ ResolvedAs(id, flag) \in EventType
         /\ ResultEvent(flag) \in EventType
         /\ FinishedEvent(flag) \in EventType
         /\ [call |-> call, error |-> flag] \in AnswerType
BY DEF Started, Requested, ResolvedAs, ResultEvent, FinishedEvent, Event,
   EventKinds, EventType, AnswerType

\* What the consumer reads in a log l of a session that holds the answers a:
\* the property's Tells and IdsOf, of any log.
TellsIn(l, a, kind, calls) ==
  LET told == {i \in DOMAIN l : l[i].kind = kind}
  IN  /\ \A i, j \in told : i < j => l[i].call < l[j].call
      /\ \A i \in told : l[i].call \in calls /\ l[i].flag = a[l[i].call].error
      /\ \A c \in calls : \E i \in told : l[i].call = c
IdsIn(l, kind) == {l[i].id : i \in {j \in DOMAIN l : l[j].kind = kind}}

\* These events tell nothing of the kind, or one thing, of the call c.
Silent(es, kind) == \A k \in 1..Len(es) : es[k].kind # kind
TellsOnce(es, kind, c, error) ==
  \E k \in 1..Len(es) :
    /\ es[k].kind = kind /\ es[k].call = c /\ es[k].flag = error
    /\ \A j \in 1..Len(es) : es[j].kind = kind => j = k

\* What it sends before a call is answered.
LEMMA SentAlone ==
  ASSUME call \in Nat
  PROVE  /\ Started \in EventType
         /\ \A id \in Nat : /\ Requested(id) \in EventType
                            /\ ResolvedAs(id, TRUE) \in EventType
BY DEF Started, Requested, ResolvedAs, Event, EventKinds, EventType

\* A log with one event more is one.
LEMMA OneMore ==
  ASSUME NEW l \in Seq(EventType), NEW e \in EventType
  PROVE  Append(l, e) \in Seq(EventType)
BY AppendProperties

\* The places of a log with more events behind it.
LEMMA Longer ==
  ASSUME NEW l \in Seq(EventType), NEW es \in Seq(EventType),
         NEW m, m = l \o es
  PROVE  /\ m \in Seq(EventType) /\ Len(l) \in Nat /\ Len(es) \in Nat
         /\ DOMAIN l = 1..Len(l) /\ DOMAIN es = 1..Len(es)
         /\ DOMAIN m = 1..(Len(l) + Len(es))
         /\ \A i \in 1..Len(l) : m[i] = l[i]
         /\ \A k \in 1..Len(es) : m[Len(l) + k] = es[k]
         /\ \A i \in DOMAIN m : \/ i \in 1..Len(l)
                                \/ \E k \in 1..Len(es) : i = Len(l) + k
<1>1. /\ m \in Seq(EventType) /\ Len(m) = Len(l) + Len(es)
      /\ \A i \in 1..(Len(l) + Len(es)) :
           m[i] = IF i <= Len(l) THEN l[i] ELSE es[i - Len(l)]
  BY ConcatProperties
<1>2. /\ Len(l) \in Nat /\ Len(es) \in Nat
      /\ DOMAIN l = 1..Len(l) /\ DOMAIN es = 1..Len(es)
      /\ DOMAIN m = 1..Len(m)
  BY <1>1, LenProperties
<1>3. \A i \in 1..Len(l) : m[i] = l[i]
  BY <1>1, <1>2
<1>4. ASSUME NEW k \in 1..Len(es)
      PROVE  m[Len(l) + k] = es[k]
  <2>1. /\ Len(l) + k \in 1..(Len(l) + Len(es)) /\ ~(Len(l) + k <= Len(l))
        /\ (Len(l) + k) - Len(l) = k
    BY <1>2
  <2> QED BY <1>1, <2>1
<1>5. ASSUME NEW i \in DOMAIN m, i \notin 1..Len(l)
      PROVE  \E k \in 1..Len(es) : i = Len(l) + k
  <2>1. i - Len(l) \in 1..Len(es) /\ i = Len(l) + (i - Len(l))
    BY <1>1, <1>2, <1>5
  <2> QED BY <2>1
<1> QED BY <1>1, <1>2, <1>3, <1>4, <1>5

\* Events of other kinds change nothing in what the log tells.
LEMMA SilentTells ==
  ASSUME NEW l \in Seq(EventType), NEW es \in Seq(EventType),
         NEW m, m = l \o es, NEW kind, Silent(es, kind),
         NEW a, NEW b, NEW calls, \A c \in calls : b[c] = a[c],
         TellsIn(l, a, kind, calls)
  PROVE  TellsIn(m, b, kind, calls)
<1> DEFINE told == {i \in DOMAIN l : l[i].kind = kind}
           now == {i \in DOMAIN m : m[i].kind = kind}
<1>1. now = told /\ \A i \in told : m[i] = l[i]
  BY Longer DEF Silent
<1>2. /\ \A i, j \in told : i < j => l[i].call < l[j].call
      /\ \A i \in told : l[i].call \in calls /\ l[i].flag = a[l[i].call].error
      /\ \A c \in calls : \E i \in told : l[i].call = c
  BY DEF TellsIn
<1> HIDE DEF told, now
<1>3. ASSUME NEW i \in now, NEW j \in now, i < j
      PROVE  m[i].call < m[j].call
  <2>1. /\ i \in told /\ j \in told
        /\ m[i] = l[i] /\ m[j] = l[j]
    BY <1>1
  <2>2. l[i].call < l[j].call
    <3>1. i \in Nat /\ j \in Nat
      BY <2>1, Longer DEF told
    <3>2. \A x, y \in told : x < y => l[x].call < l[y].call
      BY <1>2
    <3> QED BY <1>3, <2>1, <3>1, <3>2
  <2> QED BY ONLY <2>1, <2>2
<1>4. ASSUME NEW i \in now
      PROVE  m[i].call \in calls /\ m[i].flag = b[m[i].call].error
  <2>1. i \in told /\ m[i] = l[i]
    BY <1>1
  <2>2. l[i].call \in calls /\ l[i].flag = a[l[i].call].error
    BY <1>2, <2>1
  <2>3. b[l[i].call] = a[l[i].call]
    BY <2>2
  <2> QED BY ONLY <2>1, <2>2, <2>3
<1>5. ASSUME NEW c \in calls
      PROVE  \E i \in now : m[i].call = c
  <2>1. PICK i \in told : l[i].call = c
    BY <1>2
  <2> QED BY <1>1, <2>1
<1> QED BY <1>3, <1>4, <1>5 DEF TellsIn, now

\* One more of the kind tells of one call more, behind the others.
LEMMA OnceTells ==
  ASSUME NEW l \in Seq(EventType), NEW es \in Seq(EventType),
         NEW m, m = l \o es, NEW kind,
         NEW a, NEW b, NEW c \in Nat, NEW calls,
         \A d \in calls : d < c /\ b[d] = a[d],
         TellsOnce(es, kind, c, b[c].error), TellsIn(l, a, kind, calls)
  PROVE  TellsIn(m, b, kind, calls \cup {c})
<1> DEFINE told == {i \in DOMAIN l : l[i].kind = kind}
           now == {i \in DOMAIN m : m[i].kind = kind}
<1>1. PICK k \in 1..Len(es) :
        /\ es[k].kind = kind /\ es[k].call = c /\ es[k].flag = b[c].error
        /\ \A j \in 1..Len(es) : es[j].kind = kind => j = k
  BY DEF TellsOnce
<1>2. PICK n \in Nat : n = Len(l) + k
  BY Longer
<1>3. /\ n \in now /\ m[n].call = c /\ m[n].flag = b[c].error
      /\ \A i \in told : i \in now /\ m[i] = l[i] /\ i < n
      /\ \A i \in now : i = n \/ i \in told
  <2>1. n \in DOMAIN m /\ m[n] = es[k]
    BY <1>2, Longer
  <2>2. \A i \in told : i \in now /\ m[i] = l[i] /\ i < n
    BY <1>2, Longer
  <2>3. ASSUME NEW i \in now, i \notin told
        PROVE  i = n
    <3>1. i \in DOMAIN m /\ m[i].kind = kind
      OBVIOUS
    <3>2. i \notin 1..Len(l)
      BY <2>3, <3>1, Longer
    <3>3. PICK j \in 1..Len(es) : i = Len(l) + j
      BY <3>1, <3>2, Longer
    <3>4. m[i] = es[j]
      BY <3>3, Longer
    <3> QED BY <1>1, <1>2, <3>1, <3>3, <3>4
  <2> QED BY <1>1, <2>1, <2>2, <2>3
<1>4. /\ \A i, j \in told : i < j => l[i].call < l[j].call
      /\ \A i \in told : l[i].call \in calls /\ l[i].flag = a[l[i].call].error
      /\ \A d \in calls : \E i \in told : l[i].call = d
  BY DEF TellsIn
<1>5. \A i \in told : i \in Nat
  BY Longer
<1> HIDE DEF told, now
<1>6. ASSUME NEW i \in now, NEW j \in now, i < j
      PROVE  m[i].call < m[j].call
  <2>1. CASE j = n
    <3>1. i \in told
      <4>1. i # n
        BY <1>6, <2>1
      <4> QED BY <1>3, <4>1
    <3>2. m[i].call \in calls
      BY <1>3, <1>4, <3>1
    <3> QED BY <1>3, <2>1, <3>2
  <2>2. CASE j \in told
    <3>1. i \in told
      BY <1>3, <1>5, <1>6, <2>2
    <3>2. l[i].call < l[j].call
      BY <1>4, <1>6, <2>2, <3>1
    <3> QED BY <1>3, <2>2, <3>1, <3>2
  <2> QED BY <1>3, <2>1, <2>2
<1>7. ASSUME NEW i \in now
      PROVE  m[i].call \in calls \cup {c} /\ m[i].flag = b[m[i].call].error
  <2>1. CASE i = n
    BY <1>3, <2>1
  <2>2. CASE i \in told
    <3>1. m[i] = l[i] /\ l[i].call \in calls
      BY <1>3, <1>4, <2>2
    <3>2. l[i].flag = a[l[i].call].error /\ b[l[i].call] = a[l[i].call]
      BY <1>4, <2>2, <3>1
    <3> QED BY <3>1, <3>2
  <2> QED BY <1>3, <2>1, <2>2
<1>8. ASSUME NEW d \in calls \cup {c}
      PROVE  \E i \in now : m[i].call = d
  <2>1. CASE d = c
    BY <1>3, <2>1
  <2>2. CASE d \in calls
    <3>1. PICK i \in told : l[i].call = d
      BY <1>4, <2>2
    <3>2. i \in now /\ m[i].call = d
      BY <1>3, <3>1
    <3> QED BY <3>2
  <2> QED BY <2>1, <2>2
<1> QED BY <1>6, <1>7, <1>8 DEF TellsIn, now

\* And the ids of a kind are those of both parts.
LEMMA MoreIds ==
  ASSUME NEW l \in Seq(EventType), NEW es \in Seq(EventType),
         NEW m, m = l \o es, NEW kind
  PROVE  \A x : x \in IdsIn(m, kind)
                  <=> x \in IdsIn(l, kind) \/ x \in IdsIn(es, kind)
<1>1. ASSUME NEW x \in IdsIn(m, kind)
      PROVE  x \in IdsIn(l, kind) \cup IdsIn(es, kind)
  <2>1. PICK i \in DOMAIN m : m[i].kind = kind /\ m[i].id = x
    BY <1>1 DEF IdsIn
  <2> QED BY <2>1, Longer DEF IdsIn
<1>2. ASSUME NEW x \in IdsIn(l, kind)
      PROVE  x \in IdsIn(m, kind)
  <2>1. PICK i \in DOMAIN l : l[i].kind = kind /\ l[i].id = x
    BY <1>2 DEF IdsIn
  <2>2. i \in DOMAIN m /\ m[i] = l[i]
    BY Longer
  <2> QED BY <2>1, <2>2 DEF IdsIn
<1>3. ASSUME NEW x \in IdsIn(es, kind)
      PROVE  x \in IdsIn(m, kind)
  <2>1. PICK k \in DOMAIN es : es[k].kind = kind /\ es[k].id = x
    BY <1>3 DEF IdsIn
  <2>2. PICK i : i = Len(l) + k
    OBVIOUS
  <2>3. i \in DOMAIN m /\ m[i] = es[k]
    BY <2>2, Longer
  <2> QED BY <2>1, <2>3 DEF IdsIn
<1> QED BY <1>1, <1>2, <1>3

-----------------------------------------------------------------------------
(* What the loop sends of a call it answers.                               *)

\* Its events one by one.
LEMMA OneEvent ==
  ASSUME NEW x \in EventType, NEW s, s = <<x>>
  PROVE  s \in Seq(EventType) /\ Len(s) = 1 /\ s[1] = x
OBVIOUS

\* Two events.
LEMMA TwoEvents ==
  ASSUME NEW y \in EventType, NEW z \in EventType, NEW s, s = <<>> \o <<y, z>>
  PROVE  s \in Seq(EventType) /\ Len(s) = 2 /\ s[1] = y /\ s[2] = z
OBVIOUS

\* Three events.
LEMMA ThreeEvents ==
  ASSUME NEW x \in EventType, NEW y \in EventType, NEW z \in EventType,
         NEW s, s = <<x>> \o <<y, z>>
  PROVE  /\ s \in Seq(EventType) /\ Len(s) = 3
         /\ s[1] = x /\ s[2] = y /\ s[3] = z
OBVIOUS

\* One result, and no request for an approval.
Tale(es, error) ==
  /\ es \in Seq(EventType) /\ TellsOnce(es, "result", call, error)
  /\ Silent(es, "requested")

\* A call that was not started is told of by its result alone.
LEMMA TaleOfInvalid ==
  ASSUME call \in Nat, NEW error \in BOOLEAN,
         NEW es, es = <<ResultEvent(error)>>
  PROVE  /\ Tale(es, error) /\ Silent(es, "finished")
         /\ Silent(es, "resolved")
<1> DEFINE r == ResultEvent(error)
<1>1. /\ r \in EventType /\ r.kind = "result" /\ r.call = call
      /\ r.flag = error
  BY Sent DEF ResultEvent, Event
<1> HIDE DEF r
<1>2. es \in Seq(EventType) /\ Len(es) = 1 /\ es[1] = r
  BY <1>1, OneEvent DEF r
<1>3. \A k \in 1..Len(es) : k = 1
  BY <1>2
<1>4. 1 \in 1..Len(es)
  BY <1>2
<1> QED BY <1>1, <1>2, <1>3, <1>4 DEF Tale, TellsOnce, Silent

\* A call that was started is told of by its result and its end.
LEMMA TaleOfStarted ==
  ASSUME call \in Nat, NEW error \in BOOLEAN,
         NEW before \in {<<>>, <<Started>>},
         NEW es, es = before \o <<ResultEvent(error), FinishedEvent(error)>>
  PROVE  /\ Tale(es, error) /\ TellsOnce(es, "finished", call, error)
         /\ Silent(es, "resolved")
<1> DEFINE r == ResultEvent(error)
           f == FinishedEvent(error)
           b == Started
<1>1. /\ r \in EventType /\ r.kind = "result" /\ r.call = call
      /\ r.flag = error
      /\ f \in EventType /\ f.kind = "finished" /\ f.call = call
      /\ f.flag = error
      /\ b \in EventType /\ b.kind = "started"
  BY Sent DEF ResultEvent, FinishedEvent, Started, Event
<1>2. es = <<>> \o <<r, f>> \/ es = <<b>> \o <<r, f>>
  OBVIOUS
<1> HIDE DEF r, f, b
<1>3. /\ es \in Seq(EventType)
      /\ \/ Len(es) = 2 /\ es[1] = r /\ es[2] = f
         \/ Len(es) = 3 /\ es[1] = b /\ es[2] = r /\ es[3] = f
  <2>1. CASE es = <<>> \o <<r, f>>
    BY ONLY <1>1, <2>1, TwoEvents
  <2>2. CASE es = <<b>> \o <<r, f>>
    BY ONLY <1>1, <2>2, ThreeEvents
  <2> QED BY <1>2, <2>1, <2>2
<1>4. CASE Len(es) = 2 /\ es[1] = r /\ es[2] = f
  <2>1. /\ 1 \in 1..Len(es) /\ 2 \in 1..Len(es)
        /\ \A k \in 1..Len(es) : k = 1 \/ k = 2
    BY <1>4
  <2> QED BY <1>1, <1>3, <1>4, <2>1 DEF Tale, TellsOnce, Silent
<1>5. CASE Len(es) = 3 /\ es[1] = b /\ es[2] = r /\ es[3] = f
  <2>1. /\ 1 \in 1..Len(es) /\ 2 \in 1..Len(es) /\ 3 \in 1..Len(es)
        /\ \A k \in 1..Len(es) : k = 1 \/ k = 2 \/ k = 3
    BY <1>5
  <2> QED BY <1>1, <1>3, <1>5, <2>1 DEF Tale, TellsOnce, Silent
<1> QED BY <1>3, <1>4, <1>5

\* And a refused call by its decision before them.
LEMMA TaleOfRefused ==
  ASSUME call \in Nat, NEW error \in BOOLEAN, NEW id \in Nat,
         NEW es, es = <<ResolvedAs(id, FALSE)>>
                        \o <<ResultEvent(error), FinishedEvent(error)>>
  PROVE  /\ Tale(es, error) /\ TellsOnce(es, "finished", call, error)
         /\ IdsIn(es, "resolved") = {id}
<1> DEFINE r == ResultEvent(error)
           f == FinishedEvent(error)
           b == ResolvedAs(id, FALSE)
<1>1. /\ r \in EventType /\ r.kind = "result" /\ r.call = call
      /\ r.flag = error
      /\ f \in EventType /\ f.kind = "finished" /\ f.call = call
      /\ f.flag = error
      /\ b \in EventType /\ b.kind = "resolved" /\ b.id = id
  BY Sent DEF ResultEvent, FinishedEvent, ResolvedAs, Event
<1>2. es = <<b>> \o <<r, f>>
  OBVIOUS
<1> HIDE DEF r, f, b
<1>3. /\ es \in Seq(EventType) /\ Len(es) = 3
      /\ es[1] = b /\ es[2] = r /\ es[3] = f
  BY ONLY <1>1, <1>2, ThreeEvents
<1>4. /\ 1 \in 1..Len(es) /\ 2 \in 1..Len(es) /\ 3 \in 1..Len(es)
      /\ \A k \in 1..Len(es) : k = 1 \/ k = 2 \/ k = 3
      /\ DOMAIN es = 1..Len(es)
  BY <1>3, LenProperties
<1>5. Tale(es, error) /\ TellsOnce(es, "finished", call, error)
  <2>o. /\ es[1].kind = "resolved" /\ es[2].kind = "result"
        /\ es[3].kind = "finished"
        /\ es[2].call = call /\ es[2].flag = error
        /\ es[3].call = call /\ es[3].flag = error
    BY <1>1, <1>3
  <2>1. TellsOnce(es, "result", call, error)
    <3>1. \A j \in 1..Len(es) : es[j].kind = "result" => j = 2
      BY ONLY <1>4, <2>o
    <3> QED BY ONLY <1>4, <2>o, <3>1 DEF TellsOnce
  <2>2. TellsOnce(es, "finished", call, error)
    <3>1. \A j \in 1..Len(es) : es[j].kind = "finished" => j = 3
      BY ONLY <1>4, <2>o
    <3> QED BY ONLY <1>4, <2>o, <3>1 DEF TellsOnce
  <2>3. Silent(es, "requested")
    BY <1>1, <1>3, <1>4 DEF Silent
  <2> QED BY <1>3, <2>1, <2>2, <2>3 DEF Tale
<1>6. {j \in DOMAIN es : es[j].kind = "resolved"} = {1}
  <2>1. /\ es[1].kind = "resolved" /\ es[2].kind # "resolved"
        /\ es[3].kind # "resolved"
    BY <1>1, <1>3
  <2> QED BY <1>4, <2>1
<1>7. IdsIn(es, "resolved") = {es[1].id}
  BY <1>6 DEF IdsIn
<1> QED BY <1>1, <1>3, <1>5, <1>7

\* One event that is sent on its own, and none.
LEMMA TaleOfOne ==
  ASSUME NEW e \in EventType
  PROVE  /\ <<e>> \in Seq(EventType)
         /\ \A kind : kind # e.kind => Silent(<<e>>, kind)
         /\ IdsIn(<<e>>, e.kind) = {e.id}
         /\ \A l \in Seq(EventType) : Append(l, e) = l \o <<e>>
<1>1. <<e>> \in Seq(EventType) /\ Len(<<e>>) = 1 /\ <<e>>[1] = e
  BY OneEvent
<1>2. DOMAIN <<e>> = {1}
  BY <1>1
<1>3. \A kind : kind # e.kind => Silent(<<e>>, kind)
  BY <1>1 DEF Silent
<1>4. {j \in DOMAIN <<e>> : <<e>>[j].kind = e.kind} = {1}
  BY <1>1, <1>2
<1>5. IdsIn(<<e>>, e.kind) = {e.id}
  BY <1>1, <1>4 DEF IdsIn
<1> QED BY <1>1, <1>3, <1>5, AppendIsConcat

-----------------------------------------------------------------------------
(* The steps of the loop keep the invariant.                               *)

\* The steps that answer a call: an invalid one, one that was started, and
\* one that was refused.
Answers(how, error, es) ==
  /\ at \notin Ended /\ call \in Calls /\ call <= Last
  /\ how \in Outcomes /\ error \in BOOLEAN /\ AnswerWith(how, error, es)
  /\ UNCHANGED <<reply, hook, approval, nextApproval, resultVars, granted>>
  /\ control' \in Seq(DecisionType)

AnswersInvalid(how, error, es) ==
  /\ Answers(how, error, es) /\ how # "refused"
  /\ at = "next" /\ reply[call] = "invalid" /\ es = <<ResultEvent(error)>>
AnswersStarted(how, error, es) ==
  /\ Answers(how, error, es) /\ how # "refused"
  /\ at # "approval" /\ reply[call] # "invalid"
  /\ \E before \in {<<>>, <<Started>>} :
       es = before \o <<ResultEvent(error), FinishedEvent(error)>>
AnswersRefused(how, error, es) ==
  /\ Answers(how, error, es)
  /\ at = "approval" /\ reply[call] # "invalid" /\ how = "refused"
  /\ es = <<ResolvedAs(approval[call], FALSE)>>
            \o <<ResultEvent(error), FinishedEvent(error)>>

\* The sequence of answers, one longer, and the log, somewhat longer.
LEMMA AnswerTyped ==
  ASSUME Typed, call \in Nat, NEW how, NEW error \in BOOLEAN,
         NEW es \in Seq(EventType), AnswerWith(how, error, es)
  PROVE  answers' \in Seq(AnswerType) /\ log' \in Seq(EventType)
<1>1. [call |-> call, error |-> error] \in AnswerType
  BY DEF AnswerType
<1>2. answers' \in Seq(AnswerType)
  BY <1>1, AppendProperties DEF AnswerWith, Typed
<1>3. log' \in Seq(EventType)
  BY ConcatProperties DEF AnswerWith, Typed
<1> QED BY <1>2, <1>3

\* Answering a call ends it, and the loop is in front of the next one.
LEMMA AnswerKeeps ==
  ASSUME IInv, NEW how, NEW error, NEW es \in Seq(EventType),
         Answers(how, error, es)
  PROVE  IInv'
<1>1. /\ at' = "next" /\ call' = call + 1
      /\ fate' = [fate EXCEPT ![call] = how]
      /\ reply' = reply /\ approval' = approval
      /\ nextApproval' = nextApproval /\ hook' = hook
      /\ isError' = isError /\ override' = override
      /\ control' \in Seq(DecisionType) /\ granted' = granted
      /\ call \in Calls /\ call <= Last /\ at \notin Ended
      /\ how \in Outcomes /\ error \in BOOLEAN
      /\ AnswerWith(how, error, es)
  BY DEF Answers, AnswerWith, resultVars
<1>2. Typed'
  <2>1. answers' \in Seq(AnswerType) /\ log' \in Seq(EventType)
    BY <1>1, AnswerTyped DEF IInv
  <2>2. call' \in 1..(Last' + 1) /\ Last' = Last
    BY <1>1 DEF IInv, Typed, Last
  <2>3. fate' \in [Calls -> Outcomes \cup {"none", "dropped"}]
    BY <1>1 DEF IInv, Typed
  <2> QED BY <1>1, <2>1, <2>2, <2>3 DEF IInv, Typed, Places
<1>3. Placed'
  BY <1>1 DEF Placed, InCall
<1>4. FatesFollowLoop'
  BY <1>1 DEF IInv, Typed, FatesFollowLoop, Ended
<1>5. RequestsDiffer'
  BY <1>1 DEF IInv, Typed, RequestsDiffer, FatesFollowLoop
<1> QED BY <1>2, <1>3, <1>4, <1>5 DEF IInv

\* Which actions answer, and how.
LEMMA InvalidAnswers ==
  ASSUME IInv, AnswerInvalid
  PROVE  \E how, error, es : AnswersInvalid(how, error, es)
<1>1. /\ at = "next" /\ call <= Last /\ reply[call] = "invalid"
      /\ AnswerWith("failed", TRUE, <<ResultEvent(TRUE)>>)
      /\ UNCHANGED <<reply, hook, approval, nextApproval, resultVars, granted>>
      /\ control' \in Seq(DecisionType)
  BY DEF AnswerInvalid, outside, IInv, Typed
<1>2. call \in Calls /\ at \notin Ended
  BY <1>1 DEF IInv, Typed, Ended
<1> QED BY <1>1, <1>2 DEF AnswersInvalid, Answers, Outcomes

\* An unknown name, a hook that refuses or fails, and a tool that returned end
\* a call in the same way.
LEMMA StartedAnswers ==
  ASSUME IInv, AnswerUnknown \/ HookRefuses \/ AfterHookFails \/ FinishCall
  PROVE  \E how, error, es : AnswersStarted(how, error, es)
<1>1. /\ UNCHANGED <<reply, hook, approval, nextApproval, resultVars, granted>>
      /\ control' \in Seq(DecisionType)
      /\ at \notin Ended /\ call \in Calls /\ call <= Last
      /\ at # "approval" /\ reply[call] # "invalid"
  <2>1. /\ UNCHANGED <<reply, hook, approval, nextApproval, resultVars,
                       granted, control>>
        /\ \/ at = "next" /\ call <= Last /\ reply[call] = "unknown"
           \/ at = "before" \/ at = "after"
    BY DEF AnswerUnknown, HookRefuses, AfterHookFails, FinishCall, outside
  <2> QED BY <2>1 DEF IInv, Typed, Placed, Ended, InCall
<1>2. \E how \in Outcomes \ {"refused"}, error \in BOOLEAN,
         before \in {<<>>, <<Started>>} :
        Answer(how, error, before)
  <2>1. CASE AnswerUnknown
    BY <2>1 DEF AnswerUnknown, Outcomes
  <2>2. CASE HookRefuses
    BY <2>2 DEF HookRefuses, Outcomes
  <2>3. CASE AfterHookFails
    BY <2>3 DEF AfterHookFails, Outcomes
  <2>4. CASE FinishCall
    <3>1. Patched \in BOOLEAN
      BY DEF Patched, IInv, Typed
    <3> QED BY <2>4, <3>1 DEF FinishCall, FinishWithResult, Outcomes
  <2> QED BY <2>1, <2>2, <2>3, <2>4
<1>3. PICK how \in Outcomes \ {"refused"}, error \in BOOLEAN,
           before \in {<<>>, <<Started>>} : Answer(how, error, before)
  BY <1>2
<1> DEFINE es == before \o <<ResultEvent(error), FinishedEvent(error)>>
<1>4. AnswerWith(how, error, es)
  BY <1>3 DEF Answer
<1> HIDE DEF es
<1>5. AnswersStarted(how, error, es)
  BY <1>1, <1>4 DEF AnswersStarted, Answers, es
<1> QED BY <1>5

\* What TakeDecision does with the decision it reads.
Ignores ==
  UNCHANGED <<reply, at, call, hook, approval, nextApproval, resultVars,
              answers, log, fate, granted>>
Grants ==
  /\ at = "approval" /\ Decision.id = approval[call]
  /\ log' = Append(log, ResolvedAs(approval[call], TRUE))
  /\ granted' = granted \cup {c \in Calls : approval[c] = approval[call]}
  /\ at' = "working"
  /\ UNCHANGED <<reply, call, hook, approval, nextApproval, resultVars,
                 answers, fate>>

\* It reads one decision and does one of the three.
LEMMA DecisionTaken ==
  ASSUME IInv, TakeDecision
  PROVE  /\ control' \in Seq(DecisionType)
         /\ \/ Ignores \/ Grants
            \/ \E how, error, es : AnswersRefused(how, error, es)
<1>1. /\ at = "approval" /\ control \in Seq(DecisionType) /\ control # <<>>
      /\ control' = Tail(control)
  BY DEF TakeDecision, Receives, IInv, Typed
<1>2. control' \in Seq(DecisionType)
  BY <1>1, HeadTailProperties
<1>3. CASE ~ForThisCall
  BY <1>2, <1>3 DEF TakeDecision, Ignores
<1>4. CASE ForThisCall /\ Decision.approve
  BY <1>1, <1>2, <1>4 DEF TakeDecision, ForThisCall, Grants
<1>5. CASE ForThisCall /\ ~Decision.approve
  <2> DEFINE es == <<ResolvedAs(approval[call], FALSE)>>
                     \o <<ResultEvent(TRUE), FinishedEvent(TRUE)>>
  <2>1. Decision.id = approval[call]
    BY <1>5 DEF ForThisCall
  <2>2. Answer("refused", TRUE, <<ResolvedAs(Decision.id, FALSE)>>)
    BY <1>5 DEF TakeDecision
  <2>3. AnswerWith("refused", TRUE, es)
    BY <2>1, <2>2 DEF Answer
  <2>4. UNCHANGED <<reply, hook, approval, nextApproval, resultVars, granted>>
    BY <1>5 DEF TakeDecision
  <2>5. /\ at \notin Ended /\ call \in Calls /\ call <= Last
        /\ reply[call] # "invalid"
    BY <1>1 DEF IInv, Typed, Placed, InCall, Ended
  <2> HIDE DEF es
  <2>6. AnswersRefused("refused", TRUE, es)
    BY <1>1, <1>2, <2>3, <2>4, <2>5 DEF AnswersRefused, Answers, Outcomes, es
  <2> QED BY <1>2, <2>6
<1> QED BY <1>3, <1>4, <1>5

\* All answers are events.
LEMMA AnswersSendEvents ==
  ASSUME IInv, NEW how, NEW error, NEW es,
         \/ AnswersInvalid(how, error, es) \/ AnswersStarted(how, error, es)
         \/ AnswersRefused(how, error, es)
  PROVE  /\ Answers(how, error, es) /\ Tale(es, error)
         /\ IF reply[call] = "invalid" THEN Silent(es, "finished")
            ELSE TellsOnce(es, "finished", call, error)
         /\ IF AnswersRefused(how, error, es)
            THEN IdsIn(es, "resolved") = {approval[call]}
            ELSE Silent(es, "resolved")
<1>1. /\ Answers(how, error, es) /\ call \in Nat /\ error \in BOOLEAN
      /\ call \in Calls /\ approval[call] \in Nat
  BY DEF AnswersInvalid, AnswersStarted, AnswersRefused, Answers, IInv, Typed
<1>2. CASE AnswersInvalid(how, error, es)
  <2>1. /\ es = <<ResultEvent(error)>> /\ reply[call] = "invalid"
        /\ ~AnswersRefused(how, error, es)
    BY <1>2 DEF AnswersInvalid, AnswersRefused
  <2> QED BY <1>1, <2>1, TaleOfInvalid
<1>3. CASE AnswersStarted(how, error, es)
  <2>1. /\ reply[call] # "invalid" /\ ~AnswersRefused(how, error, es)
        /\ \E before \in {<<>>, <<Started>>} :
             es = before \o <<ResultEvent(error), FinishedEvent(error)>>
    BY <1>3 DEF AnswersStarted, AnswersRefused
  <2> QED BY <1>1, <2>1, TaleOfStarted
<1>4. CASE AnswersRefused(how, error, es)
  <2>1. /\ reply[call] # "invalid"
        /\ es = <<ResolvedAs(approval[call], FALSE)>>
                  \o <<ResultEvent(error), FinishedEvent(error)>>
    BY <1>4 DEF AnswersRefused
  <2> QED BY <1>1, <1>4, <2>1, TaleOfRefused
<1> QED BY <1>2, <1>3, <1>4

-----------------------------------------------------------------------------
(* What the steps make of log and session.                                 *)

\* The invariant's two tales, before and after a step, are tales of a log.
Answered == 1..(call - 1)
AnsweredValid == {c \in 1..(call - 1) : reply[c] # "invalid"}

\* Before a step.
LEMMA TellsHere ==
  /\ Tells("result", 1..(call - 1))
       <=> TellsIn(log, answers, "result", Answered)
  /\ Tells("finished", {c \in 1..(call - 1) : reply[c] # "invalid"})
       <=> TellsIn(log, answers, "finished", AnsweredValid)
<1>1. \A kind, calls : Tells(kind, calls)
                         <=> TellsIn(log, answers, kind, calls)
  BY Zenon DEF Tells, TellsIn
<1> QED BY Zenon, <1>1 DEF Answered, AnsweredValid

\* The same after a step.
LEMMA TellsThere ==
  /\ Tells("result", 1..(call - 1))'
       <=> TellsIn(log', answers', "result", Answered')
  /\ Tells("finished", {c \in 1..(call - 1) : reply[c] # "invalid"})'
       <=> TellsIn(log', answers', "finished", AnsweredValid')
<1>1. Tells("result", 1..(call - 1))'
       <=> TellsIn(log', answers', "result", Answered')
  BY Zenon DEF Tells, TellsIn, Answered
<1>2. Tells("finished", {c \in 1..(call - 1) : reply[c] # "invalid"})'
       <=> TellsIn(log', answers', "finished", AnsweredValid')
  BY Zenon DEF Tells, TellsIn, AnsweredValid
<1> QED BY <1>1, <1>2

\* Answering a call that the session has not answered, with its tale.
LEMMA AnswerTold ==
  ASSUME IInv, EventsInv, at \notin Ended, call \in Calls, call <= Last,
         NEW error \in BOOLEAN, NEW es, Tale(es, error),
         log' = log \o es, reply' = reply, call' = call + 1,
         answers' = Append(answers, [call |-> call, error |-> error]),
         IF reply[call] = "invalid" THEN Silent(es, "finished")
         ELSE TellsOnce(es, "finished", call, error)
  PROVE  /\ Len(answers') = call' - 1
         /\ \A i \in 1..Len(answers') : answers'[i].call = i
         /\ Tells("result", 1..(call - 1))'
         /\ Tells("finished", {c \in 1..(call - 1) : reply[c] # "invalid"})'
<1> DEFINE x == [call |-> call, error |-> error]
           n == call - 1
           all == 1..n
           valid == {c \in 1..n : reply[c] # "invalid"}
<1>1. /\ answers \in Seq(AnswerType) /\ x \in AnswerType
      /\ log \in Seq(EventType) /\ es \in Seq(EventType)
      /\ n \in Nat /\ call = n + 1 /\ call \in Nat
  BY DEF IInv, Typed, AnswerType, Tale
<1>2. x.call = call /\ x.error = error
  OBVIOUS
<1>3. Len(answers) = n /\ \A i \in 1..n : answers[i].call = i
  BY DEF EventsInv
<1>4. answers' = Append(answers, x)
  OBVIOUS
<1> HIDE DEF x, n
<1>5. /\ Len(answers') = n + 1
      /\ \A i \in 1..n : answers'[i] = answers[i]
      /\ answers'[call] = x
  BY <1>1, <1>3, <1>4, AppendProperties
<1>6. \A i \in 1..Len(answers') : answers'[i].call = i
  BY <1>1, <1>2, <1>3, <1>5
<1>7. /\ Answered' = all \cup {call}
      /\ AnsweredValid' =
           IF reply[call] = "invalid" THEN valid ELSE valid \cup {call}
  <2>1. 1..(call' - 1) = all \cup {call}
    BY <1>1
  <2>2. \A c \in all \cup {call} : reply'[c] = reply[c]
    OBVIOUS
  <2> QED BY <2>1, <2>2 DEF Answered, AnsweredValid
<1>8. /\ TellsIn(log, answers, "result", all)
      /\ TellsIn(log, answers, "finished", valid)
  BY TellsHere DEF EventsInv, Answered, AnsweredValid, n
<1>9. /\ \A d \in all : d < call /\ answers'[d] = answers[d]
      /\ \A d \in valid : d < call /\ answers'[d] = answers[d]
      /\ answers'[call].error = error
  BY <1>1, <1>2, <1>5
<1>10. TellsOnce(es, "result", call, answers'[call].error)
  BY <1>9 DEF Tale
<1> HIDE DEF all, valid
<1>o. log' = log \o es
  OBVIOUS
<1>11. TellsIn(log', answers', "result", all \cup {call})
  BY ONLY <1>o, <1>1, <1>8, <1>9, <1>10, OnceTells
<1>12. TellsIn(log', answers', "finished",
               IF reply[call] = "invalid" THEN valid ELSE valid \cup {call})
  <2>1. CASE reply[call] = "invalid"
    <3>1. Silent(es, "finished")
      BY <2>1
    <3>2. TellsIn(log', answers', "finished", valid)
      <4>1. \A d \in valid : answers'[d] = answers[d]
        BY <1>9
      <4>2. log' = log \o es
        OBVIOUS
      <4> QED BY ONLY <1>1, <1>8, <3>1, <4>1, <4>2, SilentTells
    <3> QED BY <2>1, <3>2
  <2>2. CASE reply[call] # "invalid"
    <3>1. TellsOnce(es, "finished", call, answers'[call].error)
      BY <1>9, <2>2
    <3>2. TellsIn(log', answers', "finished", valid \cup {call})
      BY ONLY <1>o, <1>1, <1>8, <1>9, <3>1, OnceTells
    <3> QED BY <2>2, <3>2
  <2> QED BY <2>1, <2>2
<1>13. Tells("result", 1..(call - 1))'
  BY <1>7, <1>11, TellsThere
<1>14. Tells("finished", {c \in 1..(call - 1) : reply[c] # "invalid"})'
  BY <1>7, <1>12, TellsThere
<1> QED BY <1>1, <1>5, <1>6, <1>13, <1>14

\* Sending something else, or nothing.
LEMMA ElseTold ==
  ASSUME IInv, EventsInv, UNCHANGED <<reply, call, answers>>,
         NEW es \in Seq(EventType), log' = log \o es,
         Silent(es, "result"), Silent(es, "finished")
  PROVE  /\ Len(answers') = call' - 1
         /\ \A i \in 1..Len(answers') : answers'[i].call = i
         /\ Tells("result", 1..(call - 1))'
         /\ Tells("finished", {c \in 1..(call - 1) : reply[c] # "invalid"})'
<1>1. log \in Seq(EventType) /\ es \in Seq(EventType) /\ log' = log \o es
  BY DEF IInv, Typed
<1>2. /\ TellsIn(log, answers, "result", Answered)
      /\ TellsIn(log, answers, "finished", AnsweredValid)
  BY TellsHere DEF EventsInv
<1>3. Answered' = Answered /\ AnsweredValid' = AnsweredValid
  BY DEF Answered, AnsweredValid
<1>4. TellsIn(log', answers', "result", Answered)
  BY <1>1, <1>2, SilentTells
<1>5. TellsIn(log', answers', "finished", AnsweredValid)
  BY <1>1, <1>2, SilentTells
<1>6. /\ Tells("result", 1..(call - 1))'
      /\ Tells("finished", {c \in 1..(call - 1) : reply[c] # "invalid"})'
  BY <1>3, <1>4, <1>5, TellsThere
<1> QED BY <1>6 DEF EventsInv

-----------------------------------------------------------------------------
(* Every step keeps the invariant.                                         *)

\* The loop's other steps stay in the call, or enter or leave the phase.
LEMMA LoopKeeps ==
  ASSUME IInv, LoopStep
  PROVE  IInv'
<1> USE DEF Ended
<1>1. CASE Complete
  <2>1. call = Last + 1
    BY <1>1 DEF Complete, IInv, Typed
  <2> QED BY <1>1, <2>1 DEF Complete, IInv, Typed, Placed, FatesFollowLoop,
          RequestsDiffer, Places, InCall, Last, resultVars, outside
<1>2. ASSUME NEW how, NEW error, NEW es,
             \/ AnswersInvalid(how, error, es)
             \/ AnswersStarted(how, error, es)
             \/ AnswersRefused(how, error, es)
      PROVE  IInv'
  <2>1. Answers(how, error, es) /\ es \in Seq(EventType)
    BY <1>2, AnswersSendEvents DEF Tale
  <2> QED BY <2>1, AnswerKeeps
<1>3. CASE AnswerInvalid
  BY <1>2, <1>3, InvalidAnswers
<1>4. CASE AnswerUnknown \/ HookRefuses \/ AfterHookFails \/ FinishCall
  BY <1>2, <1>4, StartedAnswers
<1>5. CASE StartCall
  <2>1. log' \in Seq(EventType)
    <3>1. Started \in EventType
      <4>1. call \in Nat
        BY DEF IInv, Typed
      <4> QED BY <4>1, SentAlone
    <3> QED BY <1>5, <3>1, OneMore DEF StartCall, IInv, Typed
  <2> QED BY <1>5, <2>1 DEF StartCall, IInv, Typed, Placed, FatesFollowLoop,
          RequestsDiffer, Places, InCall, Last, resultVars, outside
<1>6. CASE HookAllows
  BY <1>6 DEF HookAllows, IInv, Typed, Placed, FatesFollowLoop,
     RequestsDiffer, Places, InCall, Last, resultVars, outside
<1>7. CASE BeginWork
  BY <1>7 DEF BeginWork, IInv, Typed, Placed, FatesFollowLoop,
     RequestsDiffer, Places, InCall, Last, resultVars, outside
<1>8. CASE RequestApproval
  <2>1. /\ call \in Calls /\ nextApproval \in Nat \ {0}
        /\ approval \in [Calls -> Nat] /\ at = "before"
        /\ approval' = [approval EXCEPT ![call] = nextApproval]
        /\ nextApproval' = nextApproval + 1
    BY <1>8 DEF RequestApproval, TakeId, IInv, Typed, Placed
  <2>2. log' \in Seq(EventType)
    <3>1. Requested(nextApproval) \in EventType
      <4>1. call \in Nat /\ nextApproval \in Nat
        BY <2>1
      <4> QED BY <4>1, SentAlone
    <3> QED BY <1>8, <3>1, OneMore DEF RequestApproval, IInv, Typed
  <2>o. /\ at' = "approval" /\ UNCHANGED <<reply, call, hook, resultVars,
                                 answers, outside, fate, granted>>
    BY <1>8 DEF RequestApproval
  <2>3. Typed'
    <3>1. approval' \in [Calls -> Nat] /\ nextApproval' \in Nat \ {0}
      BY <2>1
    <3> QED BY <2>o, <2>1, <2>2, <3>1 DEF IInv, Typed, Places, InCall, Last,
            resultVars, outside
  <2>5. Placed' /\ FatesFollowLoop'
    BY <2>o, <2>1 DEF IInv, Typed, Placed, FatesFollowLoop, InCall, Last
  <2>4. RequestsDiffer'
    BY <1>8, <2>1 DEF RequestApproval, IInv, RequestsDiffer
  <2> QED BY <2>3, <2>4, <2>5 DEF IInv
<1>9. CASE TakeDecision
  <2>1. control' \in Seq(DecisionType)
    BY <1>9, DecisionTaken
  <2>2. CASE Ignores
    BY <2>1, <2>2 DEF Ignores, IInv, Typed, Placed, FatesFollowLoop,
       RequestsDiffer, Places, InCall, Last, resultVars
  <2>3. CASE Grants
    <3>1. log' \in Seq(EventType)
      <4>1. call \in Nat /\ approval[call] \in Nat
        BY <2>3 DEF Grants, IInv, Typed, Placed
      <4>2. ResolvedAs(approval[call], TRUE) \in EventType
        BY <4>1, SentAlone
      <4> QED BY <2>3, <4>2, OneMore DEF Grants, IInv, Typed
    <3> QED BY <2>1, <2>3, <3>1 DEF Grants, IInv, Typed, Placed,
            FatesFollowLoop, RequestsDiffer, Places, InCall, Last, resultVars
  <2> QED BY <1>2, <1>9, <2>2, <2>3, DecisionTaken
<1>10. CASE CancelApproval
  <2>1. call \in Calls
    BY <1>10 DEF CancelApproval, IInv, Typed, Placed
  <2> QED BY <1>10, <2>1 DEF CancelApproval, IInv, Typed, Placed,
          FatesFollowLoop, RequestsDiffer, Places, InCall, Last, resultVars,
          outside
<1>11. CASE ToolReturns
  BY <1>11 DEF ToolReturns, IInv, Typed, Placed, FatesFollowLoop,
     RequestsDiffer, Places, InCall, Last, outside
<1>12. CASE AfterHook
  BY <1>12 DEF AfterHook, IInv, Typed, Placed, FatesFollowLoop,
     RequestsDiffer, Places, InCall, Last, outside
<1> QED BY <1>1, <1>3, <1>4, <1>5, <1>6, <1>7, <1>8, <1>9, <1>10, <1>11,
        <1>12 DEF LoopStep, ApprovalStep

\* The user and the runtime touch the channel and the token only.
Inside == <<reply, loopVars, approval, nextApproval, resultVars, answers, log,
            fate, granted>>

\* They leave what the invariant is about alone.
LEMMA RuntimeSteps ==
  ASSUME IInv, Decide \/ Cancel \/ DropTurn \/ UNCHANGED vars
  PROVE  UNCHANGED Inside /\ control' \in Seq(DecisionType)
<1>1. control \in Seq(DecisionType)
  BY DEF IInv, Typed
<1>2. CASE Decide
  <2>1. PICK id \in Shown, approve \in BOOLEAN :
          control' = Append(control, [id |-> id, approve |-> approve])
    BY <1>2 DEF Decide
  <2>2. id \in Nat
    BY <2>1 DEF Shown, IInv, Typed
  <2>3. [id |-> id, approve |-> approve] \in DecisionType
    BY <2>2 DEF DecisionType
  <2>4. control' \in Seq(DecisionType)
    BY <1>1, <2>1, <2>3, AppendProperties
  <2> QED BY <1>2, <2>4 DEF Decide, Inside
<1>3. CASE Cancel \/ DropTurn \/ UNCHANGED vars
  BY <1>1, <1>3 DEF Cancel, DropTurn, vars, outside, Inside
<1> QED BY <1>2, <1>3

\* The loop, the calls' fates and the requests stay in step.
LEMMA StepKeeps == IInv /\ [Next]_vars => IInv'
<1> SUFFICES ASSUME IInv, [Next]_vars PROVE IInv'
  OBVIOUS
<1>1. CASE LoopStep
  BY <1>1, LoopKeeps
<1>2. CASE Decide \/ Cancel \/ DropTurn \/ UNCHANGED vars
  <2>1. UNCHANGED Inside /\ control' \in Seq(DecisionType)
    BY <1>2, RuntimeSteps
  <2> QED BY <2>1 DEF Inside, loopVars, resultVars, IInv, Typed, Placed,
          FatesFollowLoop, RequestsDiffer, Last
<1> QED BY <1>1, <1>2 DEF Next

-----------------------------------------------------------------------------
(* And every step tells what it does.                                      *)

\* The ids the consumer has seen, after a step that sent these events.
LEMMA IdsTold ==
  ASSUME IInv, EventsInv, NEW es \in Seq(EventType), log' = log \o es
  PROVE  /\ IdsOf("requested")' = Shows \cup IdsIn(es, "requested")
         /\ IdsOf("resolved")' = (Shows \ Open) \cup IdsIn(es, "resolved")
         /\ \A kind : Silent(es, kind) => IdsIn(es, kind) = {}
<1>1. log \in Seq(EventType)
  BY DEF IInv, Typed
<1>2. /\ IdsIn(log, "requested") = Shows
      /\ IdsIn(log, "resolved") = Shows \ Open
  BY DEF EventsInv, IdsOf, IdsIn
<1>3. ASSUME NEW kind
      PROVE  IdsIn(log', kind) = IdsIn(log, kind) \cup IdsIn(es, kind)
  <2>1. \A x : x \in IdsIn(log', kind)
                <=> x \in IdsIn(log, kind) \/ x \in IdsIn(es, kind)
    BY <1>1, MoreIds
  <2> QED BY <2>1
<1>4. /\ IdsOf("requested")' = IdsIn(log', "requested")
      /\ IdsOf("resolved")' = IdsIn(log', "resolved")
  BY DEF IdsOf, IdsIn
<1>5. ASSUME NEW kind, Silent(es, kind)
      PROVE  IdsIn(es, kind) = {}
  <2>1. DOMAIN es = 1..Len(es)
    BY LenProperties
  <2> QED BY <1>5, <2>1 DEF Silent, IdsIn
<1> QED BY <1>2, <1>3, <1>4, <1>5

\* An open request is one that was shown.
LEMMA OpenShown ==
  ASSUME IInv
  PROVE  /\ Open \subseteq Shows
         /\ at \in {"approval", "cancelled"} =>
              /\ call \in Calls /\ Open = {approval[call]}
              /\ approval[call] # 0
         /\ at \notin {"approval", "cancelled"} => Open = {}
BY DEF IInv, Typed, Placed, RequestsDiffer, Open, Shows

\* The step answers a call.
LEMMA AnswerEvents ==
  ASSUME IInv, EventsInv, NEW how, NEW error, NEW es,
         \/ AnswersInvalid(how, error, es) \/ AnswersStarted(how, error, es)
         \/ AnswersRefused(how, error, es)
  PROVE  EventsInv'
<1>1. /\ Answers(how, error, es) /\ Tale(es, error)
      /\ IF reply[call] = "invalid" THEN Silent(es, "finished")
         ELSE TellsOnce(es, "finished", call, error)
      /\ IF AnswersRefused(how, error, es)
         THEN IdsIn(es, "resolved") = {approval[call]}
         ELSE Silent(es, "resolved")
  BY AnswersSendEvents
<1>2. /\ at \notin Ended /\ call \in Calls /\ call <= Last
      /\ error \in BOOLEAN /\ log' = log \o es /\ es \in Seq(EventType)
      /\ reply' = reply /\ call' = call + 1 /\ at' = "next"
      /\ approval' = approval /\ Silent(es, "requested")
      /\ answers' = Append(answers, [call |-> call, error |-> error])
  BY <1>1 DEF Answers, AnswerWith, Tale
<1>3. /\ Len(answers') = call' - 1
      /\ \A i \in 1..Len(answers') : answers'[i].call = i
      /\ Tells("result", 1..(call - 1))'
      /\ Tells("finished", {c \in 1..(call - 1) : reply[c] # "invalid"})'
  BY <1>1, <1>2, AnswerTold
<1>4. Shows' = Shows /\ Open' = {}
  BY <1>2 DEF Shows, Open
<1>5. /\ IdsOf("requested")' = Shows \cup IdsIn(es, "requested")
      /\ IdsOf("resolved")' = (Shows \ Open) \cup IdsIn(es, "resolved")
      /\ \A kind : Silent(es, kind) => IdsIn(es, kind) = {}
  BY <1>2, IdsTold
<1>6. IdsOf("requested")' = Shows
  BY <1>2, <1>5
<1>7. IdsOf("resolved")' = Shows
  <2>1. CASE AnswersRefused(how, error, es)
    <3>1. at = "approval"
      BY <2>1 DEF AnswersRefused
    <3> QED BY <1>1, <1>5, <2>1, <3>1, OpenShown
  <2>2. CASE ~AnswersRefused(how, error, es)
    <3>1. at \notin {"approval", "cancelled"}
      BY <1>2, <2>2 DEF AnswersInvalid, AnswersStarted, Ended
    <3> QED BY <1>1, <1>5, <2>2, <3>1, OpenShown
  <2> QED BY <2>1, <2>2
<1> QED BY <1>3, <1>4, <1>6, <1>7 DEF EventsInv

\* It sends one other event, or none.
LEMMA OtherEvents ==
  ASSUME IInv, EventsInv, UNCHANGED <<reply, call, answers>>,
         NEW es \in Seq(EventType), log' = log \o es,
         Silent(es, "result"), Silent(es, "finished"),
         Shows' = Shows \cup IdsIn(es, "requested"),
         Shows' \ Open' = (Shows \ Open) \cup IdsIn(es, "resolved")
  PROVE  EventsInv'
<1>1. /\ Len(answers') = call' - 1
      /\ \A i \in 1..Len(answers') : answers'[i].call = i
      /\ Tells("result", 1..(call - 1))'
      /\ Tells("finished", {c \in 1..(call - 1) : reply[c] # "invalid"})'
  BY ElseTold
<1>2. IdsOf("requested")' = Shows' /\ IdsOf("resolved")' = Shows' \ Open'
  BY IdsTold
<1> QED BY <1>1, <1>2 DEF EventsInv

\* It sends and pushes nothing.
LEMMA QuietEvents ==
  ASSUME IInv, EventsInv, UNCHANGED <<reply, call, answers, log, approval>>,
         Open' = Open
  PROVE  EventsInv'
<1>1. Shows' = Shows
  BY DEF Shows
<1>2. /\ Tells("result", 1..(call - 1))'
      /\ Tells("finished", {c \in 1..(call - 1) : reply[c] # "invalid"})'
  BY DEF EventsInv, Tells
<1>3. IdsOf("requested")' = Shows' /\ IdsOf("resolved")' = Shows' \ Open'
  BY <1>1 DEF EventsInv, IdsOf
<1> QED BY <1>2, <1>3 DEF EventsInv

\* So the log, the session and the prompts stay in step.
LEMMA EventsStep == IInv /\ EventsInv /\ [Next]_vars => EventsInv'
<1> SUFFICES ASSUME IInv, EventsInv, [Next]_vars PROVE EventsInv'
  OBVIOUS
<1>1. CASE AnswerInvalid
  BY <1>1, InvalidAnswers, AnswerEvents
<1>2. CASE AnswerUnknown \/ HookRefuses \/ AfterHookFails \/ FinishCall
  BY <1>2, StartedAnswers, AnswerEvents
<1>3. CASE StartCall
  <2> DEFINE e == Started
  <2>1. e \in EventType /\ e.kind = "started"
    <3>1. call \in Nat /\ nextApproval \in Nat
      BY DEF IInv, Typed
    <3>2. e \in EventType
      BY <3>1, SentAlone
    <3> QED BY <3>2 DEF Started, Event
  <2>2. /\ UNCHANGED <<reply, call, answers, approval>>
        /\ log' = Append(log, e) /\ log \in Seq(EventType)
        /\ at = "next" /\ at' = "before"
    BY <1>3 DEF StartCall, resultVars, IInv, Typed
  <2> HIDE DEF e
  <2>3. log' = log \o <<e>> /\ <<e>> \in Seq(EventType)
    BY <2>1, <2>2, TaleOfOne
  <2>4. /\ Silent(<<e>>, "result") /\ Silent(<<e>>, "finished")
        /\ Silent(<<e>>, "requested") /\ Silent(<<e>>, "resolved")
    BY <2>1, TaleOfOne
  <2>5. IdsIn(<<e>>, "requested") = {} /\ IdsIn(<<e>>, "resolved") = {}
    BY <2>3, <2>4, IdsTold
  <2>6. Shows' = Shows /\ Open = {} /\ Open' = {}
    BY <2>2 DEF Shows, Open
  <2> QED BY <2>2, <2>3, <2>4, <2>5, <2>6, OtherEvents
<1>4. CASE RequestApproval
  <2> DEFINE e == Requested(nextApproval)
  <2>1. e \in EventType /\ e.kind = "requested" /\ e.id = nextApproval
    <3>1. call \in Nat /\ nextApproval \in Nat
      BY DEF IInv, Typed
    <3>2. e \in EventType
      BY <3>1, SentAlone
    <3> QED BY <3>2 DEF Requested, Event
  <2>2. /\ UNCHANGED <<reply, call, answers>>
        /\ approval' = [approval EXCEPT ![call] = nextApproval]
        /\ log' = Append(log, e) /\ log \in Seq(EventType)
        /\ at = "before" /\ at' = "approval"
        /\ call \in Calls /\ approval \in [Calls -> Nat]
        /\ nextApproval \in Nat \ {0}
    BY <1>4 DEF RequestApproval, TakeId, resultVars, IInv, Typed, Placed
  <2> HIDE DEF e
  <2>3. log' = log \o <<e>> /\ <<e>> \in Seq(EventType)
    BY <2>1, <2>2, TaleOfOne
  <2>4. /\ Silent(<<e>>, "result") /\ Silent(<<e>>, "finished")
        /\ Silent(<<e>>, "resolved")
        /\ IdsIn(<<e>>, "requested") = {nextApproval}
    BY <2>1, TaleOfOne
  <2>5. IdsIn(<<e>>, "resolved") = {}
    BY <2>3, <2>4, IdsTold
  <2>6. /\ approval[call] = 0
        /\ \A c \in Calls : approval[c] < nextApproval
    BY <2>2 DEF IInv, RequestsDiffer
  <2>7. Shows' = Shows \cup {nextApproval} /\ nextApproval \notin Shows
    <3>1. /\ approval'[call] = nextApproval
          /\ \A c \in Calls : c # call => approval'[c] = approval[c]
      BY <2>2
    <3>2. \A x : x \in Shows' <=> x \in Shows \/ x = nextApproval
      BY <2>2, <2>6, <3>1 DEF Shows
    <3>3. nextApproval \notin Shows
      BY <2>2, <2>6 DEF Shows
    <3> QED BY <3>2, <3>3
  <2>8. Open = {} /\ Open' = {nextApproval}
    BY <2>2 DEF Open
  <2>9. Shows' \ Open' = (Shows \ Open) \cup IdsIn(<<e>>, "resolved")
    BY <2>5, <2>7, <2>8
  <2> QED BY <2>2, <2>3, <2>4, <2>7, <2>9, OtherEvents
<1>5. CASE TakeDecision
  <2>1. CASE Ignores
    <3>1. Open' = Open
      BY <2>1 DEF Ignores, Open
    <3> QED BY <2>1, <3>1, QuietEvents DEF Ignores
  <2>2. CASE Grants
    <3> DEFINE e == ResolvedAs(approval[call], TRUE)
    <3>1. call \in Calls /\ call \in Nat /\ approval[call] \in Nat
      BY <2>2 DEF Grants, IInv, Typed, Placed
    <3>2. e \in EventType /\ e.kind = "resolved" /\ e.id = approval[call]
      <4>1. e \in EventType
        BY <3>1, SentAlone
      <4> QED BY <4>1 DEF ResolvedAs, Event
    <3>3. /\ UNCHANGED <<reply, call, answers, approval>>
          /\ log' = Append(log, e) /\ log \in Seq(EventType)
          /\ at = "approval" /\ at' = "working"
      BY <2>2 DEF Grants, IInv, Typed
    <3> HIDE DEF e
    <3>4. log' = log \o <<e>> /\ <<e>> \in Seq(EventType)
      BY <3>2, <3>3, TaleOfOne
    <3>5. /\ Silent(<<e>>, "result") /\ Silent(<<e>>, "finished")
          /\ Silent(<<e>>, "requested")
          /\ IdsIn(<<e>>, "resolved") = {approval[call]}
      <4>1. /\ \A kind : kind # e.kind => Silent(<<e>>, kind)
            /\ IdsIn(<<e>>, e.kind) = {e.id}
        BY <3>2, TaleOfOne
      <4> QED BY <3>2, <4>1
    <3>6. IdsIn(<<e>>, "requested") = {}
      BY <3>4, <3>5, IdsTold
    <3>7. Shows' = Shows /\ Open' = {}
      BY <3>3 DEF Shows, Open
    <3>8. Open = {approval[call]} /\ Open \subseteq Shows
      BY <3>3, OpenShown
    <3>9. Shows' \ Open' = (Shows \ Open) \cup IdsIn(<<e>>, "resolved")
      BY <3>5, <3>7, <3>8
    <3> QED BY <3>3, <3>4, <3>5, <3>6, <3>7, <3>9, OtherEvents
  <2> QED BY <1>5, <2>1, <2>2, DecisionTaken, AnswerEvents
<1>6. CASE Complete \/ HookAllows \/ BeginWork \/ CancelApproval
             \/ ToolReturns \/ AfterHook
  <2>1. UNCHANGED <<reply, call, answers, log, approval>> /\ Open' = Open
    BY <1>6 DEF Complete, HookAllows, BeginWork, CancelApproval, ToolReturns,
       AfterHook, Open
  <2> QED BY <2>1, QuietEvents
<1>7. CASE Decide \/ Cancel \/ DropTurn \/ UNCHANGED vars
  <2>1. UNCHANGED Inside
    BY <1>7, RuntimeSteps
  <2>2. Open' = Open
    BY <2>1 DEF Inside, loopVars, Open
  <2> QED BY <2>1, <2>2, QuietEvents DEF Inside, loopVars
<1> QED BY <1>1, <1>2, <1>3, <1>4, <1>5, <1>6, <1>7
        DEF Next, LoopStep, ApprovalStep

\* The phase begins with nothing told and nothing to tell.
LEMMA InitGood == Init => IInv /\ EventsInv
<1> SUFFICES ASSUME Init PROVE IInv /\ EventsInv
  OBVIOUS
<1>1. reply \in Seq(Kinds) /\ Last \in 0..MaxCalls
  <2>1. PICK n \in 0..MaxCalls : reply \in [1..n -> Kinds]
    BY DEF Init, Replies
  <2>2. reply \in Seq(Kinds)
    BY <2>1, SeqDef
  <2>3. Len(reply) = n
    BY <2>1, <2>2, LenProperties
  <2> QED BY <2>1, <2>2, <2>3 DEF Last
<1>2. /\ answers \in Seq(AnswerType) /\ log \in Seq(EventType)
      /\ control \in Seq(DecisionType)
  BY Nothing DEF Init
<1>3. IInv
  <2>1. /\ at = "next" /\ call = 1 /\ hook = 1 /\ isError = FALSE
        /\ override = "none" /\ granted = {}
        /\ approval = [c \in Calls |-> 0] /\ nextApproval = FirstApproval
        /\ fate = [c \in Calls |-> "none"]
    BY DEF Init
  <2>2. Typed
    <3>1. approval \in [Calls -> Nat] /\ nextApproval \in Nat \ {0}
      BY <2>1
    <3>2. fate \in [Calls -> Outcomes \cup {"none", "dropped"}]
      BY <2>1
    <3>3. at \in Places /\ call \in 1..(Last + 1) /\ hook \in Nat
      BY <1>1, <2>1 DEF Places
    <3> QED BY <1>1, <1>2, <2>1, <3>1, <3>2, <3>3 DEF Typed
  <2>3. Placed /\ FatesFollowLoop /\ RequestsDiffer
    BY <2>1 DEF Placed, FatesFollowLoop, RequestsDiffer, InCall
  <2> QED BY <2>2, <2>3 DEF IInv
<1>4. /\ Len(answers) = 0 /\ call = 1 /\ 1..(call - 1) = {}
      /\ DOMAIN log = {} /\ DOMAIN answers = {}
  BY DEF Init
<1>5. Shows = {} /\ Open = {}
  BY DEF Init, Shows, Open
<1>6. EventsInv
  BY <1>4, <1>5 DEF EventsInv, Tells, IdsOf
<1> QED BY <1>3, <1>6

\* EventsTellSession is what the invariant says of the requests still open.
LEMMA EventsGood == IInv /\ EventsInv => EventsTellSession
<1> SUFFICES ASSUME IInv, EventsInv PROVE EventsTellSession
  OBVIOUS
<1>1. /\ call \in 1..(Last + 1) /\ Last \in 0..MaxCalls
      /\ answers \in Seq(AnswerType)
      /\ DOMAIN answers = 1..(call - 1) /\ Len(answers) = call - 1
  BY LenProperties DEF IInv, Typed, EventsInv
<1>2. at = "completed" => Len(answers) = Last
  BY <1>1 DEF IInv, Placed
<1>3. Dropped = IF at = "cancelled" THEN {call} ELSE {}
  <2>1. at = "cancelled" => call \in Calls
    BY <1>1 DEF IInv, Placed
  <2>2. \A c \in Calls : fate[c] = "dropped" <=> c = call /\ at = "cancelled"
    <3> SUFFICES ASSUME NEW c \in Calls
                 PROVE  fate[c] = "dropped" <=> c = call /\ at = "cancelled"
      OBVIOUS
    <3>1. /\ c < call => fate[c] \in Outcomes
          /\ c > call => fate[c] = "none"
          /\ c = call => fate[c] = IF at = "cancelled" THEN "dropped"
                                   ELSE "none"
      BY DEF IInv, FatesFollowLoop
    <3> QED BY <1>1, <3>1 DEF Outcomes
  <2> QED BY <2>1, <2>2 DEF Dropped
<1>4. {approval[c] : c \in Dropped \cup IF at = "approval" THEN {call} ELSE {}}
        = Open
  BY <1>3 DEF Open
<1>5. IdsOf("requested") \ IdsOf("resolved") = Open
  BY OpenShown DEF EventsInv
<1>6. \A i \in DOMAIN answers : answers[i].call = i
  BY <1>1 DEF EventsInv
<1>7. /\ Tells("result", DOMAIN answers)
      /\ Tells("finished", {c \in DOMAIN answers : reply[c] # "invalid"})
  BY <1>1 DEF EventsInv
<1> QED BY <1>2, <1>4, <1>5, <1>6, <1>7 DEF EventsTellSession

\* The loop, the calls' fates and the approval ids stay in step, whatever the
\* hooks, the tools, the user and the runtime do: in particular no two
\* requests of a phase share an id (execute_tool_call, request_approval).
THEOREM PhaseIsKept == Spec => []IInv
<1>1. Init => IInv
  BY InitGood
<1> QED BY <1>1, StepKeeps, PTL DEF Spec

\* Wherever a call ends (execute_one_tool_request), the consumer is told what
\* was pushed to the session, call by call; and the prompts it has open are
\* the one the loop waits for, or the one a cancelled phase left.
THEOREM EventsAreTold == Spec => []EventsTellSession
<1>1. Init => IInv /\ EventsInv
  BY InitGood
<1>2. IInv /\ EventsInv /\ [Next]_vars => (IInv /\ EventsInv)'
  BY StepKeeps, EventsStep
<1>3. IInv /\ EventsInv => EventsTellSession
  BY EventsGood
<1> QED BY <1>1, <1>2, <1>3, PTL DEF Spec

-----------------------------------------------------------------------------
(* The refinement of ToolPromise.                                          *)

\* What has become of the call the loop is in.
AtCall(place) ==
  CASE place = "approval" -> "asked"
    [] place \in {"working", "after"} -> "working"
    [] place = "cancelled" -> "dropped"
    [] OTHER -> "waiting"

\* What has become of all of them.
WorkFollowsLoop ==
  work = [c \in Calls |-> IF c < call THEN fate[c]
                          ELSE IF c = call THEN AtCall(at) ELSE "waiting"]

\* The promise sees the fates up to the current call, and its place.
LEMMA WorkNow == IInv => WorkFollowsLoop
<1> SUFFICES ASSUME IInv, NEW c \in Calls
             PROVE  Became(c) = IF c < call THEN fate[c]
                                ELSE IF c = call THEN AtCall(at)
                                ELSE "waiting"
  BY DEF WorkFollowsLoop, work
<1>1. /\ call \in Nat
      /\ c < call => fate[c] \in Outcomes
      /\ c > call => fate[c] = "none"
      /\ c = call => fate[c] = IF at = "cancelled" THEN "dropped" ELSE "none"
  BY DEF IInv, Typed, FatesFollowLoop
<1>2. CASE c < call
  BY <1>1, <1>2 DEF Became, Outcomes
<1>3. CASE c = call
  BY <1>1, <1>3 DEF Became, AtCall
<1>4. CASE c > call
  BY <1>1, <1>4 DEF Became
<1> QED BY <1>1, <1>2, <1>3, <1>4

\* As it does after a step.
LEMMA WorkNext == IInv' => WorkFollowsLoop'
BY WorkNow, PTL

\* Only the call the loop is in changes.
LEMMA WorkMoves ==
  ASSUME IInv, IInv', call \in Calls,
         \/ call' = call /\ \A c \in Calls : c # call => fate'[c] = fate[c]
         \/ /\ call' = call + 1 /\ at' = "next"
            /\ \A c \in Calls : c # call => fate'[c] = fate[c]
  PROVE  /\ work[call] = AtCall(at)
         /\ work' = [work EXCEPT ![call] = IF call' = call THEN AtCall(at')
                                          ELSE fate'[call]]
         /\ \A c \in Calls : c < call => work[c] \in Promised!Settled
<1>1. WorkFollowsLoop /\ WorkFollowsLoop'
  BY WorkNow, WorkNext
<1>2. \A c \in Calls : c < call => fate[c] \in Promised!Settled
  BY DEF IInv, FatesFollowLoop, Outcomes, Promised!Settled
<1>3. call \in Nat
  BY DEF IInv, Typed
<1>4. work[call] = AtCall(at)
  BY <1>1, <1>3 DEF WorkFollowsLoop
<1>5. \A c \in Calls : c < call => work[c] \in Promised!Settled
  BY <1>1, <1>2 DEF WorkFollowsLoop
<1>6. work' = [work EXCEPT ![call] = IF call' = call THEN AtCall(at')
                                    ELSE fate'[call]]
  <2>1. CASE call' = call
    BY <1>1, <1>3, <2>1 DEF WorkFollowsLoop
  <2>2. CASE call' = call + 1 /\ at' = "next"
    <3>1. AtCall(at') = "waiting"
      BY <2>2 DEF AtCall
    <3>2. /\ work' = [c \in Calls |-> work'[c]]
          /\ work = [c \in Calls |-> work[c]]
      BY <1>1 DEF WorkFollowsLoop
    <3>3. ASSUME NEW c \in Calls
          PROVE  work'[c] = IF c = call THEN fate'[call] ELSE work[c]
      <4>1. /\ work'[c] = IF c < call + 1 THEN fate'[c] ELSE "waiting"
            /\ work[c] = IF c < call THEN fate[c]
                         ELSE IF c = call THEN AtCall(at) ELSE "waiting"
        BY <1>1, <2>2, <3>1 DEF WorkFollowsLoop
      <4> QED BY <1>3, <4>1
    <3>4. call' # call
      BY <1>3, <2>2
    <3> HIDE DEF work
    <3> QED BY <3>2, <3>3, <3>4
  <2> QED BY <2>1, <2>2
<1> QED BY <1>4, <1>5, <1>6

\* Becoming something else by a step of the promise.
Becomes(to) ==
  /\ call \in Calls
  /\ \A d \in Calls : d < call => work[d] \in Promised!Settled
  /\ work' = [work EXCEPT ![call] = to]
  /\ Asking' = Asking

\* A step that stays in the call.
LEMMA StaysInCall ==
  ASSUME IInv, IInv', call \in Calls, UNCHANGED <<reply, call>>,
         \A c \in Calls : c # call => fate'[c] = fate[c]
  PROVE  work[call] = AtCall(at) /\ Becomes(AtCall(at'))
BY WorkMoves DEF Becomes, Asking, Last

\* A step that changes nothing the promise is about.
LEMMA Stutters ==
  ASSUME IInv, IInv', UNCHANGED <<reply, call, fate, granted>>,
         AtCall(at') = AtCall(at)
  PROVE  UNCHANGED Promised!promiseVars
<1>1. WorkFollowsLoop /\ WorkFollowsLoop'
  BY WorkNow, WorkNext
<1>2. work' = work
  BY <1>1 DEF WorkFollowsLoop
<1>3. Asking' = Asking
  BY DEF Asking, Last
<1> QED BY <1>2, <1>3 DEF Promised!promiseVars

\* An answer ends its call for good, in one of the ways the promise allows.
LEMMA AnswerPromised ==
  ASSUME IInv, IInv', NEW how, NEW error, NEW es,
         \/ AnswersInvalid(how, error, es) \/ AnswersStarted(how, error, es)
         \/ AnswersRefused(how, error, es)
  PROVE  Promised!PromiseNext
<1>1. /\ call \in Calls /\ at \notin Ended /\ how \in Outcomes
      /\ at' = "next" /\ call' = call + 1 /\ reply' = reply
      /\ fate' = [fate EXCEPT ![call] = how] /\ granted' = granted
      /\ at = "approval" <=> how = "refused"
      /\ at \in Places
  BY DEF AnswersInvalid, AnswersStarted, AnswersRefused, Answers, AnswerWith,
     IInv, Typed
<1>2. fate'[call] = how /\ \A c \in Calls : c # call => fate'[c] = fate[c]
  BY <1>1 DEF IInv, Typed
<1>3. call' # call /\ Asking' = Asking
  BY <1>1 DEF IInv, Typed, Asking, Last
<1>4. work[call] = AtCall(at) /\ Becomes(how)
  BY <1>1, <1>2, <1>3, WorkMoves DEF Becomes
<1>5. CASE at = "approval"
  <2>1. work[call] = "asked" /\ how = "refused"
    BY <1>1, <1>4, <1>5 DEF AtCall
  <2>2. Promised!Refuse(call)
    BY <1>1, <1>4, <2>1 DEF Becomes, Promised!Refuse, Promised!Become
  <2> QED BY <1>1, <2>2 DEF Promised!PromiseNext
<1>6. CASE at \in {"working", "after"}
  <2>1. work[call] = "working" /\ how \in {"done", "failed", "dropped"}
    BY <1>1, <1>4, <1>6 DEF AtCall, Outcomes
  <2>2. Promised!Finish(call)
    BY <1>1, <1>4, <2>1 DEF Becomes, Promised!Finish, Promised!Become
  <2> QED BY <1>1, <2>2 DEF Promised!PromiseNext
<1>7. CASE at \in {"next", "before"}
  <2>1. work[call] = "waiting" /\ how \in {"done", "failed"}
    BY <1>1, <1>4, <1>7 DEF AtCall, Outcomes
  <2>2. Promised!GiveUp(call)
    BY <1>1, <1>4, <2>1 DEF Becomes, Promised!GiveUp, Promised!Turn,
       Promised!Become, Promised!Settled
  <2> QED BY <1>1, <2>2 DEF Promised!PromiseNext
<1> QED BY <1>1, <1>5, <1>6, <1>7 DEF Places, InCall, Ended

\* Every step is a step of the promise, or nothing to it.
LEMMA PromiseStep ==
  IInv /\ IInv' /\ [Next]_vars
    => [Promised!PromiseNext]_(Promised!promiseVars)
<1> SUFFICES ASSUME IInv, IInv', [Next]_vars
             PROVE  [Promised!PromiseNext]_(Promised!promiseVars)
  OBVIOUS
<1>1. CASE AnswerInvalid
  BY <1>1, InvalidAnswers, AnswerPromised
<1>2. CASE AnswerUnknown \/ HookRefuses \/ AfterHookFails \/ FinishCall
  BY <1>2, StartedAnswers, AnswerPromised
<1>3. CASE BeginWork
  <2>1. /\ call \in Calls /\ UNCHANGED <<reply, call, fate, granted>>
        /\ at = "before" /\ at' = "working" /\ call \notin Asking
    BY <1>3 DEF BeginWork, IInv, Typed, Placed, Asking
  <2>2. work[call] = "waiting" /\ Becomes("working")
    BY <2>1, StaysInCall DEF AtCall
  <2>3. Promised!WorkFreely(call)
    BY <2>1, <2>2 DEF Becomes, Promised!WorkFreely, Promised!Turn,
       Promised!Become
  <2> QED BY <2>1, <2>3 DEF Promised!PromiseNext
<1>4. CASE RequestApproval
  <2>1. /\ call \in Calls /\ UNCHANGED <<reply, call, fate, granted>>
        /\ at = "before" /\ at' = "approval" /\ call \in Asking
    BY <1>4 DEF RequestApproval, IInv, Typed, Placed, Asking
  <2>2. work[call] = "waiting" /\ Becomes("asked")
    BY <2>1, StaysInCall DEF AtCall
  <2>3. Promised!Ask(call)
    BY <2>1, <2>2 DEF Becomes, Promised!Ask, Promised!Turn, Promised!Become
  <2> QED BY <2>1, <2>3 DEF Promised!PromiseNext
<1>5. CASE TakeDecision
  <2>1. CASE Ignores
    BY <2>1, Stutters DEF Ignores
  <2>2. CASE Grants
    <3>1. /\ call \in Calls /\ UNCHANGED <<reply, call, fate>>
          /\ at = "approval" /\ at' = "working"
          /\ granted' = granted \cup
                          {c \in Calls : approval[c] = approval[call]}
      BY <2>2 DEF Grants, IInv, Typed, Placed
    <3>2. {c \in Calls : approval[c] = approval[call]} = {call}
      BY <3>1 DEF IInv, RequestsDiffer
    <3>3. work[call] = "asked" /\ Becomes("working")
      BY <3>1, StaysInCall DEF AtCall
    <3>4. Promised!Grant(call)
      BY <3>1, <3>2, <3>3 DEF Becomes, Promised!Grant, Promised!Become
    <3> QED BY <3>1, <3>4 DEF Promised!PromiseNext
  <2> QED BY <1>5, <2>1, <2>2, DecisionTaken, AnswerPromised
<1>6. CASE CancelApproval
  <2>1. /\ call \in Calls /\ UNCHANGED <<reply, call, granted>>
        /\ at = "approval" /\ at' = "cancelled"
        /\ \A c \in Calls : c # call => fate'[c] = fate[c]
    BY <1>6 DEF CancelApproval, IInv, Typed, Placed
  <2>2. work[call] = "asked" /\ Becomes("dropped")
    BY <2>1, StaysInCall DEF AtCall
  <2>3. Promised!GiveUp(call)
    BY <2>1, <2>2 DEF Becomes, Promised!GiveUp, Promised!Turn,
       Promised!Become
  <2> QED BY <2>1, <2>3 DEF Promised!PromiseNext
<1>7. CASE Complete \/ StartCall \/ HookAllows \/ ToolReturns \/ AfterHook
  <2>1. UNCHANGED <<reply, call, fate, granted>> /\ AtCall(at') = AtCall(at)
    BY <1>7 DEF Complete, StartCall, HookAllows, ToolReturns, AfterHook,
       AtCall
  <2> QED BY <2>1, Stutters
<1>8. CASE Decide \/ Cancel \/ DropTurn \/ UNCHANGED vars
  <2>1. UNCHANGED Inside
    BY <1>8, RuntimeSteps
  <2> QED BY <2>1, Stutters DEF Inside, loopVars
<1> QED BY <1>1, <1>2, <1>3, <1>4, <1>5, <1>6, <1>7, <1>8
        DEF Next, LoopStep, ApprovalStep

\* The phase begins as the promise does.
LEMMA PromiseBegins == Init => Promised!PromiseInit
<1> SUFFICES ASSUME Init PROVE Promised!PromiseInit
  OBVIOUS
<1>1. IInv
  BY InitGood
<1>2. work = [c \in Calls |-> "waiting"]
  BY <1>1, WorkNow DEF WorkFollowsLoop, Init, AtCall
<1>3. granted = {} /\ Asking \in SUBSET Calls
  BY DEF Init, Asking
<1> QED BY <1>2, <1>3 DEF Promised!PromiseInit

\* The core's loop implements the promise as well: calls are taken in order
\* and one at a time, and a tool that must ask works only after a decision on
\* its own request (execute_tool_call, request_approval), however many stale
\* decisions the channel holds.
THEOREM CoreKeepsPromise == Spec => KeepsPromise
<1>1. Init => Promised!PromiseInit
  BY PromiseBegins
<1>2. IInv /\ IInv' /\ [Next]_vars
        => [Promised!PromiseNext]_(Promised!promiseVars)
  BY PromiseStep
<1> QED BY <1>1, <1>2, PhaseIsKept, PTL
        DEF Spec, KeepsPromise, Promised!Promise

=============================================================================
