-------------------------- MODULE ShellToolProofs --------------------------
(***************************************************************************)
(* Machine-checked proofs about ShellTool, for any chunks, any number of   *)
(* them and any capacity of the core's channel: what a call keeps it keeps *)
(* in order, a call that returns has outlived its child, and what is cut   *)
(* from the output it has taken is told.                                   *)
(***************************************************************************)
EXTENDS ShellTool, SequenceTheorems, FiniteSetTheorems, WellFoundedInduction,
        TLAPS

-----------------------------------------------------------------------------
(* The inductive invariant.                                                *)

ChunkType == [is : {"chunk"}, stream : Streams, n : Nat, text : ChunkTexts]
Places == {"loop", "racing", "updating", "draining", "joining", "returned",
           "failed"}

Typed ==
  /\ host \in {"plugin", "core"} \cup Searches /\ open \subseteq Streams
  /\ pipe \in [Streams -> Seq(ChunkType)]
  /\ written \in [Streams -> Seq(ChunkType)]
  /\ pc \in Places /\ kept \in Seq(ChunkType) /\ channel \in Seq(ChunkType)
  /\ held \in [Streams -> ChunkType \cup {None}]
  /\ winner \in ChunkType \cup {None, Status} \cup {End(s) : s \in Streams}
  /\ readers \subseteq Streams
  /\ captured \in [Streams -> Seq(ChunkType)]

\* Each program keeps to its own part of the state.
Apart ==
  /\ host # "core" => held = [s \in Streams |-> None] /\ channel = <<>>
  /\ host # "plugin" => winner = None
  /\ pc = "racing" => host = "plugin"
  /\ pc = "draining" => host = "core"
  /\ pc = "joining" => host \in Searches

\* What the loop has concluded of a stream or of the child stays true.
EndsAreFinal ==
  /\ \A s \in Streams : s \notin readers \/ winner = End(s) =>
       s \notin open /\ pipe[s] = <<>>
  /\ \A s \in ended :
       host \in Searches => s \notin open /\ pipe[s] = <<>>
  /\ exitSeen \/ winner = Status \/ pc \in {"draining", "joining"} =>
       child = "exited"
  /\ pc = "returned" =>
       /\ child = "exited" /\ (host = "plugin" => readers = {})
       /\ host \in Searches => ended = Streams
       /\ host = "core" => channel = <<>>

\* How many chunks of a stream have left its pipe.
Left(s) == Len(written[s]) - Len(pipe[s])

\* A pipe holds the end of what was written to it.
PipesAreTails ==
  \A s \in Streams :
    /\ Len(pipe[s]) <= Len(written[s])
    /\ \A k \in 1..Len(pipe[s]) :
         pipe[s][k] = written[s][Left(s) + k]
    /\ \A n \in 1..Len(written[s]) :
         written[s][n].stream = s /\ written[s][n].n = n

\* A chunk that left its pipe is the one written under its number.
Genuine(chunk) ==
  /\ chunk.n \in Read(chunk.stream)
  /\ chunk = written[chunk.stream][chunk.n]

\* The chunk that won the round is later than all that were taken.
WinnerIsNext ==
  winner \in ChunkType =>
    /\ Genuine(winner)
    /\ \A i \in DOMAIN Arrived :
         Arrived[i].stream = winner.stream => Arrived[i].n < winner.n

InOrder ==
  /\ \A i, j \in DOMAIN Arrived :
       i < j /\ Arrived[i].stream = Arrived[j].stream =>
         Arrived[i].n < Arrived[j].n
  /\ \A i \in DOMAIN Arrived : Genuine(Arrived[i])

\* In the core the reader holds the last chunk that left the pipe, or none,
\* and all others have been sent.
HeldIsLast(s) ==
  held[s] # None =>
    /\ Left(s) >= 1 /\ held[s] = written[s][Left(s)]
    /\ \A i \in DOMAIN Arrived :
         Arrived[i].stream = s => Arrived[i].n < Left(s)
OthersSent(s) ==
  \A n \in 1..Left(s) :
    \/ held[s] # None /\ n = Left(s)
    \/ \E i \in DOMAIN Arrived : Arrived[i] = written[s][n]
NothingSkipped ==
  host = "core" => \A s \in Streams : HeldIsLast(s) /\ OthersSent(s)

\* A search has read all of a stream but what its pipe still holds.
AllCaptured ==
  host \in Searches =>
    \A s \in Streams : captured[s] \o pipe[s] = written[s]

IInv ==
  /\ Typed /\ Apart /\ EndsAreFinal /\ AllCaptured
  /\ PipesAreTails /\ WinnerIsNext /\ InOrder /\ NothingSkipped

-----------------------------------------------------------------------------
(* Types.                                                                  *)

\* The signals differ from each other and from every chunk.
LEMMA SignalsDiffer ==
  /\ None # Status
  /\ \A s \in Streams : End(s) # None /\ End(s) # Status /\ End(s).stream = s
  /\ \A s, t \in Streams : End(s) = End(t) => s = t
  /\ \A c \in ChunkType : c # None /\ c # Status /\ c.is = "chunk"
  /\ \A c \in ChunkType : \A s \in Streams : c # End(s)
  /\ None.is = "none" /\ Status.is = "status"
  /\ \A s \in Streams : End(s).is = "end"
BY DEF None, Status, End, ChunkType

\* What won the round is what its kind says.
LEMMA WinnerKinds ==
  ASSUME Typed
  PROVE  /\ winner.is = "chunk" => winner \in ChunkType
         /\ winner.is = "end" => \E s \in Streams : winner = End(s)
BY SignalsDiffer DEF Typed

\* The first chunk of a pipe is a chunk, and what remains is a pipe.
LEMMA Heads ==
  ASSUME NEW c \in Seq(ChunkType), c # <<>>
  PROVE  /\ Head(c) \in ChunkType /\ Tail(c) \in Seq(ChunkType)
         /\ Head(c) = c[1] /\ Len(Tail(c)) = Len(c) - 1 /\ Len(c) >= 1
         /\ \A k \in 1..Len(Tail(c)) : Tail(c)[k] = c[k + 1]
BY HeadTailProperties, EmptySeq

\* The same of a sequence with one chunk more.
LEMMA OneMore ==
  ASSUME NEW c \in Seq(ChunkType), NEW x \in ChunkType
  PROVE  /\ Append(c, x) \in Seq(ChunkType)
         /\ Len(Append(c, x)) = Len(c) + 1 /\ Append(c, x) # <<>>
         /\ \A k \in 1..Len(c) : Append(c, x)[k] = c[k]
         /\ Append(c, x)[Len(c) + 1] = x
BY AppendProperties

\* The steps of the child and of the stop keep the types.
LEMMA WorldTypes == Typed /\ World => Typed'
<1> SUFFICES ASSUME Typed, World PROVE Typed'
  OBVIOUS
<1>1. ASSUME NEW s \in Streams, NEW text \in ChunkTexts, Write(s, text)
      PROVE  Typed'
  <2> DEFINE chunk == Chunk(s, Len(written[s]) + 1, text)
  <2>1. chunk \in ChunkType
    BY LenProperties DEF Typed, Chunk, ChunkType
  <2> HIDE DEF chunk
  <2>2. /\ Append(written[s], chunk) \in Seq(ChunkType)
        /\ Append(pipe[s], chunk) \in Seq(ChunkType)
    BY <2>1, OneMore DEF Typed
  <2>3. /\ written' = [written EXCEPT ![s] = Append(written[s], chunk)]
        /\ pipe' = [pipe EXCEPT ![s] = Append(pipe[s], chunk)]
    BY <1>1 DEF Write, chunk
  <2> QED BY <1>1, <2>2, <2>3 DEF Typed, Write, pluginVars, coreVars
<1>2. ASSUME NEW s \in Streams, Close(s) PROVE Typed'
  BY <1>2 DEF Typed, Close, pluginVars, coreVars
<1>3. CASE Exit
  BY <1>3 DEF Typed, Exit, pluginVars, coreVars
<1>4. CASE Stop
  BY <1>4 DEF Typed, Stop, world, pluginVars, coreVars
<1> QED BY <1>1, <1>2, <1>3, <1>4 DEF World

\* So do those of the tool's loop.
LEMMA LoopTypes == Typed /\ Loop => Typed'
<1> SUFFICES ASSUME Typed, Loop PROVE Typed'
  OBVIOUS
<1> USE DEF Typed, Places, Goto, world, pluginVars, coreVars
<1>1. CASE BeginRound
  BY <1>1 DEF BeginRound, ReadAgain
<1>2. ASSUME NEW event \in {Status} \cup {End(s) : s \in Streams},
             SettleRace(event)
      PROVE  Typed'
  BY <1>2 DEF SettleRace
<1>3. CASE TakeWinner
  <2>1. CASE TakeStatus \/ TakeEnd
    BY <1>3, <2>1 DEF TakeWinner, TakeStatus, TakeEnd
  <2>2. CASE TakeOutput
    <3>1. Append(kept, winner) \in Seq(ChunkType)
      BY <2>2, WinnerKinds, OneMore DEF TakeOutput
    <3> QED BY <1>3, <2>2, <3>1 DEF TakeWinner, TakeOutput
  <2> QED BY <1>3, <2>1, <2>2 DEF TakeWinner
<1>4. CASE EndLoop \/ UpdateThrows \/ SeeExit \/ Drained \/ LogFails
           \/ UpdateSent \/ SeeStop \/ WaitChild \/ SearchStopped
           \/ RunFind \/ RunGrep
  BY <1>4 DEF EndLoop, UpdateThrows, SeeExit, Drained, LogFails, UpdateSent,
              SeeStop, WaitChild, SearchStopped, RunFind, RunGrep,
              EndUnless, Joined, Searches
<1>5. CASE ReceiveChunk
  <2>1. Head(channel) \in ChunkType /\ Tail(channel) \in Seq(ChunkType)
    BY <1>5, Heads DEF ReceiveChunk
  <2>2. Append(kept, Head(channel)) \in Seq(ChunkType)
    BY <2>1, OneMore
  <2> QED BY <1>5, <2>1, <2>2 DEF ReceiveChunk, PushChunk
<1> QED BY <1>1, <1>2, <1>3, <1>4, <1>5 DEF Loop

\* And those of the readers.
LEMMA ReaderTypes ==
  ASSUME NEW s \in Streams, Typed, Reader(s)
  PROVE  Typed'
<1> USE DEF Typed, world, pluginVars, coreVars
<1>1. pipe[s] # <<>> => /\ Head(pipe[s]) \in ChunkType
                        /\ Tail(pipe[s]) \in Seq(ChunkType)
  BY Heads
<1>2. CASE Arrive(s)
  <2>1. pipe' = [pipe EXCEPT ![s] = Tail(pipe[s])] /\ pipe[s] # <<>>
    BY <1>2 DEF Arrive
  <2>2. winner' = winner \/ winner' = Head(pipe[s])
    BY <1>2 DEF Arrive
  <2> QED BY <1>1, <1>2, <2>1, <2>2 DEF Arrive
<1>3. CASE ReadChunk(s)
  BY <1>1, <1>3 DEF ReadChunk
<1>4. CASE SendChunk(s)
  <2>1. held[s] \in ChunkType
    BY <1>4 DEF SendChunk
  <2>2. Append(channel, held[s]) \in Seq(ChunkType)
    BY <2>1, OneMore
  <2> QED BY <1>4, <2>2 DEF SendChunk
<1>5. CASE ReaderEnds(s)
  BY <1>5 DEF ReaderEnds
<1>6. CASE CaptureChunk(s)
  <2>1. /\ captured' = [captured EXCEPT ![s]
                          = Append(captured[s], Head(pipe[s]))]
        /\ pipe' = [pipe EXCEPT ![s] = Tail(pipe[s])] /\ pipe[s] # <<>>
    BY <1>6 DEF CaptureChunk
  <2>2. Append(captured[s], Head(pipe[s])) \in Seq(ChunkType)
    BY <1>1, <2>1, OneMore
  <2> QED BY <1>1, <1>6, <2>1, <2>2 DEF CaptureChunk
<1> QED BY <1>2, <1>3, <1>4, <1>5, <1>6 DEF Reader

-----------------------------------------------------------------------------
(* What has ended stays ended.                                             *)

Ends == Typed /\ Apart /\ EndsAreFinal

\* The steps of the child: it writes only to streams that are open.
LEMMA WorldEnds == Ends /\ World => Apart' /\ EndsAreFinal'
<1> SUFFICES ASSUME Ends, World PROVE Apart' /\ EndsAreFinal'
  OBVIOUS
<1> USE DEF Ends, Typed, Apart, EndsAreFinal, pluginVars, coreVars
<1>1. ASSUME NEW s \in Streams, NEW text \in ChunkTexts, Write(s, text)
      PROVE  Apart' /\ EndsAreFinal'
  <2>1. \A t \in Streams : t # s => pipe'[t] = pipe[t]
    BY <1>1 DEF Write
  <2>2. s \in open /\ s \in readers /\ winner # End(s)
    BY <1>1 DEF Write
  <2> QED BY <1>1, <2>1, <2>2 DEF Write
<1>2. ASSUME NEW s \in Streams, Close(s) PROVE Apart' /\ EndsAreFinal'
  BY <1>2 DEF Close
<1>3. CASE Exit
  BY <1>3 DEF Exit
<1>4. CASE Stop
  BY <1>4 DEF Stop, world
<1> QED BY <1>1, <1>2, <1>3, <1>4 DEF World

\* The steps of the loop: it stops reading a stream that has ended, and
\* returns when the child has exited.
LEMMA LoopEnds == Ends /\ Loop => Apart' /\ EndsAreFinal'
<1> SUFFICES ASSUME Ends, Loop PROVE Apart' /\ EndsAreFinal'
  OBVIOUS
<1> USE DEF Ends, Apart, EndsAreFinal, Goto, world, pluginVars, coreVars
<1>1. CASE BeginRound
  BY <1>1 DEF BeginRound, ReadAgain
<1>2. ASSUME NEW event \in {Status} \cup {End(s) : s \in Streams},
             SettleRace(event)
      PROVE  Apart' /\ EndsAreFinal'
  <2>1. CASE event = Status
    <3>1. child = "exited"
      BY <1>2, <2>1 DEF SettleRace, Settled, Status, End
    <3> QED BY <1>2, <2>1, <3>1, SignalsDiffer DEF SettleRace
  <2>2. ASSUME NEW s \in Streams, event = End(s)
        PROVE  Apart' /\ EndsAreFinal'
    <3>1. s \notin open /\ pipe[s] = <<>>
      <4>1. \A t \in Streams : End(t) = End(s) => t = s
        BY SignalsDiffer
      <4>2. End(s) # Status
        BY SignalsDiffer
      <4>3. PICK t \in current :
              End(s) = End(t) /\ t \notin open /\ pipe[t] = <<>>
        BY <1>2, <2>2, <4>2 DEF SettleRace, Settled
      <4> QED BY <4>3 DEF End
    <3> QED BY <1>2, <2>2, <3>1, SignalsDiffer DEF SettleRace
  <2> QED BY <1>2, <2>1, <2>2
<1>3. CASE TakeWinner
  <2>1. /\ winner' = None /\ host = "plugin" /\ host' = host
        /\ held' = held /\ channel' = channel /\ open' = open
        /\ pipe' = pipe /\ child' = child /\ host' \notin Searches
        /\ pc' \in {"loop", "updating"}
    BY <1>3
       DEF TakeWinner, TakeStatus, TakeEnd, TakeOutput, Searches
  <2> USE DEF Typed
  <2>2. CASE TakeStatus
    BY <1>3, <2>1, <2>2, SignalsDiffer DEF TakeStatus
  <2>3. CASE TakeEnd
    <3>1. PICK s \in Streams : winner = End(s)
      BY <2>3, WinnerKinds DEF TakeEnd
    <3>2. readers' = readers \ {s}
      BY <2>3, <3>1, SignalsDiffer DEF TakeEnd
    <3> QED BY <1>3, <2>1, <2>3, <3>1, <3>2, SignalsDiffer DEF TakeEnd
  <2>4. CASE TakeOutput
    BY <1>3, <2>1, <2>4, SignalsDiffer DEF TakeOutput
  <2> QED BY <1>3, <2>2, <2>3, <2>4 DEF TakeWinner
<1>4. CASE EndLoop \/ UpdateThrows \/ SeeExit \/ Drained \/ LogFails
           \/ UpdateSent \/ SeeStop \/ WaitChild \/ SearchStopped
           \/ RunFind \/ RunGrep
  BY <1>4 DEF EndLoop, UpdateThrows, SeeExit, Drained, LogFails, UpdateSent,
              SeeStop, WaitChild, SearchStopped, RunFind, RunGrep,
              EndUnless, Joined, Searches
<1>5. CASE ReceiveChunk
  BY <1>5 DEF ReceiveChunk, PushChunk
<1> QED BY <1>1, <1>2, <1>3, <1>4, <1>5 DEF Loop

\* The steps of the readers: nothing is read from a pipe that has ended.
LEMMA ReaderEndsKept ==
  ASSUME NEW s \in Streams, Ends, Reader(s)
  PROVE  Apart' /\ EndsAreFinal'
<1> USE DEF Ends, Typed, Apart, EndsAreFinal, world, pluginVars, coreVars
<1>1. CASE Arrive(s)
  <2>1. \A t \in Streams : t # s => pipe'[t] = pipe[t]
    BY <1>1 DEF Arrive
  <2>2. s \in readers /\ winner # End(s)
    BY <1>1 DEF Arrive
  <2>3. winner' = winner \/ winner' \in ChunkType
    BY <1>1, Heads DEF Arrive
  <2>4. \A t \in Streams : winner' = End(t) => winner = End(t)
    BY <2>3, SignalsDiffer
  <2>5. winner' = Status => winner = Status
    BY <2>3, SignalsDiffer
  <2> QED BY <1>1, <2>1, <2>2, <2>4, <2>5 DEF Arrive
<1>2. CASE ReadChunk(s)
  <2>1. \A t \in Streams : t # s => pipe'[t] = pipe[t]
    BY <1>2 DEF ReadChunk
  <2>2. s \in readers /\ winner # End(s)
    BY <1>2 DEF ReadChunk
  <2> QED BY <1>2, <2>1, <2>2 DEF ReadChunk
<1>3. CASE SendChunk(s)
  BY <1>3 DEF SendChunk, Over
<1>4. CASE ReaderEnds(s)
  BY <1>4 DEF ReaderEnds, Searches
<1>5. CASE CaptureChunk(s)
  <2>1. \A t \in Streams : t # s => pipe'[t] = pipe[t]
    BY <1>5 DEF CaptureChunk
  <2>2. s \in readers /\ winner # End(s) /\ s \notin ended
    BY <1>5 DEF CaptureChunk
  <2> QED BY <1>5, <2>1, <2>2 DEF CaptureChunk
<1> QED BY <1>1, <1>2, <1>3, <1>4, <1>5 DEF Reader


-----------------------------------------------------------------------------
(* Order.                                                                  *)

Order == PipesAreTails /\ WinnerIsNext /\ InOrder /\ NothingSkipped

\* What has arrived is a sequence of chunks.
LEMMA ArrivedTypes ==
  ASSUME Typed
  PROVE  /\ Arrived \in Seq(ChunkType) /\ Len(Arrived) \in Nat
         /\ DOMAIN Arrived = 1..Len(Arrived)
         /\ \A i \in 1..Len(Arrived) : Arrived[i] \in ChunkType
<1>1. Arrived \in Seq(ChunkType)
  BY ConcatProperties DEF Typed, Arrived
<1> QED BY <1>1, LenProperties, ElementOfSeq

\* Moving the first chunk of one sequence behind another leaves their
\* concatenation as it is.
LEMMA Received ==
  ASSUME NEW a \in Seq(ChunkType), NEW b \in Seq(ChunkType), b # <<>>
  PROVE  Append(a, Head(b)) \o Tail(b) = a \o b
<1> DEFINE x == Append(a, Head(b))
<1>1. /\ Head(b) \in ChunkType /\ Tail(b) \in Seq(ChunkType)
      /\ Head(b) = b[1] /\ Len(Tail(b)) = Len(b) - 1 /\ Len(b) >= 1
      /\ \A k \in 1..Len(Tail(b)) : Tail(b)[k] = b[k + 1]
  BY Heads
<1>2. /\ x \in Seq(ChunkType) /\ Len(x) = Len(a) + 1
      /\ \A k \in 1..Len(a) : x[k] = a[k]
      /\ x[Len(a) + 1] = Head(b)
  BY <1>1, OneMore
<1> HIDE DEF x
<1>3. /\ x \o Tail(b) \in Seq(ChunkType)
      /\ Len(x \o Tail(b)) = Len(x) + Len(Tail(b))
      /\ \A i \in 1..Len(x) + Len(Tail(b)) :
           (x \o Tail(b))[i] = IF i <= Len(x) THEN x[i]
                               ELSE Tail(b)[i - Len(x)]
  BY <1>1, <1>2, ConcatProperties
<1>4. /\ a \o b \in Seq(ChunkType)
      /\ Len(a \o b) = Len(a) + Len(b)
      /\ \A i \in 1..Len(a) + Len(b) :
           (a \o b)[i] = IF i <= Len(a) THEN a[i] ELSE b[i - Len(a)]
  BY ConcatProperties
<1>5. Len(a) \in Nat /\ Len(b) \in Nat
  BY LenProperties
<1>6. \A i \in 1..Len(x \o Tail(b)) : (x \o Tail(b))[i] = (a \o b)[i]
  BY <1>4, <1>1, <1>2, <1>3, <1>5
<1>7. Len(x \o Tail(b)) = Len(a \o b)
  BY <1>4, <1>1, <1>2, <1>3, <1>5
<1>8. x \o Tail(b) = a \o b
  BY <1>4, <1>3, <1>6, <1>7, SeqEqual
<1> QED BY <1>8 DEF x

\* A chunk more behind one sequence is one more behind the two of them.
LEMMA SentBehind ==
  ASSUME NEW a \in Seq(ChunkType), NEW b \in Seq(ChunkType),
         NEW c \in ChunkType
  PROVE  a \o Append(b, c) = Append(a \o b, c)
<1>1. /\ a \o b \in Seq(ChunkType) /\ Len(a \o b) = Len(a) + Len(b)
      /\ \A i \in 1..Len(a) + Len(b) :
           (a \o b)[i] = IF i <= Len(a) THEN a[i] ELSE b[i - Len(a)]
  BY ConcatProperties
<1>2. /\ Append(b, c) \in Seq(ChunkType)
      /\ Len(Append(b, c)) = Len(b) + 1
      /\ \A k \in 1..Len(b) : Append(b, c)[k] = b[k]
      /\ Append(b, c)[Len(b) + 1] = c
  BY OneMore
<1>3. /\ Append(a \o b, c) \in Seq(ChunkType)
      /\ Len(Append(a \o b, c)) = Len(a \o b) + 1
      /\ \A k \in 1..Len(a \o b) : Append(a \o b, c)[k] = (a \o b)[k]
      /\ Append(a \o b, c)[Len(a \o b) + 1] = c
  BY <1>1, OneMore
<1>4. /\ a \o Append(b, c) \in Seq(ChunkType)
      /\ Len(a \o Append(b, c)) = Len(a) + Len(Append(b, c))
      /\ \A i \in 1..Len(a) + Len(Append(b, c)) :
           (a \o Append(b, c))[i] =
             IF i <= Len(a) THEN a[i] ELSE Append(b, c)[i - Len(a)]
  BY <1>2, ConcatProperties
<1>5. Len(a) \in Nat /\ Len(b) \in Nat
  BY LenProperties
<1>6. Len(a \o Append(b, c)) = Len(Append(a \o b, c))
  BY <1>1, <1>2, <1>3, <1>4, <1>5
<1>7. ASSUME NEW i \in 1..Len(a \o Append(b, c))
      PROVE  (a \o Append(b, c))[i] = Append(a \o b, c)[i]
  <2>1. CASE i <= Len(a)
    BY <1>1, <1>2, <1>3, <1>4, <1>5, <2>1
  <2>2. CASE i > Len(a) /\ i <= Len(a) + Len(b)
    BY <1>1, <1>2, <1>3, <1>4, <1>5, <2>2
  <2>3. CASE i = Len(a) + Len(b) + 1
    BY <1>1, <1>2, <1>3, <1>4, <1>5, <2>3
  <2> QED BY <1>1, <1>2, <1>4, <1>5, <2>1, <2>2, <2>3
<1> QED BY <1>3, <1>4, <1>6, <1>7, SeqEqual

\* What a task of a search reads goes from the pipe behind what it has.
LEMMA StepKeepsCaptured ==
  ASSUME Typed, AllCaptured, [Next]_vars
  PROVE  AllCaptured'
<1> USE DEF world, pluginVars, coreVars
<1>1. ASSUME UNCHANGED <<host, pipe, written, captured>> PROVE AllCaptured'
  BY <1>1 DEF AllCaptured
<1>2. ASSUME host' = host, host \notin Searches PROVE AllCaptured'
  BY <1>2 DEF AllCaptured
<1>3. ASSUME NEW s \in Streams, NEW text \in ChunkTexts, Write(s, text)
      PROVE  AllCaptured'
  <2> DEFINE chunk == Chunk(s, Len(written[s]) + 1, text)
  <2>1. chunk \in ChunkType
    BY LenProperties DEF Typed, Chunk, ChunkType
  <2>2. /\ written' = [written EXCEPT ![s] = Append(written[s], chunk)]
        /\ pipe' = [pipe EXCEPT ![s] = Append(pipe[s], chunk)]
        /\ UNCHANGED <<host, captured>>
    BY <1>3 DEF Write
  <2> HIDE DEF chunk
  <2>3. captured[s] \o Append(pipe[s], chunk)
          = Append(captured[s] \o pipe[s], chunk)
    BY <2>1, SentBehind DEF Typed
  <2> QED BY <2>2, <2>3 DEF AllCaptured, Typed
<1>4. ASSUME NEW s \in Streams, CaptureChunk(s) PROVE AllCaptured'
  <2>1. /\ captured' = [captured EXCEPT ![s]
                          = Append(captured[s], Head(pipe[s]))]
        /\ pipe' = [pipe EXCEPT ![s] = Tail(pipe[s])] /\ pipe[s] # <<>>
        /\ UNCHANGED <<host, written>>
    BY <1>4 DEF CaptureChunk
  <2>2. Append(captured[s], Head(pipe[s])) \o Tail(pipe[s])
          = captured[s] \o pipe[s]
    BY <2>1, Received DEF Typed
  <2> QED BY <2>1, <2>2 DEF AllCaptured, Typed
<1>5. CASE World
  BY <1>1, <1>3, <1>5 DEF World, Close, Exit, Stop
<1>6. CASE Loop
  <2>1. UNCHANGED <<host, pipe, written, captured>>
    BY <1>6 DEF Loop, BeginRound, ReadAgain, SettleRace, TakeWinner,
      TakeStatus, TakeEnd, TakeOutput, EndLoop, UpdateThrows, ReceiveChunk,
      SeeExit, Drained, LogFails, UpdateSent, WaitChild, RunFind, RunGrep,
      EndUnless, SearchStopped, SeeStop
  <2> QED BY <1>1, <2>1
<1>7. ASSUME NEW s \in Streams, Reader(s) PROVE AllCaptured'
  <2>1. CASE Arrive(s) \/ ReadChunk(s) \/ SendChunk(s)
    BY <1>2, <2>1 DEF Arrive, ReadChunk, SendChunk, Searches
  <2>2. CASE ReaderEnds(s)
    BY <1>1, <2>2 DEF ReaderEnds
  <2> QED BY <1>4, <1>7, <2>1, <2>2 DEF Reader
<1>8. CASE UNCHANGED vars
  BY <1>1, <1>8 DEF vars
<1> QED BY <1>5, <1>6, <1>7, <1>8 DEF Next

\* Steps that move no chunk.
LEMMA QuietKeepsOrder ==
  ASSUME Order, UNCHANGED <<host, pipe, written, held>>, Arrived' = Arrived,
         winner' = winner \/ winner' \notin ChunkType
  PROVE  Order'
<1> USE DEF Order
<1>1. PipesAreTails'
  BY DEF PipesAreTails, Left
<1>2. \A c : Genuine(c)' <=> Genuine(c)
  BY DEF Genuine, Read
<1>3. WinnerIsNext'
  BY <1>2 DEF WinnerIsNext
<1>4. InOrder'
  BY <1>2 DEF InOrder
<1>5. \A s \in Streams : Left(s)' = Left(s)
  BY DEF Left
<1>6. \A s \in Streams : HeldIsLast(s) => HeldIsLast(s)'
  BY <1>5 DEF HeldIsLast
<1>7. \A s \in Streams : OthersSent(s) => OthersSent(s)'
  BY <1>5 DEF OthersSent
<1>8. NothingSkipped'
  BY <1>6, <1>7 DEF NothingSkipped
<1> QED BY <1>1, <1>3, <1>4, <1>8

\* Of pipes that are tails, some chunks have left and the others wait.
LEMMA LeftTypes ==
  ASSUME Typed, PipesAreTails, NEW s \in Streams
  PROVE  /\ Left(s) \in Nat /\ Read(s) = 1..Left(s)
         /\ Len(written[s]) \in Nat /\ Len(pipe[s]) \in Nat
         /\ Left(s) = Len(written[s]) - Len(pipe[s])
<1>1. Len(written[s]) \in Nat /\ Len(pipe[s]) \in Nat
  BY LenProperties DEF Typed
<1>2. Len(pipe[s]) <= Len(written[s])
  BY DEF PipesAreTails
<1>3. Left(s) = Len(written[s]) - Len(pipe[s]) /\ Read(s) = 1..Left(s)
  BY DEF Left, Read
<1> QED BY <1>1, <1>2, <1>3

\* The places behind the first l of w when p remain; and one place more.
LEMMA PlacesBehind ==
  /\ \A l, w, p \in Nat : l = w - p => \A k \in 1..p : l + k \in 1..w
  /\ \A m \in Nat : \A k \in Int :
       1 <= k /\ k <= m + 1 => k \in 1..m \/ k = m + 1
  /\ \A l, w, p \in Nat : l = w - p => l + (p + 1) = w + 1
OBVIOUS

\* What is written goes to the end of the pipe: nothing leaves it.
LEMMA WriteKeepsPipes ==
  ASSUME Typed, PipesAreTails, NEW s \in Streams, NEW text \in ChunkTexts,
         Write(s, text)
  PROVE  /\ PipesAreTails'
         /\ \A t \in Streams :
              /\ Left(t)' = Left(t)
              /\ \A n \in 1..Left(t) : written'[t][n] = written[t][n]
<1> DEFINE chunk == Chunk(s, Len(written[s]) + 1, text)
<1>1. chunk \in ChunkType /\ chunk.stream = s /\ chunk.n = Len(written[s]) + 1
  BY LenProperties DEF Typed, Chunk, ChunkType
<1>2. /\ written' = [written EXCEPT ![s] = Append(written[s], chunk)]
      /\ pipe' = [pipe EXCEPT ![s] = Append(pipe[s], chunk)]
  BY DEF Write
<1> HIDE DEF chunk
<1>3. /\ Len(written'[s]) = Len(written[s]) + 1
      /\ Len(pipe'[s]) = Len(pipe[s]) + 1
  BY <1>1, <1>2, OneMore DEF Typed
<1>4. /\ \A n \in 1..Len(written[s]) : written'[s][n] = written[s][n]
      /\ \A n \in 1..Len(pipe[s]) : pipe'[s][n] = pipe[s][n]
      /\ written'[s][Len(written[s]) + 1] = chunk
      /\ pipe'[s][Len(pipe[s]) + 1] = chunk
  BY <1>1, <1>2, OneMore DEF Typed
<1>5. \A t \in Streams : t # s => written'[t] = written[t] /\ pipe'[t] = pipe[t]
  BY <1>2 DEF Typed
<1>6. /\ Left(s) \in Nat /\ Len(written[s]) \in Nat /\ Len(pipe[s]) \in Nat
      /\ Left(s) = Len(written[s]) - Len(pipe[s])
  BY LeftTypes
<1>7. \A k \in 1..Len(pipe'[s]) : pipe'[s][k] = written'[s][Left(s) + k]
  <2>1. ASSUME NEW k \in 1..Len(pipe[s])
        PROVE  pipe'[s][k] = written'[s][Left(s) + k]
    <3>1. pipe[s][k] = written[s][Left(s) + k]
      BY DEF PipesAreTails
    <3>2. Left(s) + k \in 1..Len(written[s])
      BY <1>6, PlacesBehind
    <3> QED BY <1>4, <3>1, <3>2
  <2>2. pipe'[s][Len(pipe[s]) + 1] = written'[s][Left(s) + (Len(pipe[s]) + 1)]
    <3>1. Left(s) + (Len(pipe[s]) + 1) = Len(written[s]) + 1
      BY <1>6, PlacesBehind
    <3> QED BY <1>4, <3>1
  <2>3. ASSUME NEW k \in 1..Len(pipe[s]) + 1
        PROVE  pipe'[s][k] = written'[s][Left(s) + k]
    <3>1. k \in Int /\ 1 <= k /\ k <= Len(pipe[s]) + 1
      BY <1>6
    <3>2. k \in 1..Len(pipe[s]) \/ k = Len(pipe[s]) + 1
      BY ONLY <1>6, <3>1, PlacesBehind
    <3> QED BY <2>1, <2>2, <3>2
  <2> QED BY <1>3, <2>3
<1>8. ASSUME NEW n \in 1..Len(written'[s])
      PROVE  written'[s][n].stream = s /\ written'[s][n].n = n
  <2>1. CASE n \in 1..Len(written[s])
    BY <1>4, <2>1 DEF PipesAreTails
  <2>2. CASE n = Len(written[s]) + 1
    BY <1>1, <1>4, <2>2
  <2> QED BY <1>3, <1>6, <2>1, <2>2
<1>9. Len(pipe'[s]) <= Len(written'[s])
  BY <1>3, LeftTypes DEF PipesAreTails
<1>10. \A t \in Streams : Left(t)' = Left(t)
  <2>1. Left(s)' = Len(written'[s]) - Len(pipe'[s])
    BY DEF Left
  <2>2. Left(s)' = Left(s)
    BY ONLY <1>3, <1>6, <2>1
  <2> QED BY <1>5, <2>2 DEF Left
<1>11. PipesAreTails'
  BY <1>5, <1>7, <1>8, <1>9, <1>10 DEF PipesAreTails
<1>12. \A n \in 1..Left(s) : written'[s][n] = written[s][n]
  <2>1. Len(pipe[s]) >= 0
    BY <1>6
  <2>2. \A n \in 1..Left(s) : n \in 1..Len(written[s])
    BY ONLY <1>6, <2>1
  <2> QED BY <1>4, <2>2
<1>13. ASSUME NEW t \in Streams, NEW n \in 1..Left(t)
       PROVE  written'[t][n] = written[t][n]
  BY <1>5, <1>12
<1> QED BY <1>10, <1>11, <1>13

\* So a write disturbs nothing that has left a pipe.
LEMMA WriteKeepsOrder ==
  ASSUME Typed, Order, NEW s \in Streams, NEW text \in ChunkTexts,
         Write(s, text)
  PROVE  Order'
<1> USE DEF Order
<1>1. /\ PipesAreTails'
      /\ \A t \in Streams :
           /\ Left(t)' = Left(t)
           /\ \A n \in 1..Left(t) : written'[t][n] = written[t][n]
  BY WriteKeepsPipes
<1>2. \A t \in Streams : Read(t)' = 1..Left(t) /\ Read(t) = 1..Left(t)
  BY <1>1 DEF Read, Left
<1>3. /\ Arrived' = Arrived /\ host' = host /\ held' = held
      /\ winner' = winner
  BY DEF Write, Arrived, pluginVars, coreVars
<1>4. \A c \in ChunkType : Genuine(c) => Genuine(c)'
  BY <1>1, <1>2 DEF Genuine, ChunkType
<1>5. WinnerIsNext'
  BY <1>3, <1>4 DEF WinnerIsNext
<1>6. InOrder'
  BY <1>3, <1>4, ArrivedTypes DEF InOrder
<1>7. ASSUME NEW t \in Streams, HeldIsLast(t) PROVE HeldIsLast(t)'
  <2>1. Left(t) \in Nat
    BY LeftTypes
  <2>2. Left(t) >= 1 => written'[t][Left(t)] = written[t][Left(t)]
    BY <1>1, <2>1
  <2> QED BY <1>1, <1>3, <1>7, <2>1, <2>2 DEF HeldIsLast
<1>8. ASSUME NEW t \in Streams, OthersSent(t) PROVE OthersSent(t)'
  BY <1>1, <1>3, <1>8 DEF OthersSent
<1> QED BY <1>1, <1>3, <1>5, <1>6, <1>7, <1>8 DEF NothingSkipped

\* The same arithmetic for the first of the places that remain.
LEMMA FirstPlace ==
  /\ \A l, k \in Nat : l + (k + 1) = (l + 1) + k
  /\ \A w, p \in Nat : w - (p - 1) = (w - p) + 1
  /\ \A l, w, p \in Nat : l = w - p /\ p >= 1 => l + 1 \in 1..w
  /\ \A p, q \in Nat : q = p - 1 => \A k \in 1..q : k \in Nat /\ k + 1 \in 1..p
  /\ \A l, n \in Nat : n \in 1..l + 1 => n \in 1..l \/ n = l + 1
  /\ \A l \in Nat : \A n \in 1..l : n \in 1..l + 1 /\ n < l + 1
OBVIOUS

\* A read takes the next chunk of its stream from the pipe.
LEMMA PipeRead ==
  ASSUME Typed, PipesAreTails, NEW s \in Streams, pipe[s] # <<>>,
         pipe' = [pipe EXCEPT ![s] = Tail(pipe[s])], written' = written
  PROVE  /\ PipesAreTails'
         /\ Left(s)' = Left(s) + 1
         /\ \A t \in Streams : t # s => Left(t)' = Left(t)
         /\ Head(pipe[s]) = written[s][Left(s) + 1]
         /\ Head(pipe[s]) \in ChunkType
         /\ Head(pipe[s]).stream = s /\ Head(pipe[s]).n = Left(s) + 1
         /\ \A c \in ChunkType : Genuine(c) => Genuine(c)'
<1>1. /\ Left(s) \in Nat /\ Len(written[s]) \in Nat /\ Len(pipe[s]) \in Nat
      /\ Left(s) = Len(written[s]) - Len(pipe[s])
  BY LeftTypes
<1>2. /\ Head(pipe[s]) \in ChunkType /\ Head(pipe[s]) = pipe[s][1]
      /\ Len(Tail(pipe[s])) = Len(pipe[s]) - 1 /\ Len(pipe[s]) >= 1
      /\ \A k \in 1..Len(Tail(pipe[s])) : Tail(pipe[s])[k] = pipe[s][k + 1]
  BY Heads DEF Typed
<1>3. pipe'[s] = Tail(pipe[s]) /\ \A t \in Streams : t # s => pipe'[t] = pipe[t]
  BY DEF Typed
<1>4. Len(Tail(pipe[s])) \in Nat
  BY ONLY <1>1, <1>2
<1>5. Left(s)' = Left(s) + 1
  <2>1. Left(s)' = Len(written[s]) - Len(Tail(pipe[s]))
    BY <1>3 DEF Left
  <2>2. Left(s)' = Len(written[s]) - (Len(pipe[s]) - 1)
    BY <1>2, <2>1
  <2>3. Len(written[s]) - (Len(pipe[s]) - 1)
          = (Len(written[s]) - Len(pipe[s])) + 1
    BY ONLY <1>1, FirstPlace
  <2> QED BY <1>1, <2>2, <2>3
<1>6. \A t \in Streams : t # s => Left(t)' = Left(t)
  BY <1>3 DEF Left
<1>7. Left(s) + 1 \in 1..Len(written[s])
  BY ONLY <1>1, <1>2, FirstPlace
<1>8. Head(pipe[s]) = written[s][Left(s) + 1]
  <2>1. 1 \in 1..Len(pipe[s])
    BY <1>1, <1>2
  <2> QED BY <1>2, <2>1 DEF PipesAreTails
<1>9. Head(pipe[s]).stream = s /\ Head(pipe[s]).n = Left(s) + 1
  BY <1>7, <1>8 DEF PipesAreTails
<1>10. PipesAreTails'
  <2>1. Len(pipe'[s]) <= Len(written[s])
    <3>1. Len(pipe[s]) <= Len(written[s])
      BY DEF PipesAreTails
    <3> QED BY <1>1, <1>2, <1>3, <1>4, <3>1
  <2>2. ASSUME NEW k \in 1..Len(pipe'[s])
        PROVE  pipe'[s][k] = written[s][(Left(s) + 1) + k]
    <3>1. k \in Nat /\ k + 1 \in 1..Len(pipe[s])
      BY <1>1, <1>2, <1>3, <1>4, FirstPlace
    <3>2. pipe'[s][k] = pipe[s][k + 1]
      BY <1>2, <1>3
    <3>3. pipe[s][k + 1] = written[s][Left(s) + (k + 1)]
      BY <3>1 DEF PipesAreTails
    <3>4. Left(s) + (k + 1) = (Left(s) + 1) + k
      BY ONLY <1>1, <3>1, FirstPlace
    <3> QED BY <3>2, <3>3, <3>4
  <2> QED BY <1>3, <1>5, <1>6, <2>1, <2>2 DEF PipesAreTails
<1>11. ASSUME NEW c \in ChunkType, Genuine(c) PROVE Genuine(c)'
  <2>1. /\ c.stream \in Streams /\ c.n \in 1..Left(c.stream)
        /\ c = written[c.stream][c.n]
    BY <1>11 DEF Genuine, Read, Left, ChunkType
  <2>2. c.n \in 1..Left(c.stream)'
    <3>1. CASE c.stream = s
      BY <1>1, <1>5, <2>1, <3>1, FirstPlace
    <3>2. CASE c.stream # s
      BY <1>6, <2>1, <3>2
    <3> QED BY <3>1, <3>2
  <2> QED BY <2>1, <2>2 DEF Genuine, Read, Left
<1> QED BY <1>2, <1>5, <1>6, <1>8, <1>9, <1>10, <1>11

\* A genuine chunk is one of those that have left its pipe.
LEMMA GenuineBounds ==
  ASSUME NEW c \in ChunkType, Genuine(c)
  PROVE  c.stream \in Streams /\ c.n \in 1..Left(c.stream)
         /\ c = written[c.stream][c.n]
BY DEF Genuine, Read, Left, ChunkType

\* In the plugin a chunk that answers a read of this round may win it.
LEMMA ArriveKeepsOrder ==
  ASSUME Typed, Apart, Order, NEW s \in Streams, Arrive(s)
  PROVE  Order'
<1> USE DEF Order
<1>1. /\ host = "plugin" /\ host' = host /\ pipe[s] # <<>>
      /\ pipe' = [pipe EXCEPT ![s] = Tail(pipe[s])] /\ written' = written
      /\ Arrived' = Arrived
      /\ winner' = winner \/ winner' = Head(pipe[s])
  BY DEF Arrive, coreVars, Arrived
<1>2. PICK c \in ChunkType : c = Head(pipe[s])
  BY <1>1, PipeRead
<1>3. /\ PipesAreTails' /\ Left(s)' = Left(s) + 1
      /\ c = written[s][Left(s) + 1]
      /\ c.stream = s /\ c.n = Left(s) + 1
      /\ \A d \in ChunkType : Genuine(d) => Genuine(d)'
  BY <1>2, <1>1, PipeRead
<1>4. Left(s) \in Nat
  BY LeftTypes
<1>5. InOrder'
  BY <1>1, <1>3, ArrivedTypes DEF InOrder
<1>6. WinnerIsNext'
  <2>1. CASE winner' = winner
    BY <1>1, <1>3, <2>1 DEF WinnerIsNext
  <2>2. CASE winner' = c
    <3>1. Genuine(c)'
      <4>1. Left(s) + 1 \in 1..Left(s)'
        BY <1>3, <1>4
      <4> QED BY <1>1, <1>3, <4>1 DEF Genuine, Read, Left
    <3>2. ASSUME NEW i \in DOMAIN Arrived, Arrived[i].stream = s
          PROVE  Arrived[i].n < Left(s) + 1
      <4>1. Arrived[i] \in ChunkType /\ Genuine(Arrived[i])
        BY ArrivedTypes DEF InOrder
      <4>2. Arrived[i].n \in 1..Left(s)
        BY <3>2, <4>1, GenuineBounds
      <4> QED BY <1>4, <4>2, FirstPlace
    <3> QED BY <1>1, <1>3, <2>2, <3>1, <3>2 DEF WinnerIsNext
  <2> QED BY <1>2, <1>1, <2>1, <2>2
<1>7. NothingSkipped'
  BY <1>1 DEF NothingSkipped
<1> QED BY <1>3, <1>5, <1>6, <1>7

\* In the core the reader holds the chunk it has read.
LEMMA ReadKeepsOrder ==
  ASSUME Typed, Apart, Order, NEW s \in Streams, ReadChunk(s)
  PROVE  Order'
<1> USE DEF Order
<1>1. /\ host = "core" /\ host' = host /\ pipe[s] # <<>> /\ held[s] = None
      /\ pipe' = [pipe EXCEPT ![s] = Tail(pipe[s])] /\ written' = written
      /\ Arrived' = Arrived /\ winner' = winner
      /\ held' = [held EXCEPT ![s] = Head(pipe[s])]
  BY DEF ReadChunk, pluginVars, Arrived
<1>2. PICK c \in ChunkType : c = Head(pipe[s])
  BY <1>1, PipeRead
<1>3. /\ PipesAreTails' /\ Left(s)' = Left(s) + 1
      /\ \A t \in Streams : t # s => Left(t)' = Left(t)
      /\ c = written[s][Left(s) + 1]
      /\ \A d \in ChunkType : Genuine(d) => Genuine(d)'
  BY <1>1, <1>2, PipeRead
<1>4. Left(s) \in Nat
  BY LeftTypes
<1>5. InOrder'
  BY <1>1, <1>3, ArrivedTypes DEF InOrder
<1>6. WinnerIsNext'
  BY <1>1, SignalsDiffer DEF WinnerIsNext, Apart
<1>7. held'[s] = c /\ \A t \in Streams : t # s => held'[t] = held[t]
  BY <1>1, <1>2 DEF Typed
<1>8. HeldIsLast(s)'
  <2>1. ASSUME NEW i \in DOMAIN Arrived, Arrived[i].stream = s
        PROVE  Arrived[i].n < Left(s) + 1
    <3>1. Arrived[i] \in ChunkType /\ Genuine(Arrived[i])
      BY ArrivedTypes DEF InOrder
    <3>2. Arrived[i].n \in 1..Left(s)
      BY <2>1, <3>1, GenuineBounds
    <3> QED BY <1>4, <3>2, FirstPlace
  <2> QED BY <1>1, <1>3, <1>4, <1>7, <2>1 DEF HeldIsLast
<1>9. OthersSent(s)'
  <2>1. ASSUME NEW n \in 1..Left(s) + 1
        PROVE  n = Left(s) + 1
               \/ \E i \in DOMAIN Arrived : Arrived[i] = written[s][n]
    <3>1. n \in Nat
      BY <1>4
    <3>2. n \in 1..Left(s) \/ n = Left(s) + 1
      BY <1>4, <3>1, FirstPlace
    <3> QED BY <1>1, <3>2 DEF NothingSkipped, OthersSent
  <2>2. held'[s] # None
    BY <1>7, SignalsDiffer
  <2> QED BY <1>1, <1>3, <2>1, <2>2 DEF OthersSent
<1>10. ASSUME NEW t \in Streams, t # s
       PROVE  HeldIsLast(t)' /\ OthersSent(t)'
  <2>1. HeldIsLast(t) /\ OthersSent(t)
    BY <1>1 DEF NothingSkipped
  <2> QED BY <1>1, <1>3, <1>7, <1>10, <2>1 DEF HeldIsLast, OthersSent
<1> QED BY <1>3, <1>5, <1>6, <1>8, <1>9, <1>10 DEF NothingSkipped

\* One chunk more has arrived, later than all others of its stream.
LEMMA OneMoreArrived ==
  ASSUME Typed, InOrder, NEW c \in ChunkType, Genuine(c),
         \A i \in DOMAIN Arrived :
           Arrived[i].stream = c.stream => Arrived[i].n < c.n,
         UNCHANGED <<pipe, written>>, Arrived' = Append(Arrived, c)
  PROVE  /\ InOrder'
         /\ \A i \in DOMAIN Arrived' :
              \/ i \in DOMAIN Arrived /\ Arrived'[i] = Arrived[i]
              \/ Arrived'[i] = c
         /\ \A i \in DOMAIN Arrived :
              i \in DOMAIN Arrived' /\ Arrived'[i] = Arrived[i]
         /\ \E i \in DOMAIN Arrived' : Arrived'[i] = c
<1>1. /\ Arrived \in Seq(ChunkType) /\ Len(Arrived) \in Nat
      /\ DOMAIN Arrived = 1..Len(Arrived)
      /\ \A i \in 1..Len(Arrived) : Arrived[i] \in ChunkType
  BY ArrivedTypes
<1>2. /\ Arrived' \in Seq(ChunkType) /\ Len(Arrived') = Len(Arrived) + 1
      /\ \A k \in 1..Len(Arrived) : Arrived'[k] = Arrived[k]
      /\ Arrived'[Len(Arrived) + 1] = c
  BY <1>1, OneMore
<1>3. DOMAIN Arrived' = 1..Len(Arrived) + 1
  BY <1>2, LenProperties
<1>4. \A i \in DOMAIN Arrived' :
        \/ i \in DOMAIN Arrived /\ Arrived'[i] = Arrived[i]
        \/ i = Len(Arrived) + 1 /\ Arrived'[i] = c
  BY <1>1, <1>2, <1>3
<1>5. \A d : Genuine(d)' <=> Genuine(d)
  BY DEF Genuine, Read
<1>6. ASSUME NEW i \in DOMAIN Arrived', NEW j \in DOMAIN Arrived', i < j,
             Arrived'[i].stream = Arrived'[j].stream
      PROVE  Arrived'[i].n < Arrived'[j].n
  <2>1. CASE j = Len(Arrived) + 1
    <3>1. i \in DOMAIN Arrived
      BY <1>1, <1>3, <1>6, <2>1
    <3> QED BY <1>1, <1>2, <1>6, <2>1, <3>1
  <2>2. CASE j \in DOMAIN Arrived
    <3>1. i \in DOMAIN Arrived
      BY <1>1, <1>3, <1>6, <2>2
    <3> QED BY <1>1, <1>2, <1>6, <2>2, <3>1 DEF InOrder
  <2> QED BY <1>4, <2>1, <2>2
<1>7. \A i \in DOMAIN Arrived' : Genuine(Arrived'[i])
  BY <1>4 DEF InOrder
<1>8. InOrder'
  BY <1>5, <1>6, <1>7 DEF InOrder
<1>9. Len(Arrived) + 1 \in DOMAIN Arrived'
  BY <1>1, <1>3
<1>10. \A i \in DOMAIN Arrived : i \in DOMAIN Arrived'
  BY <1>1, <1>3
<1> QED BY <1>1, <1>2, <1>4, <1>8, <1>9, <1>10

\* The core's reader sends the chunk it holds.
LEMMA SendKeepsOrder ==
  ASSUME Typed, Apart, Order, NEW s \in Streams, SendChunk(s)
  PROVE  Order'
<1> USE DEF Order
<1>1. /\ host = "core" /\ host' = host /\ held[s] # None
      /\ pipe' = pipe /\ written' = written /\ winner' = winner
      /\ kept' = kept /\ channel' = Append(channel, held[s])
      /\ held' = [held EXCEPT ![s] = None]
  BY DEF SendChunk, world, pluginVars
<1>2. PICK c \in ChunkType : c = held[s]
  BY <1>1 DEF Typed
<1>3. Arrived' = Append(Arrived, c)
  BY <1>1, <1>2, SentBehind DEF Arrived, Typed
<1>4. Left(s) \in Nat /\ Len(written[s]) \in Nat /\ Len(pipe[s]) \in Nat
      /\ Left(s) = Len(written[s]) - Len(pipe[s])
  BY LeftTypes
<1>5. /\ Left(s) >= 1 /\ c = written[s][Left(s)]
      /\ \A i \in DOMAIN Arrived :
           Arrived[i].stream = s => Arrived[i].n < Left(s)
  BY <1>1, <1>2 DEF NothingSkipped, HeldIsLast
<1>6. Left(s) \in 1..Len(written[s]) /\ Left(s) \in 1..Left(s)
  <2>1. Left(s) >= 1
    BY <1>5
  <2>2. Left(s) <= Len(written[s])
    <3>1. PICK w \in Nat : w = Len(written[s])
      BY <1>4
    <3>2. PICK p \in Nat : p = Len(pipe[s])
      BY <1>4
    <3>3. w - p <= w
      OBVIOUS
    <3> QED BY ONLY <3>1, <3>2, <3>3 DEF Left
  <2>3. Left(s) \in Nat /\ Len(written[s]) \in Nat
    BY <1>4
  <2> QED BY ONLY <2>1, <2>2, <2>3
<1>7. c.stream = s /\ c.n = Left(s)
  BY <1>5, <1>6 DEF PipesAreTails
<1>8. Genuine(c)
  BY <1>5, <1>6, <1>7 DEF Genuine, Read, Left
<1>9. /\ InOrder'
      /\ \A i \in DOMAIN Arrived' :
           \/ i \in DOMAIN Arrived /\ Arrived'[i] = Arrived[i]
           \/ Arrived'[i] = c
      /\ \A i \in DOMAIN Arrived :
           i \in DOMAIN Arrived' /\ Arrived'[i] = Arrived[i]
      /\ \E i \in DOMAIN Arrived' : Arrived'[i] = c
  BY <1>1, <1>3, <1>5, <1>7, <1>8, OneMoreArrived
<1>10. PipesAreTails' /\ \A t \in Streams : Left(t)' = Left(t)
  BY <1>1 DEF PipesAreTails, Left
<1>11. WinnerIsNext'
  BY <1>1, SignalsDiffer DEF WinnerIsNext, Apart
<1>12. held'[s] = None /\ \A t \in Streams : t # s => held'[t] = held[t]
  BY <1>1 DEF Typed
<1>13. ASSUME NEW t \in Streams PROVE HeldIsLast(t)'
  <2>1. CASE t = s
    BY <1>12, <2>1 DEF HeldIsLast
  <2>2. CASE t # s
    <3>1. HeldIsLast(t)
      BY <1>1 DEF NothingSkipped
    <3> QED BY <1>1, <1>7, <1>9, <1>10, <1>12, <2>2, <3>1 DEF HeldIsLast
  <2> QED BY <2>1, <2>2
<1>14. ASSUME NEW t \in Streams PROVE OthersSent(t)'
  <2>1. OthersSent(t)
    BY <1>1 DEF NothingSkipped
  <2>2. CASE t = s
    BY <1>1, <1>5, <1>9, <1>10, <2>1, <2>2 DEF OthersSent
  <2>3. CASE t # s
    BY <1>1, <1>9, <1>10, <1>12, <2>1, <2>3 DEF OthersSent
  <2> QED BY <2>2, <2>3
<1> QED BY <1>9, <1>10, <1>11, <1>13, <1>14 DEF NothingSkipped

\* The plugin's loop keeps the chunk that won the round.
LEMMA TakeKeepsOrder ==
  ASSUME Typed, Apart, Order, TakeWinner, TakeOutput
  PROVE  Order'
<1> USE DEF Order
<1>1. /\ host = "plugin" /\ host' = host /\ pipe' = pipe
      /\ written' = written /\ channel = <<>> /\ channel' = channel
      /\ kept' = Append(kept, winner) /\ winner' = None
      /\ winner \in ChunkType
  BY WinnerKinds DEF TakeWinner, TakeOutput, Apart, world, coreVars
<1>2. Arrived' = Append(Arrived, winner)
  <2>1. Append(kept, winner) \in Seq(ChunkType)
    BY <1>1, OneMore DEF Typed
  <2>2. /\ kept \o <<>> = kept
        /\ Append(kept, winner) \o <<>> = Append(kept, winner)
    BY <2>1, ConcatEmptySeq DEF Typed
  <2> QED BY <1>1, <2>2 DEF Arrived
<1>3. PICK c \in ChunkType : c = winner
  BY <1>1
<1>4. Genuine(c) /\ \A i \in DOMAIN Arrived :
                      Arrived[i].stream = c.stream => Arrived[i].n < c.n
  BY <1>1, <1>3 DEF WinnerIsNext
<1>5. InOrder'
  BY <1>1, <1>2, <1>3, <1>4, OneMoreArrived
<1>6. PipesAreTails'
  BY <1>1 DEF PipesAreTails, Left
<1>7. WinnerIsNext'
  BY <1>1, SignalsDiffer DEF WinnerIsNext
<1>8. NothingSkipped'
  BY <1>1 DEF NothingSkipped
<1> QED BY <1>5, <1>6, <1>7, <1>8

\* All other steps of the loop move no chunk, or move one from the channel to
\* what the core keeps.
LEMMA LoopKeepsOrder == Typed /\ Apart /\ Order /\ Loop => Order'
<1> SUFFICES ASSUME Typed, Apart, Order, Loop PROVE Order'
  OBVIOUS
<1> USE DEF Goto, world, pluginVars, coreVars, Arrived
<1>1. CASE BeginRound
  BY <1>1, QuietKeepsOrder DEF BeginRound, ReadAgain
<1>2. ASSUME NEW event \in {Status} \cup {End(s) : s \in Streams},
             SettleRace(event)
      PROVE  Order'
  <2>1. event \notin ChunkType
    BY SignalsDiffer
  <2> QED BY <1>2, <2>1, QuietKeepsOrder DEF SettleRace
<1>3. CASE TakeWinner
  <2>1. CASE TakeOutput
    BY <1>3, <2>1, TakeKeepsOrder
  <2>2. CASE TakeStatus \/ TakeEnd
    <3>1. None \notin ChunkType
      BY SignalsDiffer
    <3> QED BY <1>3, <2>2, <3>1, QuietKeepsOrder
            DEF TakeWinner, TakeStatus, TakeEnd
  <2> QED BY <1>3, <2>1, <2>2 DEF TakeWinner
<1>4. CASE EndLoop \/ UpdateThrows \/ SeeExit \/ Drained \/ LogFails
           \/ UpdateSent \/ SeeStop \/ WaitChild \/ SearchStopped
           \/ RunFind \/ RunGrep
  BY <1>4, QuietKeepsOrder DEF EndLoop, UpdateThrows, SeeExit, Drained,
                               LogFails, UpdateSent, SeeStop, WaitChild,
                               SearchStopped, RunFind, RunGrep, EndUnless
<1>5. CASE ReceiveChunk
  <2>1. Append(kept, Head(channel)) \o Tail(channel) = kept \o channel
    BY <1>5, Received DEF ReceiveChunk, Typed
  <2>2. kept' = Append(kept, Head(channel)) /\ channel' = Tail(channel)
    BY <1>5 DEF ReceiveChunk, PushChunk
  <2>3. Arrived' = Arrived
    BY <2>1, <2>2
  <2> QED BY <1>5, <2>3, QuietKeepsOrder DEF ReceiveChunk
<1> QED BY <1>1, <1>2, <1>3, <1>4, <1>5 DEF Loop

\* Of the steps of the child only a write adds a chunk.
LEMMA WorldKeepsOrder == Typed /\ Order /\ World => Order'
<1> SUFFICES ASSUME Typed, Order, World PROVE Order'
  OBVIOUS
<1> USE DEF world, pluginVars, coreVars, Arrived
<1>1. ASSUME NEW s \in Streams, Close(s) PROVE Order'
  BY <1>1, QuietKeepsOrder DEF Close
<1>2. CASE Exit \/ Stop
  BY <1>2, QuietKeepsOrder DEF Exit, Stop
<1> QED BY <1>1, <1>2, WriteKeepsOrder DEF World

\* What a search has read is not among what has arrived.
LEMMA CaptureKeepsOrder ==
  ASSUME Typed, Apart, Order, NEW s \in Streams, CaptureChunk(s)
  PROVE  Order'
<1> USE DEF Order
<1>1. /\ host \in Searches /\ host' = host /\ pipe[s] # <<>>
      /\ pipe' = [pipe EXCEPT ![s] = Tail(pipe[s])] /\ written' = written
      /\ Arrived' = Arrived /\ winner' = winner
  BY DEF CaptureChunk, pluginVars, Arrived
<1>2. /\ PipesAreTails'
      /\ \A d \in ChunkType : Genuine(d) => Genuine(d)'
  BY <1>1, PipeRead
<1>3. InOrder'
  BY <1>1, <1>2, ArrivedTypes DEF InOrder
<1>4. WinnerIsNext'
  BY <1>1, SignalsDiffer DEF WinnerIsNext, Apart, Searches
<1>5. NothingSkipped'
  BY <1>1 DEF NothingSkipped, Searches
<1> QED BY <1>2, <1>3, <1>4, <1>5

\* The steps of a reader.
LEMMA ReaderKeepsOrder ==
  ASSUME Typed, Apart, Order, NEW s \in Streams, Reader(s)
  PROVE  Order'
<1>1. CASE ReaderEnds(s)
  BY <1>1, QuietKeepsOrder DEF ReaderEnds, world, pluginVars, Arrived
<1> QED BY <1>1, ArriveKeepsOrder, ReadKeepsOrder, SendKeepsOrder,
           CaptureKeepsOrder
        DEF Reader

-----------------------------------------------------------------------------
(* Texts, and the two ways to cut one.                                     *)

\* A set of numbers that is not empty has a least one.
LEMMA LeastNat ==
  ASSUME NEW T, T \subseteq Nat, T # {}
  PROVE  \E x \in T : \A y \in T : x <= y
<1> DEFINE R == {ss \in Nat \X Nat : ss[1] < ss[2]}
<1>1. IsWellFoundedOn(R, Nat)
  BY NatLessThanWellFounded, Zenon DEF OpToRel
<1> HIDE DEF R
<1>2. PICK x \in T : \A y \in T : ~ (<<y, x>> \in R)
  BY <1>1, WFMin
<1>3. ASSUME NEW y \in T PROVE x <= y
  <2>1. x \in Nat /\ y \in Nat
    OBVIOUS
  <2>2. ~(y < x)
    BY <1>2, <2>1 DEF R
  <2> QED BY <2>1, <2>2
<1> QED BY <1>3

\* A set that holds 0, and with each number the next, holds them all: the
\* induction that the lemmas about texts use.
LEMMA SetInduction ==
  ASSUME NEW S, 0 \in S, \A n \in Nat : n \in S => n + 1 \in S
  PROVE  Nat \subseteq S
<1> DEFINE T == Nat \ S
<1> SUFFICES ASSUME T # {} PROVE FALSE
  OBVIOUS
<1> HIDE DEF T
<1>1. PICK x \in T : \A y \in T : x <= y
  BY LeastNat DEF T
<1>2. x \in Nat /\ x # 0 /\ x \notin S
  BY DEF T
<1>3. x - 1 \in Nat /\ ~(x <= x - 1) /\ (x - 1) + 1 = x
  BY <1>2
<1>4. x - 1 \in S
  BY <1>1, <1>3 DEF T
<1> QED BY <1>2, <1>3, <1>4

\* The text of a chunk is as long as a chunk may be, and not empty.
LEMMA ChunkTextIsSeq ==
  ASSUME NEW x \in ChunkType
  PROVE  /\ x.text \in Seq(Characters) /\ Len(x.text) \in Nat
         /\ Len(x.text) >= 1 /\ Len(x.text) <= KeepBytes
BY ChunksAreSmall DEF ChunkType

\* What Text defines exists, and is computed chunk by chunk.
LEMMA TextEquation ==
  ASSUME NEW c \in Seq(ChunkType)
  PROVE  \E f \in [0..Len(c) -> Seq(Characters)] :
           /\ f[0] = <<>>
           /\ \A i \in 1..Len(c) : f[i] = f[i - 1] \o c[i].text
           /\ Text(c) = f[Len(c)]
<1>1. Len(c) \in Nat /\ \A i \in 1..Len(c) : c[i] \in ChunkType
  BY LenProperties, ElementOfSeq
<1> DEFINE Adds(f, n) ==
             f = [i \in 0..n |-> IF i = 0 THEN <<>> ELSE f[i - 1] \o c[i].text]
           S == {n \in Nat : n <= Len(c) =>
                   \E f \in [0..n -> Seq(Characters)] : Adds(f, n)}
<1>2. 0 \in S
  <2> DEFINE f == [i \in 0..0 |-> <<>>]
  <2>1. f \in [0..0 -> Seq(Characters)]
    BY EmptySeq
  <2>2. Adds(f, 0)
    OBVIOUS
  <2> QED BY <2>1, <2>2
<1>3. ASSUME NEW n \in Nat, n \in S PROVE n + 1 \in S
  <2> HIDE DEF Adds
  <2> SUFFICES ASSUME n + 1 <= Len(c)
               PROVE  \E f \in [0..n + 1 -> Seq(Characters)] : Adds(f, n + 1)
    OBVIOUS
  <2>1. n <= Len(c) /\ n + 1 \in 1..Len(c)
    BY <1>1
  <2>2. PICK f \in [0..n -> Seq(Characters)] : Adds(f, n)
    BY <1>3, <2>1
  <2> USE DEF Adds
  <2> DEFINE g == [i \in 0..n + 1 |-> IF i <= n THEN f[i]
                                      ELSE f[n] \o c[n + 1].text]
  <2>3. f[n] \o c[n + 1].text \in Seq(Characters)
    BY <1>1, <2>1, ChunkTextIsSeq, ConcatProperties
  <2>4. \A i \in 0..n + 1 : i <= n => i \in 0..n
    OBVIOUS
  <2>5. g \in [0..n + 1 -> Seq(Characters)]
    BY <2>3, <2>4
  <2>6. ASSUME NEW i \in 0..n + 1
        PROVE  g[i] = IF i = 0 THEN <<>> ELSE g[i - 1] \o c[i].text
    <3>1. CASE i = n + 1
      BY <3>1
    <3>2. CASE i <= n
      <4>1. i \in 0..n /\ (i # 0 => i - 1 \in 0..n + 1 /\ i - 1 <= n)
        BY <3>2
      <4>2. f[i] = IF i = 0 THEN <<>> ELSE f[i - 1] \o c[i].text
        BY <2>2, <4>1
      <4> QED BY <3>2, <4>1, <4>2
    <3> QED BY <3>1, <3>2
  <2>7. Adds(g, n + 1)
    BY <2>6
  <2> HIDE DEF g, Adds
  <2> QED BY <2>5, <2>7
<1>4. Nat \subseteq S
  <2> HIDE DEF S
  <2> QED BY <1>2, <1>3, SetInduction
<1>5. PICK f \in [0..Len(c) -> Seq(Characters)] : Adds(f, Len(c))
  <2> HIDE DEF Adds
  <2> QED BY <1>1, <1>4
<1> DEFINE upTo == CHOOSE g : Adds(g, Len(c))
<1>6. Adds(upTo, Len(c))
  <2> HIDE DEF Adds
  <2> QED BY <1>5
<1>7. Text(c) = upTo[Len(c)]
  BY DEF Text
<1>8. upTo[0] = <<>> /\ \A i \in 1..Len(c) : upTo[i] = upTo[i - 1] \o c[i].text
  <2> HIDE DEF upTo
  <2>1. \A i \in 0..Len(c) :
          upTo[i] = IF i = 0 THEN <<>> ELSE upTo[i - 1] \o c[i].text
    BY <1>6
  <2>2. 0 \in 0..Len(c) /\ \A i \in 1..Len(c) : i \in 0..Len(c) /\ i # 0
    BY <1>1
  <2> QED BY ONLY <2>1, <2>2
<1>9. upTo \in [0..Len(c) -> Seq(Characters)]
  <2> HIDE DEF upTo
  <2>1. DOMAIN upTo = 0..Len(c) /\ upTo = [i \in 0..Len(c) |-> upTo[i]]
    BY <1>6
  <2> DEFINE U == {n \in Nat : n <= Len(c) => upTo[n] \in Seq(Characters)}
  <2>2. 0 \in U
    BY <1>8, EmptySeq
  <2>3. ASSUME NEW n \in Nat, n \in U PROVE n + 1 \in U
    <3> SUFFICES ASSUME n + 1 <= Len(c)
                 PROVE  upTo[n + 1] \in Seq(Characters)
      OBVIOUS
    <3>1. n + 1 \in 1..Len(c) /\ n <= Len(c) /\ (n + 1) - 1 = n
      BY <1>1
    <3>2. upTo[n] \in Seq(Characters)
      BY <2>3, <3>1
    <3>3. upTo[n + 1] = upTo[n] \o c[n + 1].text
      BY <1>8, <3>1
    <3>4. c[n + 1].text \in Seq(Characters)
      BY <1>1, <3>1, ChunkTextIsSeq
    <3> QED BY <3>2, <3>3, <3>4, ConcatProperties
  <2>4. Nat \subseteq U
    <3> HIDE DEF U
    <3> QED BY <2>2, <2>3, SetInduction
  <2> QED BY <2>1, <2>4
<1> HIDE DEF upTo
<1> QED BY <1>7, <1>8, <1>9

\* A chunk more adds its text.
LEMMA TextOfAppend ==
  ASSUME NEW c \in Seq(ChunkType), NEW x \in ChunkType
  PROVE  Text(Append(c, x)) = Text(c) \o x.text
<1> DEFINE d == Append(c, x)
<1>1. /\ d \in Seq(ChunkType) /\ Len(d) = Len(c) + 1 /\ Len(c) \in Nat
      /\ d[Len(c) + 1] = x /\ \A i \in 1..Len(c) : d[i] = c[i]
  BY AppendProperties, LenProperties
<1> HIDE DEF d
<1>2. PICK f \in [0..Len(c) -> Seq(Characters)] :
        /\ f[0] = <<>>
        /\ \A i \in 1..Len(c) : f[i] = f[i - 1] \o c[i].text
        /\ Text(c) = f[Len(c)]
  BY TextEquation
<1>3. PICK g \in [0..Len(d) -> Seq(Characters)] :
        /\ g[0] = <<>>
        /\ \A i \in 1..Len(d) : g[i] = g[i - 1] \o d[i].text
        /\ Text(d) = g[Len(d)]
  BY <1>1, TextEquation
<1> DEFINE S == {n \in Nat : n <= Len(c) => f[n] = g[n]}
<1>4. 0 \in S
  BY <1>2, <1>3
<1>5. ASSUME NEW n \in Nat, n \in S PROVE n + 1 \in S
  <2> SUFFICES ASSUME n + 1 <= Len(c) PROVE f[n + 1] = g[n + 1]
    OBVIOUS
  <2>1. /\ n + 1 \in 1..Len(c) /\ n + 1 \in 1..Len(d) /\ n <= Len(c)
        /\ (n + 1) - 1 = n
    BY <1>1
  <2>2. f[n + 1] = f[n] \o c[n + 1].text
    BY <1>2, <2>1
  <2>3. g[n + 1] = g[n] \o c[n + 1].text
    BY <1>1, <1>3, <2>1
  <2> QED BY <1>5, <2>1, <2>2, <2>3
<1>6. f[Len(c)] = g[Len(c)]
  <2>1. Nat \subseteq S
    <3> HIDE DEF S
    <3> QED BY <1>4, <1>5, SetInduction
  <2> QED BY <1>1, <2>1
<1>7. Len(d) \in 1..Len(d) /\ Len(d) - 1 = Len(c)
  BY <1>1
<1> QED BY <1>1, <1>2, <1>3, <1>6, <1>7 DEF d

\* No chunks, no text; and any text is a sequence.
LEMMA TextTypes ==
  /\ Text(<<>>) = <<>>
  /\ \A c \in Seq(ChunkType) :
       Text(c) \in Seq(Characters) /\ Bytes(c) \in Nat
<1>1. ASSUME NEW c \in Seq(ChunkType)
      PROVE  Text(c) \in Seq(Characters) /\ Bytes(c) \in Nat
  <2>1. PICK f \in [0..Len(c) -> Seq(Characters)] : Text(c) = f[Len(c)]
    BY TextEquation
  <2>2. Len(c) \in 0..Len(c)
    BY LenProperties
  <2>3. Text(c) \in Seq(Characters)
    BY <2>1, <2>2
  <2> QED BY <2>3, LenProperties DEF Bytes
<1>2. Text(<<>>) = <<>>
  <2>1. <<>> \in Seq(ChunkType) /\ Len(<<>>) = 0
    BY EmptySeq
  <2> QED BY <2>1, TextEquation
<1> QED BY <1>1, <1>2

\* Texts are joined the same way whichever two are joined first.
LEMMA TextsAssociate ==
  ASSUME NEW s \in Seq(Characters), NEW t \in Seq(Characters),
         NEW u \in Seq(Characters)
  PROVE  (s \o t) \o u = s \o (t \o u)
BY ONLY ConcatAssociative

\* The text of two lists one behind the other.
LEMMA TextOfConcat ==
  ASSUME NEW a \in Seq(ChunkType), NEW b \in Seq(ChunkType)
  PROVE  Text(a \o b) = Text(a) \o Text(b)
<1>1. Len(b) \in Nat
  BY LenProperties
<1> DEFINE S == {n \in Nat : \A d \in Seq(ChunkType) :
                   Len(d) = n => Text(a \o d) = Text(a) \o Text(d)}
<1>2. 0 \in S
  <2> SUFFICES ASSUME NEW d \in Seq(ChunkType), Len(d) = 0
               PROVE  Text(a \o d) = Text(a) \o Text(d)
    OBVIOUS
  <2>1. d = <<>>
    BY EmptySeq
  <2> QED BY <2>1, TextTypes, ConcatEmptySeq
<1>3. ASSUME NEW n \in Nat, n \in S PROVE n + 1 \in S
  <2> SUFFICES ASSUME NEW d \in Seq(ChunkType), Len(d) = n + 1
               PROVE  Text(a \o d) = Text(a) \o Text(d)
    OBVIOUS
  <2>1. PICK e \in Seq(ChunkType), x \in ChunkType : d = Append(e, x)
    <3>1. d # <<>>
      BY EmptySeq
    <3> QED BY <3>1, SequenceEmptyOrAppend
  <2>2. Len(e) = n
    <3>1. Len(d) = Len(e) + 1 /\ Len(e) \in Nat
      BY <2>1, AppendProperties, LenProperties
    <3> QED BY <3>1
  <2>3. Text(a \o e) = Text(a) \o Text(e)
    BY <1>3, <2>2
  <2>4. a \o d = Append(a \o e, x) /\ a \o e \in Seq(ChunkType)
    <3>1. a \o e \in Seq(ChunkType) /\ <<x>> \in Seq(ChunkType)
      BY ConcatProperties
    <3>2. Append(a \o e, x) = (a \o e) \o <<x>> /\ d = e \o <<x>>
      BY <2>1, <3>1, AppendIsConcat
    <3> QED BY <3>1, <3>2, ConcatAssociative
  <2>5. Text(a \o d) = Text(a \o e) \o x.text
    BY <2>4, TextOfAppend
  <2>6. Text(d) = Text(e) \o x.text
    BY <2>1, TextOfAppend
  <2>7. /\ Text(a) \in Seq(Characters) /\ Text(e) \in Seq(Characters)
        /\ x.text \in Seq(Characters)
    BY TextTypes, ChunkTextIsSeq
  <2>8. (Text(a) \o Text(e)) \o x.text = Text(a) \o (Text(e) \o x.text)
    BY <2>7, TextsAssociate
  <2> QED BY <2>3, <2>5, <2>6, <2>8
<1>4. Nat \subseteq S
  <2> HIDE DEF S
  <2> QED BY <1>2, <1>3, SetInduction
<1> QED BY <1>1, <1>4

\* What Trim keeps is an end of the list; and when it drops a chunk, it
\* keeps more bytes than are shown.
LEMMA TrimKeepsEnough ==
  ASSUME NEW c \in Seq(ChunkType), c # <<>>
  PROVE  /\ Trim(c) \in Seq(ChunkType)
         /\ \E p \in Seq(ChunkType) :
              /\ c = p \o Trim(c)
              /\ p = <<>> \/ Bytes(Trim(c)) > KeepBytes
<1> DEFINE l == Len(c)
           Back(i) == SubSeq(c, i, l)
           from == {i \in DOMAIN c : i = l \/ Bytes(Back(i)) <= 2 * KeepBytes}
           m == CHOOSE i \in from : \A j \in from : i <= j
<1>1. l \in Nat \ {0} /\ DOMAIN c = 1..l /\ \A i \in 1..l : c[i] \in ChunkType
  BY LenProperties, EmptySeq, ElementOfSeq
<1>2. Trim(c) = Back(m)
  BY DEF Trim
<1>3. m \in from /\ \A j \in from : m <= j
  <2>1. from \subseteq Nat /\ l \in from
    BY <1>1
  <2> HIDE DEF from
  <2>2. \E i \in from : \A j \in from : i <= j
    BY <2>1, LeastNat
  <2> QED BY <2>2
<1> HIDE DEF m
<1>4. m \in 1..l /\ m \in 1..l + 1 /\ m - 1 \in Nat
  BY <1>1, <1>3
<1>5. \A i \in 1..l + 1 : Back(i) \in Seq(ChunkType)
  BY <1>1, SubSeqProperties
<1>6. /\ c = SubSeq(c, 1, m - 1) \o Back(m)
      /\ SubSeq(c, 1, m - 1) \in Seq(ChunkType)
  <2>1. SubSeq(c, 1, m - 1) \in Seq(ChunkType)
    BY <1>1, <1>4, SubSeqProperties
  <2>2. SubSeq(c, 1, m - 1) \o SubSeq(c, (m - 1) + 1, l) = SubSeq(c, 1, l)
    <3>1. 1 \in 1..l + 1 /\ m - 1 \in 1 - 1..l /\ l \in m - 1..l
      BY <1>1, <1>4
    <3> QED BY <3>1, ConcatAdjacentSubSeq
  <2>3. (m - 1) + 1 = m
    BY <1>4
  <2> QED BY <2>1, <2>2, <2>3, SubSeqFull
<1>7. CASE m = 1
  <2>1. SubSeq(c, 1, m - 1) = <<>>
    <3>1. m - 1 = 0
      BY <1>7
    <3> QED BY <3>1, SubSeqEmpty
  <2> QED BY <1>2, <1>4, <1>5, <1>6, <2>1
<1>8. CASE m # 1
  <2>1. m - 1 \in 1..l /\ m - 1 # l /\ ~(m <= m - 1) /\ (m - 1) + 1 = m
    BY <1>1, <1>4, <1>8
  <2>2. ~(Bytes(Back(m - 1)) <= 2 * KeepBytes)
    BY <1>1, <1>3, <2>1
  <2>3. Back(m - 1) = <<c[m - 1]>> \o Back(m)
    <3>1. m - 1 \in 1..Len(c) /\ Len(c) \in m - 1..Len(c)
      BY <1>1, <2>1
    <3> QED BY <2>1, <3>1, SubSeqRecursiveFirst
  <2>4. PICK x \in ChunkType : x = c[m - 1]
    BY <1>1, <2>1
  <2>5. Text(<<x>>) = x.text
    <3>1. <<x>> = Append(<<>>, x) /\ <<>> \in Seq(ChunkType)
      BY EmptySeq
    <3>2. Text(<<x>>) = <<>> \o x.text
      BY <3>1, TextOfAppend, TextTypes
    <3> QED BY <3>2, ChunkTextIsSeq, ConcatEmptySeq
  <2>6. PICK e \in Seq(ChunkType) : e = Back(m)
    BY <1>4, <1>5
  <2>7. Text(Back(m - 1)) = x.text \o Text(e)
    <3>1. <<x>> \in Seq(ChunkType)
      OBVIOUS
    <3> QED BY <2>3, <2>4, <2>5, <2>6, <3>1, TextOfConcat
  <2>8. Bytes(Back(m - 1)) = Len(x.text) + Bytes(e)
    BY <2>7, ChunkTextIsSeq, TextTypes, ConcatProperties DEF Bytes
  <2>9. Len(x.text) <= KeepBytes /\ Len(x.text) \in Nat /\ Bytes(e) \in Nat
        /\ KeepBytes \in Nat
    BY ChunkTextIsSeq, TextTypes, ChunksAreSmall
  <2>10. Bytes(e) > KeepBytes
    BY <2>2, <2>8, <2>9
  <2> QED BY <1>2, <1>6, <2>6, <2>10
<1> QED BY <1>7, <1>8

\* The places where a line begins, and those of them from where on the text
\* is short enough.
LineStarts(x) == {1} \cup {i + 1 : i \in {j \in DOMAIN x : x[j] = LF}}
ShortEnough(x) ==
  {i \in LineStarts(x) :
     /\ Len(SubSeq(x, i, Len(x))) <= KeepBytes
     /\ Cardinality({j \in LineStarts(x) : i <= j}) <= KeepLines}
FirstShort(x) ==
  CHOOSE i \in ShortEnough(x) : \A j \in ShortEnough(x) : i <= j

\* What truncate_tail does, in these words.
LEMMA TailIsFromStart ==
  ASSUME NEW x
  PROVE  TruncateTail(x) =
           IF ShortEnough(x) = {} THEN SubSeq(x, Len(x) - KeepBytes + 1, Len(x))
           ELSE SubSeq(x, FirstShort(x), Len(x))
BY DEF TruncateTail, ShortEnough, LineStarts, FirstShort

\* Lines begin in the text, or behind its end.
LEMMA StartsInText ==
  ASSUME NEW x \in Seq(Characters)
  PROVE  /\ LineStarts(x) \subseteq 1..Len(x) + 1
         /\ \A i \in 1..Len(x) + 1 : Len(SubSeq(x, i, Len(x))) = Len(x) - i + 1
         /\ Len(x) \in Nat /\ DOMAIN x = 1..Len(x)
<1>1. Len(x) \in Nat /\ DOMAIN x = 1..Len(x)
  BY LenProperties
<1>2. LineStarts(x) \subseteq 1..Len(x) + 1
  BY <1>1 DEF LineStarts
<1>3. ASSUME NEW i \in 1..Len(x) + 1
      PROVE  Len(SubSeq(x, i, Len(x))) = Len(x) - i + 1
  <2>1. \A j \in i..Len(x) : x[j] \in Characters
    BY <1>1, ElementOfSeq
  <2>2. Len(SubSeq(x, i, Len(x)))
          = IF i <= Len(x) THEN Len(x) - i + 1 ELSE 0
    BY <1>1, <2>1, SubSeqProperties
  <2> QED BY <1>1, <2>2
<1> QED BY <1>1, <1>2, <1>3

\* The first place from where on a text is short enough is one of them.
LEMMA FirstShortIsLeast ==
  ASSUME NEW x \in Seq(Characters), ShortEnough(x) # {}
  PROVE  /\ FirstShort(x) \in ShortEnough(x)
         /\ \A j \in ShortEnough(x) : FirstShort(x) <= j
<1>1. ShortEnough(x) \subseteq Nat
  BY StartsInText DEF ShortEnough
<1>2. \E i \in ShortEnough(x) : \A j \in ShortEnough(x) : i <= j
  BY <1>1, LeastNat
<1> QED BY <1>2 DEF FirstShort

\* Text in front of a text moves the lines that begin in it, and adds none.
LEMMA StartsMove ==
  ASSUME NEW p \in Seq(Characters), NEW r \in Seq(Characters),
         NEW i \in Nat, i > 1
  PROVE  i \in LineStarts(r) <=> Len(p) + i \in LineStarts(p \o r)
<1> DEFINE t == p \o r
<1>1. /\ Len(p) \in Nat /\ Len(r) \in Nat /\ DOMAIN r = 1..Len(r)
      /\ DOMAIN t = 1..Len(p) + Len(r)
      /\ \A k \in 1..Len(r) : t[Len(p) + k] = r[k]
  <2>1. /\ t \in Seq(Characters) /\ Len(t) = Len(p) + Len(r)
        /\ \A k \in 1..Len(p) + Len(r) :
             t[k] = IF k <= Len(p) THEN p[k] ELSE r[k - Len(p)]
    BY ConcatProperties
  <2>2. Len(p) \in Nat /\ Len(r) \in Nat /\ DOMAIN r = 1..Len(r)
        /\ DOMAIN t = 1..Len(t)
    BY <2>1, LenProperties
  <2> HIDE DEF t
  <2>3. ASSUME NEW k \in 1..Len(r) PROVE t[Len(p) + k] = r[k]
    <3>1. /\ Len(p) + k \in 1..Len(p) + Len(r) /\ ~(Len(p) + k <= Len(p))
          /\ (Len(p) + k) - Len(p) = k
      BY <2>2
    <3> QED BY <2>1, <3>1
  <2> QED BY <2>1, <2>2, <2>3
<1> HIDE DEF t
<1>2. ASSUME i \in LineStarts(r) PROVE Len(p) + i \in LineStarts(t)
  <2>1. PICK k \in 1..Len(r) : r[k] = LF /\ i = k + 1
    BY <1>1, <1>2 DEF LineStarts
  <2>2. /\ Len(p) + k \in DOMAIN t /\ t[Len(p) + k] = LF
        /\ Len(p) + i = (Len(p) + k) + 1
    BY <1>1, <2>1
  <2> QED BY <2>2 DEF LineStarts
<1>3. ASSUME Len(p) + i \in LineStarts(t) PROVE i \in LineStarts(r)
  <2>1. PICK k \in DOMAIN t : t[k] = LF /\ Len(p) + i = k + 1
    BY <1>1, <1>3 DEF LineStarts
  <2>2. PICK l \in 1..Len(r) : k = Len(p) + l /\ i = l + 1
    <3>1. i - 1 \in 1..Len(r) /\ k = Len(p) + (i - 1) /\ i = (i - 1) + 1
      BY <1>1, <2>1
    <3> QED BY <3>1
  <2>3. r[l] = LF
    BY <1>1, <2>1, <2>2
  <2> QED BY <1>1, <2>2, <2>3 DEF LineStarts
<1> QED BY <1>2, <1>3 DEF t

\* So there are as many lines from a place in the text on.
LEMMA LinesStay ==
  ASSUME NEW p \in Seq(Characters), NEW r \in Seq(Characters),
         NEW i \in Nat, i > 1
  PROVE  Cardinality({j \in LineStarts(r) : i <= j})
           = Cardinality({j \in LineStarts(p \o r) : Len(p) + i <= j})
<1> DEFINE A == {j \in LineStarts(r) : i <= j}
           B == {j \in LineStarts(p \o r) : Len(p) + i <= j}
           f == [j \in A |-> Len(p) + j]
<1>1. /\ Len(p) \in Nat /\ LineStarts(r) \subseteq 1..Len(r) + 1
      /\ LineStarts(p \o r) \subseteq Nat /\ Len(r) \in Nat
  <2>1. p \o r \in Seq(Characters)
    BY ConcatProperties
  <2>2. /\ Len(p) \in Nat /\ LineStarts(r) \subseteq 1..Len(r) + 1
        /\ LineStarts(p \o r) \subseteq 1..Len(p \o r) + 1 /\ Len(r) \in Nat
    BY <2>1, StartsInText
  <2> QED BY <2>2
<1>2. IsFiniteSet(A)
  <2>1. A \subseteq 1..Len(r) + 1
    BY <1>1
  <2>2. IsFiniteSet(1..Len(r) + 1)
    BY <1>1, FS_Interval
  <2> QED BY <2>1, <2>2, FS_Subset
<1>3. f \in [A -> B]
  <2> SUFFICES ASSUME NEW j \in A PROVE Len(p) + j \in B
    OBVIOUS
  <2>1. j \in Nat /\ j > 1 /\ i <= j
    BY <1>1
  <2>2. Len(p) + j \in LineStarts(p \o r)
    BY <2>1, StartsMove
  <2>3. Len(p) + i <= Len(p) + j
    BY <1>1, <2>1
  <2> QED BY <2>2, <2>3
<1>4. \A j, k \in A : f[j] = f[k] => j = k
  BY <1>1
<1>5. ASSUME NEW y \in B PROVE \E j \in A : f[j] = y
  <2>1. y - Len(p) \in Nat /\ y - Len(p) > 1 /\ i <= y - Len(p)
        /\ Len(p) + (y - Len(p)) = y
    BY <1>1
  <2>2. y - Len(p) \in LineStarts(r)
    BY <2>1, StartsMove
  <2>3. y - Len(p) \in A
    BY <2>1, <2>2
  <2> QED BY <2>1, <2>3
<1>6. f \in Bijection(A, B)
  <2> HIDE DEF A, B, f
  <2>1. f \in Injection(A, B)
    BY <1>3, <1>4 DEF Injection, IsInjective
  <2>2. f \in Surjection(A, B)
    BY <1>3, <1>5 DEF Surjection
  <2> QED BY <2>1, <2>2 DEF Bijection
<1> QED
  <2> HIDE DEF A, B, f
  <2>1. ExistsBijection(A, B)
    BY <1>6 DEF ExistsBijection
  <2>2. Cardinality(A) = Cardinality(B)
    BY <1>2, <2>1, FS_Bijection
  <2> QED BY <2>2 DEF A, B

\* A text that is too long is shown as the text would be that ends with it;
\* and never whole.
LEMMA LongTailSuffices ==
  ASSUME NEW p \in Seq(Characters), NEW r \in Seq(Characters),
         Len(r) > KeepBytes
  PROVE  /\ TruncateTail(p \o r) = TruncateTail(r)
         /\ TruncateTail(r) # r /\ TruncateTail(p \o r) # p \o r
<1> DEFINE t == p \o r
<1>1. /\ t \in Seq(Characters) /\ Len(t) = Len(p) + Len(r)
      /\ Len(p) \in Nat /\ Len(r) \in Nat /\ KeepBytes \in Nat \ {0}
  BY ConcatProperties, LenProperties, ChunksAreSmall
<1>2. \A i \in LineStarts(r) : i \in 1..Len(r) + 1
  BY StartsInText
<1>3. \A i \in LineStarts(t) : i \in 1..Len(t) + 1
  BY <1>1, StartsInText
<1>4. \A i \in 1..Len(r) + 1 : Len(SubSeq(r, i, Len(r))) = Len(r) - i + 1
  BY StartsInText
<1>5. \A i \in 1..Len(t) + 1 : Len(SubSeq(t, i, Len(t))) = Len(t) - i + 1
  BY <1>1, StartsInText
<1> HIDE DEF t
<1>6. ASSUME NEW i \in 2..Len(r) + 1
      PROVE  SubSeq(t, Len(p) + i, Len(t)) = SubSeq(r, i, Len(r))
  <2>1. CASE i = Len(r) + 1
    <3>1. SubSeq(r, i, Len(r)) = <<>>
      BY <1>1, <2>1, SubSeqEmpty
    <3>2. SubSeq(t, Len(p) + i, Len(t)) = <<>>
      <4>1. Len(p) + i \in Int /\ Len(t) \in Int /\ Len(t) < Len(p) + i
        BY <1>1, <2>1
      <4> QED BY <4>1, SubSeqEmpty
    <3> QED BY <3>1, <3>2
  <2>2. CASE i <= Len(r)
    <3>1. /\ Len(p) + i \in Len(p) + 1..Len(p) + Len(r)
          /\ Len(t) \in Len(p) + 1..Len(p) + Len(r)
          /\ (Len(p) + i) - Len(p) = i /\ Len(t) - Len(p) = Len(r)
      BY <1>1, <2>2
    <3> QED BY <3>1, SubSeqOfConcat2 DEF t
  <2> QED BY <1>1, <2>1, <2>2
<1>7. ASSUME NEW i \in ShortEnough(r)
      PROVE  i \in 2..Len(r) + 1 /\ Len(p) + i \in ShortEnough(t)
  <2>1. i \in LineStarts(r) /\ Len(SubSeq(r, i, Len(r))) <= KeepBytes
        /\ Cardinality({j \in LineStarts(r) : i <= j}) <= KeepLines
    BY DEF ShortEnough
  <2>2. i \in 2..Len(r) + 1 /\ i \in Nat /\ i > 1
    <3>1. i \in 1..Len(r) + 1 /\ Len(r) - i + 1 <= KeepBytes
      BY <1>2, <1>4, <2>1
    <3> QED BY <1>1, <3>1
  <2>3. Len(p) + i \in LineStarts(t)
    BY <2>1, <2>2, StartsMove DEF t
  <2>4. Cardinality({j \in LineStarts(t) : Len(p) + i <= j}) <= KeepLines
    BY <2>1, <2>2, LinesStay DEF t
  <2>5. Len(SubSeq(t, Len(p) + i, Len(t))) <= KeepBytes
    BY <1>6, <2>1, <2>2
  <2> QED BY <2>2, <2>3, <2>4, <2>5 DEF ShortEnough
<1>8. ASSUME NEW k \in ShortEnough(t)
      PROVE  k - Len(p) \in ShortEnough(r)
  <2>1. k \in LineStarts(t) /\ Len(SubSeq(t, k, Len(t))) <= KeepBytes
        /\ Cardinality({j \in LineStarts(t) : k <= j}) <= KeepLines
    BY DEF ShortEnough
  <2>2. PICK i \in 2..Len(r) + 1 : k = Len(p) + i
    <3>1. k \in 1..Len(t) + 1 /\ Len(t) - k + 1 <= KeepBytes
      BY <1>3, <1>5, <2>1
    <3>2. k - Len(p) \in 2..Len(r) + 1 /\ k = Len(p) + (k - Len(p))
      BY <1>1, <3>1
    <3> QED BY <3>2
  <2>3. i \in Nat /\ i > 1 /\ k - Len(p) = i
    BY <1>1, <2>2
  <2>4. i \in LineStarts(r)
    BY <2>1, <2>2, <2>3, StartsMove DEF t
  <2>5. Cardinality({j \in LineStarts(r) : i <= j}) <= KeepLines
    BY <2>1, <2>2, <2>3, LinesStay DEF t
  <2>6. Len(SubSeq(r, i, Len(r))) <= KeepBytes
    BY <1>6, <2>1, <2>2
  <2> QED BY <2>3, <2>4, <2>5, <2>6 DEF ShortEnough
<1>9. CASE ShortEnough(r) = {}
  <2>1. ShortEnough(t) = {}
    BY <1>8, <1>9
  <2> DEFINE i == Len(r) - KeepBytes + 1
  <2>2. i \in 2..Len(r) + 1 /\ Len(t) - KeepBytes + 1 = Len(p) + i
        /\ Len(r) - i + 1 = KeepBytes /\ i \in 1..Len(r) + 1
    BY <1>1
  <2>3. TruncateTail(r) = SubSeq(r, i, Len(r))
    BY <1>9, TailIsFromStart
  <2>4. TruncateTail(t) = SubSeq(t, Len(p) + i, Len(t))
    BY <2>1, <2>2, TailIsFromStart
  <2> HIDE DEF i
  <2>5. Len(TruncateTail(r)) = KeepBytes
    BY <1>4, <2>2, <2>3
  <2> QED BY <1>1, <1>6, <2>2, <2>3, <2>4, <2>5 DEF t
<1>10. CASE ShortEnough(r) # {}
  <2>1. PICK i \in ShortEnough(r) :
          i = FirstShort(r) /\ \A j \in ShortEnough(r) : i <= j
    BY <1>10, FirstShortIsLeast
  <2>2. ShortEnough(t) # {}
    BY <1>7, <2>1
  <2>3. PICK k \in ShortEnough(t) :
          k = FirstShort(t) /\ \A j \in ShortEnough(t) : k <= j
    BY <1>1, <2>2, FirstShortIsLeast
  <2>4. k = Len(p) + i
    <3>1. k <= Len(p) + i /\ i \in Nat
      BY <1>1, <1>7, <2>3
    <3>2. i <= k - Len(p)
      BY <1>8, <2>1
    <3>3. k \in Nat /\ Len(p) \in Nat
      BY <1>1, <1>3 DEF ShortEnough
    <3> QED BY ONLY <3>1, <3>2, <3>3
  <2>5. i \in 2..Len(r) + 1
    BY <1>7
  <2>6. TruncateTail(r) = SubSeq(r, i, Len(r))
    BY <1>10, <2>1, TailIsFromStart
  <2>7. TruncateTail(t) = SubSeq(t, Len(p) + i, Len(t))
    BY <2>2, <2>3, <2>4, TailIsFromStart
  <2>8. Len(TruncateTail(r)) <= KeepBytes
    BY <2>6 DEF ShortEnough
  <2>9. TruncateTail(t) = TruncateTail(r)
    BY <1>6, <2>5, <2>6, <2>7
  <2> QED BY <1>1, <2>8, <2>9 DEF t
<1> QED BY <1>9, <1>10

-----------------------------------------------------------------------------
(* What the core keeps of a long output.                                   *)

\* The rolling buffer is an end of all that was taken, and longer than what
\* is shown as soon as it is not all of it.
RollsOn ==
  \E p \in Seq(ChunkType) :
    kept = p \o rolling /\ (p = <<>> \/ Bytes(rolling) > KeepBytes)
LogIsWhole ==
  log = IF Bytes(kept) > KeepBytes THEN [is |-> "log", chunks |-> kept]
        ELSE NoLog
Rolling ==
  rolling \in Seq(ChunkType) /\ (host = "core" => RollsOn /\ LogIsWhole)

\* The bytes of two lists add up.
LEMMA BytesAdd ==
  ASSUME NEW a \in Seq(ChunkType), NEW b \in Seq(ChunkType)
  PROVE  /\ Bytes(a) \in Nat /\ Bytes(b) \in Nat
         /\ Bytes(a \o b) = Bytes(a) + Bytes(b)
BY TextTypes, TextOfConcat, ConcatProperties DEF Bytes

\* A chunk more is at least a byte more.
LEMMA BytesGrow ==
  ASSUME NEW c \in Seq(ChunkType), NEW x \in ChunkType
  PROVE  Bytes(c) \in Nat /\ Bytes(Append(c, x)) \in Nat
         /\ Bytes(Append(c, x)) > Bytes(c)
<1>1. Bytes(Append(c, x)) = Len(Text(c)) + Len(x.text)
  BY TextOfAppend, TextTypes, ChunkTextIsSeq, ConcatProperties DEF Bytes
<1>2. Bytes(c) \in Nat /\ Bytes(c) = Len(Text(c))
  BY TextTypes DEF Bytes
<1>3. Len(x.text) \in Nat /\ Len(x.text) >= 1
  BY ChunkTextIsSeq
<1> QED BY <1>1, <1>2, <1>3

\* push_chunk: what goes from the front of the buffer was not needed, and the
\* log begins while the buffer still has everything.
LEMMA PushKeepsRolling ==
  ASSUME Typed, Rolling, host = "core", host' = host,
         NEW x \in ChunkType, PushChunk(x)
  PROVE  Rolling'
<1> DEFINE c == Append(rolling, x)
<1>1. /\ kept \in Seq(ChunkType) /\ rolling \in Seq(ChunkType)
      /\ RollsOn /\ LogIsWhole
  BY DEF Typed, Rolling
<1>2. /\ kept' = Append(kept, x) /\ rolling' = Trim(c)
      /\ log' = IF log # NoLog THEN [log EXCEPT !.chunks = Append(@, x)]
                ELSE IF Bytes(Append(kept, x)) > KeepBytes
                THEN [is |-> "log", chunks |-> c] ELSE NoLog
  BY DEF PushChunk
<1>3. PICK p \in Seq(ChunkType) :
        kept = p \o rolling /\ (p = <<>> \/ Bytes(rolling) > KeepBytes)
  BY <1>1 DEF RollsOn
<1>4. c \in Seq(ChunkType) /\ c # <<>>
  BY <1>1, OneMore
<1>5. Bytes(c) \in Nat /\ Bytes(c) > Bytes(rolling) /\ Bytes(rolling) \in Nat
  BY <1>1, BytesGrow
<1>6. Append(kept, x) = p \o c /\ Append(kept, x) \in Seq(ChunkType)
  BY <1>1, <1>3, SentBehind, OneMore
<1> HIDE DEF c
<1>7. PICK r \in Seq(ChunkType) :
        /\ r = Trim(c)
        /\ \E q \in Seq(ChunkType) :
             c = q \o r /\ (q = <<>> \/ Bytes(r) > KeepBytes)
  <2>1. /\ Trim(c) \in Seq(ChunkType)
        /\ \E q \in Seq(ChunkType) :
             c = q \o Trim(c) /\ (q = <<>> \/ Bytes(Trim(c)) > KeepBytes)
    BY ONLY <1>4, TrimKeepsEnough
  <2> QED BY ONLY <2>1
<1>8. PICK q \in Seq(ChunkType) :
        c = q \o r /\ (q = <<>> \/ Bytes(r) > KeepBytes)
  BY ONLY <1>7
<1>9. RollsOn'
  <2>1. p \o q \in Seq(ChunkType) /\ p \o (q \o r) = (p \o q) \o r
    <3>1. /\ p \in Seq(ChunkType) /\ q \in Seq(ChunkType)
          /\ r \in Seq(ChunkType)
      OBVIOUS
    <3>2. p \o q \in Seq(ChunkType)
      BY ONLY <3>1, ConcatProperties
    <3>3. p \o (q \o r) = (p \o q) \o r
      BY ONLY <3>1, ConcatAssociative
    <3> QED BY ONLY <3>2, <3>3
  <2>2. p \o q = <<>> \/ Bytes(r) > KeepBytes
    <3>1. CASE q = <<>>
      <4>1. c = r /\ p \o q = p
        BY <1>8, <3>1, ConcatEmptySeq
      <4>2. KeepBytes \in Nat
        BY ChunksAreSmall
      <4> QED BY <1>3, <1>5, <4>1, <4>2
    <3>2. CASE q # <<>>
      BY <1>8, <3>2
    <3> QED BY <3>1, <3>2
  <2>3. kept' = (p \o q) \o r /\ rolling' = r
    BY <1>2, <1>6, <1>7, <1>8, <2>1
  <2> QED BY <2>1, <2>2, <2>3 DEF RollsOn, Bytes
<1>10. Bytes(kept) \in Nat /\ Bytes(Append(kept, x)) \in Nat
       /\ Bytes(Append(kept, x)) > Bytes(kept) /\ KeepBytes \in Nat
  BY <1>1, BytesGrow, ChunksAreSmall
<1>11. Bytes(kept)' = Bytes(Append(kept, x))
  BY <1>2 DEF Bytes
<1>12. CASE Bytes(kept) > KeepBytes
  <2>1. log = [is |-> "log", chunks |-> kept]
    BY <1>1, <1>12 DEF LogIsWhole
  <2>2. log # NoLog
    BY <2>1 DEF NoLog
  <2>3. log' = [is |-> "log", chunks |-> kept']
    BY <1>2, <2>1, <2>2
  <2>4. Bytes(kept)' > KeepBytes
    BY <1>10, <1>11, <1>12
  <2>5. LogIsWhole'
    BY <2>3, <2>4 DEF LogIsWhole
  <2> QED BY <1>2, <1>7, <1>9, <2>5 DEF Rolling
<1>13. CASE ~(Bytes(kept) > KeepBytes)
  <2>1. log = NoLog
    BY <1>1, <1>13 DEF LogIsWhole
  <2>2. p = <<>>
    <3>1. Bytes(kept) = Bytes(p) + Bytes(rolling) /\ Bytes(p) \in Nat
      BY <1>1, <1>3, BytesAdd
    <3> QED BY <1>3, <1>5, <1>10, <1>13, <3>1
  <2>3. c = Append(kept, x)
    BY <1>4, <1>6, <2>2, ConcatEmptySeq
  <2> QED BY <1>2, <1>7, <1>9, <1>11, <2>1, <2>3 DEF LogIsWhole, Rolling
<1> QED BY <1>12, <1>13

\* No other step touches what the core keeps.
LEMMA QuietKeepsRolling ==
  ASSUME Rolling, host' = host, host = "core" => kept' = kept,
         UNCHANGED <<rolling, log>>
  PROVE  Rolling'
BY DEF Rolling, RollsOn, LogIsWhole, Bytes

\* Every step.
LEMMA StepKeepsRolling == Typed /\ Apart /\ Rolling /\ [Next]_vars => Rolling'
<1> SUFFICES ASSUME Typed, Apart, Rolling, [Next]_vars PROVE Rolling'
  OBVIOUS
<1> USE DEF world, pluginVars, coreVars
<1>1. CASE World
  BY <1>1, QuietKeepsRolling DEF World, Write, Close, Exit, Stop
<1>2. CASE Loop
  <2>1. CASE BeginRound
    BY <2>1, QuietKeepsRolling DEF BeginRound
  <2>2. ASSUME NEW event, SettleRace(event) PROVE Rolling'
    BY <2>2, QuietKeepsRolling DEF SettleRace
  <2>3. CASE TakeWinner
    BY <2>3, QuietKeepsRolling DEF TakeWinner, Apart
  <2>4. CASE EndLoop \/ UpdateThrows \/ SeeExit \/ Drained \/ LogFails
             \/ UpdateSent \/ SeeStop \/ WaitChild \/ SearchStopped
             \/ RunFind \/ RunGrep
    BY <2>4, QuietKeepsRolling DEF EndLoop, UpdateThrows, SeeExit, Drained,
                                   LogFails, UpdateSent, SeeStop, WaitChild,
                                   SearchStopped, RunFind, RunGrep, EndUnless
  <2>5. CASE ReceiveChunk
    <3>1. PICK x \in ChunkType : x = Head(channel)
      BY <2>5, Heads DEF ReceiveChunk, Typed
    <3> QED BY <2>5, <3>1, PushKeepsRolling DEF ReceiveChunk
  <2> QED BY <1>2, <2>1, <2>2, <2>3, <2>4, <2>5 DEF Loop
<1>3. ASSUME NEW s \in Streams, Reader(s) PROVE Rolling'
  BY <1>3, QuietKeepsRolling
     DEF Reader, Arrive, ReadChunk, SendChunk, CaptureChunk, ReaderEnds
<1>4. CASE UNCHANGED vars
  BY <1>4, QuietKeepsRolling DEF vars
<1> QED BY <1>1, <1>2, <1>3, <1>4 DEF Next

-----------------------------------------------------------------------------
(* The theorems.                                                           *)

\* In the initial states nothing has been written.
LEMMA InitInv == Init => IInv
<1> SUFFICES ASSUME Init PROVE IInv
  OBVIOUS
<1>1. <<>> \in Seq(ChunkType) /\ Len(<<>>) = 0
  BY EmptySeq
<1>2. Arrived = <<>>
  BY <1>1, ConcatEmptySeq DEF Init, Arrived
<1>3. Typed
  BY <1>1 DEF Init, Typed, Places
<1>4. Apart /\ EndsAreFinal
  BY SignalsDiffer DEF Init, Apart, EndsAreFinal, None, Status
<1>9. AllCaptured
  BY <1>1, ConcatEmptySeq DEF Init, AllCaptured
<1>5. \A s \in Streams : /\ written[s] = <<>> /\ pipe[s] = <<>>
                         /\ held[s] = None
  BY DEF Init
<1>6. PipesAreTails
  BY <1>1, <1>5 DEF PipesAreTails
<1>7. InOrder /\ WinnerIsNext
  BY <1>1, <1>2, SignalsDiffer DEF Init, InOrder, WinnerIsNext
<1>8. NothingSkipped
  <2>1. \A s \in Streams : Left(s) = 0
    BY <1>1, <1>5 DEF Left
  <2> QED BY <1>5, <2>1 DEF NothingSkipped, HeldIsLast, OthersSent
<1> QED BY <1>3, <1>4, <1>6, <1>7, <1>8, <1>9 DEF IInv

\* Every step of the child, the loop and the readers keeps the invariant.
LEMMA StepInv == IInv /\ [Next]_vars => IInv'
<1> SUFFICES ASSUME IInv, [Next]_vars PROVE IInv'
  OBVIOUS
<1>1. Typed /\ Apart /\ Order /\ Ends
  BY DEF IInv, Order, Ends
<1>6. AllCaptured'
  BY <1>1, StepKeepsCaptured DEF IInv
<1> USE <1>6
<1>2. CASE World
  BY <1>1, <1>2, WorldTypes, WorldEnds, WorldKeepsOrder DEF IInv, Order
<1>3. CASE Loop
  BY <1>1, <1>3, LoopTypes, LoopEnds, LoopKeepsOrder DEF IInv, Order
<1>4. ASSUME NEW s \in Streams, Reader(s) PROVE IInv'
  BY <1>1, <1>4, ReaderTypes, ReaderEndsKept, ReaderKeepsOrder DEF IInv, Order
<1>5. CASE UNCHANGED vars
  <2>1. Order'
    BY <1>1, <1>5, QuietKeepsOrder
       DEF vars, world, pluginVars, coreVars, Arrived
  <2>2. Typed' /\ Apart' /\ EndsAreFinal'
    BY <1>1, <1>5
       DEF Typed, Apart, EndsAreFinal, Ends, vars, world, pluginVars, coreVars
  <2> QED BY <2>1, <2>2 DEF IInv, Order
<1> QED BY <1>2, <1>3, <1>4, <1>5 DEF Next

\* The last chunks of a sequence, taken one by one, are its end.
LEMMA EndIsSubSeq ==
  ASSUME NEW w \in Seq(ChunkType), NEW p \in Seq(ChunkType),
         NEW l \in Nat, l = Len(w) - Len(p),
         \A k \in 1..Len(p) : p[k] = w[l + k]
  PROVE  SubSeq(w, l + 1, Len(w)) = p
<1> DEFINE q == SubSeq(w, l + 1, Len(w))
<1>1. Len(w) \in Nat /\ Len(p) \in Nat
  BY LenProperties
<1>2. \A i \in l + 1..Len(w) : w[i] \in ChunkType
  BY <1>1, ElementOfSeq
<1>3. /\ q \in Seq(ChunkType)
      /\ Len(q) = IF l + 1 <= Len(w) THEN Len(w) - (l + 1) + 1 ELSE 0
      /\ \A i \in 1..Len(w) - (l + 1) + 1 : q[i] = w[l + 1 + i - 1]
  BY <1>1, <1>2, SubSeqProperties
<1> HIDE DEF q
<1>4. Len(w) - (l + 1) + 1 = Len(p)
  BY <1>1
<1>5. Len(q) = Len(p)
  BY <1>1, <1>3, <1>4
<1>6. ASSUME NEW i \in 1..Len(p) PROVE q[i] = p[i]
  <2>1. l + 1 + i - 1 = l + i
    BY <1>1
  <2> QED BY <1>3, <1>4, <2>1
<1>7. q = p
  BY <1>3, <1>5, <1>6, SeqEqual
<1> QED BY <1>7 DEF q

\* The inductive invariant: what a loop concludes of a stream or the child is
\* final, and every chunk that left its pipe is where its number says.
THEOREM CallIsKept == Spec => []IInv
BY InitInv, StepInv, PTL DEF Spec

\* A call that returns, in any program, has outlived its child, and in the
\* plugin and the searches every writer to its pipes; the core has taken all
\* that had reached its channel; whatever else the child does meanwhile.
THEOREM ReturnsAtTheEnd == Spec => []ReturnMeansEnded
<1>1. IInv => ReturnMeansEnded
  BY DEF IInv, EndsAreFinal, Typed, ReturnMeansEnded, Searches
<1> QED BY <1>1, CallIsKept, PTL

\* What a call keeps of a stream is what was written, in order and once; and
\* the core skips no chunk, whatever its channel holds back.
THEOREM OutputStaysInOrder == Spec => []OutputInOrder
<1>1. IInv => OutputInOrder
  <2> SUFFICES ASSUME IInv PROVE OutputInOrder
    OBVIOUS
  <2>1. Typed /\ PipesAreTails /\ InOrder /\ NothingSkipped
    BY DEF IInv
  <2>2. ASSUME NEW s \in Streams
        PROVE  pipe[s] = SubSeq(written[s], Len(written[s]) - Len(pipe[s]) + 1,
                                Len(written[s]))
    <3>1. /\ Left(s) \in Nat /\ Len(written[s]) \in Nat
          /\ Len(pipe[s]) \in Nat /\ Left(s) = Len(written[s]) - Len(pipe[s])
      BY <2>1, LeftTypes
    <3>2. written[s] \in Seq(ChunkType) /\ pipe[s] \in Seq(ChunkType)
      BY <2>1 DEF Typed
    <3>3. \A k \in 1..Len(pipe[s]) : pipe[s][k] = written[s][Left(s) + k]
      BY <2>1 DEF PipesAreTails
    <3>4. SubSeq(written[s], Left(s) + 1, Len(written[s])) = pipe[s]
      BY ONLY <3>1, <3>2, <3>3, EndIsSubSeq
    <3> QED BY <3>4 DEF Left
  <2>3. ASSUME host = "core", NEW s \in Streams, NEW n \in Read(s)
        PROVE  IF held[s] # None /\ n = Len(written[s]) - Len(pipe[s])
               THEN held[s] = written[s][n]
               ELSE \E i \in DOMAIN Arrived : Arrived[i] = written[s][n]
    BY <2>1, <2>3 DEF NothingSkipped, HeldIsLast, OthersSent, Read, Left
  <2>4. AllCaptured
    BY DEF IInv
  <2> QED BY <2>1, <2>2, <2>3, <2>4
          DEF OutputInOrder, InOrder, Genuine, AllCaptured
<1> QED BY <1>1, CallIsKept, PTL

\* When the search has not reached a limit, each of its cuts leaves all there
\* is.
LEMMA NothingLeftOut ==
  ASSUME NEW text,
         LET r == SearchResult(text)
         IN ~r.limited /\ ~r.cut /\ ~r.truncated
  PROVE  SearchResult(text).lines = Results(text)
BY DEF SearchResult, FindResult, GrepResult, UpToLimit

\* A search that returns has read all of its stream.
LEMMA SearchTells == IInv => SearchIsWhole
<1> SUFFICES ASSUME IInv, host \in Searches, pc = "returned"
             PROVE  captured["stdout"] = written["stdout"]
  <2>1. ASSUME captured["stdout"] = written["stdout"] PROVE SearchIsWhole
    BY <2>1, NothingLeftOut DEF SearchIsWhole
  <2> QED BY <2>1 DEF SearchIsWhole
<1>1. pipe["stdout"] = <<>>
  BY DEF IInv, EndsAreFinal, Streams
<1>2. captured["stdout"] \o pipe["stdout"] = written["stdout"]
  BY DEF IInv, AllCaptured, Streams
<1>3. captured["stdout"] \in Seq(ChunkType)
  BY DEF IInv, Typed, Streams
<1> QED BY <1>1, <1>2, <1>3, ConcatEmptySeq

\* Although the core forgets the beginning of a long output, it shows what it
\* would show of all it has taken, for texts and limits of any size; and its
\* log has every chunk it has taken when they are more bytes than are shown.
\* A search shows every result of all that its program wrote, or says which
\* limit it has reached.
THEOREM CutsStayTold == Spec => []CutsAreTold
<1>1. Init => Rolling
  <2> SUFFICES ASSUME Init PROVE Rolling
    OBVIOUS
  <2>1. kept = <<>> /\ rolling = <<>> /\ log = NoLog
    BY DEF Init
  <2>2. <<>> \in Seq(ChunkType) /\ <<>> \o <<>> = <<>>
    BY EmptySeq, ConcatEmptySeq
  <2>3. ~(Bytes(kept) > KeepBytes)
    BY <2>1, TextTypes, EmptySeq, ChunksAreSmall DEF Bytes
  <2> QED BY <2>1, <2>2, <2>3 DEF Rolling, RollsOn, LogIsWhole
<1>2. IInv /\ Rolling /\ [Next]_vars => Rolling'
  BY StepKeepsRolling DEF IInv
<1>3. IInv /\ Rolling => TailIsKept
  <2> SUFFICES ASSUME IInv, Rolling, host = "core" PROVE TailIsKept
    BY DEF TailIsKept
  <2>1. /\ kept \in Seq(ChunkType) /\ rolling \in Seq(ChunkType)
        /\ RollsOn /\ LogIsWhole
    BY DEF IInv, Typed, Rolling
  <2>2. PICK p \in Seq(ChunkType) :
          kept = p \o rolling /\ (p = <<>> \/ Bytes(rolling) > KeepBytes)
    BY <2>1 DEF RollsOn
  <2>3. rolling = SubSeq(kept, Len(kept) - Len(rolling) + 1, Len(kept))
    <3>1. /\ Len(p) \in Nat /\ Len(rolling) \in Nat
          /\ Len(p) = Len(kept) - Len(rolling)
          /\ \A k \in 1..Len(rolling) : rolling[k] = kept[Len(p) + k]
      <4>1. /\ Len(kept) = Len(p) + Len(rolling)
            /\ \A k \in 1..Len(p) + Len(rolling) :
                 kept[k] = IF k <= Len(p) THEN p[k] ELSE rolling[k - Len(p)]
        BY <2>1, <2>2, ConcatProperties
      <4>2. Len(p) \in Nat /\ Len(rolling) \in Nat
        BY <2>1, LenProperties
      <4>3. ASSUME NEW k \in 1..Len(rolling)
            PROVE  rolling[k] = kept[Len(p) + k]
        <5>1. /\ Len(p) + k \in 1..Len(p) + Len(rolling)
              /\ ~(Len(p) + k <= Len(p)) /\ (Len(p) + k) - Len(p) = k
          BY <4>2
        <5> QED BY <4>1, <5>1
      <4> QED BY <4>1, <4>2, <4>3
    <3>2. SubSeq(kept, Len(p) + 1, Len(kept)) = rolling
      BY ONLY <2>1, <3>1, EndIsSubSeq
    <3> QED BY <3>1, <3>2
  <2>4. BuildResult(rolling) = BuildResult(kept)
    <3>1. CASE p = <<>>
      BY <2>1, <2>2, <3>1, ConcatEmptySeq
    <3>2. CASE Bytes(rolling) > KeepBytes
      <4>1. /\ Text(kept) = Text(p) \o Text(rolling)
            /\ Text(p) \in Seq(Characters) /\ Text(rolling) \in Seq(Characters)
            /\ Len(Text(rolling)) > KeepBytes
        BY <2>1, <2>2, <3>2, TextOfConcat, TextTypes DEF Bytes
      <4>2. /\ TruncateTail(Text(kept)) = TruncateTail(Text(rolling))
            /\ TruncateTail(Text(rolling)) # Text(rolling)
            /\ TruncateTail(Text(kept)) # Text(kept)
        BY ONLY <4>1, LongTailSuffices
      <4> QED BY ONLY <4>2 DEF BuildResult
    <3> QED BY <2>2, <3>1, <3>2
  <2>5. Bytes(kept) > KeepBytes => log # NoLog /\ log.chunks = kept
    BY <2>1 DEF LogIsWhole, NoLog
  <2> QED BY <2>3, <2>4, <2>5 DEF TailIsKept
<1>4. IInv => SearchIsWhole
  BY SearchTells
<1>5. IInv /\ Rolling => CutsAreTold
  BY <1>3, <1>4 DEF CutsAreTold
<1> QED BY <1>1, <1>2, <1>5, CallIsKept, PTL DEF Spec

=============================================================================
