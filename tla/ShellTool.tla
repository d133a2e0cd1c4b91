------------------------------ MODULE ShellTool ------------------------------
(***************************************************************************)
(* A call of a tool that runs a program: a child process writes to two     *)
(* pipes, and the tool collects what it wrote and ends with the child, or  *)
(* with the abort of its run or its timeout.                               *)
(*                                                                         *)
(* Three programs do this.  The bash plugin (tools/bash/src/execute.ts)    *)
(* races, in every round of its loop, a new read of each open pipe against *)
(* the exit and the stop.  The bash of the core (tools/builtin/bash.rs)    *)
(* has a reader task per pipe, which feed one bounded channel that its     *)
(* loop selects on; both report on the way.  The searches of the core      *)
(* (find.rs, grep.rs, process.rs) have a task per pipe that reads all of   *)
(* it, wait for the child and then for the tasks, and show the lines.      *)
(*                                                                         *)
(* The pipes may outlive the child: what it started in the background      *)
(* holds them.  A chunk is what one read returns, its text a sequence of   *)
(* characters of which the line feed matters; a character is a byte.       *)
(***************************************************************************)
EXTENDS Naturals, Sequences, FiniteSets

CONSTANTS MaxChunks,   \* bound: the chunks that are written
          Characters,  \* the bytes a program may write
          ChunkTexts,  \* what a chunk may hold
          KeepBytes,   \* DEFAULT_MODEL_MAX_BYTES
          KeepLines,   \* DEFAULT_MODEL_MAX_LINES
          ChannelCap,  \* the capacity of the core's channel (32)
          Limit,       \* DEFAULT_LIMIT of find.rs (1000) and grep.rs (100)
          LineChars,   \* GREP_MAX_LINE_CHARS (500)
          Root         \* find's search_root, without a slash at its end

(* A chunk has at most 8192 bytes, and DEFAULT_MODEL_MAX_BYTES is 50 KB.   *)
ASSUME ChunksAreSmall ==
  /\ KeepBytes \in Nat \ {0} /\ KeepLines \in Nat \ {0}
  /\ ChunkTexts \subseteq Seq(Characters)
  /\ \A text \in ChunkTexts : Len(text) \in 1 .. KeepBytes
  /\ Limit \in Nat \ {0} /\ LineChars \in Nat
  /\ Root \in Seq(Characters)

VARIABLES
  host,      \* which program: "plugin", "core", or the search that runs
  child,     \* "running" or "exited"
  open,      \* the streams somebody may still write to
  pipe,      \* the chunks in each pipe
  written,   \* history: the chunks written to each pipe
  stopped,   \* the run was aborted or the timeout has passed
  killed,    \* the child was killed
  pc,        \* where the call is
  kept,      \* all, in the plugin; history in the core: the chunks taken
  (* the plugin *)
  readers,   \* the streams it still reads
  stale,     \* the reads of earlier rounds that nobody waits for
  current,   \* the streams whose read of this round is outstanding
  winner,    \* what settled the race of this round
  exitSeen,  \* processDone
  (* the core *)
  held,      \* the chunk each reader task is about to send
  ended,     \* the reader tasks that have returned
  channel,   \* the chunks sent and not yet received
  rolling,   \* RollingOutput.chunks
  log,       \* the full output file
  captured   \* what the tasks of a search have read of each stream

world == <<child, open, pipe, written>>
pluginVars == <<readers, stale, current, winner, exitSeen>>
coreVars == <<held, ended, channel, rolling, log, captured>>
vars == <<host, world, stopped, killed, pc, kept, pluginVars, coreVars>>

Streams == {"stdout", "stderr"}
Searches == {"find", "grep"}
None == [is |-> "none"]
NoLog == [is |-> "no log"]

Chunk(s, n, text) == [is |-> "chunk", stream |-> s, n |-> n, text |-> text]
End(s) == [is |-> "end", stream |-> s]
Status == [is |-> "status"]

Over == pc \in {"returned", "failed"}

(* The bytes that are looked at: either end of a line, white space within  *)
(* one, and those of a path.                                               *)
LF == "lf"
Blank == "blank"
Slash == "/"
Backslash == "back"
Dot == "."

Text(chunks) ==
  LET upTo[i \in 0 .. Len(chunks)] ==
        IF i = 0 THEN <<>> ELSE upTo[i - 1] \o chunks[i].text
  IN upTo[Len(chunks)]
Bytes(chunks) == Len(Text(chunks))

(* truncate_tail: as many whole lines of the end as there may be lines and *)
(* bytes, or the last bytes of a last line that is too long.               *)
TruncateTail(text) ==
  LET From(i) == SubSeq(text, i, Len(text))
      starts  == {1} \cup {i + 1 : i \in {j \in DOMAIN text : text[j] = LF}}
      fitting == {i \in starts :
                    /\ Len(From(i)) <= KeepBytes
                    /\ Cardinality({j \in starts : i <= j}) <= KeepLines}
  IN IF fitting = {} THEN From(Len(text) - KeepBytes + 1)
     ELSE From(CHOOSE i \in fitting : \A j \in fitting : i <= j)

(* build_result: the text for the model and whether the details say that   *)
(* some of the output is missing; exit code and path of the log are left   *)
(* out.                                                                    *)
BuildResult(chunks) ==
  [text |-> TruncateTail(Text(chunks)),
   truncated |-> TruncateTail(Text(chunks)) # Text(chunks)]

(* str::lines: the line feed ends a line, and the last may lack it.        *)
LinesOf(text) ==
  LET upTo[i \in 0 .. Len(text)] ==
        IF i = 0 THEN [lines |-> <<>>, rest |-> <<>>]
        ELSE LET before == upTo[i - 1]
             IN IF text[i] = LF
                THEN [lines |-> Append(before.lines, before.rest),
                      rest |-> <<>>]
                ELSE [before EXCEPT !.rest = Append(@, text[i])]
      all == upTo[Len(text)]
  IN IF all.rest = <<>> THEN all.lines ELSE Append(all.lines, all.rest)

Stripped(text, character) ==
  LET rest == {i \in DOMAIN text : text[i] # character}
  IN IF rest = {} THEN <<>>
     ELSE SubSeq(text, CHOOSE i \in rest : \A j \in rest : i <= j,
                       CHOOSE i \in rest : \A j \in rest : j <= i)

(* to_relative_posix_path: what is under the search root loses it, every   *)
(* backslash becomes a slash, the root itself a dot, and a directory's     *)
(* slash at the end stays.                                                 *)
Below(path) ==
  LET n == Len(Root)
  IN /\ n <= Len(path) /\ SubSeq(path, 1, n) = Root
     /\ n < Len(path) => path[n + 1] = Slash
ToRelativePosixPath(path) ==
  LET relative == IF Below(path)
                  THEN Stripped(SubSeq(path, Len(Root) + 1, Len(path)), Slash)
                  ELSE path
      text == IF relative = <<>> THEN <<Dot>>
              ELSE [i \in DOMAIN relative |->
                      IF relative[i] = Backslash THEN Slash ELSE relative[i]]
      directory == path[Len(path)] \in {Slash, Backslash}
  IN IF directory /\ text[Len(text)] # Slash THEN Append(text, Slash) ELSE text

(* The results of a search are its lines, those of find (parse_paths) the  *)
(* paths that they name: trimmed, the empty ones left out, relative.       *)
Paths(lines) ==
  LET trimmed == [i \in DOMAIN lines |-> Stripped(lines[i], Blank)]
      named   == SelectSeq(trimmed, LAMBDA line : line # <<>>)
  IN [i \in DOMAIN named |-> ToRelativePosixPath(named[i])]
Results(text) ==
  IF host = "find" THEN Paths(LinesOf(text)) ELSE LinesOf(text)

(* As many of the results as were asked for.                               *)
LimitReached(lines) == Len(lines) >= Limit
UpToLimit(lines) ==
  IF LimitReached(lines) THEN SubSeq(lines, 1, Limit) ELSE lines

TruncateLine(line) ==
  IF Len(line) <= LineChars THEN line ELSE SubSeq(line, 1, LineChars)

(* What the first n lines take when a line feed is put between them, and   *)
(* truncate_head: the first lines that fit, none when the first is too     *)
(* long.                                                                   *)
Size(lines, n) ==
  LET upTo[i \in 0 .. n] ==
        IF i = 0 THEN 0
        ELSE upTo[i - 1] + Len(lines[i]) + (IF i > 1 THEN 1 ELSE 0)
  IN upTo[n]
TruncateHead(lines) ==
  LET fitting == {n \in 0 .. Len(lines) : Size(lines, n) <= KeepBytes}
  IN IF Size(lines, Len(lines)) <= KeepBytes THEN lines
     ELSE SubSeq(lines, 1, CHOOSE n \in fitting : \A m \in fitting : m <= n)

(* build_result of a search: the lines for the model, and the notices that *)
(* say of them that they are not all, not whole, or not all of these.      *)
FindResult(text) ==
  LET paths == UpToLimit(Results(text))
  IN [lines |-> TruncateHead(paths), limited |-> LimitReached(Results(text)),
      cut |-> FALSE, truncated |-> TruncateHead(paths) # paths]
GrepResult(text) ==
  LET taken == UpToLimit(Results(text))
      lines == [i \in DOMAIN taken |-> TruncateLine(taken[i])]
  IN [lines |-> TruncateHead(lines), limited |-> LimitReached(Results(text)),
      cut |-> lines # taken, truncated |-> TruncateHead(lines) # lines]
SearchResult(text) ==
  IF host = "find" THEN FindResult(text) ELSE GrepResult(text)

Init ==
  /\ host \in {"plugin", "core"} \cup Searches
  /\ child = "running" /\ open = Streams
  /\ pipe = [s \in Streams |-> <<>>] /\ written = pipe
  /\ stopped = FALSE /\ killed = FALSE /\ pc = "loop" /\ kept = <<>>
  /\ readers = Streams /\ stale = [s \in Streams |-> 0] /\ current = {}
  /\ winner = None /\ exitSeen = FALSE
  /\ held = [s \in Streams |-> None] /\ ended = {}
  /\ channel = <<>> /\ rolling = <<>> /\ log = NoLog
  /\ captured = [s \in Streams |-> <<>>]

Goto(where) == pc' = where

-----------------------------------------------------------------------------
(* The child and what it has started *)

Write(s, text) ==
  /\ s \in open /\ ~Over
  /\ Len(written["stdout"]) + Len(written["stderr"]) < MaxChunks
  /\ LET chunk == Chunk(s, Len(written[s]) + 1, text)
     IN /\ written' = [written EXCEPT ![s] = Append(@, chunk)]
        /\ pipe' = [pipe EXCEPT ![s] = Append(@, chunk)]
  /\ UNCHANGED <<host, child, open, stopped, killed, pc, kept, pluginVars,
                 coreVars>>

Close(s) ==
  /\ s \in open /\ ~Over
  /\ open' = open \ {s}
  /\ UNCHANGED <<host, child, pipe, written, stopped, killed, pc, kept,
                 pluginVars, coreVars>>

Exit ==
  /\ child = "running" /\ ~Over
  /\ child' = "exited"
  /\ UNCHANGED <<host, open, pipe, written, stopped, killed, pc, kept,
                 pluginVars, coreVars>>

(* The abort of the run, or the timeout.  The plugin kills the child in    *)
(* the listener, the core when its loop comes to it.                       *)
Stop ==
  /\ ~stopped /\ ~Over
  /\ stopped' = TRUE
  /\ killed' = (killed \/ host = "plugin")
  /\ UNCHANGED <<host, world, pc, kept, pluginVars, coreVars>>

-----------------------------------------------------------------------------
(* The plugin *)

(* A round begins with a new read of every reader, whether or not the one  *)
(* of the last round is still outstanding.                                 *)
ReadAgain ==
  /\ stale' = [s \in Streams |->
                 stale[s] + IF s \in readers \cap current THEN 1 ELSE 0]
  /\ current' = readers

BeginRound ==
  /\ host = "plugin" /\ pc = "loop" /\ (readers # {} \/ ~exitSeen)
  /\ ReadAgain
  /\ Goto("racing")
  /\ UNCHANGED <<host, world, stopped, killed, kept, readers, winner, exitSeen,
                 coreVars>>

(* The next chunk answers the oldest read of its stream.  When that is not *)
(* one of this round, or the race is already settled, nobody looks at it.  *)
Arrive(s) ==
  /\ host = "plugin" /\ ~Over
  /\ pipe[s] # <<>> /\ (stale[s] > 0 \/ s \in current)
  /\ pipe' = [pipe EXCEPT ![s] = Tail(@)]
  /\ IF stale[s] > 0
     THEN stale' = [stale EXCEPT ![s] = @ - 1] /\ UNCHANGED <<current, winner>>
     ELSE /\ current' = current \ {s} /\ stale' = stale
          /\ winner' = IF pc = "racing" /\ winner = None
                       THEN Head(pipe[s]) ELSE winner
  /\ UNCHANGED <<host, child, open, written, stopped, killed, pc, kept,
                 readers, exitSeen, coreVars>>

(* A stream that has ended answers every read at once.                     *)
Settled(event) ==
  \/ event = Status /\ child = "exited" /\ ~exitSeen
  \/ \E s \in current : event = End(s) /\ s \notin open /\ pipe[s] = <<>>

SettleRace(event) ==
  /\ host = "plugin" /\ pc = "racing" /\ winner = None
  /\ Settled(event)
  /\ winner' = event
  /\ UNCHANGED <<host, world, stopped, killed, pc, kept, readers, stale,
                 current, exitSeen, coreVars>>

TakeStatus ==
  /\ winner = Status
  /\ exitSeen' = TRUE /\ Goto("loop")
  /\ UNCHANGED <<readers, kept>>

TakeEnd ==
  /\ winner.is = "end"
  /\ readers' = readers \ {winner.stream} /\ Goto("loop")
  /\ UNCHANGED <<exitSeen, kept>>

TakeOutput ==
  /\ winner.is = "chunk"
  /\ kept' = Append(kept, winner) /\ Goto("updating")
  /\ UNCHANGED <<readers, exitSeen>>

TakeWinner ==
  /\ pc = "racing"
  /\ TakeStatus \/ TakeEnd \/ TakeOutput
  /\ winner' = None
  /\ UNCHANGED <<host, world, stopped, killed, stale, current, coreVars>>

EndLoopAtExit ==
  /\ host = "plugin" /\ pc = "loop" /\ exitSeen
  /\ Goto("returned")
  /\ UNCHANGED <<host, world, stopped, killed, kept, pluginVars, coreVars>>

EndLoop ==
  /\ host = "plugin" /\ pc = "loop" /\ readers = {} /\ exitSeen
  /\ Goto("returned")
  /\ UNCHANGED <<host, world, stopped, killed, kept, pluginVars, coreVars>>

(* An update that cannot be sent throws, and nobody ends the child.        *)
UpdateThrows ==
  /\ host = "plugin" /\ pc = "updating"
  /\ Goto("failed")
  /\ UNCHANGED <<host, world, stopped, killed, kept, pluginVars, coreVars>>

-----------------------------------------------------------------------------
(* The core *)

(* read_stream: one chunk is read and sent, then the next.                 *)
ReadChunk(s) ==
  /\ host = "core" /\ s \notin ended /\ held[s] = None /\ pipe[s] # <<>>
  /\ held' = [held EXCEPT ![s] = Head(pipe[s])]
  /\ pipe' = [pipe EXCEPT ![s] = Tail(@)]
  /\ UNCHANGED <<host, child, open, written, stopped, killed, pc, kept,
                 pluginVars, ended, channel, rolling, log, captured>>

SendOrDrop(s) ==
  /\ host = "core" /\ ~Over /\ held[s] # None
  /\ channel' = IF Len(channel) < ChannelCap THEN Append(channel, held[s])
                ELSE channel
  /\ held' = [held EXCEPT ![s] = None]
  /\ UNCHANGED <<host, world, stopped, killed, pc, kept, pluginVars, ended,
                 rolling, log, captured>>

SendChunk(s) ==
  /\ host = "core" /\ ~Over /\ held[s] # None /\ Len(channel) < ChannelCap
  /\ channel' = Append(channel, held[s])
  /\ held' = [held EXCEPT ![s] = None]
  /\ UNCHANGED <<host, world, stopped, killed, pc, kept, pluginVars, ended,
                 rolling, log, captured>>

(* The stream has ended, or the call is over and receives no more.         *)
ReaderEnds(s) ==
  /\ host # "plugin" /\ s \notin ended
  /\ \/ held[s] = None /\ pipe[s] = <<>> /\ s \notin open
     \/ held[s] # None /\ Over
  /\ ended' = ended \cup {s}
  /\ UNCHANGED <<host, world, stopped, killed, pc, kept, pluginVars, held,
                 channel, rolling, log, captured>>

(* The oldest chunks go while there are more than twice the bytes to keep  *)
(* and more than one chunk.                                                *)
TrimTooFar(chunks) ==
  LET Fits(i) == Bytes(SubSeq(chunks, i, Len(chunks))) <= KeepBytes
      from == {i \in DOMAIN chunks : i = Len(chunks) \/ Fits(i)}
  IN SubSeq(chunks, CHOOSE i \in from : \A j \in from : i <= j, Len(chunks))

Trim(chunks) ==
  LET Fits(i) == Bytes(SubSeq(chunks, i, Len(chunks))) <= 2 * KeepBytes
      from == {i \in DOMAIN chunks : i = Len(chunks) \/ Fits(i)}
  IN SubSeq(chunks, CHOOSE i \in from : \A j \in from : i <= j, Len(chunks))

(* push_chunk: when the output grows beyond what is kept, the log begins   *)
(* with what the rolling buffer holds.                                     *)
PushChunk(chunk) ==
  /\ kept' = Append(kept, chunk)
  /\ log' = IF log # NoLog
            THEN [log EXCEPT !.chunks = Append(@, chunk)]
            ELSE IF Bytes(Append(kept, chunk)) > KeepBytes
            THEN [is |-> "log", chunks |-> Append(rolling, chunk)]
            ELSE NoLog
  /\ rolling' = Trim(Append(rolling, chunk))

(* The loop takes a chunk and reports it; after the exit it only drains    *)
(* what the channel holds.                                                 *)
ReceiveChunk ==
  /\ host = "core" /\ pc \in {"loop", "draining"} /\ channel # <<>>
  /\ PushChunk(Head(channel))
  /\ channel' = Tail(channel)
  /\ Goto(IF pc = "loop" THEN "updating" ELSE pc)
  /\ UNCHANGED <<host, world, stopped, killed, pluginVars, held, ended,
                 captured>>

SeeExit ==
  /\ host = "core" /\ pc = "loop" /\ child = "exited"
  /\ Goto("draining")
  /\ UNCHANGED <<host, world, stopped, killed, kept, pluginVars, coreVars>>

ReturnAtExit ==
  /\ host = "core" /\ pc = "draining"
  /\ Goto("returned")
  /\ UNCHANGED <<host, world, stopped, killed, kept, pluginVars, coreVars>>

Drained ==
  /\ host = "core" /\ pc = "draining" /\ channel = <<>>
  /\ Goto("returned")
  /\ UNCHANGED <<host, world, stopped, killed, kept, pluginVars, coreVars>>

(* The log cannot be written; kill_on_drop ends the child.                 *)
LogFails ==
  /\ host = "core" /\ pc \in {"loop", "draining"} /\ channel # <<>>
  /\ Bytes(Append(kept, Head(channel))) > KeepBytes
  /\ Goto("failed") /\ killed' = TRUE
  /\ UNCHANGED <<host, world, stopped, kept, pluginVars, coreVars>>

-----------------------------------------------------------------------------
(* The searches *)

(* read_all: a task reads its stream to the end.                           *)
CaptureChunk(s) ==
  /\ host \in Searches /\ ~Over /\ s \notin ended /\ pipe[s] # <<>>
  /\ captured' = [captured EXCEPT ![s] = Append(@, Head(pipe[s]))]
  /\ pipe' = [pipe EXCEPT ![s] = Tail(@)]
  /\ UNCHANGED <<host, child, open, written, stopped, killed, pc, kept,
                 pluginVars, held, ended, channel, rolling, log>>

WaitChild ==
  /\ host \in Searches /\ pc = "loop" /\ child = "exited"
  /\ Goto("joining")
  /\ UNCHANGED <<host, world, stopped, killed, kept, pluginVars, coreVars>>

JoinedAtExit == pc = "joining"

Joined == pc = "joining" /\ ended = Streams

(* Without output the exit code counts; that of a child which a signal     *)
(* ended counts as 0.                                                      *)
EndUnless(bad) ==
  /\ Joined
  /\ \E code \in 0 .. 2 :
       Goto(IF code \in bad /\ Text(captured["stdout"]) = <<>>
            THEN "failed" ELSE "returned")
  /\ UNCHANGED <<host, world, stopped, killed, kept, pluginVars, coreVars>>

RunFind == host = "find" /\ EndUnless({1, 2})

(* With 1 grep says that there is no match.                                *)
RunGrep == host = "grep" /\ EndUnless({2})

SearchStopped ==
  /\ host \in Searches /\ stopped /\ pc \in {"loop", "joining"}
  /\ Goto("failed") /\ killed' = TRUE
  /\ UNCHANGED <<host, world, stopped, kept, pluginVars, coreVars>>

-----------------------------------------------------------------------------
(* All of them *)

UpdateSent ==
  /\ pc = "updating"
  /\ Goto("loop")
  /\ UNCHANGED <<host, world, stopped, killed, kept, pluginVars, coreVars>>

(* The stop is one of the events the loop waits for.                       *)
SeeStopWhileRunning ==
  /\ stopped /\ child = "running"
  /\ \/ pc = "racing" /\ winner = None
     \/ host = "core" /\ pc = "loop"
  /\ Goto("failed") /\ killed' = TRUE
  /\ UNCHANGED <<host, world, stopped, kept, pluginVars, coreVars>>

SeeStop ==
  /\ stopped
  /\ \/ pc = "racing" /\ winner = None
     \/ host = "core" /\ pc = "loop"
  /\ Goto("failed") /\ killed' = TRUE
  /\ UNCHANGED <<host, world, stopped, kept, pluginVars, coreVars>>

World ==
  \/ \E s \in Streams : Close(s) \/ \E text \in ChunkTexts : Write(s, text)
  \/ Exit \/ Stop

Loop ==
  \/ BeginRound
  \/ \E event \in {Status} \cup {End(s) : s \in Streams} : SettleRace(event)
  \/ TakeWinner \/ EndLoop \/ UpdateThrows
  \/ ReceiveChunk \/ SeeExit \/ Drained \/ LogFails \/ UpdateSent
  \/ WaitChild \/ RunFind \/ RunGrep \/ SearchStopped \/ SeeStop

Reader(s) ==
  \/ Arrive(s) \/ ReadChunk(s) \/ SendChunk(s) \/ CaptureChunk(s)
  \/ ReaderEnds(s)

Next == World \/ Loop \/ \E s \in Streams : Reader(s)

(* The event loop and the tasks run; the child does as it likes.           *)
Fairness == WF_vars(Loop) /\ \A s \in Streams : WF_vars(Reader(s))

Spec == Init /\ [][Next]_vars /\ Fairness

-----------------------------------------------------------------------------

(* The chunks of a stream that have left its pipe, by number.              *)
Read(s) == 1 .. (Len(written[s]) - Len(pipe[s]))

(* What a call has taken and what waits in the core's channel.             *)
Arrived == kept \o channel

(* What a call keeps of a stream it keeps as it was written, in that order *)
(* and once.  The core keeps a prefix of it: of the chunks that have left  *)
(* the pipe, all but the one the reader holds have reached the channel,    *)
(* and those still in the pipe come behind them (read_stream,              *)
(* bash.rs:166-178).                                                       *)
OutputInOrder ==
  /\ \A i, j \in DOMAIN Arrived :
       i < j /\ Arrived[i].stream = Arrived[j].stream =>
         Arrived[i].n < Arrived[j].n
  /\ \A i \in DOMAIN Arrived :
       /\ Arrived[i].n \in Read(Arrived[i].stream)
       /\ Arrived[i] = written[Arrived[i].stream][Arrived[i].n]
  /\ \A s \in Streams :
       pipe[s] = SubSeq(written[s], Len(written[s]) - Len(pipe[s]) + 1,
                        Len(written[s]))
  /\ host = "core" => \A s \in Streams : \A n \in Read(s) :
       IF held[s] # None /\ n = Len(written[s]) - Len(pipe[s])
       THEN held[s] = written[s][n]
       ELSE \E i \in DOMAIN Arrived : Arrived[i] = written[s][n]
  /\ host \in Searches =>
       \A s \in Streams : captured[s] \o pipe[s] = written[s]

(* What is cut from the output a call has taken, its result tells.  The    *)
(* core's bash forgets the beginning of a long output, but shows what it   *)
(* would show of all it has taken, and its details say as well when some   *)
(* of that is cut: the rolling buffer ends with the last chunk and is      *)
(* never shorter than the tail that is shown.  When the output has more    *)
(* bytes than are shown, the log has every chunk taken from the first on   *)
(* (RollingOutput, bash.rs:260-299).  Nothing is claimed of the log when   *)
(* the output is cut by its lines alone: then there is none, although the  *)
(* description (bash.rs:58) promises it; nor of chunks that nobody has     *)
(* taken when the call returns.                                            *)
TailIsKept ==
  host = "core" =>
    /\ rolling = SubSeq(kept, Len(kept) - Len(rolling) + 1, Len(kept))
    /\ BuildResult(rolling) = BuildResult(kept)
    /\ Bytes(kept) > KeepBytes => log # NoLog /\ log.chunks = kept

(* A search that returns shows every result of all its program ever wrote, *)
(* whole and in order, or a notice in its text says why not: it does not   *)
(* end with the child but with the tasks that read (collect_child_output,  *)
(* process.rs:76-99; build_result, find.rs:257-293, grep.rs:266-303).  A   *)
(* result of find is the path as parse_paths makes it of a line: a name    *)
(* with a blank at either end or with a backslash is changed, and no       *)
(* notice says so.                                                         *)
SearchIsWhole ==
  host \in Searches /\ pc = "returned" =>
    LET result == SearchResult(Text(captured["stdout"]))
    IN \/ result.lines = Results(Text(written["stdout"]))
       \/ result.limited \/ result.cut \/ result.truncated

CutsAreTold == TailIsKept /\ SearchIsWhole

(* A call returns only when the child has exited.  In the plugin and the   *)
(* searches nothing is left to read: no chunk waits in a pipe and nobody   *)
(* can write another (execute.ts:54-56, process.rs:85-87).  The core has   *)
(* taken whatever had reached its channel (bash.rs:139-141, 180-188): at   *)
(* most the chunk each reader holds and those in the pipes are lost.       *)
ReturnMeansEnded ==
  pc = "returned" =>
    /\ child = "exited"
    /\ IF host = "core" THEN channel = <<>>
       ELSE open = {} /\ \A s \in Streams : pipe[s] = <<>>

(* A call that is stopped ends, and so does one whose child has exited, in *)
(* the plugin and the searches when the pipes are closed as well; reads    *)
(* that nobody waits for never hold it up (execute.ts:52-65,               *)
(* bash.rs:127-163, process.rs:52-65).                                     *)
CallEnds ==
  /\ stopped ~> Over
  /\ (child = "exited" /\ (host # "core" => open = {})) ~> Over

Of(chunks, s) == SelectSeq(chunks, LAMBDA chunk : chunk.stream = s)

(* "Returns stdout and stderr" (execute.ts:13): a call that returns has    *)
(* all that was written.                                                   *)
OutputKept ==
  (pc = "returned" /\ host = "plugin") =>
    \A s \in Streams : Of(kept, s) = written[s]

=============================================================================
