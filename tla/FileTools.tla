------------------------------ MODULE FileTools ------------------------------
(***************************************************************************)
(* The tools that change files: edit and write, in crates/iyon-core and as *)
(* the plugins of plugins/tools, which do the same steps.  A call takes    *)
(* its turn on its path (withMutation; FileMutationQueue in Rust), reads   *)
(* the file, works out the new text and writes it back, and asks at three  *)
(* places whether its run was aborted.                                     *)
(*                                                                         *)
(* A text is a sequence of characters, of which only the line ends and the *)
(* byte order mark mean something here; CR LF counts as one line end.      *)
(* Nobody but these calls changes the files: what a shell command or an    *)
(* editor does to them is outside the turns.                               *)
(***************************************************************************)
EXTENDS Naturals, Sequences, FiniteSets

CONSTANTS Calls,     \* the calls that may run at the same time
          Paths,     \* the resolved paths
          Characters,    \* what texts are made of
          Inputs,    \* what they are asked to do: functions from the calls to
                     \* Edit(..) and Write(..) records
          InitialFiles,  \* what the paths may hold at first
          None       \* no call

LF == "lf"
CRLF == "crlf"
CR == "cr"
BOM == "bom"

TextType == Seq(Characters)
FileType == [exists : BOOLEAN, text : TextType]
EditType == [old : TextType, new : TextType]
InputType ==
  [kind : {"edit", "write"}, path : Paths, content : TextType,
   edits : Seq(EditType)]

ASSUME NoneAssumption == None \notin Calls
ASSUME CharactersAssumption == {LF, CRLF, CR, BOM} \subseteq Characters
ASSUME InputsAssumption == Inputs \subseteq [Calls -> InputType]
ASSUME InitialFilesAssumption == InitialFiles \subseteq [Paths -> FileType]

VARIABLES
  files,      \* the text of each path, or Missing
  pending,    \* mutations.ts pending: the call each path's next one waits for
  released,   \* the calls whose promise in pending has been resolved
  asked,      \* history: the calls in the order in which they joined a path
  pc,         \* where each call is
  input,      \* what each call was asked to do
  previous,   \* the call each call waits for
  base,       \* what each call has read
  out,        \* the text each call is about to write
  aborted     \* the calls whose run was aborted

queueVars == <<pending, released, asked, previous>>
vars == <<files, queueVars, pc, input, base, out, aborted>>

Missing == [exists |-> FALSE, text |-> <<>>]
File(text) == [exists |-> TRUE, text |-> text]

Edit(path, edits) == [kind |-> "edit", path |-> path, edits |-> edits,
                      content |-> <<>>]
Write(path, content) == [kind |-> "write", path |-> path, edits |-> <<>>,
                         content |-> content]

-----------------------------------------------------------------------------
(* The texts *)

HasBom(text) == text # <<>> /\ text[1] = BOM
StripBom(text) == IF HasBom(text) THEN Tail(text) ELSE text

Holds(text, char) == \E i \in DOMAIN text : text[i] = char

LineEnding(text) ==
  IF Holds(text, CRLF) THEN CRLF ELSE IF Holds(text, CR) THEN CR ELSE LF

NormalizeToLf(text) ==
  [i \in DOMAIN text |-> IF text[i] \in {CRLF, CR} THEN LF ELSE text[i]]

RestoreLineEndings(text, ending) ==
  [i \in DOMAIN text |-> IF text[i] = LF THEN ending ELSE text[i]]

(* The places where old begins in text.                                    *)
Occurrences(text, old) ==
  {i \in 1 .. Len(text) - Len(old) + 1 :
     \A j \in DOMAIN old : text[i + j - 1] = old[j]}

First(places) == CHOOSE i \in places : \A j \in places : i <= j
Last(places) == CHOOSE i \in places : \A j \in places : j <= i

(* match_indices and matchAll go on behind the match they found.           *)
IsUnique(text, old) ==
  LET all == Occurrences(text, old)
  IN all # {} /\ Last(all) < First(all) + Len(old)

(* What an edit asks for: the text new in place of the text between the    *)
(* place from and the place behind it, to.                                 *)
Changes(text, edits) ==
  {LET old  == NormalizeToLf(edits[k].old)
       from == First(Occurrences(text, old))
   IN [edit |-> k, from |-> from, to |-> from + Len(old)] : k \in DOMAIN edits}

(* Neighbours in the order of their starts must not overlap.               *)
NonOverlapping(changes) ==
  \A x, y \in changes : x # y => x.to <= y.from \/ y.to <= x.from

Accepts(text, edits) ==
  /\ \A k \in DOMAIN edits : IsUnique(text, NormalizeToLf(edits[k].old))
  /\ NonOverlapping(Changes(text, edits))

Replace(text, edits, x) ==
  SubSeq(text, 1, x.from - 1) \o NormalizeToLf(edits[x.edit].new)
    \o SubSeq(text, x.to, Len(text))

(* The changes are made one after the other, the last place first.         *)
ApplyFirstPlaceFirst(text, edits, changes) ==
  LET after[done \in SUBSET changes] ==
        IF done = {} THEN text
        ELSE LET x == CHOOSE x \in done : \A y \in done : y.from <= x.from
             IN Replace(after[done \ {x}], edits, x)
  IN after[changes]

ApplyReplacements(text, edits, changes) ==
  LET after[done \in SUBSET changes] ==
        IF done = {} THEN text
        ELSE LET x == CHOOSE x \in done : \A y \in done : x.from <= y.from
             IN Replace(after[done \ {x}], edits, x)
  IN after[changes]

(* edit_file between its read and its write.                               *)
Edited(text, edits) ==
  LET body == StripBom(text)
      norm == NormalizeToLf(body)
      done == ApplyReplacements(norm, edits, Changes(norm, edits))
  IN (IF HasBom(text) THEN <<BOM>> ELSE <<>>)
       \o RestoreLineEndings(done, LineEnding(body))

(* What a call finds it cannot do with the text it has read.               *)
Refuses(in, file) ==
  /\ in.kind = "edit"
  /\ \/ ~file.exists
     \/ ~Accepts(NormalizeToLf(StripBom(file.text)), in.edits)

NewText(in, file) ==
  IF in.kind = "edit" THEN Edited(file.text, in.edits) ELSE in.content

-----------------------------------------------------------------------------
(* The calls *)

Settled == {"done", "failed"}

Init ==
  /\ files \in InitialFiles
  /\ pending = [p \in Paths |-> None] /\ released = {} /\ asked = <<>>
  /\ pc = [c \in Calls |-> "new"]
  /\ input \in Inputs
  /\ previous = [c \in Calls |-> None]
  /\ base = [c \in Calls |-> Missing] /\ out = [c \in Calls |-> <<>>]
  /\ aborted = {}

Path(c) == input[c].path

Goto(c, where) == pc' = [pc EXCEPT ![c] = where]

(* The run of a call is aborted while the call is under way.               *)
Abort(c) ==
  /\ c \notin aborted /\ pc[c] \notin Settled
  /\ aborted' = aborted \cup {c}
  /\ UNCHANGED <<files, queueVars, pc, input, base, out>>

(* The input is refused, the run aborted or the path outside.              *)
RefuseCall(c) ==
  /\ pc[c] = "new"
  /\ Goto(c, "failed")
  /\ UNCHANGED <<files, queueVars, input, base, out, aborted>>

(* withMutation up to its await: the call becomes the one that the next    *)
(* call on the path waits for.                                             *)
ForgetPrevious(c) == previous' = [previous EXCEPT ![c] = None]
WaitForPrevious(c) == previous' = [previous EXCEPT ![c] = pending[Path(c)]]

Join(c) ==
  /\ pc[c] = "new"
  /\ WaitForPrevious(c)
  /\ pending' = [pending EXCEPT ![Path(c)] = c]
  /\ asked' = Append(asked, c)
  /\ Goto(c, "waiting")
  /\ UNCHANGED <<files, released, input, base, out, aborted>>

ItsTurn(c) == pc[c] = "waiting" /\ previous[c] \in released \cup {None}

(* The end of the call's turn: the promise is resolved, and the entry goes *)
(* unless somebody has joined behind.                                      *)
KeepWhenFailed(c, how) ==
  /\ Goto(c, how)
  /\ released' = IF how = "done" THEN released \cup {c} ELSE released
  /\ pending' = [pending EXCEPT ![Path(c)] = IF @ = c THEN None ELSE @]
  /\ UNCHANGED <<asked, previous>>

Release(c, how) ==
  /\ Goto(c, how)
  /\ released' = released \cup {c}
  /\ pending' = [pending EXCEPT ![Path(c)] = IF @ = c THEN None ELSE @]
  /\ UNCHANGED <<asked, previous>>

GiveUpInTurn(c) ==
  /\ ItsTurn(c) /\ c \in aborted
  /\ Release(c, "failed")
  /\ UNCHANGED <<files, input, base, out, aborted>>

Read(c) ==
  /\ ItsTurn(c) /\ c \notin aborted
  /\ LET file == files[Path(c)] IN
     /\ base' = [base EXCEPT ![c] = file]
     /\ IF Refuses(input[c], file)
        THEN Goto(c, "refused") /\ out' = out
        ELSE Goto(c, "read")
               /\ out' = [out EXCEPT ![c] = NewText(input[c], file)]
  /\ UNCHANGED <<files, queueVars, input, aborted>>

(* Only edit asks again whether it was aborted before it writes.           *)
GiveUpRead(c) ==
  /\ \/ pc[c] = "refused"
     \/ pc[c] = "read" /\ input[c].kind = "edit" /\ c \in aborted
  /\ Release(c, "failed")
  /\ UNCHANGED <<files, input, base, out, aborted>>

(* Writing a file empties it first.                                        *)
OpenFile(c) ==
  /\ pc[c] = "read"
  /\ files' = [files EXCEPT ![Path(c)] = File(<<>>)]
  /\ Goto(c, "open")
  /\ UNCHANGED <<queueVars, input, base, out, aborted>>

FillFile(c) ==
  /\ pc[c] = "open"
  /\ files' = [files EXCEPT ![Path(c)] = File(out[c])]
  /\ Goto(c, "written")
  /\ UNCHANGED <<queueVars, input, base, out, aborted>>

(* The directory, the file or the disk refuses: in the last case the file  *)
(* stays empty.                                                            *)
WriteFails(c) ==
  /\ pc[c] \in {"read", "open"}
  /\ Release(c, "failed")
  /\ UNCHANGED <<files, input, base, out, aborted>>

(* An aborted call fails although its file is written.                     *)
Finish(c) ==
  /\ pc[c] = "written"
  /\ Release(c, IF c \in aborted THEN "failed" ELSE "done")
  /\ UNCHANGED <<files, input, base, out, aborted>>

CallStep(c) ==
  \/ Join(c) \/ GiveUpInTurn(c) \/ Read(c) \/ GiveUpRead(c) \/ OpenFile(c)
  \/ FillFile(c) \/ WriteFails(c) \/ Finish(c)

Next == \E c \in Calls : Abort(c) \/ RefuseCall(c) \/ CallStep(c)

(* The operating system answers and the event loop goes on.                *)
Fairness == \A c \in Calls : WF_vars(CallStep(c))

Spec == Init /\ [][Next]_vars /\ Fairness

-----------------------------------------------------------------------------

Behind(c, d) ==
  \E i, j \in DOMAIN asked : i < j /\ asked[i] = d /\ asked[j] = c

(* The calls on one path take turns in the order in which they joined,     *)
(* also past calls that fail or give up, and the last one leaves no entry  *)
(* behind (withMutation, mutations.ts:7-14).  So no update is lost: until  *)
(* a call opens the file to write it, the file is what the call has read   *)
(* and worked its new text out from, and what it wrote is there until it   *)
(* leaves (edit/execute.ts:26-40, write/execute.ts:21-28).                 *)
NoUpdateLost ==
  /\ \A c, d \in Calls :
       (Behind(c, d) /\ Path(c) = Path(d) /\ pc[c] # "waiting")
         => pc[d] \in Settled
  /\ \A p \in Paths :
       pending[p] = None <=>
         \A c \in Calls : Path(c) = p => pc[c] \in Settled \cup {"new"}
  /\ \A c \in Calls :
       /\ pc[c] = "read" => files[Path(c)] = base[c]
       /\ pc[c] = "written" => files[Path(c)] = File(out[c])

(* What stands in the new text for the place i of the old one.             *)
NewAt(text, edits, changes, ending, i) ==
  LET here == {x \in changes : x.from = i}
  IN IF here # {}
     THEN RestoreLineEndings(
            NormalizeToLf(edits[(CHOOSE x \in here : TRUE).edit].new), ending)
     ELSE IF \E x \in changes : x.from < i /\ i < x.to THEN <<>>
     ELSE <<text[i]>>

Concat(pieces) ==
  LET upTo[i \in 0 .. Len(pieces)] ==
        IF i = 0 THEN <<>> ELSE upTo[i - 1] \o pieces[i]
  IN upTo[Len(pieces)]

(* The text with every change made at its place.                           *)
Swapped(text, edits, changes, ending) ==
  Concat([i \in DOMAIN text |-> NewAt(text, edits, changes, ending, i)])

(* now is text with every change made at its place and nothing else        *)
(* changed: the byte order mark stays, and when the text uses one kind of  *)
(* line end, that one stays too and the new text uses it.                  *)
Exact(text, edits, now) ==
  LET body    == StripBom(text)
      norm    == NormalizeToLf(body)
      ending  == LineEnding(body)
      changes == Changes(norm, edits)
      mark    == IF HasBom(text) THEN <<BOM>> ELSE <<>>
      rest    == SubSeq(now, Len(mark) + 1, Len(now))
  IN /\ now = mark \o rest
     /\ NormalizeToLf(rest) = Swapped(norm, edits, changes, LF)
     /\ RestoreLineEndings(norm, ending) = body =>
          rest = Swapped(body, edits, changes, ending)

(* Every edit is matched against the original file, not incrementally      *)
(* (edit/execute.ts:19): all edits of a call take effect at once, wherever *)
(* they are and in whatever order they are given, and nothing around them  *)
(* changes.                                                                *)
EditsAreExact ==
  \A c \in Calls :
    (pc[c] = "written" /\ input[c].kind = "edit") =>
      Exact(base[c].text, input[c].edits, files[Path(c)].text)

(* A call that has joined is settled: whoever it waits for leaves, whether *)
(* it succeeds, fails or is aborted.                                       *)
JoinedCallsSettle ==
  \A c \in Calls : pc[c] = "waiting" ~> pc[c] \in Settled

=============================================================================
