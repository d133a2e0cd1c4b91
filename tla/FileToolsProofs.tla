--------------------------- MODULE FileToolsProofs ---------------------------
(***************************************************************************)
(* Machine-checked proofs about FileTools, for any calls, paths, texts and *)
(* edits: the inductive invariant of the turns that calls take on a path,  *)
(* hence that no update of a file is lost; and that making the accepted    *)
(* edits one after the other, the last place first, is making each at its  *)
(* place in the text that was read, hence that edits are exact.            *)
(***************************************************************************)
EXTENDS FileTools, SequenceTheorems, FiniteSetTheorems,
        WellFoundedInduction, TLAPS

USE NoneAssumption DEF Settled

-----------------------------------------------------------------------------
(* The inductive invariant.  NoUpdateLost by itself says nothing of a call *)
(* that waits, and a call that waits asks only one other whether it has    *)
(* left: what it may conclude about all that joined before it is the part  *)
(* that has to be found.                                                   *)

InTurn == {"read", "refused", "open", "written"}

Joined(c) == \E i \in DOMAIN asked : asked[i] = c

TypeInv ==
  /\ DOMAIN files = Paths
  /\ pending \in [Paths -> Calls \cup {None}]
  /\ released \subseteq Calls
  /\ asked \in Seq(Calls)
  /\ pc \in [Calls -> {"new", "waiting"} \cup InTurn \cup Settled]
  /\ previous \in [Calls -> Calls \cup {None}]
  /\ DOMAIN base = Calls /\ DOMAIN out = Calls
  /\ \A c \in Calls : Path(c) \in Paths

\* A call joins once, and its promise is resolved when it has left.
Queued ==
  /\ \A c \in Calls : ~Behind(c, c)
  /\ \A c \in Calls : pc[c] = "new" => ~Joined(c)
  /\ \A c \in Calls : pc[c] \in InTurn \cup {"waiting"} => Joined(c)
  /\ \A c \in Calls : c \in released <=> Joined(c) /\ pc[c] \in Settled

\* Whoever has had its turn had it after all that joined before it.
InOrder ==
  \A c, d \in Calls :
    (Behind(c, d) /\ Path(c) = Path(d) /\ pc[c] # "waiting")
      => pc[d] \in Settled

\* The call that a waiting call waits for is the last one before it, and
\* with nobody to wait for all before it have left.
Waiting ==
  \A c \in Calls : pc[c] = "waiting" =>
    /\ previous[c] # None => Path(previous[c]) = Path(c)
    /\ \A d \in Calls : (Behind(c, d) /\ Path(c) = Path(d)) =>
         \/ pc[d] \in Settled
         \/ previous[c] = d
         \/ previous[c] # None /\ Behind(previous[c], d)

\* The entry of a path is the last call that has joined it, until all left.
Entry ==
  /\ \A p \in Paths : pending[p] # None =>
       /\ Path(pending[p]) = p
       /\ pc[pending[p]] \in InTurn \cup {"waiting"}
       /\ \A d \in Calls : (Joined(d) /\ Path(d) = p) =>
            d = pending[p] \/ Behind(pending[p], d)
  /\ \A p \in Paths : pending[p] = None =>
       \A c \in Calls : Path(c) = p => pc[c] \in Settled \cup {"new"}

\* Between its read and its write a call finds in the file what it left.
Untouched ==
  \A c \in Calls :
    /\ pc[c] = "read" => files[Path(c)] = base[c]
    /\ pc[c] = "written" => files[Path(c)] = File(out[c])

IInv == TypeInv /\ Queued /\ InOrder /\ Waiting /\ Entry /\ Untouched

-----------------------------------------------------------------------------
(* The order of the calls.                                                 *)

\* Two calls that have joined: one is behind the other.
LEMMA OneIsBehind ==
  ASSUME TypeInv, NEW c \in Calls, NEW d \in Calls, c # d,
         Joined(c), Joined(d)
  PROVE  Behind(c, d) \/ Behind(d, c)
<1>1. PICK i, j \in DOMAIN asked : asked[i] = c /\ asked[j] = d
  BY DEF Joined
<1>2. i \in Nat /\ j \in Nat /\ i # j
  BY <1>1 DEF TypeInv
<1> QED BY <1>1, <1>2 DEF Behind

\* Who is behind a call, and who is before it, has joined.
LEMMA BehindJoined ==
  ASSUME NEW c, NEW d, Behind(c, d)
  PROVE  Joined(c) /\ Joined(d)
BY DEF Behind, Joined

\* While nobody joins, the order stays.
LEMMA SameOrder ==
  ASSUME asked' = asked
  PROVE  \A c, d \in Calls : /\ Behind(c, d)' <=> Behind(c, d)
                             /\ Joined(c)' <=> Joined(c)
BY DEF Behind, Joined

\* A call that joins is behind all that have joined, and nothing else
\* changes.
LEMMA JoinOrder ==
  ASSUME TypeInv, NEW c \in Calls, asked' = Append(asked, c)
  PROVE  /\ asked' \in Seq(Calls)
         /\ \A d \in Calls : Joined(d)' <=> d = c \/ Joined(d)
         /\ \A d, e \in Calls :
              Behind(d, e)' <=> Behind(d, e) \/ (d = c /\ Joined(e))
<1> DEFINE n == Len(asked)
<1>1. /\ asked' \in Seq(Calls) /\ n \in Nat
      /\ DOMAIN asked = 1..n /\ DOMAIN asked' = 1..(n + 1)
      /\ asked'[n + 1] = c /\ \A i \in 1..n : asked'[i] = asked[i]
  BY DEF TypeInv
<1> HIDE DEF n
<1>2. ASSUME NEW d \in Calls
      PROVE  Joined(d)' <=> d = c \/ Joined(d)
  BY <1>1 DEF Joined
<1>3. ASSUME NEW d \in Calls, NEW e \in Calls
      PROVE  Behind(d, e)' <=> Behind(d, e) \/ (d = c /\ Joined(e))
  <2>1. Behind(d, e) => Behind(d, e)'
    BY <1>1 DEF Behind
  <2>2. d = c /\ Joined(e) => Behind(d, e)'
    BY <1>1 DEF Behind, Joined
  <2>3. Behind(d, e)' => Behind(d, e) \/ (d = c /\ Joined(e))
    BY <1>1 DEF Behind, Joined
  <2> QED BY <2>1, <2>2, <2>3
<1> QED BY <1>1, <1>2, <1>3

\* A call whose turn it is has nobody before it who has not left.
LEMMA ItsTurnIsIts ==
  ASSUME IInv, NEW c \in Calls, pc[c] \in InTurn \/ ItsTurn(c),
         NEW d \in Calls, Behind(c, d), Path(c) = Path(d)
  PROVE  pc[d] \in Settled
<1>1. CASE pc[c] \in InTurn
  BY <1>1 DEF IInv, InOrder, InTurn
<1>2. CASE ItsTurn(c)
  <2>1. pc[c] = "waiting" /\ previous[c] \in released \cup {None}
    BY <1>2 DEF ItsTurn
  <2>2. CASE previous[c] = None
    BY <2>1, <2>2 DEF IInv, Waiting
  <2>3. CASE previous[c] # None
    <3>1. /\ previous[c] \in Calls /\ pc[previous[c]] \in Settled
          /\ Path(previous[c]) = Path(c)
      BY <2>1, <2>3 DEF IInv, TypeInv, Queued, Waiting
    <3>2. pc[previous[c]] # "waiting"
      BY <3>1
    <3> QED BY <2>1, <2>3, <3>1, <3>2 DEF IInv, Waiting, InOrder
  <2> QED BY <2>2, <2>3
<1> QED BY <1>1, <1>2

\* At most one call of a path is in its turn.
LEMMA OneAtATime ==
  ASSUME IInv, NEW c \in Calls, NEW d \in Calls, c # d, Path(c) = Path(d),
         pc[c] \in InTurn \/ ItsTurn(c), pc[d] \in InTurn
  PROVE  FALSE
<1>1. Joined(c) /\ Joined(d)
  BY DEF IInv, Queued, ItsTurn
<1>2. Behind(c, d) \/ Behind(d, c)
  BY <1>1, OneIsBehind DEF IInv
<1>3. ~Behind(c, d)
  BY ItsTurnIsIts DEF InTurn
<1>4. ~Behind(d, c)
  <2>1. SUFFICES ASSUME Behind(d, c) PROVE FALSE
    OBVIOUS
  <2>2. pc[c] \in Settled
    BY <2>1, ItsTurnIsIts
  <2> QED BY <2>2 DEF InTurn, ItsTurn
<1> QED BY <1>2, <1>3, <1>4

-----------------------------------------------------------------------------
(* The steps.                                                              *)

\* Nothing has joined at first.
LEMMA InitIInv ==
  ASSUME Init
  PROVE  IInv
<1>1. TypeInv
  BY InputsAssumption, InitialFilesAssumption
     DEF Init, TypeInv, Path, InputType
<1>2. \A c, d \in Calls : ~Behind(c, d) /\ ~Joined(c)
  BY DEF Init, Behind, Joined
<1>3. Queued /\ InOrder /\ Waiting /\ Entry /\ Untouched
  BY <1>2, <1>1 DEF Init, Queued, InOrder, Waiting, Entry, Untouched, InTurn,
     TypeInv
<1> QED BY <1>1, <1>3 DEF IInv

\* A step of a call inside its turn: what it may do to the files is only to
\* its own path.
LEMMA TurnGoesOn ==
  ASSUME IInv, NEW c \in Calls, pc[c] \in InTurn \/ ItsTurn(c),
         UNCHANGED <<queueVars, input>>,
         NEW where \in InTurn, Goto(c, where),
         DOMAIN files' = Paths,
         \A p \in Paths : p # Path(c) => files'[p] = files[p],
         DOMAIN base' = Calls, DOMAIN out' = Calls,
         \A d \in Calls : d # c => base'[d] = base[d] /\ out'[d] = out[d],
         where = "read" => files'[Path(c)] = base'[c],
         where = "written" => files'[Path(c)] = File(out'[c])
  PROVE  IInv'
<1>1. /\ \A d, e \in Calls : Behind(d, e)' <=> Behind(d, e)
      /\ \A d \in Calls : Joined(d)' <=> Joined(d)
      /\ \A d \in Calls : Path(d)' = Path(d)
  BY SameOrder DEF queueVars, Path
<1>2. /\ pc'[c] = where /\ \A d \in Calls : d # c => pc'[d] = pc[d]
      /\ pc[c] \in InTurn \cup {"waiting"}
  BY DEF Goto, IInv, TypeInv, ItsTurn
<1>3. TypeInv'
  BY <1>1, <1>2 DEF IInv, TypeInv, Goto, queueVars
<1>4. Queued'
  BY <1>1, <1>2 DEF IInv, Queued, queueVars, InTurn
<1>5. InOrder'
  <2>1. SUFFICES ASSUME NEW d \in Calls, NEW e \in Calls, Behind(d, e),
                        Path(d) = Path(e), pc'[d] # "waiting"
                 PROVE  pc'[e] \in Settled
    BY <1>1 DEF InOrder
  <2>2. CASE d = c
    BY <1>2, <2>1, <2>2, ItsTurnIsIts DEF IInv, Queued
  <2>3. CASE d # c
    <3>1. pc[e] \in Settled
      BY <1>2, <2>1, <2>3 DEF IInv, InOrder
    <3> QED BY <1>2, <3>1 DEF InTurn
  <2> QED BY <2>2, <2>3
<1>6. Waiting'
  BY <1>1, <1>2 DEF IInv, Waiting, queueVars, InTurn, TypeInv
<1>7. Entry'
  BY <1>1, <1>2 DEF IInv, Entry, queueVars, InTurn, TypeInv
<1>8. Untouched'
  <2>1. SUFFICES ASSUME NEW d \in Calls, pc'[d] \in {"read", "written"}
                 PROVE  /\ pc'[d] = "read" => files'[Path(d)] = base'[d]
                        /\ pc'[d] = "written" =>
                             files'[Path(d)] = File(out'[d])
    BY <1>1 DEF Untouched, File
  <2>2. CASE d = c
    BY <1>2, <2>2
  <2>3. CASE d # c
    <3>1. pc[d] \in InTurn /\ pc'[d] = pc[d]
      BY <1>2, <2>1, <2>3 DEF InTurn
    <3>2. Path(d) # Path(c) /\ Path(d) \in Paths
      BY <3>1, <2>3, OneAtATime DEF IInv, TypeInv
    <3> QED BY <3>1, <3>2, <2>3 DEF IInv, Untouched
  <2> QED BY <2>2, <2>3
<1> QED BY <1>3, <1>4, <1>5, <1>6, <1>7, <1>8 DEF IInv

\* The end of a turn.
LEMMA TurnEnds ==
  ASSUME IInv, NEW c \in Calls, pc[c] \in InTurn \/ ItsTurn(c),
         NEW how \in Settled, Release(c, how),
         UNCHANGED <<files, input, base, out>>
  PROVE  IInv'
<1>1. /\ \A d, e \in Calls : Behind(d, e)' <=> Behind(d, e)
      /\ \A d \in Calls : Joined(d)' <=> Joined(d)
      /\ \A d \in Calls : Path(d)' = Path(d)
  BY SameOrder DEF Release, Path
<1>2. /\ pc'[c] = how /\ \A d \in Calls : d # c => pc'[d] = pc[d]
      /\ pc[c] \in InTurn \cup {"waiting"} /\ Path(c) \in Paths
      /\ \A p \in Paths :
           pending'[p] = IF p = Path(c) /\ pending[p] = c THEN None
                         ELSE pending[p]
  BY DEF Goto, Release, IInv, TypeInv, ItsTurn
<1>3. TypeInv'
  BY <1>1, <1>2 DEF IInv, TypeInv, Goto, Release
<1>4. Queued'
  BY <1>1, <1>2 DEF IInv, Queued, Release, InTurn
<1>5. InOrder'
  <2>1. SUFFICES ASSUME NEW d \in Calls, NEW e \in Calls, Behind(d, e),
                        Path(d) = Path(e), pc'[d] # "waiting"
                 PROVE  pc'[e] \in Settled
    BY <1>1 DEF InOrder
  <2>2. CASE d = c
    BY <1>2, <2>1, <2>2, ItsTurnIsIts DEF IInv, Queued
  <2>3. CASE d # c
    BY <1>2, <2>1, <2>3 DEF IInv, InOrder
  <2> QED BY <2>2, <2>3
<1>6. Waiting'
  BY <1>1, <1>2 DEF IInv, Waiting, Release, InTurn, TypeInv
<1>7. Entry'
  <2>1. ASSUME NEW p \in Paths, pending'[p] # None
        PROVE  /\ Path(pending'[p]) = p
               /\ pc'[pending'[p]] \in InTurn \cup {"waiting"}
               /\ \A d \in Calls : (Joined(d) /\ Path(d) = p) =>
                    d = pending'[p] \/ Behind(pending'[p], d)
    <3>1. pending'[p] = pending[p] /\ pending[p] \in Calls
      BY <1>2, <2>1 DEF IInv, TypeInv
    <3>2. Path(pending[p]) = p
      BY <2>1, <3>1 DEF IInv, Entry
    <3>3. pending[p] # c
      BY <1>2, <2>1, <3>1, <3>2
    <3> QED BY <1>2, <2>1, <3>1, <3>2, <3>3 DEF IInv, Entry
  <2>2. ASSUME NEW p \in Paths, pending'[p] = None,
               NEW d \in Calls, Path(d) = p
        PROVE  pc'[d] \in Settled \cup {"new"}
    <3>1. CASE pending[p] = None
      BY <1>2, <2>2, <3>1 DEF IInv, Entry
    <3>2. CASE pending[p] # None
      <4>1. pending[p] = c /\ p = Path(c)
        BY <1>2, <2>2, <3>2
      <4>2. Joined(d) => d = c \/ Behind(c, d)
        BY <2>2, <4>1, <3>2 DEF IInv, Entry
      <4>3. Behind(c, d) => pc[d] \in Settled
        BY <2>2, <4>1, ItsTurnIsIts
      <4>4. ~Joined(d) => pc[d] \in Settled \cup {"new"}
        BY DEF IInv, Queued, TypeInv
      <4> QED BY <1>2, <4>2, <4>3, <4>4
    <3> QED BY <3>1, <3>2
  <2>3. \A p \in Paths : pending'[p] # None => pending'[p] \in Calls
    BY <1>3 DEF TypeInv
  <2> QED BY <1>1, <2>1, <2>2, <2>3 DEF Entry
<1>8. Untouched'
  BY <1>1, <1>2 DEF IInv, Untouched, File, TypeInv
<1> QED BY <1>3, <1>4, <1>5, <1>6, <1>7, <1>8 DEF IInv

\* A call joins: it waits for the last one, which has them all before it.
LEMMA JoinStep ==
  ASSUME IInv, NEW c \in Calls, Join(c)
  PROVE  IInv'
<1> DEFINE last == pending[Path(c)]
<1>1. /\ pc[c] = "new" /\ pc'[c] = "waiting"
      /\ \A d \in Calls : d # c => pc'[d] = pc[d]
      /\ Path(c) \in Paths /\ last \in Calls \cup {None}
      /\ previous'[c] = last
      /\ \A d \in Calls : d # c => previous'[d] = previous[d]
      /\ pending'[Path(c)] = c
      /\ \A p \in Paths : p # Path(c) => pending'[p] = pending[p]
      /\ \A d \in Calls : Path(d)' = Path(d)
      /\ UNCHANGED <<files, released, base, out>>
  BY DEF Join, WaitForPrevious, Goto, IInv, TypeInv, Path
<1>2. /\ \A d \in Calls : Joined(d)' <=> d = c \/ Joined(d)
      /\ \A d, e \in Calls :
           Behind(d, e)' <=> Behind(d, e) \/ (d = c /\ Joined(e))
      /\ asked' \in Seq(Calls)
  BY JoinOrder DEF Join, IInv
<1>3. ~Joined(c) /\ \A d \in Calls : ~Behind(d, c) /\ ~Behind(c, d)
  BY <1>1, BehindJoined DEF IInv, Queued
<1>4. TypeInv'
  BY <1>1, <1>2 DEF IInv, TypeInv, Goto, Join, WaitForPrevious
<1>5. Queued'
  BY <1>1, <1>2, <1>3 DEF IInv, Queued, InTurn
<1>6. InOrder'
  BY <1>1, <1>2, <1>3 DEF IInv, InOrder
<1>7. Waiting'
  <2>1. ASSUME NEW e \in Calls, e # c, pc'[e] = "waiting"
        PROVE  /\ previous'[e] # None => Path(previous'[e]) = Path(e)
               /\ \A d \in Calls : (Behind(e, d)' /\ Path(e) = Path(d)) =>
                    \/ pc'[d] \in Settled
                    \/ previous'[e] = d
                    \/ previous'[e] # None /\ Behind(previous[e], d)
    BY <1>1, <1>2, <1>3, <2>1 DEF IInv, Waiting
  <2>2. last # None => Path(last) = Path(c)
    BY <1>1 DEF IInv, Entry
  <2>3. ASSUME NEW d \in Calls, Behind(c, d)', Path(c) = Path(d)
        PROVE  \/ pc'[d] \in Settled
               \/ last = d
               \/ last # None /\ Behind(last, d)
    <3>1. Joined(d) /\ d # c /\ pc[d] # "new"
      BY <1>2, <1>3, <2>3 DEF IInv, Queued
    <3> QED BY <1>1, <2>3, <3>1 DEF IInv, Entry
  <2>4. \A e \in Calls : previous'[e] # None => previous'[e] \in Calls
    BY <1>4 DEF TypeInv
  <2>5. \A e, d \in Calls : Behind(e, d) => Behind(e, d)'
    BY <1>2
  <2> HIDE DEF last
  <2> QED BY <1>1, <2>1, <2>2, <2>3, <2>4, <2>5 DEF Waiting
<1>8. Entry'
  BY <1>1, <1>2, <1>3, <1>4 DEF IInv, Entry, InTurn, TypeInv
<1>9. Untouched'
  BY <1>1 DEF IInv, Untouched, File
<1> QED BY <1>4, <1>5, <1>6, <1>7, <1>8, <1>9 DEF IInv

\* A call that is refused has not joined.
LEMMA RefuseStep ==
  ASSUME IInv, NEW c \in Calls, RefuseCall(c)
  PROVE  IInv'
<1>1. /\ \A d, e \in Calls : Behind(d, e)' <=> Behind(d, e)
      /\ \A d \in Calls : Joined(d)' <=> Joined(d)
      /\ \A d \in Calls : Path(d)' = Path(d)
  BY SameOrder DEF RefuseCall, queueVars, Path
<1>2. /\ pc[c] = "new" /\ pc'[c] = "failed"
      /\ \A d \in Calls : d # c => pc'[d] = pc[d]
      /\ UNCHANGED <<files, queueVars, input, base, out>>
  BY DEF RefuseCall, Goto, IInv, TypeInv
<1>3. ~Joined(c) /\ \A d \in Calls : ~Behind(d, c) /\ ~Behind(c, d)
  BY <1>2, BehindJoined DEF IInv, Queued
<1>4. TypeInv'
  BY <1>1, <1>2 DEF IInv, TypeInv, Goto, RefuseCall, queueVars
<1>5. Queued'
  BY <1>1, <1>2, <1>3 DEF IInv, Queued, queueVars, InTurn
<1>6. InOrder' /\ Waiting'
  BY <1>1, <1>2, <1>3 DEF IInv, InOrder, Waiting, queueVars, TypeInv
<1>7. Entry'
  BY <1>1, <1>2 DEF IInv, Entry, queueVars, InTurn, TypeInv
<1>8. Untouched'
  BY <1>1, <1>2 DEF IInv, Untouched, File
<1> QED BY <1>4, <1>5, <1>6, <1>7, <1>8 DEF IInv

\* A step that changes nothing but who is aborted.
LEMMA AbortStep ==
  ASSUME IInv, UNCHANGED <<files, queueVars, pc, input, base, out>>
  PROVE  IInv'
<1>1. /\ \A d, e \in Calls : Behind(d, e)' <=> Behind(d, e)
      /\ \A d \in Calls : Joined(d)' <=> Joined(d)
      /\ \A d \in Calls : Path(d)' = Path(d)
  BY SameOrder DEF queueVars, Path
<1>2. TypeInv' /\ Queued' /\ InOrder'
  BY <1>1 DEF IInv, TypeInv, Queued, InOrder, queueVars
<1>3. Waiting' /\ Entry' /\ Untouched'
  BY <1>1 DEF IInv, TypeInv, Waiting, Entry, Untouched, File, queueVars
<1> QED BY <1>2, <1>3 DEF IInv

-----------------------------------------------------------------------------

\* Every step keeps the inductive invariant.
LEMMA NextIInv ==
  ASSUME IInv, [Next]_vars
  PROVE  IInv'
<1>1. ASSUME NEW c \in Calls, GiveUpInTurn(c)
      PROVE  IInv'
  BY <1>1, TurnEnds DEF GiveUpInTurn
<1>2. ASSUME NEW c \in Calls, GiveUpRead(c)
      PROVE  IInv'
  <2>1. pc[c] \in InTurn /\ Release(c, "failed")
    BY <1>2 DEF GiveUpRead, InTurn
  <2> QED BY <1>2, <2>1, TurnEnds DEF GiveUpRead
<1>3. ASSUME NEW c \in Calls, WriteFails(c)
      PROVE  IInv'
  <2>1. pc[c] \in InTurn /\ Release(c, "failed")
    BY <1>3 DEF WriteFails, InTurn
  <2> QED BY <1>3, <2>1, TurnEnds DEF WriteFails
<1>4. ASSUME NEW c \in Calls, Finish(c)
      PROVE  IInv'
  <2>1. pc[c] \in InTurn
        /\ Release(c, IF c \in aborted THEN "failed" ELSE "done")
    BY <1>4 DEF Finish, InTurn
  <2> QED BY <1>4, <2>1, TurnEnds DEF Finish
<1>5. ASSUME NEW c \in Calls, Read(c)
      PROVE  IInv'
  <2>1. PICK where \in {"refused", "read"} : Goto(c, where)
    BY <1>5 DEF Read
  <2>2. /\ ItsTurn(c) /\ where \in InTurn
        /\ UNCHANGED <<files, queueVars, input>>
        /\ base' = [base EXCEPT ![c] = files[Path(c)]]
    BY <1>5, <2>1 DEF Read, InTurn
  <2>3. /\ DOMAIN out' = Calls
        /\ \A d \in Calls : d # c => out'[d] = out[d]
    BY <1>5 DEF Read, IInv, TypeInv
  <2>4. /\ DOMAIN files = Paths /\ DOMAIN base' = Calls
        /\ base'[c] = files'[Path(c)]
        /\ \A d \in Calls : d # c => base'[d] = base[d]
    BY <2>2 DEF IInv, TypeInv
  <2> QED BY <2>1, <2>2, <2>3, <2>4, TurnGoesOn
<1>6. ASSUME NEW c \in Calls, OpenFile(c)
      PROVE  IInv'
  <2>1. /\ pc[c] \in InTurn /\ Goto(c, "open") /\ "open" \in InTurn
        /\ UNCHANGED <<queueVars, input, base, out>>
        /\ files' = [files EXCEPT ![Path(c)] = File(<<>>)]
    BY <1>6 DEF OpenFile, InTurn
  <2>2. /\ DOMAIN files' = Paths /\ DOMAIN base' = Calls
        /\ DOMAIN out' = Calls
        /\ \A p \in Paths : p # Path(c) => files'[p] = files[p]
    BY <2>1 DEF IInv, TypeInv
  <2> QED BY <2>1, <2>2, TurnGoesOn
<1>7. ASSUME NEW c \in Calls, FillFile(c)
      PROVE  IInv'
  <2>1. /\ pc[c] \in InTurn /\ Goto(c, "written") /\ "written" \in InTurn
        /\ UNCHANGED <<queueVars, input, base, out>>
        /\ files' = [files EXCEPT ![Path(c)] = File(out[c])]
    BY <1>7 DEF FillFile, InTurn
  <2>2. /\ DOMAIN files' = Paths /\ DOMAIN base' = Calls
        /\ DOMAIN out' = Calls
        /\ \A p \in Paths : p # Path(c) => files'[p] = files[p]
        /\ files'[Path(c)] = File(out'[c])
    BY <2>1 DEF IInv, TypeInv
  <2> QED BY <2>1, <2>2, TurnGoesOn
<1>8. ASSUME NEW c \in Calls, Abort(c)
      PROVE  IInv'
  BY <1>8, AbortStep DEF Abort
<1>9. CASE UNCHANGED vars
  BY <1>9, AbortStep DEF vars
<1> QED BY <1>1, <1>2, <1>3, <1>4, <1>5, <1>6, <1>7, <1>8, <1>9,
           JoinStep, RefuseStep DEF Next, CallStep

\* The turns on a path and the files are in step in every reachable state.
THEOREM TurnsAreKept == Spec => []IInv
<1>1. Init => IInv
  BY InitIInv
<1>2. IInv /\ [Next]_vars => IInv'
  BY NextIInv
<1> QED BY <1>1, <1>2, PTL DEF Spec

\* However many calls edit and write the same files, fail, give up or are
\* aborted: they take turns in the order in which they joined, and what a
\* call bases its text on is there until it writes it (withMutation,
\* mutations.ts:7-14; FileMutationQueue, fs/mutation_queue.rs).
THEOREM UpdatesAreKept == Spec => []NoUpdateLost
<1>1. IInv => NoUpdateLost
  <2>1. ASSUME IInv, NEW p \in Paths, pending[p] # None
        PROVE  \E c \in Calls : Path(c) = p /\ pc[c] \notin Settled \cup {"new"}
    <3>1. /\ pending[p] \in Calls /\ Path(pending[p]) = p
          /\ pc[pending[p]] \in InTurn \cup {"waiting"}
      BY <2>1 DEF IInv, TypeInv, Entry
    <3> QED BY <3>1 DEF InTurn
  <2>2. IInv => \A p \in Paths :
          pending[p] = None <=>
            \A c \in Calls : Path(c) = p => pc[c] \in Settled \cup {"new"}
    BY <2>1 DEF IInv, Entry
  <2> QED BY <2>2 DEF IInv, InOrder, Untouched, NoUpdateLost
<1> QED BY <1>1, TurnsAreKept, PTL

HIDE NoneAssumption DEF Settled

-----------------------------------------------------------------------------
(* Texts.  A text is put together from pieces, and what is said of one is  *)
(* shown by induction on its length: a set of numbers that holds 0, and    *)
(* with each number the next, holds them all.                              *)

\* A set of numbers that is not empty has a least one.
LEMMA LeastNat ==
  ASSUME NEW T, T \subseteq Nat, T # {}
  PROVE  \E x \in T : \A y \in T : x <= y
<1> DEFINE R == {ss \in Nat \X Nat : ss[1] < ss[2]}
<1>1. IsWellFoundedOn(R, Nat)
  BY NatLessThanWellFounded, Zenon DEF OpToRel
<1> HIDE DEF R
<1>2. PICK x \in T : \A y \in T : ~ (<<y, x>> \in R)
  BY <1>1, WFMin
<1>3. ASSUME NEW y \in T PROVE x <= y
  <2>1. x \in Nat /\ y \in Nat
    OBVIOUS
  <2>2. ~(y < x)
    BY <1>2, <2>1 DEF R
  <2> QED BY <2>1, <2>2
<1> QED BY <1>3

\* A set that holds 0, and with each number the next, holds them all: the
\* induction that the lemmas about texts use.
LEMMA SetInduction ==
  ASSUME NEW S, 0 \in S, \A n \in Nat : n \in S => n + 1 \in S
  PROVE  Nat \subseteq S
<1> DEFINE T == Nat \ S
<1> SUFFICES ASSUME T # {} PROVE FALSE
  OBVIOUS
<1> HIDE DEF T
<1>1. PICK x \in T : \A y \in T : x <= y
  BY LeastNat DEF T
<1>2. x \in Nat /\ x # 0 /\ x \notin S
  BY DEF T
<1>3. x - 1 \in Nat /\ ~(x <= x - 1) /\ (x - 1) + 1 = x
  BY <1>2
<1>4. x - 1 \in S
  BY <1>1, <1>3 DEF T
<1> QED BY <1>2, <1>3, <1>4

\* A set that holds the empty sequence, and with each sequence those that are
\* one longer, holds them all.
LEMMA SequenceInduction ==
  ASSUME NEW A, NEW T, <<>> \in T,
         \A s \in Seq(A), e \in A : s \in T => Append(s, e) \in T
  PROVE  Seq(A) \subseteq T
<1> DEFINE S == {n \in Nat : \A s \in Seq(A) : Len(s) = n => s \in T}
<1>1. 0 \in S
  BY EmptySeq
<1>2. ASSUME NEW n \in Nat, n \in S PROVE n + 1 \in S
  <2> SUFFICES ASSUME NEW s \in Seq(A), Len(s) = n + 1 PROVE s \in T
    OBVIOUS
  <2>1. PICK t \in Seq(A), e \in A : s = Append(t, e)
    <3>1. s # <<>>
      BY EmptySeq
    <3> QED BY <3>1, SequenceEmptyOrAppend
  <2>2. Len(t) = n
    <3>1. Len(s) = Len(t) + 1 /\ Len(t) \in Nat
      BY <2>1, AppendProperties, LenProperties
    <3> QED BY <3>1
  <2> QED BY <1>2, <2>1, <2>2
<1>3. Nat \subseteq S
  <2> HIDE DEF S
  <2> QED BY <1>1, <1>2, SetInduction
<1> QED BY <1>3, LenProperties

\* Texts are sequences: the laws of joining them, for a text that is not
\* looked into.
LEMMA TextLaws ==
  /\ <<>> \in TextType
  /\ \A s, t \in TextType : s \o t \in TextType
  /\ \A s \in TextType : s \o <<>> = s /\ <<>> \o s = s
  /\ \A s, t, u \in TextType : (s \o t) \o u = s \o (t \o u)
<1> USE DEF TextType
<1>1. <<>> \in TextType
  BY EmptySeq
<1>2. \A s, t \in TextType : s \o t \in TextType
  BY ConcatProperties
<1>3. \A s \in TextType : s \o <<>> = s /\ <<>> \o s = s
  BY ConcatEmptySeq
<1>4. \A s, t, u \in TextType : (s \o t) \o u = s \o (t \o u)
  BY ConcatAssociative
<1> QED BY <1>1, <1>2, <1>3, <1>4

\* What Concat defines exists, and is computed piece by piece.
LEMMA ConcatEquation ==
  ASSUME NEW c \in Seq(TextType)
  PROVE  \E f \in [0..Len(c) -> TextType] :
           /\ f[0] = <<>>
           /\ \A i \in 1..Len(c) : f[i] = f[i - 1] \o c[i]
           /\ Concat(c) = f[Len(c)]
<1>1. Len(c) \in Nat /\ \A i \in 1..Len(c) : c[i] \in TextType
  BY LenProperties, ElementOfSeq
<1> DEFINE Adds(f, n) ==
             f = [i \in 0..n |-> IF i = 0 THEN <<>> ELSE f[i - 1] \o c[i]]
           S == {n \in Nat : n <= Len(c) =>
                   \E f \in [0..n -> TextType] : Adds(f, n)}
<1>2. 0 \in S
  <2> DEFINE f == [i \in 0..0 |-> <<>>]
  <2>1. f \in [0..0 -> TextType]
    BY TextLaws
  <2>2. Adds(f, 0)
    OBVIOUS
  <2> QED BY <2>1, <2>2
<1>3. ASSUME NEW n \in Nat, n \in S PROVE n + 1 \in S
  <2> HIDE DEF Adds
  <2> SUFFICES ASSUME n + 1 <= Len(c)
               PROVE  \E f \in [0..n + 1 -> TextType] : Adds(f, n + 1)
    OBVIOUS
  <2>1. n <= Len(c) /\ n + 1 \in 1..Len(c)
    BY <1>1
  <2>2. PICK f \in [0..n -> TextType] : Adds(f, n)
    BY <1>3, <2>1
  <2> USE DEF Adds
  <2> DEFINE g == [i \in 0..n + 1 |-> IF i <= n THEN f[i]
                                      ELSE f[n] \o c[n + 1]]
  <2>3. f[n] \o c[n + 1] \in TextType
    BY <1>1, <2>1, <2>2, TextLaws
  <2>4. \A i \in 0..n + 1 : i <= n => i \in 0..n
    OBVIOUS
  <2>5. g \in [0..n + 1 -> TextType]
    BY <2>3, <2>4
  <2>6. ASSUME NEW i \in 0..n + 1
        PROVE  g[i] = IF i = 0 THEN <<>> ELSE g[i - 1] \o c[i]
    <3>1. CASE i = n + 1
      BY <3>1
    <3>2. CASE i <= n
      <4>1. i \in 0..n /\ (i # 0 => i - 1 \in 0..n + 1 /\ i - 1 <= n)
        BY <3>2
      <4>2. f[i] = IF i = 0 THEN <<>> ELSE f[i - 1] \o c[i]
        BY <2>2, <4>1
      <4> QED BY <3>2, <4>1, <4>2
    <3> QED BY <3>1, <3>2
  <2>7. Adds(g, n + 1)
    BY <2>6
  <2> HIDE DEF g, Adds
  <2> QED BY <2>5, <2>7
<1>4. Nat \subseteq S
  <2> HIDE DEF S
  <2> QED BY <1>2, <1>3, SetInduction
<1>5. PICK f \in [0..Len(c) -> TextType] : Adds(f, Len(c))
  <2> HIDE DEF Adds
  <2> QED BY <1>1, <1>4
<1> DEFINE upTo == CHOOSE g : Adds(g, Len(c))
<1>6. Adds(upTo, Len(c))
  <2> HIDE DEF Adds
  <2> QED BY <1>5
<1>7. Concat(c) = upTo[Len(c)]
  BY DEF Concat
<1>8. upTo[0] = <<>> /\ \A i \in 1..Len(c) : upTo[i] = upTo[i - 1] \o c[i]
  <2> HIDE DEF upTo
  <2>1. \A i \in 0..Len(c) :
          upTo[i] = IF i = 0 THEN <<>> ELSE upTo[i - 1] \o c[i]
    BY <1>6
  <2>2. 0 \in 0..Len(c) /\ \A i \in 1..Len(c) : i \in 0..Len(c) /\ i # 0
    BY <1>1
  <2> QED BY ONLY <2>1, <2>2
<1>9. upTo \in [0..Len(c) -> TextType]
  <2> HIDE DEF upTo
  <2>1. DOMAIN upTo = 0..Len(c) /\ upTo = [i \in 0..Len(c) |-> upTo[i]]
    BY <1>6
  <2> DEFINE U == {n \in Nat : n <= Len(c) => upTo[n] \in TextType}
  <2>2. 0 \in U
    BY <1>8, TextLaws
  <2>3. ASSUME NEW n \in Nat, n \in U PROVE n + 1 \in U
    <3> SUFFICES ASSUME n + 1 <= Len(c)
                 PROVE  upTo[n + 1] \in TextType
      OBVIOUS
    <3>1. n + 1 \in 1..Len(c) /\ n <= Len(c) /\ (n + 1) - 1 = n
      BY <1>1
    <3>2. upTo[n] \in TextType
      BY <2>3, <3>1
    <3>3. upTo[n + 1] = upTo[n] \o c[n + 1]
      BY <1>8, <3>1
    <3>4. c[n + 1] \in TextType
      BY <1>1, <3>1
    <3> QED BY <3>2, <3>3, <3>4, TextLaws
  <2>4. Nat \subseteq U
    <3> HIDE DEF U
    <3> QED BY <2>2, <2>3, SetInduction
  <2> QED BY <2>1, <2>4
<1> HIDE DEF upTo
<1> QED BY <1>7, <1>8, <1>9



\* No pieces make no text, pieces make a text, and a piece more adds itself.
LEMMA ConcatOfAppend ==
  ASSUME NEW c \in Seq(TextType), NEW x \in TextType
  PROVE  Concat(Append(c, x)) = Concat(c) \o x
<1> DEFINE d == Append(c, x)
<1>1. /\ d \in Seq(TextType) /\ Len(d) = Len(c) + 1 /\ Len(c) \in Nat
      /\ d[Len(c) + 1] = x /\ \A i \in 1..Len(c) : d[i] = c[i]
  BY AppendProperties, LenProperties
<1> HIDE DEF d
<1>2. PICK f \in [0..Len(c) -> TextType] :
        /\ f[0] = <<>>
        /\ \A i \in 1..Len(c) : f[i] = f[i - 1] \o c[i]
        /\ Concat(c) = f[Len(c)]
  BY ConcatEquation
<1>3. PICK g \in [0..Len(d) -> TextType] :
        /\ g[0] = <<>>
        /\ \A i \in 1..Len(d) : g[i] = g[i - 1] \o d[i]
        /\ Concat(d) = g[Len(d)]
  BY <1>1, ConcatEquation
<1> DEFINE S == {n \in Nat : n <= Len(c) => f[n] = g[n]}
<1>4. 0 \in S
  BY <1>2, <1>3
<1>5. ASSUME NEW n \in Nat, n \in S PROVE n + 1 \in S
  <2> SUFFICES ASSUME n + 1 <= Len(c) PROVE f[n + 1] = g[n + 1]
    OBVIOUS
  <2>1. /\ n + 1 \in 1..Len(c) /\ n + 1 \in 1..Len(d) /\ n <= Len(c)
        /\ (n + 1) - 1 = n
    BY <1>1
  <2>2. f[n + 1] = f[n] \o c[n + 1]
    BY <1>2, <2>1
  <2>3. g[n + 1] = g[n] \o c[n + 1]
    BY <1>1, <1>3, <2>1
  <2> QED BY <1>5, <2>1, <2>2, <2>3
<1>6. f[Len(c)] = g[Len(c)]
  <2>1. Nat \subseteq S
    <3> HIDE DEF S
    <3> QED BY <1>4, <1>5, SetInduction
  <2>2. Len(c) \in S
    BY <1>1, <2>1
  <2> QED BY <2>2
<1>7. Len(d) \in 1..Len(d) /\ Len(d) - 1 = Len(c)
  BY <1>1
<1> QED BY <1>1, <1>2, <1>3, <1>6, <1>7 DEF d

\* No pieces make no text, and pieces make a text.
LEMMA ConcatTypes ==
  /\ Concat(<<>>) = <<>>
  /\ \A c \in Seq(TextType) : Concat(c) \in TextType
<1>1. ASSUME NEW c \in Seq(TextType) PROVE Concat(c) \in TextType
  <2>1. PICK f \in [0..Len(c) -> TextType] : Concat(c) = f[Len(c)]
    BY ConcatEquation
  <2>2. Len(c) \in 0..Len(c)
    BY LenProperties
  <2> QED BY <2>1, <2>2
<1>2. Concat(<<>>) = <<>>
  <2>1. <<>> \in Seq(TextType) /\ Len(<<>>) = 0
    BY EmptySeq
  <2>2. PICK f \in [0..Len(<<>>) -> TextType] :
          f[0] = <<>> /\ Concat(<<>>) = f[Len(<<>>)]
    BY <2>1, ConcatEquation
  <2> QED BY <2>1, <2>2
<1> QED BY <1>1, <1>2

\* The pieces of two lists one behind the other.
LEMMA ConcatOfConcat ==
  ASSUME NEW a \in Seq(TextType), NEW b \in Seq(TextType)
  PROVE  Concat(a \o b) = Concat(a) \o Concat(b)
<1> DEFINE T == {s \in Seq(TextType) : Concat(a \o s) = Concat(a) \o Concat(s)}
<1>1. <<>> \in T
  <2>1. a \o <<>> = a /\ <<>> \in Seq(TextType)
    BY ConcatEmptySeq, EmptySeq
  <2>2. Concat(a) \o Concat(<<>>) = Concat(a)
    BY ConcatTypes, TextLaws
  <2> QED BY <2>1, <2>2
<1>2. ASSUME NEW s \in Seq(TextType), NEW e \in TextType, s \in T
      PROVE  Append(s, e) \in T
  <2>1. /\ a \o s \in Seq(TextType) /\ <<e>> \in Seq(TextType)
        /\ Append(s, e) \in Seq(TextType)
    BY ConcatProperties, AppendProperties
  <2>2. a \o Append(s, e) = Append(a \o s, e)
    <3>1. Append(a \o s, e) = (a \o s) \o <<e>> /\ Append(s, e) = s \o <<e>>
      BY <2>1, AppendIsConcat
    <3>2. (a \o s) \o <<e>> = a \o (s \o <<e>>)
      BY <2>1, ConcatAssociative
    <3> QED BY <3>1, <3>2
  <2>3. Concat(a \o Append(s, e)) = Concat(a \o s) \o e
    BY <2>1, <2>2, ConcatOfAppend
  <2>4. Concat(Append(s, e)) = Concat(s) \o e
    BY ConcatOfAppend
  <2>5. Concat(a \o s) = Concat(a) \o Concat(s)
    BY <1>2
  <2>6. (Concat(a) \o Concat(s)) \o e = Concat(a) \o (Concat(s) \o e)
    <3>1. Concat(a) \in TextType /\ Concat(s) \in TextType
      BY ConcatTypes
    <3> QED BY <3>1, TextLaws
  <2> QED BY <2>1, <2>3, <2>4, <2>5, <2>6
<1>3. Seq(TextType) \subseteq T
  <2> HIDE DEF T
  <2> QED BY <1>1, <1>2, SequenceInduction
<1> QED BY <1>3

\* A list of pieces that is not empty ends with one.
LEMMA LastPiece ==
  ASSUME NEW d \in Seq(TextType), d # <<>>
  PROVE  \E b \in Seq(TextType), x \in TextType : d = Append(b, x)
BY SequenceEmptyOrAppend

\* Pieces of one character each are the text they are taken from.
LEMMA ConcatOfSingles ==
  ASSUME NEW t \in TextType, NEW c \in Seq(TextType), Len(c) = Len(t),
         \A i \in 1..Len(t) : c[i] = <<t[i]>>
  PROVE  Concat(c) = t
<1> DEFINE T == {s \in TextType : \A d \in Seq(TextType) :
                   Len(d) = Len(s) /\ (\A i \in 1..Len(s) : d[i] = <<s[i]>>)
                     => Concat(d) = s}
<1>1. <<>> \in T
  <2>1. \A d \in Seq(TextType) : Len(d) = Len(<<>>) => d = <<>>
    BY EmptySeq
  <2> QED BY <2>1, TextLaws, ConcatTypes
<1>2. ASSUME NEW s \in Seq(Characters), NEW e \in Characters, s \in T
      PROVE  Append(s, e) \in T
  <2>1. /\ Append(s, e) \in TextType /\ Len(Append(s, e)) = Len(s) + 1
        /\ Append(s, e)[Len(s) + 1] = e /\ Len(s) \in Nat
        /\ \A i \in 1..Len(s) : Append(s, e)[i] = s[i]
    BY AppendProperties, LenProperties DEF TextType
  <2> SUFFICES ASSUME NEW d \in Seq(TextType), Len(d) = Len(s) + 1,
                      \A i \in 1..Len(s) + 1 : d[i] = <<Append(s, e)[i]>>
               PROVE  Concat(d) = Append(s, e)
    BY <2>1
  <2>2. PICK b \in Seq(TextType), x \in TextType : d = Append(b, x)
    <3>1. d # <<>>
      BY <2>1, EmptySeq
    <3> QED BY <3>1, LastPiece
  <2>3. /\ Len(d) = Len(b) + 1 /\ d[Len(b) + 1] = x /\ Len(b) \in Nat
        /\ \A i \in 1..Len(b) : d[i] = b[i]
    BY <2>2, AppendProperties, LenProperties
  <2>4. Len(b) = Len(s)
    BY <2>1, <2>3
  <2>5. x = <<e>>
    <3>1. Len(s) + 1 \in 1..Len(s) + 1
      BY <2>1
    <3> QED BY <2>1, <2>3, <2>4, <3>1
  <2>6. \A i \in 1..Len(s) : b[i] = <<s[i]>>
    <3>1. \A i \in 1..Len(s) : i \in 1..Len(s) + 1
      BY <2>1
    <3> QED BY <2>1, <2>3, <2>4, <3>1
  <2>7. Concat(b) = s
    BY <1>2, <2>4, <2>6
  <2>8. Append(s, e) = s \o <<e>>
    BY AppendIsConcat
  <2>9. Concat(d) = Concat(b) \o x
    BY <2>2, ConcatOfAppend
  <2> QED BY <2>5, <2>7, <2>8, <2>9
<1>3. Seq(Characters) \subseteq T
  <2> HIDE DEF T
  <2> QED BY <1>1, <1>2, SequenceInduction
<1> QED BY <1>3 DEF TextType

\* Empty pieces make no text.
LEMMA ConcatOfEmpties ==
  ASSUME NEW c \in Seq(TextType), \A i \in 1..Len(c) : c[i] = <<>>
  PROVE  Concat(c) = <<>>
<1> DEFINE T == {s \in Seq(TextType) :
                   (\A i \in 1..Len(s) : s[i] = <<>>) => Concat(s) = <<>>}
<1>1. <<>> \in T
  BY EmptySeq, ConcatTypes
<1>2. ASSUME NEW s \in Seq(TextType), NEW e \in TextType, s \in T
      PROVE  Append(s, e) \in T
  <2>1. /\ Append(s, e) \in Seq(TextType) /\ Len(Append(s, e)) = Len(s) + 1
        /\ Append(s, e)[Len(s) + 1] = e /\ Len(s) \in Nat
        /\ \A i \in 1..Len(s) : Append(s, e)[i] = s[i]
    BY AppendProperties, LenProperties
  <2> SUFFICES ASSUME \A i \in 1..Len(s) + 1 : Append(s, e)[i] = <<>>
               PROVE  Concat(Append(s, e)) = <<>>
    BY <2>1
  <2>2. /\ Len(s) + 1 \in 1..Len(s) + 1
        /\ \A i \in 1..Len(s) : i \in 1..Len(s) + 1
    BY <2>1
  <2>3. e = <<>> /\ \A i \in 1..Len(s) : s[i] = <<>>
    BY <2>1, <2>2
  <2>4. Concat(s) = <<>>
    BY <1>2, <2>3
  <2>5. <<>> \o <<>> = <<>>
    BY TextLaws
  <2> QED BY <2>3, <2>4, <2>5, ConcatOfAppend
<1>3. Seq(TextType) \subseteq T
  <2> HIDE DEF T
  <2> QED BY <1>1, <1>2, SequenceInduction
<1> QED BY <1>3

\* What restoring line ends does to a text: it keeps the length, it is done
\* to each part of a joined text by itself, and LF for LF changes nothing.
LEMMA RestoreTypes ==
  ASSUME NEW t \in TextType, NEW e \in Characters
  PROVE  /\ RestoreLineEndings(t, e) \in TextType
         /\ Len(RestoreLineEndings(t, e)) = Len(t)
         /\ \A i \in 1..Len(t) :
              RestoreLineEndings(t, e)[i] = IF t[i] = LF THEN e ELSE t[i]
<1> DEFINE r == [i \in 1..Len(t) |-> IF t[i] = LF THEN e ELSE t[i]]
<1>1. /\ Len(t) \in Nat /\ DOMAIN t = 1..Len(t)
      /\ \A i \in 1..Len(t) : t[i] \in Characters
  BY LenProperties, ElementOfSeq DEF TextType
<1>2. r \in Seq(Characters) /\ DOMAIN r = 1..Len(t)
  BY <1>1
<1>3. Len(r) = Len(t)
  BY <1>1, <1>2, LenProperties
<1>4. RestoreLineEndings(t, e) = r
  BY <1>1 DEF RestoreLineEndings
<1> QED BY <1>2, <1>3, <1>4 DEF TextType

\* A joined text is restored part by part.
LEMMA RestoreOfConcat ==
  ASSUME NEW s \in TextType, NEW t \in TextType, NEW e \in Characters
  PROVE  RestoreLineEndings(s \o t, e)
           = RestoreLineEndings(s, e) \o RestoreLineEndings(t, e)
<1> DEFINE rs == RestoreLineEndings(s, e)
           rt == RestoreLineEndings(t, e)
           u  == s \o t
           ru == RestoreLineEndings(u, e)
<1>1. /\ u \in TextType /\ Len(u) = Len(s) + Len(t)
      /\ \A i \in 1..Len(s) + Len(t) :
           u[i] = IF i <= Len(s) THEN s[i] ELSE t[i - Len(s)]
      /\ Len(s) \in Nat /\ Len(t) \in Nat
  BY ConcatProperties, LenProperties DEF TextType
<1> HIDE DEF u
<1>2. /\ rs \in TextType /\ Len(rs) = Len(s)
      /\ \A i \in 1..Len(s) : rs[i] = IF s[i] = LF THEN e ELSE s[i]
      /\ rt \in TextType /\ Len(rt) = Len(t)
      /\ \A i \in 1..Len(t) : rt[i] = IF t[i] = LF THEN e ELSE t[i]
      /\ ru \in TextType /\ Len(ru) = Len(u)
      /\ \A i \in 1..Len(u) : ru[i] = IF u[i] = LF THEN e ELSE u[i]
  BY <1>1, RestoreTypes
<1> HIDE DEF rs, rt, ru
<1>3. /\ rs \o rt \in TextType /\ Len(rs \o rt) = Len(rs) + Len(rt)
      /\ \A i \in 1..Len(rs) + Len(rt) :
           (rs \o rt)[i] = IF i <= Len(rs) THEN rs[i] ELSE rt[i - Len(rs)]
  <2>1. rs \in Seq(Characters) /\ rt \in Seq(Characters)
    BY <1>2 DEF TextType
  <2> QED BY ONLY <2>1, ConcatProperties DEF TextType
<1>4. ASSUME NEW i \in 1..Len(u) PROVE ru[i] = (rs \o rt)[i]
  <2>1. CASE i <= Len(s)
    <3>1. i \in 1..Len(s)
      BY <1>1, <2>1
    <3> QED BY <1>1, <1>2, <1>3, <2>1, <3>1
  <2>2. CASE ~(i <= Len(s))
    <3>1. i - Len(s) \in 1..Len(t) /\ i \in 1..Len(s) + Len(t)
      BY <1>1, <2>2
    <3>2. ru[i] = IF t[i - Len(s)] = LF THEN e ELSE t[i - Len(s)]
      BY ONLY <1>1, <1>2, <2>2, <3>1
    <3>3. (rs \o rt)[i] = rt[i - Len(s)]
      BY ONLY <1>2, <1>3, <2>2, <3>1
    <3>4. rt[i - Len(s)] = IF t[i - Len(s)] = LF THEN e ELSE t[i - Len(s)]
      BY ONLY <1>2, <3>1
    <3> QED BY ONLY <3>2, <3>3, <3>4
  <2> QED BY <2>1, <2>2
<1>5. ru = rs \o rt
  BY <1>1, <1>2, <1>3, <1>4, SeqEqual DEF TextType
<1> QED BY <1>5 DEF ru, rs, rt, u

\* A text made of pieces is restored piece by piece.
LEMMA RestoreOfPieces ==
  ASSUME NEW p \in Seq(TextType), NEW q \in Seq(TextType),
         NEW e \in Characters, Len(p) = Len(q),
         \A i \in 1..Len(p) : q[i] = RestoreLineEndings(p[i], e)
  PROVE  Concat(q) = RestoreLineEndings(Concat(p), e)
<1> DEFINE T == {s \in Seq(TextType) : \A d \in Seq(TextType) :
                   Len(d) = Len(s)
                     /\ (\A i \in 1..Len(s) :
                           d[i] = RestoreLineEndings(s[i], e))
                   => Concat(d) = RestoreLineEndings(Concat(s), e)}
<1>1. <<>> \in T
  <2>1. \A d \in Seq(TextType) : Len(d) = Len(<<>>) => d = <<>>
    BY EmptySeq
  <2>2. RestoreLineEndings(<<>>, e) = <<>>
    <3>1. RestoreLineEndings(<<>>, e) \in Seq(Characters)
            /\ Len(RestoreLineEndings(<<>>, e)) = 0
      BY RestoreTypes, TextLaws, EmptySeq DEF TextType
    <3> QED BY <3>1, EmptySeq
  <2> QED BY <2>1, <2>2, EmptySeq, ConcatTypes
<1>2. ASSUME NEW s \in Seq(TextType), NEW f \in TextType, s \in T
      PROVE  Append(s, f) \in T
  <2>1. /\ Append(s, f) \in Seq(TextType) /\ Len(Append(s, f)) = Len(s) + 1
        /\ Append(s, f)[Len(s) + 1] = f /\ Len(s) \in Nat
        /\ \A i \in 1..Len(s) : Append(s, f)[i] = s[i]
    BY AppendProperties, LenProperties
  <2> SUFFICES ASSUME NEW d \in Seq(TextType), Len(d) = Len(s) + 1,
                      \A i \in 1..Len(s) + 1 :
                        d[i] = RestoreLineEndings(Append(s, f)[i], e)
               PROVE  Concat(d) = RestoreLineEndings(Concat(Append(s, f)), e)
    BY <2>1
  <2>2. PICK b \in Seq(TextType), x \in TextType : d = Append(b, x)
    <3>1. d # <<>>
      BY <2>1, EmptySeq
    <3> QED BY <3>1, LastPiece
  <2>3. /\ Len(d) = Len(b) + 1 /\ d[Len(b) + 1] = x /\ Len(b) \in Nat
        /\ \A i \in 1..Len(b) : d[i] = b[i]
    BY <2>2, AppendProperties, LenProperties
  <2>4. Len(b) = Len(s)
    BY <2>1, <2>3
  <2>5. x = RestoreLineEndings(f, e)
    <3>1. Len(s) + 1 \in 1..Len(s) + 1
      BY <2>1
    <3> QED BY <2>1, <2>3, <2>4, <3>1
  <2>6. \A i \in 1..Len(s) : b[i] = RestoreLineEndings(s[i], e)
    <3>1. \A i \in 1..Len(s) : i \in 1..Len(s) + 1
      BY <2>1
    <3> QED BY <2>1, <2>3, <2>4, <3>1
  <2>7. Concat(b) = RestoreLineEndings(Concat(s), e)
    BY <1>2, <2>4, <2>6
  <2>8. Concat(d) = Concat(b) \o x /\ Concat(Append(s, f)) = Concat(s) \o f
    BY <2>2, ConcatOfAppend
  <2>9. Concat(s) \in TextType
    BY ConcatTypes
  <2>10. RestoreLineEndings(Concat(s) \o f, e)
           = RestoreLineEndings(Concat(s), e) \o RestoreLineEndings(f, e)
    BY ONLY <2>9, e \in Characters, f \in TextType, RestoreOfConcat
  <2> QED BY ONLY <2>5, <2>7, <2>8, <2>10
<1>3. Seq(TextType) \subseteq T
  <2> HIDE DEF T
  <2> QED BY <1>1, <1>2, SequenceInduction
<1> QED BY <1>3

\* The pieces up to a place and those behind it.
LEMMA CutPieces ==
  ASSUME NEW c \in Seq(TextType), NEW k \in 0..Len(c)
  PROVE  /\ SubSeq(c, 1, k) \in Seq(TextType)
         /\ SubSeq(c, k + 1, Len(c)) \in Seq(TextType)
         /\ Concat(c) = Concat(SubSeq(c, 1, k))
                          \o Concat(SubSeq(c, k + 1, Len(c)))
<1>1. Len(c) \in Nat /\ k \in Nat /\ k <= Len(c)
      /\ \A i \in 1..Len(c) : c[i] \in TextType
  BY LenProperties, ElementOfSeq
<1>2. 1 \in 1..Len(c) + 1 /\ k \in 1 - 1..Len(c) /\ Len(c) \in k..Len(c)
  BY <1>1
<1>3. SubSeq(c, 1, k) \o SubSeq(c, k + 1, Len(c)) = SubSeq(c, 1, Len(c))
  BY <1>2, ConcatAdjacentSubSeq
<1>4. SubSeq(c, 1, Len(c)) = c
  BY SubSeqFull
<1>5. SubSeq(c, 1, k) \in Seq(TextType)
  <2>1. \A i \in 1..k : c[i] \in TextType
    BY <1>1
  <2> QED BY <1>1, <2>1, SubSeqProperties
<1>6. SubSeq(c, k + 1, Len(c)) \in Seq(TextType)
  <2>1. \A i \in k + 1..Len(c) : c[i] \in TextType
    BY <1>1
  <2> QED BY <1>1, <2>1, SubSeqProperties
<1>7. Concat(SubSeq(c, 1, k) \o SubSeq(c, k + 1, Len(c)))
        = Concat(SubSeq(c, 1, k)) \o Concat(SubSeq(c, k + 1, Len(c)))
  BY <1>5, <1>6, ConcatOfConcat
<1> QED BY <1>3, <1>4, <1>5, <1>6, <1>7

\* Pieces of which the first ones are single characters of a text.
LEMMA FirstSingles ==
  ASSUME NEW c \in Seq(TextType), NEW t \in TextType, NEW k \in 0..Len(c),
         k <= Len(t), \A i \in 1..k : c[i] = <<t[i]>>
  PROVE  Concat(SubSeq(c, 1, k)) = SubSeq(t, 1, k)
<1>1. Len(c) \in Nat /\ k \in Nat /\ k <= Len(c) /\ Len(t) \in Nat
      /\ \A i \in 1..Len(c) : c[i] \in TextType
  BY LenProperties, ElementOfSeq DEF TextType
<1>2. /\ SubSeq(c, 1, k) \in Seq(TextType) /\ Len(SubSeq(c, 1, k)) = k
      /\ \A i \in 1..k : SubSeq(c, 1, k)[i] = c[i]
  <2>1. \A i \in 1..k : c[i] \in TextType
    BY <1>1
  <2> QED BY <1>1, <2>1, SubSeqProperties
<1>3. /\ SubSeq(t, 1, k) \in TextType /\ Len(SubSeq(t, 1, k)) = k
      /\ \A i \in 1..k : SubSeq(t, 1, k)[i] = t[i]
  <2>1. \A i \in 1..k : t[i] \in Characters
    BY <1>1, ElementOfSeq DEF TextType
  <2> QED BY <1>1, <2>1, SubSeqProperties DEF TextType
<1> QED BY <1>2, <1>3, ConcatOfSingles

\* A piece with nothing but empty pieces behind it.
LEMMA OneFullPiece ==
  ASSUME NEW c \in Seq(TextType), Len(c) >= 1,
         \A i \in 2..Len(c) : c[i] = <<>>
  PROVE  Concat(c) = c[1]
<1> DEFINE d == SubSeq(c, 2, Len(c))
<1>1. Len(c) \in Nat /\ 1 \in 1..Len(c) /\ Len(c) \in 1..Len(c)
      /\ \A i \in 1..Len(c) : c[i] \in TextType
  BY LenProperties, ElementOfSeq
<1>2. /\ d \in Seq(TextType) /\ Len(d) = Len(c) - 1
      /\ \A i \in 1..Len(c) - 1 : d[i] = c[i + 1]
  <2>1. \A i \in 2..Len(c) : c[i] \in TextType
    BY <1>1
  <2>2. /\ d \in Seq(TextType)
        /\ Len(d) = IF 2 <= Len(c) THEN Len(c) - 2 + 1 ELSE 0
        /\ \A i \in 1..Len(c) - 2 + 1 : d[i] = c[2 + i - 1]
    BY <1>1, <2>1, SubSeqProperties
  <2>3. /\ Len(c) - 2 + 1 = Len(c) - 1
        /\ \A i \in 1..Len(c) - 1 : 2 + i - 1 = i + 1
    BY <1>1
  <2> HIDE DEF d
  <2>4. Len(d) = Len(c) - 1
    <3>1. PICK n \in Nat : n = Len(c) /\ n >= 1
      BY <1>1
    <3>2. Len(d) = IF 2 <= n THEN n - 2 + 1 ELSE 0
      BY <2>2, <3>1
    <3>3. Len(d) = n - 1
      BY ONLY <3>1, <3>2
    <3> QED BY <3>1, <3>3
  <2> QED BY <2>2, <2>3, <2>4
<1>3. c = <<c[1]>> \o d
  <2>1. SubSeq(c, 1, Len(c)) = <<c[1]>> \o SubSeq(c, 1 + 1, Len(c))
    BY <1>1, SubSeqRecursiveFirst
  <2>2. 1 + 1 = 2
    OBVIOUS
  <2> QED BY <2>1, <2>2, SubSeqFull
<1> HIDE DEF d
<1>4. \A i \in 1..Len(d) : d[i] = <<>>
  <2>1. \A i \in 1..Len(d) : i \in 1..Len(c) - 1 /\ i + 1 \in 2..Len(c)
    BY <1>1, <1>2
  <2> QED BY <1>2, <2>1
<1>5. Concat(d) = <<>>
  BY <1>2, <1>4, ConcatOfEmpties
<1>6. <<c[1]>> \in Seq(TextType) /\ Concat(<<c[1]>>) = c[1]
  <2>1. <<>> \in Seq(TextType) /\ <<c[1]>> = Append(<<>>, c[1])
    BY <1>1, EmptySeq
  <2>2. Concat(Append(<<>>, c[1])) = Concat(<<>>) \o c[1]
    BY <1>1, <2>1, ConcatOfAppend
  <2>3. Append(<<>>, c[1]) \in Seq(TextType)
    BY <1>1, <2>1, AppendProperties
  <2>4. Concat(<<>>) \o c[1] = c[1]
    BY <1>1, ConcatTypes, TextLaws
  <2> QED BY <2>1, <2>2, <2>3, <2>4
<1>7. Concat(c) = Concat(<<c[1]>>) \o Concat(d)
  BY <1>2, <1>3, <1>6, ConcatOfConcat
<1> QED BY <1>1, <1>5, <1>6, <1>7, TextLaws

\* The parts of a joined text.
LEMMA PartsOfConcat ==
  ASSUME NEW s \in TextType, NEW r \in TextType, NEW k \in 0..Len(s)
  PROVE  /\ SubSeq(s \o r, 1, k) = SubSeq(s, 1, k)
         /\ SubSeq(s \o r, Len(s) + 1, Len(s \o r)) = r
<1> DEFINE u == s \o r
<1>1. /\ u \in TextType /\ Len(u) = Len(s) + Len(r)
      /\ \A i \in 1..Len(s) + Len(r) :
           u[i] = IF i <= Len(s) THEN s[i] ELSE r[i - Len(s)]
      /\ Len(s) \in Nat /\ Len(r) \in Nat /\ k \in Nat /\ k <= Len(s)
  BY ConcatProperties, LenProperties DEF TextType
<1> HIDE DEF u
<1>2. /\ \A i \in 1..Len(u) : u[i] \in Characters
      /\ \A i \in 1..Len(s) : s[i] \in Characters
  BY <1>1, ElementOfSeq DEF TextType
<1>3. SubSeq(u, 1, k) = SubSeq(s, 1, k)
  <2>1. /\ SubSeq(u, 1, k) \in TextType /\ Len(SubSeq(u, 1, k)) = k
        /\ \A i \in 1..k : SubSeq(u, 1, k)[i] = u[i]
    <3>1. \A i \in 1..k : u[i] \in Characters
      BY <1>1, <1>2
    <3> QED BY <1>1, <3>1, SubSeqProperties DEF TextType
  <2>2. /\ SubSeq(s, 1, k) \in TextType /\ Len(SubSeq(s, 1, k)) = k
        /\ \A i \in 1..k : SubSeq(s, 1, k)[i] = s[i]
    <3>1. \A i \in 1..k : s[i] \in Characters
      BY <1>1, <1>2
    <3> QED BY <1>1, <3>1, SubSeqProperties DEF TextType
  <2>3. \A i \in 1..k : u[i] = s[i]
    BY <1>1
  <2> QED BY <2>1, <2>2, <2>3, SeqEqual DEF TextType
<1>4. SubSeq(u, Len(s) + 1, Len(u)) = r
  <2> DEFINE v == SubSeq(u, Len(s) + 1, Len(u))
  <2>1. /\ v \in TextType /\ Len(v) = Len(r)
        /\ \A i \in 1..Len(r) : v[i] = u[Len(s) + i]
    <3>1. \A i \in Len(s) + 1..Len(u) : u[i] \in Characters
      BY <1>1, <1>2
    <3>2. /\ v \in Seq(Characters)
          /\ Len(v) = IF Len(s) + 1 <= Len(u)
                      THEN Len(u) - (Len(s) + 1) + 1 ELSE 0
          /\ \A i \in 1..Len(u) - (Len(s) + 1) + 1 :
               v[i] = u[Len(s) + 1 + i - 1]
      BY <1>1, <3>1, SubSeqProperties
    <3>3. Len(u) - (Len(s) + 1) + 1 = Len(r)
      BY <1>1
    <3>4. \A i \in 1..Len(r) : Len(s) + 1 + i - 1 = Len(s) + i
      BY <1>1
    <3> HIDE DEF v
    <3>5. Len(v) = Len(r)
      BY <1>1, <3>2
    <3>6. \A i \in 1..Len(r) : v[i] = u[Len(s) + i]
      BY <3>2, <3>3, <3>4
    <3> QED BY <3>2, <3>5, <3>6 DEF TextType
  <2> HIDE DEF v
  <2>2. ASSUME NEW i \in 1..Len(r) PROVE u[Len(s) + i] = r[i]
    <3>1. /\ Len(s) + i \in 1..Len(s) + Len(r) /\ ~(Len(s) + i <= Len(s))
          /\ (Len(s) + i) - Len(s) = i
      BY <1>1
    <3> QED BY <1>1, <3>1
  <2>3. v = r
    BY <2>1, <2>2, SeqEqual DEF TextType
  <2> QED BY <2>3 DEF v
<1> QED BY <1>3, <1>4 DEF u

\* Turning the line ends of a text into LF keeps it a text, and what is put
\* together from such parts has no other line end.
LEMMA NormalizeTypes ==
  ASSUME NEW t \in TextType
  PROVE  /\ NormalizeToLf(t) \in TextType
         /\ Len(NormalizeToLf(t)) = Len(t)
         /\ \A i \in 1..Len(t) :
              NormalizeToLf(t)[i] = IF t[i] \in {CRLF, CR} THEN LF ELSE t[i]
<1> DEFINE r == [i \in 1..Len(t) |-> IF t[i] \in {CRLF, CR} THEN LF ELSE t[i]]
<1>1. /\ Len(t) \in Nat /\ DOMAIN t = 1..Len(t) /\ LF \in Characters
      /\ \A i \in 1..Len(t) : t[i] \in Characters
  BY LenProperties, ElementOfSeq, CharactersAssumption DEF TextType
<1>2. r \in Seq(Characters) /\ DOMAIN r = 1..Len(t)
  BY <1>1
<1>3. Len(r) = Len(t)
  BY <1>1, <1>2, LenProperties
<1>4. NormalizeToLf(t) = r
  BY <1>1 DEF NormalizeToLf
<1> QED BY <1>2, <1>3, <1>4 DEF TextType

\* LF put in place of LF changes nothing.
LEMMA RestoreLf ==
  ASSUME NEW t \in TextType
  PROVE  RestoreLineEndings(t, LF) = t
<1>1. LF \in Characters
  BY CharactersAssumption
<1>2. /\ RestoreLineEndings(t, LF) \in Seq(Characters) /\ t \in Seq(Characters)
      /\ Len(RestoreLineEndings(t, LF)) = Len(t)
      /\ \A i \in 1..Len(t) : RestoreLineEndings(t, LF)[i] = t[i]
  BY <1>1, RestoreTypes DEF TextType
<1> QED BY <1>2, SeqEqual

-----------------------------------------------------------------------------
(* The changes of one call.                                                *)

\* The changes lie within the text and apart from each other.
Fits(text, edits, changes) ==
  /\ text \in TextType /\ edits \in Seq(EditType)
  /\ \A x \in changes : /\ x.edit \in DOMAIN edits
                        /\ x.from \in Nat /\ x.to \in Nat
                        /\ 1 <= x.from /\ x.from < x.to
                        /\ x.to <= Len(text) + 1
  /\ NonOverlapping(changes)

\* What an edit puts in is a text.
LEMMA NewTextTypes ==
  ASSUME NEW edits \in Seq(EditType), NEW k \in DOMAIN edits,
         NEW e \in Characters
  PROVE  /\ NormalizeToLf(edits[k].new) \in TextType
         /\ RestoreLineEndings(NormalizeToLf(edits[k].new), e) \in TextType
<1>1. edits[k] \in EditType
  BY LenProperties, ElementOfSeq
<1>2. edits[k].new \in TextType
  BY <1>1 DEF EditType
<1> QED BY <1>2, NormalizeTypes, RestoreTypes

\* What stands for a place where a change begins, for one within a change,
\* and for any other.
LEMMA NewAtValues ==
  ASSUME NEW text, NEW edits, NEW changes, Fits(text, edits, changes),
         NEW e \in Characters, NEW i \in 1..Len(text)
  PROVE  /\ \A x \in changes : x.from = i =>
              NewAt(text, edits, changes, e, i)
                = RestoreLineEndings(NormalizeToLf(edits[x.edit].new), e)
         /\ (\E x \in changes : x.from < i /\ i < x.to) =>
              NewAt(text, edits, changes, e, i) = <<>>
         /\ (\A x \in changes : i < x.from \/ x.to <= i) =>
              NewAt(text, edits, changes, e, i) = <<text[i]>>
         /\ NewAt(text, edits, changes, e, i) \in TextType
<1> DEFINE here == {x \in changes : x.from = i}
<1>1. /\ text \in TextType /\ edits \in Seq(EditType) /\ Len(text) \in Nat
      /\ \A x \in changes : /\ x.edit \in DOMAIN edits
                            /\ x.from \in Nat /\ x.to \in Nat
                            /\ x.from < x.to
      /\ \A x, y \in changes : x # y => x.to <= y.from \/ y.to <= x.from
  BY LenProperties DEF Fits, NonOverlapping, TextType
<1>2. ASSUME NEW x \in changes, x.from = i
      PROVE  here = {x} /\ (CHOOSE y \in here : TRUE) = x
  <2>1. \A y \in here : y = x
    BY <1>1, <1>2
  <2> QED BY <1>2, <2>1
<1>3. ASSUME NEW x \in changes, x.from = i
      PROVE  NewAt(text, edits, changes, e, i)
               = RestoreLineEndings(NormalizeToLf(edits[x.edit].new), e)
  BY <1>2, <1>3 DEF NewAt
<1>4. ASSUME NEW x \in changes, x.from < i, i < x.to
      PROVE  NewAt(text, edits, changes, e, i) = <<>>
  <2>1. here = {}
    <3> SUFFICES ASSUME NEW y \in changes, y.from = i PROVE FALSE
      OBVIOUS
    <3>1. x # y /\ i \in Nat
      BY <1>1, <1>4
    <3>2. x.to <= y.from \/ y.to <= x.from
      BY <1>1, <3>1
    <3> QED BY <1>1, <1>4, <3>1, <3>2
  <2> QED BY <1>4, <2>1 DEF NewAt
<1>5. ASSUME \A x \in changes : i < x.from \/ x.to <= i
      PROVE  NewAt(text, edits, changes, e, i) = <<text[i]>>
  <2>1. \A x \in changes : x.from # i /\ ~(x.from < i /\ i < x.to)
    BY <1>1, <1>5
  <2> QED BY <2>1 DEF NewAt
<1>6. NewAt(text, edits, changes, e, i) \in TextType
  <2>1. CASE \E x \in changes : x.from = i
    <3>1. PICK x \in changes : x.from = i
      BY <2>1
    <3> QED BY <1>1, <1>3, <3>1, NewTextTypes
  <2>2. CASE \E x \in changes : x.from < i /\ i < x.to
    BY <1>4, <2>2, TextLaws
  <2>3. CASE \A x \in changes : x.from # i /\ ~(x.from < i /\ i < x.to)
    <3>1. NewAt(text, edits, changes, e, i) = <<text[i]>>
      BY <2>3 DEF NewAt
    <3>2. text[i] \in Characters
      BY <1>1, ElementOfSeq DEF TextType
    <3> QED BY <3>1, <3>2 DEF TextType
  <2> QED BY <2>1, <2>2, <2>3
<1> QED BY <1>3, <1>4, <1>5, <1>6

\* The pieces of the new text are texts, one for each place.
LEMMA PieceTypes ==
  ASSUME NEW text, NEW edits, NEW changes, Fits(text, edits, changes),
         NEW e \in Characters,
         NEW p, p = [i \in DOMAIN text |-> NewAt(text, edits, changes, e, i)]
  PROVE  /\ p \in Seq(TextType) /\ Len(p) = Len(text)
         /\ \A i \in 1..Len(text) : p[i] = NewAt(text, edits, changes, e, i)
         /\ Swapped(text, edits, changes, e) = Concat(p)
<1>1. DOMAIN text = 1..Len(text) /\ Len(text) \in Nat
  BY LenProperties DEF Fits, TextType
<1>2. \A i \in 1..Len(text) : NewAt(text, edits, changes, e, i) \in TextType
  BY NewAtValues
<1>3. /\ p = [i \in 1..Len(text) |-> p[i]]
      /\ \A i \in 1..Len(text) : p[i] = NewAt(text, edits, changes, e, i)
  BY <1>1
<1>4. \A i \in 1..Len(text) : p[i] \in TextType
  BY <1>2, <1>3
<1>5. p \in Seq(TextType) /\ DOMAIN p = 1..Len(text)
  BY <1>1, <1>3, <1>4
<1>6. Len(p) = Len(text)
  BY <1>1, <1>5, LenProperties
<1>7. Swapped(text, edits, changes, e) = Concat(p)
  BY DEF Swapped
<1> QED BY <1>3, <1>5, <1>6, <1>7

\* No changes, no change.
LEMMA SwappedNothing ==
  ASSUME NEW text \in TextType, NEW edits \in Seq(EditType)
  PROVE  Swapped(text, edits, {}, LF) = text
<1> DEFINE p == [i \in DOMAIN text |-> NewAt(text, edits, {}, LF, i)]
<1>1. LF \in Characters /\ Fits(text, edits, {})
  BY CharactersAssumption DEF Fits, NonOverlapping
<1>2. /\ p \in Seq(TextType) /\ Len(p) = Len(text)
      /\ \A i \in 1..Len(text) : p[i] = NewAt(text, edits, {}, LF, i)
      /\ Swapped(text, edits, {}, LF) = Concat(p)
  BY <1>1, PieceTypes
<1> HIDE DEF p
<1>3. \A i \in 1..Len(text) : p[i] = <<text[i]>>
  BY <1>1, <1>2, NewAtValues
<1> QED BY <1>2, <1>3, ConcatOfSingles

\* Pieces that are the same from a place on.
LEMMA EndPieces ==
  ASSUME NEW p \in Seq(TextType), NEW q \in Seq(TextType), Len(p) = Len(q),
         NEW b \in Nat, 1 <= b, b <= Len(p) + 1,
         \A i \in b..Len(p) : p[i] = q[i]
  PROVE  SubSeq(p, b, Len(p)) = SubSeq(q, b, Len(q))
<1>1. PICK n \in Nat : n = Len(p)
  BY LenProperties
<1>2. \A i \in 1..n : p[i] \in TextType /\ q[i] \in TextType
  BY <1>1, ElementOfSeq
<1> DEFINE u == SubSeq(p, b, n)
           v == SubSeq(q, b, n)
<1>3. n \in Int /\ b \in Int
        /\ \A i \in b..n : p[i] \in TextType /\ q[i] \in TextType
  BY <1>2
<1>4. /\ u \in Seq(TextType)
      /\ Len(u) = IF b <= n THEN n - b + 1 ELSE 0
      /\ \A i \in 1..n - b + 1 : u[i] = p[b + i - 1]
  BY <1>3, SubSeqProperties
<1>5. /\ v \in Seq(TextType)
      /\ Len(v) = IF b <= n THEN n - b + 1 ELSE 0
      /\ \A i \in 1..n - b + 1 : v[i] = q[b + i - 1]
  BY <1>3, SubSeqProperties
<1> HIDE DEF u, v
<1>6. Len(u) = n - b + 1 /\ Len(v) = n - b + 1
  <2>1. b <= n \/ n - b + 1 = 0
    BY <1>1
  <2> QED BY <1>4, <1>5, <2>1
<1>7. \A i \in 1..n - b + 1 : b + i - 1 \in b..n
  OBVIOUS
<1>8. \A i \in 1..Len(u) : u[i] = v[i]
  BY <1>1, <1>4, <1>5, <1>6, <1>7
<1>9. u = v
  BY <1>4, <1>5, <1>6, <1>8, SeqEqual
<1> QED BY <1>1, <1>9 DEF u, v

\* A piece put in place of the single characters from a up to b, and the
\* empty pieces behind it: the text is changed there and nowhere else.
LEMMA ReplacedPieces ==
  ASSUME NEW t \in TextType, NEW p \in Seq(TextType), NEW q \in Seq(TextType),
         Len(p) = Len(t), Len(q) = Len(t),
         NEW a \in Nat, NEW b \in Nat, 1 <= a, a < b, b <= Len(t) + 1,
         \A i \in 1..b - 1 : q[i] = <<t[i]>>,
         \A i \in 1..a - 1 : p[i] = <<t[i]>>,
         \A i \in a + 1..b - 1 : p[i] = <<>>,
         \A i \in b..Len(t) : p[i] = q[i]
  PROVE  Concat(p) = SubSeq(Concat(q), 1, a - 1) \o p[a]
                       \o SubSeq(Concat(q), b, Len(Concat(q)))
<1> DEFINE n == Len(t)
           s == SubSeq(t, 1, a - 1)
           m == SubSeq(t, a, b - 1)
           h == SubSeq(t, 1, b - 1)
           r == Concat(SubSeq(q, b, n))
           c == SubSeq(p, 1, b - 1)
           g == SubSeq(c, a, b - 1)
<1>1. /\ n \in Nat /\ a - 1 \in Nat /\ b - 1 \in Nat /\ a - 1 <= b - 1
      /\ b - 1 <= n /\ (b - 1) + 1 = b /\ (a - 1) + 1 = a
      /\ a \in 1..n /\ b - 1 \in 0..n
      /\ \A i \in 1..n : p[i] \in TextType /\ q[i] \in TextType
      /\ \A i \in 1..n : t[i] \in Characters
  <2>1. n \in Nat /\ \A i \in 1..n : t[i] \in Characters
    BY LenProperties, ElementOfSeq DEF TextType
  <2>2. \A i \in 1..n : p[i] \in TextType /\ q[i] \in TextType
    BY ElementOfSeq
  <2> QED BY <2>1, <2>2
<1>2. /\ s \in TextType /\ m \in TextType /\ h \in TextType
      /\ Len(s) = a - 1 /\ Len(h) = b - 1 /\ h = s \o m
  <2>1. /\ \A i \in 1..a - 1 : t[i] \in Characters
        /\ \A i \in a..b - 1 : t[i] \in Characters
        /\ \A i \in 1..b - 1 : t[i] \in Characters
    BY <1>1
  <2>2. s \in TextType /\ Len(s) = a - 1
    BY <1>1, <2>1, SubSeqProperties DEF TextType
  <2>3. h \in TextType /\ Len(h) = b - 1
    BY <1>1, <2>1, SubSeqProperties DEF TextType
  <2>4. m \in TextType
    BY <1>1, <2>1, SubSeqProperties DEF TextType
  <2>5. 1 \in 1..n + 1 /\ a - 1 \in 1 - 1..n /\ b - 1 \in a - 1..n
    BY <1>1
  <2>6. SubSeq(t, 1, a - 1) \o SubSeq(t, (a - 1) + 1, b - 1) = h
    BY <2>5, ConcatAdjacentSubSeq DEF TextType
  <2> QED BY <1>1, <2>2, <2>3, <2>4, <2>6
<1>3. /\ r \in TextType
      /\ Concat(q) = h \o r
  <2>1. b - 1 \in 0..Len(q)
    BY <1>1
  <2>2. /\ SubSeq(q, (b - 1) + 1, Len(q)) \in Seq(TextType)
        /\ Concat(q) = Concat(SubSeq(q, 1, b - 1))
                         \o Concat(SubSeq(q, (b - 1) + 1, Len(q)))
    BY <2>1, CutPieces
  <2>3. Concat(SubSeq(q, 1, b - 1)) = h
    BY <1>1, <2>1, FirstSingles
  <2> QED BY <1>1, <2>2, <2>3, ConcatTypes
<1>4. Concat(p) = Concat(c) \o r /\ c \in Seq(TextType)
  <2>1. b - 1 \in 0..Len(p)
    BY <1>1
  <2>2. /\ c \in Seq(TextType)
        /\ Concat(p) = Concat(c) \o Concat(SubSeq(p, (b - 1) + 1, Len(p)))
    BY <2>1, CutPieces
  <2>3. SubSeq(p, b, Len(p)) = SubSeq(q, b, Len(q))
    BY EndPieces
  <2> QED BY <1>1, <2>2, <2>3
<1>5. Len(c) = b - 1 /\ \A i \in 1..b - 1 : c[i] = p[i]
  <2>1. \A i \in 1..b - 1 : p[i] \in TextType
    BY <1>1
  <2> QED BY <1>1, <2>1, SubSeqProperties
<1> HIDE DEF c
<1>6. Concat(c) = s \o p[a]
  <2>1. a - 1 \in 0..Len(c)
    BY <1>1, <1>5
  <2>2. Concat(c) = Concat(SubSeq(c, 1, a - 1))
                      \o Concat(SubSeq(c, (a - 1) + 1, Len(c)))
    BY <1>4, <2>1, CutPieces
  <2>3. Concat(SubSeq(c, 1, a - 1)) = s
    <3>1. a - 1 <= Len(t) /\ \A i \in 1..a - 1 : i \in 1..b - 1
      BY <1>1
    <3>2. \A i \in 1..a - 1 : c[i] = <<t[i]>>
      BY <1>5, <3>1
    <3> QED BY <1>4, <2>1, <3>1, <3>2, FirstSingles
  <2>4. Concat(g) = p[a]
    <3>1. \A i \in a..b - 1 : c[i] \in TextType
      BY <1>1, <1>5
    <3>2. /\ g \in Seq(TextType)
          /\ Len(g) = IF a <= b - 1 THEN (b - 1) - a + 1 ELSE 0
          /\ \A i \in 1..(b - 1) - a + 1 : g[i] = c[a + i - 1]
      BY <1>1, <3>1, SubSeqProperties
    <3> HIDE DEF g
    <3>3. /\ (b - 1) - a + 1 = b - a /\ b - a >= 1 /\ a <= b - 1
          /\ 1 \in 1..b - a /\ a + 1 - 1 = a /\ a \in 1..b - 1
      BY <1>1
    <3>4. Len(g) = b - a
      BY <3>2, <3>3
    <3>5. g[1] = p[a]
      BY <1>5, <3>2, <3>3
    <3>6. ASSUME NEW i \in 2..Len(g) PROVE g[i] = <<>>
      <4>1. /\ i \in 1..b - a /\ a + i - 1 \in 1..b - 1
            /\ a + i - 1 \in a + 1..b - 1
        BY <1>1, <3>4
      <4>2. g[i] = c[a + i - 1]
        BY <3>2, <3>3, <4>1
      <4> QED BY <1>5, <4>1, <4>2
    <3> QED BY <3>2, <3>3, <3>4, <3>5, <3>6, OneFullPiece
  <2> QED BY <1>1, <1>5, <2>2, <2>3, <2>4
<1>7. SubSeq(Concat(q), 1, a - 1) = s
  <2> HIDE DEF s, m, h, r
  <2>1. Concat(q) = s \o (m \o r) /\ m \o r \in TextType
    BY <1>2, <1>3, TextLaws
  <2>2. a - 1 \in 0..Len(s)
    BY <1>1, <1>2
  <2>3. SubSeq(s \o (m \o r), 1, a - 1) = SubSeq(s, 1, a - 1)
    BY <1>2, <2>1, <2>2, PartsOfConcat
  <2>4. SubSeq(s, 1, Len(s)) = s
    BY <1>2, SubSeqFull DEF TextType
  <2> QED BY <1>2, <2>1, <2>3, <2>4
<1>8. SubSeq(Concat(q), b, Len(Concat(q))) = r
  <2>1. 0 \in 0..Len(h)
    BY <1>1, <1>2
  <2>2. SubSeq(h \o r, Len(h) + 1, Len(h \o r)) = r
    BY <1>2, <1>3, <2>1, PartsOfConcat
  <2> QED BY <1>1, <1>2, <1>3, <2>2
<1> HIDE DEF s, r
<1> QED BY <1>4, <1>6, <1>7, <1>8

\* One more change, at a place before all those made already.
LEMMA ReplaceStep ==
  ASSUME NEW text, NEW edits, NEW changes, Fits(text, edits, changes),
         NEW x \in changes, \A y \in changes : x.from <= y.from
  PROVE  Replace(Swapped(text, edits, changes \ {x}, LF), edits, x)
           = Swapped(text, edits, changes, LF)
<1> DEFINE rest == changes \ {x}
           p == [i \in DOMAIN text |-> NewAt(text, edits, changes, LF, i)]
           q == [i \in DOMAIN text |-> NewAt(text, edits, rest, LF, i)]
           a == x.from
           b == x.to
           n == Len(text)
<1>1. Fits(text, edits, rest) /\ LF \in Characters
  BY CharactersAssumption DEF Fits, NonOverlapping
<1> HIDE DEF rest
<1>2. /\ p \in Seq(TextType) /\ Len(p) = n
      /\ \A i \in 1..n : p[i] = NewAt(text, edits, changes, LF, i)
      /\ Swapped(text, edits, changes, LF) = Concat(p)
  BY <1>1, PieceTypes
<1>3. /\ q \in Seq(TextType) /\ Len(q) = n
      /\ \A i \in 1..n : q[i] = NewAt(text, edits, rest, LF, i)
      /\ Swapped(text, edits, rest, LF) = Concat(q)
  BY <1>1, PieceTypes
<1> HIDE DEF p, q
<1>4. /\ text \in TextType /\ edits \in Seq(EditType) /\ n \in Nat
      /\ a \in Nat /\ b \in Nat /\ 1 <= a /\ a < b /\ b <= n + 1
      /\ x.edit \in DOMAIN edits
  BY LenProperties DEF Fits, TextType
<1>5. \A y \in changes : y.from \in Nat /\ y.to \in Nat /\ y.from < y.to
  BY DEF Fits
<1>6. \A y \in rest : b <= y.from
  <2> SUFFICES ASSUME NEW y \in rest PROVE b <= y.from
    OBVIOUS
  <2>1. y \in changes /\ y # x
    BY DEF rest
  <2>2. b <= y.from \/ y.to <= a
    BY <2>1 DEF Fits, NonOverlapping
  <2> QED BY <1>4, <1>5, <2>1, <2>2
<1>7. ASSUME NEW i \in 1..b - 1 PROVE q[i] = <<text[i]>>
  <2>1. i \in 1..n
    BY <1>4
  <2>2. \A y \in rest : i < y.from
    <3>1. \A y \in rest : y.from \in Nat
      BY <1>5 DEF rest
    <3> QED BY <1>4, <1>6, <3>1
  <2> QED BY <1>1, <1>3, <2>1, <2>2, NewAtValues
<1>8. ASSUME NEW i \in 1..a - 1 PROVE p[i] = <<text[i]>>
  <2>1. i \in 1..n
    BY <1>4
  <2>2. \A y \in changes : i < y.from
    BY <1>4, <1>5
  <2> QED BY <1>1, <1>2, <2>1, <2>2, NewAtValues
<1>9. ASSUME NEW i \in a + 1..b - 1 PROVE p[i] = <<>>
  <2>1. i \in 1..n /\ x.from < i /\ i < x.to
    BY <1>4
  <2> QED BY <1>1, <1>2, <2>1, NewAtValues
<1>10. ASSUME NEW i \in b..n PROVE p[i] = q[i]
  <2>1. i \in 1..n /\ x.from # i /\ ~(i < x.to) /\ i \in Nat
    BY <1>4
  <2>2. rest \subseteq changes /\ \A y \in changes : y = x \/ y \in rest
    BY DEF rest
  <2>3. CASE \E y \in rest : y.from = i
    <3>1. PICK y \in rest : y.from = i
      BY <2>3
    <3>2. p[i] = RestoreLineEndings(NormalizeToLf(edits[y.edit].new), LF)
      BY <1>1, <1>2, <2>1, <2>2, <3>1, NewAtValues
    <3>3. q[i] = RestoreLineEndings(NormalizeToLf(edits[y.edit].new), LF)
      BY <1>1, <1>3, <2>1, <3>1, NewAtValues
    <3> QED BY <3>2, <3>3
  <2>4. CASE \E y \in rest : y.from < i /\ i < y.to
    <3>1. p[i] = <<>>
      BY <1>1, <1>2, <2>1, <2>2, <2>4, NewAtValues
    <3>2. q[i] = <<>>
      BY <1>1, <1>3, <2>1, <2>4, NewAtValues
    <3> QED BY <3>1, <3>2
  <2>5. CASE \A y \in rest : y.from # i /\ ~(y.from < i /\ i < y.to)
    <3>1. \A y \in changes : i < y.from \/ y.to <= i
      BY <1>4, <1>5, <2>1, <2>2, <2>5
    <3>2. p[i] = <<text[i]>>
      BY <1>1, <1>2, <2>1, <3>1, NewAtValues
    <3>3. q[i] = <<text[i]>>
      BY <1>1, <1>3, <2>1, <2>2, <3>1, NewAtValues
    <3> QED BY <3>2, <3>3
  <2> QED BY <2>3, <2>4, <2>5
<1>11. p[a] = NormalizeToLf(edits[x.edit].new)
  <2>1. a \in 1..n
    BY <1>4
  <2>2. p[a] = RestoreLineEndings(NormalizeToLf(edits[x.edit].new), LF)
    BY <1>1, <1>2, <2>1, NewAtValues
  <2>3. NormalizeToLf(edits[x.edit].new) \in TextType
    BY <1>1, <1>4, NewTextTypes
  <2> QED BY <2>2, <2>3, RestoreLf
<1>12. Concat(p) = SubSeq(Concat(q), 1, a - 1) \o p[a]
                     \o SubSeq(Concat(q), b, Len(Concat(q)))
  <2> HIDE DEF a, b
  <2>1. /\ \A i \in 1..b - 1 : q[i] = <<text[i]>>
        /\ \A i \in 1..a - 1 : p[i] = <<text[i]>>
        /\ \A i \in a + 1..b - 1 : p[i] = <<>>
        /\ \A i \in b..Len(text) : p[i] = q[i]
    BY <1>7, <1>8, <1>9, <1>10
  <2>2. /\ text \in TextType /\ a \in Nat /\ b \in Nat
        /\ p \in Seq(TextType) /\ q \in Seq(TextType)
    BY <1>2, <1>3, <1>4
  <2>3. /\ 1 <= a /\ a < b /\ b <= Len(text) + 1
        /\ Len(p) = Len(text) /\ Len(q) = Len(text)
    BY <1>2, <1>3, <1>4
  <2> QED BY ONLY <2>1, <2>2, <2>3, ReplacedPieces, ZenonT(40)
<1> QED BY <1>2, <1>3, <1>11, <1>12 DEF Replace, rest

\* Making the changes one after the other, the last place first, is putting
\* each in its place.
LEMMA AllReplaced ==
  ASSUME NEW text, NEW edits, NEW changes, Fits(text, edits, changes),
         IsFiniteSet(changes)
  PROVE  ApplyReplacements(text, edits, changes)
           = Swapped(text, edits, changes, LF)
<1> DEFINE At(d) == CHOOSE x \in d : \A y \in d : x.from <= y.from
           By(f, d) == IF d = {} THEN text
                       ELSE Replace(f[d \ {At(d)}], edits, At(d))
           Solves(f) == f = [d \in SUBSET changes |-> By(f, d)]
           w == [d \in SUBSET changes |-> Swapped(text, edits, d, LF)]
           after == CHOOSE f : Solves(f)
<1>1. /\ text \in TextType /\ edits \in Seq(EditType)
      /\ \A x \in changes : x.from \in Nat
  BY DEF Fits
<1>2. ASSUME NEW d \in SUBSET changes, d # {}
      PROVE  /\ At(d) \in d /\ d \ {At(d)} \in SUBSET changes
             /\ Replace(Swapped(text, edits, d \ {At(d)}, LF), edits, At(d))
                  = Swapped(text, edits, d, LF)
  <2>1. \E x \in d : \A y \in d : x.from <= y.from
    <3> DEFINE N == {x.from : x \in d}
    <3>1. N \subseteq Nat /\ N # {}
      BY <1>1, <1>2
    <3> HIDE DEF N
    <3>2. PICK m \in N : \A k \in N : m <= k
      BY <3>1, LeastNat
    <3> QED BY <3>2 DEF N
  <2>2. At(d) \in d /\ \A y \in d : At(d).from <= y.from
    BY <2>1
  <2>3. Fits(text, edits, d)
    BY DEF Fits, NonOverlapping
  <2> HIDE DEF At
  <2> QED BY <2>2, <2>3, ReplaceStep
<1>3. Swapped(text, edits, {}, LF) = text
  BY <1>1, SwappedNothing
<1>4. Solves(w)
  <2>1. ASSUME NEW d \in SUBSET changes
        PROVE  Swapped(text, edits, d, LF) = By(w, d)
    <3>1. CASE d = {}
      BY <1>3, <3>1
    <3>2. CASE d # {}
      <4> HIDE DEF At
      <4>1. w[d \ {At(d)}] = Swapped(text, edits, d \ {At(d)}, LF)
        BY <1>2, <3>2
      <4> HIDE DEF w
      <4> QED BY <1>2, <3>2, <4>1
    <3> QED BY <3>1, <3>2
  <2> HIDE DEF By
  <2> QED BY <2>1
<1>5. Solves(after)
  <2> HIDE DEF Solves
  <2> QED BY <1>4
<1>6. ApplyReplacements(text, edits, changes) = after[changes]
  BY DEF ApplyReplacements
<1> HIDE DEF after
<1>7. ASSUME NEW d \in SUBSET changes
      PROVE  after[d] = By(after, d)
  <2> HIDE DEF By
  <2> QED BY <1>5
<1> HIDE DEF At
<1> DEFINE S == {n \in Nat : \A d \in SUBSET changes :
                   Cardinality(d) = n
                     => after[d] = Swapped(text, edits, d, LF)}
<1>8. 0 \in S
  <2> SUFFICES ASSUME NEW d \in SUBSET changes, Cardinality(d) = 0
               PROVE  after[d] = Swapped(text, edits, d, LF)
    OBVIOUS
  <2>1. d = {}
    BY FS_Subset, FS_EmptySet
  <2> QED BY <1>3, <1>7, <2>1
<1>9. ASSUME NEW n \in Nat, n \in S PROVE n + 1 \in S
  <2> SUFFICES ASSUME NEW d \in SUBSET changes, Cardinality(d) = n + 1
               PROVE  after[d] = Swapped(text, edits, d, LF)
    OBVIOUS
  <2>1. IsFiniteSet(d) /\ d # {}
    BY FS_Subset, FS_EmptySet
  <2>2. /\ At(d) \in d /\ d \ {At(d)} \in SUBSET changes
        /\ Replace(Swapped(text, edits, d \ {At(d)}, LF), edits, At(d))
             = Swapped(text, edits, d, LF)
    BY <1>2, <2>1
  <2>3. Cardinality(d \ {At(d)}) = n
    <3>1. Cardinality(d \ {At(d)}) = Cardinality(d) - 1
      BY <2>1, <2>2, FS_RemoveElement
    <3> QED BY <3>1
  <2>4. after[d \ {At(d)}] = Swapped(text, edits, d \ {At(d)}, LF)
    BY <1>9, <2>2, <2>3
  <2> QED BY <1>7, <2>1, <2>2, <2>4
<1>10. Nat \subseteq S
  <2> HIDE DEF S
  <2> QED BY <1>8, <1>9, SetInduction
<1>11. Cardinality(changes) \in Nat
  BY FS_CardinalityType
<1>12. after[changes] = Swapped(text, edits, changes, LF)
  BY <1>10, <1>11
<1> QED BY <1>6, <1>12

\* What an accepted call changes lies within the text, and apart.
LEMMA ChangesFit ==
  ASSUME NEW text \in TextType, NEW edits \in Seq(EditType),
         Accepts(text, edits)
  PROVE  /\ Fits(text, edits, Changes(text, edits))
         /\ IsFiniteSet(Changes(text, edits))
<1>1. DOMAIN edits = 1..Len(edits) /\ Len(edits) \in Nat /\ Len(text) \in Nat
  BY LenProperties DEF TextType
<1> DEFINE Old(k) == NormalizeToLf(edits[k].old)
           All(k) == Occurrences(text, Old(k))
           Change(k) == [edit |-> k, from |-> First(All(k)),
                         to |-> First(All(k)) + Len(Old(k))]
<1>2. Changes(text, edits) = {Change(k) : k \in DOMAIN edits}
  BY DEF Changes
<1>3. ASSUME NEW k \in DOMAIN edits
      PROVE  /\ First(All(k)) \in Nat /\ Len(Old(k)) \in Nat
             /\ 1 <= First(All(k)) /\ 0 < Len(Old(k))
             /\ First(All(k)) + Len(Old(k)) <= Len(text) + 1
  <2> DEFINE l == Len(Old(k))
             A == All(k)
             n == Len(text)
  <2>1. l \in Nat
    <3>1. edits[k] \in EditType
      BY <1>1, ElementOfSeq
    <3>2. Old(k) \in TextType
      BY <3>1, NormalizeTypes DEF EditType
    <3> QED BY <3>2, LenProperties DEF TextType
  <2>2. A # {} /\ Last(A) < First(A) + l
    BY DEF Accepts, IsUnique
  <2>3. A \subseteq 1..n - l + 1
    BY DEF Occurrences
  <2> HIDE DEF A, l
  <2>4. First(A) \in A /\ \A j \in A : First(A) <= j
    <3>1. A \subseteq Nat
      BY <1>1, <2>1, <2>3
    <3>2. \E i \in A : \A j \in A : i <= j
      BY <2>2, <3>1, LeastNat
    <3> QED BY <3>2 DEF First
  <2>5. Last(A) \in A
    <3> DEFINE B == {n + 1 - i : i \in A}
    <3>1. \A i \in A : i \in Nat /\ i <= n + 1
      BY <1>1, <2>1, <2>3
    <3>2. B \subseteq Nat /\ B # {}
      BY <1>1, <2>2, <3>1
    <3> HIDE DEF B
    <3>3. PICK m \in B : \A j \in B : m <= j
      BY <3>2, LeastNat
    <3>4. PICK i \in A : m = n + 1 - i
      BY <3>3 DEF B
    <3>5. \A j \in A : j <= i
      <4> SUFFICES ASSUME NEW j \in A PROVE j <= i
        OBVIOUS
      <4>1. n + 1 - i <= n + 1 - j
        BY <3>3, <3>4 DEF B
      <4> QED BY <1>1, <3>1, <4>1
    <3>6. \E x \in A : \A j \in A : j <= x
      BY <3>5
    <3> QED BY <3>6 DEF Last
  <2>10. \A i \in A : i \in Nat /\ 1 <= i /\ i <= n - l + 1
    <3> HIDE DEF n
    <3>1. n \in Nat
      BY <1>1 DEF n
    <3> QED BY ONLY <2>1, <2>3, <3>1
  <2>6. First(A) \in Nat /\ 1 <= First(A) /\ First(A) <= n - l + 1
    BY ONLY <2>10, <2>4
  <2>7. First(A) <= Last(A) /\ Last(A) \in Nat
    BY ONLY <2>10, <2>4, <2>5
  <2>8. 0 < l
    BY <2>1, <2>2, <2>6, <2>7
  <2>9. First(A) + l <= n + 1
    BY <1>1, <2>1, <2>6
  <2> QED BY <2>1, <2>6, <2>8, <2>9 DEF A, l
<1> HIDE DEF Old, All
<1>4. ASSUME NEW x \in Changes(text, edits)
      PROVE  /\ x.edit \in DOMAIN edits
             /\ x.from \in Nat /\ x.to \in Nat
             /\ 1 <= x.from /\ x.from < x.to /\ x.to <= Len(text) + 1
  <2>1. PICK k \in DOMAIN edits : x = Change(k)
    BY <1>2
  <2>2. /\ x.edit = k /\ x.from = First(All(k))
        /\ x.to = First(All(k)) + Len(Old(k))
    BY <2>1
  <2>3. /\ First(All(k)) \in Nat /\ Len(Old(k)) \in Nat
        /\ 1 <= First(All(k)) /\ 0 < Len(Old(k))
        /\ First(All(k)) + Len(Old(k)) <= Len(text) + 1
    BY <1>3
  <2> QED BY <2>2, <2>3
<1>5. Fits(text, edits, Changes(text, edits))
  BY <1>4 DEF Fits, Accepts
<1>6. IsFiniteSet(Changes(text, edits))
  <2> DEFINE C == Changes(text, edits)
             f == [k \in 1..Len(edits) |-> Change(k)]
  <2>1. IsFiniteSet(1..Len(edits))
    BY <1>1, FS_Interval
  <2>2. f \in Surjection(1..Len(edits), C)
    BY <1>1, <1>2 DEF Surjection
  <2> HIDE DEF f
  <2> QED BY <2>1, <2>2, FS_Surjection
<1> QED BY <1>5, <1>6

-----------------------------------------------------------------------------
(* The new text of a call.                                                 *)

\* What a text with its line ends turned into LF is made of.
Plain == Characters \ {CRLF, CR}

\* Plain pieces make a plain text.
LEMMA ConcatOfPlain ==
  ASSUME NEW c \in Seq(TextType), \A i \in 1..Len(c) : c[i] \in Seq(Plain)
  PROVE  Concat(c) \in Seq(Plain)
<1> DEFINE T == {s \in Seq(TextType) :
                   (\A i \in 1..Len(s) : s[i] \in Seq(Plain))
                     => Concat(s) \in Seq(Plain)}
<1>1. <<>> \in T
  BY EmptySeq, ConcatTypes
<1>2. ASSUME NEW s \in Seq(TextType), NEW e \in TextType, s \in T
      PROVE  Append(s, e) \in T
  <2>1. /\ Append(s, e) \in Seq(TextType) /\ Len(Append(s, e)) = Len(s) + 1
        /\ Append(s, e)[Len(s) + 1] = e /\ Len(s) \in Nat
        /\ \A i \in 1..Len(s) : Append(s, e)[i] = s[i]
    BY AppendProperties, LenProperties
  <2> SUFFICES ASSUME \A i \in 1..Len(s) + 1 : Append(s, e)[i] \in Seq(Plain)
               PROVE  Concat(Append(s, e)) \in Seq(Plain)
    BY <2>1
  <2>2. /\ Len(s) + 1 \in 1..Len(s) + 1
        /\ \A i \in 1..Len(s) : i \in 1..Len(s) + 1
    BY <2>1
  <2>3. e \in Seq(Plain) /\ \A i \in 1..Len(s) : s[i] \in Seq(Plain)
    BY <2>1, <2>2
  <2>4. Concat(s) \in Seq(Plain)
    BY <1>2, <2>3
  <2>5. Concat(s) \o e \in Seq(Plain)
    BY <2>3, <2>4, ConcatProperties
  <2> QED BY <2>5, ConcatOfAppend
<1>3. Seq(TextType) \subseteq T
  <2> HIDE DEF T
  <2> QED BY <1>1, <1>2, SequenceInduction
<1> QED BY <1>3

\* Turning the line ends into LF makes a plain text, and undoes what
\* restoring them did to one.
LEMMA PlainTexts ==
  /\ \A t \in TextType : NormalizeToLf(t) \in Seq(Plain)
  /\ \A t \in TextType : \A e \in {LF, CRLF, CR} :
       t \in Seq(Plain) => NormalizeToLf(RestoreLineEndings(t, e)) = t
<1>1. ASSUME NEW t \in TextType PROVE NormalizeToLf(t) \in Seq(Plain)
  <2> DEFINE r == NormalizeToLf(t)
  <2>1. /\ r \in Seq(Characters) /\ Len(r) = Len(t)
        /\ \A i \in 1..Len(t) :
             r[i] = IF t[i] \in {CRLF, CR} THEN LF ELSE t[i]
    BY NormalizeTypes DEF TextType
  <2>2. \A i \in 1..Len(t) : t[i] \in Characters
    BY ElementOfSeq DEF TextType
  <2>3. LF \in Plain
    BY CharactersAssumption DEF Plain, LF, CRLF, CR
  <2> HIDE DEF r
  <2>4. \A i \in 1..Len(r) : r[i] \in Plain
    BY <2>1, <2>2, <2>3 DEF Plain
  <2>5. r = [i \in 1..Len(r) |-> r[i]] /\ Len(r) \in Nat
    BY <2>1, LenProperties
  <2>6. r \in Seq(Plain)
    BY <2>4, <2>5
  <2> QED BY <2>6 DEF r
<1>2. ASSUME NEW t \in TextType, NEW e \in {LF, CRLF, CR}, t \in Seq(Plain)
      PROVE  NormalizeToLf(RestoreLineEndings(t, e)) = t
  <2> DEFINE r == RestoreLineEndings(t, e)
             m == NormalizeToLf(r)
  <2>1. e \in Characters
    BY CharactersAssumption
  <2>2. /\ r \in TextType /\ Len(r) = Len(t)
        /\ \A i \in 1..Len(t) : r[i] = IF t[i] = LF THEN e ELSE t[i]
    BY <2>1, RestoreTypes
  <2> HIDE DEF r
  <2>3. /\ m \in TextType /\ Len(m) = Len(r)
        /\ \A i \in 1..Len(r) :
             m[i] = IF r[i] \in {CRLF, CR} THEN LF ELSE r[i]
    BY <2>2, NormalizeTypes
  <2> HIDE DEF m
  <2>4. \A i \in 1..Len(t) : t[i] \notin {CRLF, CR}
    BY <1>2, ElementOfSeq DEF Plain
  <2>5. ASSUME NEW i \in 1..Len(m) PROVE m[i] = t[i]
    <3>1. /\ r[i] = IF t[i] = LF THEN e ELSE t[i]
          /\ m[i] = IF r[i] \in {CRLF, CR} THEN LF ELSE r[i]
          /\ t[i] \notin {CRLF, CR}
      BY <2>2, <2>3, <2>4
    <3>2. CASE t[i] = LF
      BY <3>1, <3>2
    <3>3. CASE t[i] # LF
      BY <3>1, <3>3
    <3> QED BY <3>2, <3>3
  <2>6. m = t
    BY <2>2, <2>3, <2>5, SeqEqual DEF TextType
  <2> QED BY <2>6 DEF m, r
<1> QED BY <1>1, <1>2

\* The new text of a plain text is plain.
LEMMA SwappedPlain ==
  ASSUME NEW text, NEW edits, NEW changes, Fits(text, edits, changes),
         text \in Seq(Plain)
  PROVE  /\ Swapped(text, edits, changes, LF) \in TextType
         /\ Swapped(text, edits, changes, LF) \in Seq(Plain)
<1> DEFINE p == [i \in DOMAIN text |-> NewAt(text, edits, changes, LF, i)]
<1>1. LF \in Characters /\ text \in TextType /\ edits \in Seq(EditType)
  BY CharactersAssumption DEF Fits
<1>2. /\ p \in Seq(TextType) /\ Len(p) = Len(text)
      /\ \A i \in 1..Len(text) : p[i] = NewAt(text, edits, changes, LF, i)
      /\ Swapped(text, edits, changes, LF) = Concat(p)
  BY <1>1, PieceTypes
<1> HIDE DEF p
<1>3. ASSUME NEW i \in 1..Len(p) PROVE p[i] \in Seq(Plain)
  <2>1. i \in 1..Len(text) /\ i \in Nat
    BY <1>1, <1>2, LenProperties
  <2>2. ASSUME NEW x \in changes, x.from = i PROVE p[i] \in Seq(Plain)
    <3> DEFINE new == edits[x.edit].new
    <3>1. new \in TextType
      <4>1. edits[x.edit] \in EditType
        BY <1>1, LenProperties, ElementOfSeq DEF Fits
      <4> QED BY <4>1 DEF EditType
    <3>2. p[i] = RestoreLineEndings(NormalizeToLf(new), LF)
      BY <1>1, <1>2, <2>1, <2>2, NewAtValues
    <3> HIDE DEF new
    <3>3. p[i] = NormalizeToLf(new)
      BY <3>1, <3>2, NormalizeTypes, RestoreLf
    <3> QED BY <3>1, <3>3, PlainTexts
  <2>3. ASSUME NEW x \in changes, x.from < i, i < x.to
        PROVE  p[i] \in Seq(Plain)
    <3>1. p[i] = <<>>
      BY <1>1, <1>2, <2>1, <2>3, NewAtValues
    <3> QED BY <3>1, EmptySeq
  <2>4. ASSUME \A x \in changes : i < x.from \/ x.to <= i
        PROVE  p[i] \in Seq(Plain)
    <3>1. p[i] = <<text[i]>>
      BY <1>1, <1>2, <2>1, <2>4, NewAtValues
    <3>2. text[i] \in Plain
      BY <2>1, ElementOfSeq
    <3> QED BY <3>1, <3>2
  <2>5. \A x \in changes : x.from \in Nat /\ x.to \in Nat
    BY DEF Fits
  <2>6. \/ \E x \in changes : x.from = i
        \/ \E x \in changes : x.from < i /\ i < x.to
        \/ \A x \in changes : i < x.from \/ x.to <= i
    BY <2>1, <2>5
  <2> QED BY <2>2, <2>3, <2>4, <2>6
<1> QED BY <1>2, <1>3, ConcatTypes, ConcatOfPlain

\* Restoring the line ends of the new text is putting the changes, with
\* their line ends restored, into the text with its own restored.
LEMMA SwappedRestored ==
  ASSUME NEW text, NEW edits, NEW changes, Fits(text, edits, changes),
         NEW e \in Characters
  PROVE  RestoreLineEndings(Swapped(text, edits, changes, LF), e)
           = Swapped(RestoreLineEndings(text, e), edits, changes, e)
<1> DEFINE body == RestoreLineEndings(text, e)
           p == [i \in DOMAIN text |-> NewAt(text, edits, changes, LF, i)]
           q == [i \in DOMAIN body |-> NewAt(body, edits, changes, e, i)]
<1>1. LF \in Characters /\ text \in TextType /\ edits \in Seq(EditType)
  BY CharactersAssumption DEF Fits
<1>2. /\ body \in TextType /\ Len(body) = Len(text)
      /\ \A i \in 1..Len(text) : body[i] = IF text[i] = LF THEN e ELSE text[i]
  BY <1>1, RestoreTypes
<1> HIDE DEF body
<1>3. Fits(body, edits, changes)
  BY <1>2 DEF Fits
<1>4. /\ p \in Seq(TextType) /\ Len(p) = Len(text)
      /\ \A i \in 1..Len(text) : p[i] = NewAt(text, edits, changes, LF, i)
      /\ Swapped(text, edits, changes, LF) = Concat(p)
  BY <1>1, PieceTypes
<1>5. /\ q \in Seq(TextType) /\ Len(q) = Len(text)
      /\ \A i \in 1..Len(text) : q[i] = NewAt(body, edits, changes, e, i)
      /\ Swapped(body, edits, changes, e) = Concat(q)
  BY <1>2, <1>3, PieceTypes
<1> HIDE DEF p, q
<1>6. ASSUME NEW i \in 1..Len(p) PROVE q[i] = RestoreLineEndings(p[i], e)
  <2>1. i \in 1..Len(text) /\ i \in 1..Len(body) /\ i \in Nat
    BY <1>1, <1>2, <1>4, LenProperties
  <2>2. ASSUME NEW x \in changes, x.from = i
        PROVE  q[i] = RestoreLineEndings(p[i], e)
    <3> DEFINE new == NormalizeToLf(edits[x.edit].new)
    <3>1. new \in TextType
      BY <1>1, NewTextTypes DEF Fits
    <3>2. p[i] = RestoreLineEndings(new, LF)
      BY <1>1, <1>4, <2>1, <2>2, NewAtValues
    <3>3. q[i] = RestoreLineEndings(new, e)
      BY <1>3, <1>5, <2>1, <2>2, NewAtValues
    <3> HIDE DEF new
    <3> QED BY <3>1, <3>2, <3>3, RestoreLf
  <2>3. ASSUME NEW x \in changes, x.from < i, i < x.to
        PROVE  q[i] = RestoreLineEndings(p[i], e)
    <3>1. p[i] = <<>>
      BY <1>1, <1>4, <2>1, <2>3, NewAtValues
    <3>2. q[i] = <<>>
      BY <1>3, <1>5, <2>1, <2>3, NewAtValues
    <3>3. RestoreLineEndings(<<>>, e) = <<>>
      <4>1. RestoreLineEndings(<<>>, e) \in Seq(Characters)
              /\ Len(RestoreLineEndings(<<>>, e)) = 0
        BY RestoreTypes, TextLaws, EmptySeq DEF TextType
      <4> QED BY <4>1, EmptySeq
    <3> QED BY <3>1, <3>2, <3>3
  <2>4. ASSUME \A x \in changes : i < x.from \/ x.to <= i
        PROVE  q[i] = RestoreLineEndings(p[i], e)
    <3>1. p[i] = <<text[i]>>
      BY <1>1, <1>4, <2>1, <2>4, NewAtValues
    <3>2. q[i] = <<body[i]>>
      BY <1>3, <1>5, <2>1, <2>4, NewAtValues
    <3>3. text[i] \in Characters /\ body[i] \in Characters
      BY <1>1, <1>2, <2>1, ElementOfSeq DEF TextType
    <3> DEFINE s == <<text[i]>>
               r == RestoreLineEndings(s, e)
    <3>4. s \in TextType /\ Len(s) = 1 /\ s[1] = text[i]
      BY <3>3 DEF TextType
    <3> HIDE DEF s
    <3>5. r \in TextType /\ Len(r) = 1 /\ r[1] = body[i]
      BY <1>2, <2>1, <3>4, RestoreTypes
    <3> HIDE DEF r
    <3>6. r \in Seq(Characters) /\ <<body[i]>> \in Seq(Characters)
            /\ Len(<<body[i]>>) = Len(r)
            /\ \A j \in 1..Len(r) : r[j] = <<body[i]>>[j]
      BY <3>3, <3>5 DEF TextType
    <3>7. r = <<body[i]>>
      BY <3>6, SeqEqual
    <3> QED BY <3>1, <3>2, <3>7 DEF r, s
  <2>5. \A x \in changes : x.from \in Nat /\ x.to \in Nat
    BY DEF Fits
  <2>6. \/ \E x \in changes : x.from = i
        \/ \E x \in changes : x.from < i /\ i < x.to
        \/ \A x \in changes : i < x.from \/ x.to <= i
    BY <2>1, <2>5
  <2> QED BY <2>2, <2>3, <2>4, <2>6
<1>7. Concat(q) = RestoreLineEndings(Concat(p), e)
  BY <1>4, <1>5, <1>6, RestoreOfPieces
<1> QED BY <1>4, <1>5, <1>7 DEF body

\* What edit_file writes for a text it accepts.
LEMMA EditedIsExact ==
  ASSUME NEW text \in TextType, NEW edits \in Seq(EditType),
         Accepts(NormalizeToLf(StripBom(text)), edits)
  PROVE  /\ Edited(text, edits) \in TextType
         /\ Exact(text, edits, Edited(text, edits))
<1> DEFINE body    == StripBom(text)
           norm    == NormalizeToLf(body)
           ending  == LineEnding(body)
           changes == Changes(norm, edits)
           mark    == IF HasBom(text) THEN <<BOM>> ELSE <<>>
           now     == Edited(text, edits)
           rest    == SubSeq(now, Len(mark) + 1, Len(now))
           done    == Swapped(norm, edits, changes, LF)
           r       == RestoreLineEndings(done, ending)
<1> HIDE DEF body, norm, ending, changes, mark, now, rest, done, r
<1>1. body \in TextType
  <2>1. CASE HasBom(text)
    <3>1. text \in Seq(Characters) /\ text # <<>> /\ body = Tail(text)
      BY <2>1 DEF HasBom, StripBom, TextType, body
    <3> QED BY <3>1, HeadTailProperties DEF TextType
  <2>2. CASE ~HasBom(text)
    BY <2>2 DEF StripBom, body
  <2> QED BY <2>1, <2>2
<1>2. norm \in TextType /\ norm \in Seq(Plain)
  BY <1>1, NormalizeTypes, PlainTexts DEF norm
<1>3. ending \in {LF, CRLF, CR} /\ ending \in Characters
  BY CharactersAssumption DEF LineEnding, ending
<1>4. mark \in TextType
  <2>1. <<BOM>> \in Seq(Characters)
    BY CharactersAssumption
  <2> QED BY <2>1, TextLaws DEF TextType, mark
<1>5. Fits(norm, edits, changes) /\ IsFiniteSet(changes)
  BY <1>2, ChangesFit DEF changes, norm, body
<1>6. ApplyReplacements(norm, edits, changes) = done
  BY <1>5, AllReplaced DEF done
<1>7. done \in TextType /\ done \in Seq(Plain)
  BY <1>2, <1>5, SwappedPlain DEF done
<1>8. r \in TextType
  BY <1>3, <1>7, RestoreTypes DEF r
<1>9. now = mark \o r
  BY <1>6 DEF Edited, now, mark, r, norm, body, changes, ending
<1>10. rest = r
  <2>1. 0 \in 0..Len(mark)
    BY <1>4, LenProperties DEF TextType
  <2> QED BY <1>4, <1>8, <1>9, <2>1, PartsOfConcat DEF rest
<1>11. NormalizeToLf(r) = done
  BY <1>3, <1>7, PlainTexts DEF r
<1>12. r = Swapped(RestoreLineEndings(norm, ending), edits, changes, ending)
  BY <1>3, <1>5, SwappedRestored DEF r, done
<1>13. now \in TextType
  BY <1>4, <1>8, <1>9, TextLaws
<1>14. /\ now = mark \o rest
       /\ NormalizeToLf(rest) = done
       /\ RestoreLineEndings(norm, ending) = body =>
            rest = Swapped(body, edits, changes, ending)
  BY <1>9, <1>10, <1>11, <1>12
<1>15. Exact(text, edits, now)
  BY <1>14 DEF Exact, rest, mark, done, changes, ending, norm, body
<1> QED BY <1>13, <1>15 DEF now

-----------------------------------------------------------------------------
(* The invariant of the new texts.                                         *)

\* What a call has accepted and not yet written or given up.
Worked ==
  /\ files \in [Paths -> FileType]
  /\ input \in [Calls -> InputType]
  /\ base \in [Calls -> FileType]
  /\ out \in [Calls -> TextType]
  /\ \A c \in Calls :
       (pc[c] \in {"read", "open", "written"} /\ input[c].kind = "edit") =>
         /\ Accepts(NormalizeToLf(StripBom(base[c].text)), input[c].edits)
         /\ out[c] = Edited(base[c].text, input[c].edits)

\* Nothing is worked out at first.
LEMMA InitWorked == Init => Worked
<1> SUFFICES ASSUME Init PROVE Worked
  OBVIOUS
<1>1. /\ files \in [Paths -> FileType] /\ input \in [Calls -> InputType]
      /\ pc = [c \in Calls |-> "new"]
  BY InputsAssumption, InitialFilesAssumption DEF Init
<1>2. Missing \in FileType /\ <<>> \in TextType
  BY TextLaws DEF Missing, FileType
<1>3. base \in [Calls -> FileType] /\ out \in [Calls -> TextType]
  BY <1>2 DEF Init
<1> QED BY <1>1, <1>3 DEF Worked

\* A step that changes no text, and after which no call that was not
\* working has a text to write.
LEMMA QuietKeepsWorked ==
  ASSUME Worked, files' \in [Paths -> FileType], UNCHANGED <<input, base, out>>,
         \A c \in Calls : pc'[c] \in {"read", "open", "written"} =>
           pc[c] \in {"read", "open", "written"}
  PROVE  Worked'
BY DEF Worked

\* Every step keeps it.
LEMMA NextWorked ==
  ASSUME IInv, Worked, [Next]_vars
  PROVE  Worked'
<1> DEFINE Work == {"read", "open", "written"}
<1>1. /\ \A c \in Calls : DOMAIN pc = Calls /\ Path(c) \in Paths
      /\ files \in [Paths -> FileType] /\ input \in [Calls -> InputType]
      /\ base \in [Calls -> FileType] /\ out \in [Calls -> TextType]
  BY DEF IInv, TypeInv, Worked
<1>2. \A t \in TextType : File(t) \in FileType
  BY DEF File, FileType
<1>3. ASSUME NEW c \in Calls, Read(c) PROVE Worked'
  <2> DEFINE file == files[Path(c)]
             in   == input[c]
  <2>1. /\ file \in FileType /\ file.text \in TextType /\ in \in InputType
        /\ in.edits \in Seq(EditType) /\ in.content \in TextType
    BY <1>1 DEF FileType, InputType
  <2>2. /\ base' = [base EXCEPT ![c] = file]
        /\ UNCHANGED <<files, input>>
        /\ base' \in [Calls -> FileType]
        /\ base'[c] = file /\ \A d \in Calls : d # c => base'[d] = base[d]
    BY <1>1, <1>3, <2>1 DEF Read
  <2>3. CASE Refuses(in, file)
    <3>1. /\ pc'[c] = "refused" /\ \A d \in Calls : d # c => pc'[d] = pc[d]
          /\ out' = out
      BY <1>1, <1>3, <2>3 DEF Read, Goto
    <3> QED BY <1>1, <2>2, <3>1 DEF Worked
  <2>4. CASE ~Refuses(in, file)
    <3>1. /\ \A d \in Calls : d # c => pc'[d] = pc[d]
          /\ out' = [out EXCEPT ![c] = NewText(in, file)]
      BY <1>1, <1>3, <2>4 DEF Read, Goto
    <3>2. in.kind = "edit" =>
            Accepts(NormalizeToLf(StripBom(file.text)), in.edits)
      BY <2>4 DEF Refuses
    <3>3. NewText(in, file) \in TextType
      <4>1. CASE in.kind = "edit"
        <5> HIDE DEF in, file
        <5>1. Edited(file.text, in.edits) \in TextType
          BY <2>1, <3>2, <4>1, EditedIsExact
        <5> QED BY <4>1, <5>1 DEF NewText
      <4>2. CASE in.kind # "edit"
        BY <2>1, <4>2 DEF NewText
      <4> QED BY <4>1, <4>2
    <3>4. /\ out' \in [Calls -> TextType] /\ out'[c] = NewText(in, file)
          /\ \A d \in Calls : d # c => out'[d] = out[d]
      BY <1>1, <3>1, <3>3
    <3>5. in.kind = "edit" => out'[c] = Edited(file.text, in.edits)
      BY <3>4 DEF NewText
    <3> HIDE DEF file, in
    <3>6. ASSUME NEW d \in Calls, pc'[d] \in Work, input'[d].kind = "edit"
          PROVE  /\ Accepts(NormalizeToLf(StripBom(base'[d].text)),
                            input'[d].edits)
                 /\ out'[d] = Edited(base'[d].text, input'[d].edits)
      <4>1. CASE d = c
        BY <2>2, <3>2, <3>5, <3>6, <4>1 DEF in
      <4>2. CASE d # c
        BY <2>2, <3>1, <3>4, <3>6, <4>2 DEF Worked
      <4> QED BY <4>1, <4>2
    <3> QED BY <1>1, <2>2, <3>4, <3>6 DEF Worked
  <2> QED BY <2>3, <2>4
<1>4. ASSUME NEW c \in Calls, OpenFile(c) PROVE Worked'
  <2>1. /\ files' \in [Paths -> FileType] /\ UNCHANGED <<input, base, out>>
        /\ pc[c] \in Work /\ \A d \in Calls : d # c => pc'[d] = pc[d]
    BY <1>1, <1>2, <1>4, TextLaws DEF OpenFile, Goto
  <2> QED BY <2>1, QuietKeepsWorked
<1>5. ASSUME NEW c \in Calls, FillFile(c) PROVE Worked'
  <2>1. /\ files' \in [Paths -> FileType] /\ UNCHANGED <<input, base, out>>
        /\ pc[c] \in Work /\ \A d \in Calls : d # c => pc'[d] = pc[d]
    BY <1>1, <1>2, <1>5 DEF FillFile, Goto
  <2> QED BY <2>1, QuietKeepsWorked
<1>6. ASSUME NEW c \in Calls, NEW where, where \notin Work,
             Goto(c, where),
             UNCHANGED <<files, input, base, out>>
      PROVE  Worked'
  <2>1. \A d \in Calls : pc'[d] \in Work => pc[d] \in Work
    BY <1>1, <1>6 DEF Goto
  <2> QED BY <1>1, <1>6, <2>1, QuietKeepsWorked
<1>7. ASSUME NEW c \in Calls, NEW how \in {"done", "failed"}, Release(c, how),
             UNCHANGED <<files, input, base, out>>
      PROVE  Worked'
  BY <1>6, <1>7 DEF Release
<1>8. CASE UNCHANGED vars
  BY <1>1, <1>8, QuietKeepsWorked DEF vars
<1>9. ASSUME NEW c \in Calls, Abort(c) PROVE Worked'
  BY <1>1, <1>9, QuietKeepsWorked DEF Abort
<1>10. ASSUME NEW c \in Calls, RefuseCall(c) PROVE Worked'
  BY <1>6, <1>10 DEF RefuseCall
<1>11. ASSUME NEW c \in Calls, Join(c) PROVE Worked'
  BY <1>6, <1>11 DEF Join
<1>12. ASSUME NEW c \in Calls,
              GiveUpInTurn(c) \/ GiveUpRead(c) \/ WriteFails(c)
       PROVE  Worked'
  BY <1>7, <1>12 DEF GiveUpInTurn, GiveUpRead, WriteFails
<1>13. ASSUME NEW c \in Calls, Finish(c) PROVE Worked'
  BY <1>7, <1>13 DEF Finish
<1> QED BY <1>3, <1>4, <1>5, <1>8, <1>9, <1>10, <1>11, <1>12, <1>13
        DEF Next, CallStep

\* Whatever texts the files hold and whatever edits are asked for: the edits
\* of a call that are accepted are made each at its place in the text that
\* was read, all of them and nothing else, the byte order mark stays and so
\* does a line end used throughout (edit/execute.ts:26-40, replace.ts).
THEOREM EditsStayExact == Spec => []EditsAreExact
<1>1. IInv /\ Worked => EditsAreExact
  <2> SUFFICES ASSUME IInv, Worked, NEW c \in Calls,
                      pc[c] = "written", input[c].kind = "edit"
               PROVE  Exact(base[c].text, input[c].edits,
                            files[Path(c)].text)
    BY DEF EditsAreExact
  <2>1. files[Path(c)] = File(out[c])
    BY DEF IInv, Untouched
  <2>2. /\ base[c].text \in TextType /\ input[c].edits \in Seq(EditType)
        /\ Accepts(NormalizeToLf(StripBom(base[c].text)), input[c].edits)
        /\ out[c] = Edited(base[c].text, input[c].edits)
    BY DEF Worked, FileType, InputType
  <2>3. files[Path(c)].text = Edited(base[c].text, input[c].edits)
    BY <2>1, <2>2 DEF File
  <2> QED BY <2>2, <2>3, EditedIsExact
<1>2. Init => IInv /\ Worked
  BY InitIInv, InitWorked
<1>3. IInv /\ Worked /\ [Next]_vars => (IInv /\ Worked)'
  BY NextIInv, NextWorked
<1> QED BY <1>1, <1>2, <1>3, PTL DEF Spec

=============================================================================
