-------------------------- MODULE BootstrapProofs --------------------------
(***************************************************************************)
(* Machine-checked proofs about Plugins and Bootstrap, for any packages,   *)
(* ids and bounds: the inductive invariants of the layered registries, of  *)
(* the loader's records and of the command's stages, hence that a layer is *)
(* taken out by its own disposable and no other, and that a command which  *)
(* got as far as its context leaves nothing behind.                        *)
(***************************************************************************)
EXTENDS Bootstrap, SequenceTheorems, TLAPS

USE CandidatesAssumption

-----------------------------------------------------------------------------
(* The inductive invariant of the loader and its registries.               *)

Owner == Packages \cup {"none"}

Kinds == {"none", "activating", "rolling back", "unloading"}

RegistryType ==
  /\ made \in Seq([id : Ids, owner : Owner, late : BOOLEAN,
                   generation : Nat])
  /\ layers \in [Ids -> Seq([of : Nat, active : BOOLEAN])]
  /\ disposed \subseteq Registrations
  /\ generation \in Nat

LoaderType ==
  /\ work \in [kind : Kinds, package : Owner, left : Seq(Nat)]
  /\ active \in Seq([package : Owner, owned : Seq(Nat)])
  /\ \A k \in DOMAIN work.left : work.left[k] \in Registrations
  /\ \A i \in DOMAIN active : \A k \in DOMAIN active[i].owned :
       active[i].owned[k] \in Registrations

\* No two registrations have the same generation: the loader's counter goes
\* up between any two.
Generations ==
  \A u, v \in Registrations :
    /\ made[u].generation <= generation
    /\ u < v => made[u].generation < made[v].generation

\* A layer is a registration under its own id, in one place, and active
\* until that registration is disposed.
LayersAreRegistrations ==
  \A id \in Ids : \A i \in DOMAIN layers[id] :
    /\ layers[id][i].of \in Registrations
    /\ made[layers[id][i].of].id = id
    /\ layers[id][i].active <=> layers[id][i].of \notin disposed
    /\ \A j \in DOMAIN layers[id] :
         layers[id][i].of = layers[id][j].of => i = j

RegistrationsAreLayers ==
  \A u \in Registrations : u \notin disposed =>
    \E i \in DOMAIN layers[made[u].id] : layers[made[u].id][i].of = u

\* The list under way, or one of a record, holds what is not disposed yet.
Owned(u) ==
  \/ \E k \in DOMAIN work.left : work.left[k] = u
  \/ \E i \in DOMAIN active : \E k \in DOMAIN active[i].owned :
       active[i].owned[k] = u

EveryoneOwned ==
  \A u \in Registrations : u \in disposed \/ made[u].late \/ Owned(u)

\* A package has one record, emptied while it is unloaded, and none while
\* it is activated; nothing is left of work that has ended.
Records ==
  /\ \A i, j \in DOMAIN active : active[i].package = active[j].package => i = j
  /\ work.kind = "activating" =>
       \A i \in DOMAIN active : active[i].package # work.package
  /\ work.kind = "unloading" =>
       \A i \in DOMAIN active :
         active[i].package = work.package => active[i].owned = <<>>
  /\ work.kind = "none" => work.left = <<>>

\* What has yet to be loaded has no record and is not being activated.
QueueType == queue \in Seq(Packages)

Queue ==
  /\ \A m, n \in DOMAIN queue : queue[m] = queue[n] => m = n
  /\ \A n \in DOMAIN queue :
       /\ \A i \in DOMAIN active : active[i].package # queue[n]
       /\ work.kind = "activating" => work.package # queue[n]

RegistryInv ==
  /\ RegistryType /\ Generations
  /\ LayersAreRegistrations /\ RegistrationsAreLayers

LoaderInv ==
  LoaderType /\ EveryoneOwned /\ Records /\ QueueType /\ Queue

-----------------------------------------------------------------------------
(* Sequences.                                                              *)

\* What removing one place of a sequence leaves.
LEMMA RemoveAtProperties ==
  ASSUME NEW S, NEW s \in Seq(S), NEW i \in DOMAIN s
  PROVE  /\ RemoveAt(s, i) \in Seq(S)
         /\ Len(RemoveAt(s, i)) = Len(s) - 1
         /\ \A j \in 1..(Len(s) - 1) :
              RemoveAt(s, i)[j] = IF j < i THEN s[j] ELSE s[j + 1]
<1> DEFINE a == SubSeq(s, 1, i - 1)
           b == SubSeq(s, i + 1, Len(s))
<1>1. i \in 1..Len(s) /\ Len(s) \in Nat /\ \A j \in 1..Len(s) : s[j] \in S
  OBVIOUS
<1>2. /\ a \in Seq(S) /\ Len(a) = i - 1
      /\ \A j \in 1..(i - 1) : a[j] = s[j]
  BY <1>1, SubSeqProperties
<1>3. /\ b \in Seq(S) /\ Len(b) = Len(s) - i
      /\ \A j \in 1..(Len(s) - i) : b[j] = s[i + j]
  BY <1>1, SubSeqProperties
<1>4. RemoveAt(s, i) = a \o b
  BY DEF RemoveAt
<1> HIDE DEF a, b
<1>5. /\ a \o b \in Seq(S) /\ Len(a \o b) = Len(s) - 1
      /\ \A j \in 1..(Len(s) - 1) :
           (a \o b)[j] = IF j <= i - 1 THEN a[j] ELSE b[j - (i - 1)]
  <2>1. /\ a \o b \in Seq(S) /\ Len(a \o b) = Len(a) + Len(b)
        /\ \A j \in 1..(Len(a) + Len(b)) :
             (a \o b)[j] = IF j <= Len(a) THEN a[j] ELSE b[j - Len(a)]
    BY <1>2, <1>3, ConcatProperties
  <2>2. Len(a) = i - 1 /\ Len(a) + Len(b) = Len(s) - 1
    BY <1>1, <1>2, <1>3
  <2>3. ASSUME NEW j \in 1..(Len(s) - 1)
        PROVE  (a \o b)[j] = IF j <= i - 1 THEN a[j] ELSE b[j - (i - 1)]
    <3>1. j \in 1..(Len(a) + Len(b))
      BY <2>2
    <3> QED BY <2>1, <2>2, <3>1
  <2> QED BY <2>1, <2>2, <2>3
<1>6. ASSUME NEW j \in 1..(Len(s) - 1)
      PROVE  RemoveAt(s, i)[j] = IF j < i THEN s[j] ELSE s[j + 1]
  <2>1. CASE j < i
    BY <1>1, <1>2, <1>4, <1>5, <2>1
  <2>2. CASE ~(j < i)
    <3>1. j - (i - 1) \in 1..(Len(s) - i) /\ ~(j <= i - 1)
      BY <1>1, <2>2
    <3>2. b[j - (i - 1)] = s[j + 1]
      BY <1>1, <1>3, <3>1
    <3>3. RemoveAt(s, i)[j] = b[j - (i - 1)]
      BY <1>4, <1>5, <3>1
    <3> QED BY <2>2, <3>2, <3>3
  <2> QED BY <2>1, <2>2
<1> QED BY <1>4, <1>5, <1>6

\* All but the last element of a sequence.
LEMMA FrontProperties ==
  ASSUME NEW S, NEW s \in Seq(S), s # <<>>
  PROVE  /\ Front(s) \in Seq(S)
         /\ Len(s) \in DOMAIN s /\ Last(s) = s[Len(s)]
         /\ \A j \in DOMAIN Front(s) : j \in DOMAIN s /\ Front(s)[j] = s[j]
         /\ \A k \in DOMAIN s :
              s[k] = Last(s) \/ \E j \in DOMAIN Front(s) : Front(s)[j] = s[k]
<1>1. /\ Len(s) \in Nat \ {0} /\ DOMAIN s = 1..Len(s)
      /\ \A j \in 1..Len(s) : s[j] \in S
  OBVIOUS
<1>2. /\ Front(s) \in Seq(S) /\ Len(Front(s)) = Len(s) - 1
      /\ \A j \in 1..(Len(s) - 1) : Front(s)[j] = s[j]
  BY <1>1, SubSeqProperties DEF Front
<1>3. DOMAIN Front(s) = 1..(Len(s) - 1)
  BY <1>2
<1>4. \A k \in DOMAIN s : k = Len(s) \/ k \in 1..(Len(s) - 1)
  BY <1>1
<1> QED BY <1>1, <1>2, <1>3, <1>4 DEF Last

-----------------------------------------------------------------------------
(* What the operations of the registries do.                               *)

\* What a registration is made of.
LEMMA MadeTyped ==
  ASSUME RegistryType
  PROVE  /\ Len(made) \in Nat /\ Registrations = 1..Len(made)
         /\ DOMAIN made = 1..Len(made)
         /\ \A u \in Registrations :
              /\ u \in Nat /\ made[u].id \in Ids
              /\ made[u].late \in BOOLEAN /\ made[u].generation \in Nat
<1> DEFINE R == [id : Ids, owner : Owner, late : BOOLEAN, generation : Nat]
<1>1. made \in Seq(R)
  BY DEF RegistryType
<1>2. Len(made) \in Nat /\ Registrations = 1..Len(made)
      /\ DOMAIN made = 1..Len(made)
  BY <1>1, LenProperties DEF Registrations
<1>3. \A u \in Registrations : made[u] \in R
  BY <1>1, <1>2, ElementOfSeq
<1> QED BY <1>2, <1>3

\* The generations tell the registrations apart.
LEMMA GenerationsDiffer ==
  ASSUME RegistryInv, NEW u \in Registrations, NEW v \in Registrations,
         made[u].generation = made[v].generation
  PROVE  u = v
<1>1. /\ made[u].generation \in Nat /\ made[v].generation \in Nat
      /\ u \in Nat /\ v \in Nat
  BY MadeTyped DEF RegistryInv
<1>2. ~(u < v) /\ ~(v < u)
  BY <1>1 DEF RegistryInv, Generations
<1> QED BY <1>1, <1>2

\* A registration is a new one and puts its layer on top.
LEMMA RegisterAppends ==
  ASSUME RegistryInv, NEW id \in Ids, NEW owner \in Owner,
         NEW late \in BOOLEAN, Register(id, owner, late),
         generation' = generation + 1, disposed' = disposed
  PROVE  /\ RegistryInv'
         /\ Registrations' = Registrations \cup {Len(made) + 1}
         /\ Len(made) + 1 \in Nat
         /\ \A u \in Registrations : made'[u] = made[u]
         /\ made'[Len(made) + 1].late = late
<1> DEFINE n == Len(made)
           r == [id |-> id, owner |-> owner, late |-> late,
                 generation |-> generation + 1]
           l == [of |-> n + 1, active |-> TRUE]
           R == [id : Ids, owner : Owner, late : BOOLEAN, generation : Nat]
           L == [of : Nat, active : BOOLEAN]
<1>1. /\ n \in Nat /\ generation \in Nat /\ made \in Seq(R)
      /\ DOMAIN made = 1..n
      /\ r \in R /\ l \in L /\ made' = Append(made, r)
  BY DEF RegistryInv, RegistryType, Register
<1>2. /\ made' \in Seq(R) /\ Len(made') = n + 1 /\ made'[n + 1] = r
      /\ \A u \in 1..n : made'[u] = made[u]
  BY <1>1
<1>3. /\ layers \in [Ids -> Seq(L)]
      /\ layers' = [layers EXCEPT ![id] = Append(@, l)]
  BY DEF RegistryInv, RegistryType, Register
<1>4. /\ layers' \in [Ids -> Seq(L)]
      /\ \A x \in Ids : x # id => layers'[x] = layers[x]
      /\ DOMAIN layers'[id] = 1..(Len(layers[id]) + 1)
      /\ DOMAIN layers[id] = 1..Len(layers[id])
      /\ Len(layers[id]) \in Nat
      /\ layers'[id][Len(layers[id]) + 1] = l
      /\ \A i \in DOMAIN layers[id] : layers'[id][i] = layers[id][i]
  <2>1. /\ Append(layers[id], l) \in Seq(L)
        /\ Len(layers[id]) \in Nat
        /\ DOMAIN layers[id] = 1..Len(layers[id])
        /\ Len(Append(layers[id], l)) = Len(layers[id]) + 1
        /\ Append(layers[id], l)[Len(layers[id]) + 1] = l
        /\ \A i \in 1..Len(layers[id]) :
             Append(layers[id], l)[i] = layers[id][i]
    BY <1>1, <1>3, AppendProperties
  <2>2. layers'[id] = Append(layers[id], l)
    BY <1>3
  <2> QED BY <1>3, <2>1, <2>2
<1>4a. \A x \in Ids : \A i \in DOMAIN layers[x] :
         i \in DOMAIN layers'[x] /\ layers'[x][i] = layers[x][i]
  <2>1. \A i \in DOMAIN layers[id] : i \in DOMAIN layers'[id]
    BY <1>4
  <2> QED BY <1>4, <2>1
<1>5. /\ Registrations = 1..n /\ Registrations' = 1..(n + 1)
      /\ Registrations' = Registrations \cup {n + 1}
  BY <1>1, <1>2 DEF Registrations
<1>6. r.id = id /\ r.late = late /\ r.generation = generation + 1
      /\ l.of = n + 1 /\ l.active = TRUE
  OBVIOUS
<1> HIDE DEF r, l, R, L, n
<1>7. RegistryType'
  BY <1>1, <1>2, <1>4, <1>5 DEF RegistryInv, RegistryType, R, L
<1>8. Generations'
  <2>1. \A u \in 1..n : made[u].generation \in Nat
    BY <1>5, MadeTyped DEF RegistryInv
  <2>2. \A u \in 1..n : made'[u].generation <= generation
                         /\ made'[u].generation \in Nat
    BY <1>2, <1>5, <2>1 DEF RegistryInv, Generations
  <2>3. \A u, v \in 1..n :
          u < v => made'[u].generation < made'[v].generation
    BY <1>2, <1>5 DEF RegistryInv, Generations
  <2>4. made'[n + 1].generation = generation + 1
    BY <1>2, <1>6
  <2>5. \A u \in Registrations' : u \in 1..n \/ u = n + 1
    BY <1>5
  <2> QED BY <1>1, <2>2, <2>3, <2>4, <2>5 DEF Generations
<1>9. n + 1 \notin disposed' /\ n + 1 \in Registrations'
  BY <1>1, <1>5 DEF RegistryInv, RegistryType
<1>10. LayersAreRegistrations'
  <2>1. ASSUME NEW x \in Ids, NEW i \in DOMAIN layers'[x]
        PROVE  \/ /\ i \in DOMAIN layers[x]
                  /\ layers'[x][i] = layers[x][i]
               \/ /\ x = id /\ i = Len(layers[id]) + 1 /\ layers'[x][i] = l
    BY <1>4
  <2>2. ASSUME NEW x \in Ids, NEW i \in DOMAIN layers'[x]
        PROVE  /\ layers'[x][i].of \in Registrations'
               /\ made'[layers'[x][i].of].id = x
               /\ layers'[x][i].active <=> layers'[x][i].of \notin disposed'
    <3>1. CASE i \in DOMAIN layers[x] /\ layers'[x][i] = layers[x][i]
      BY <1>2, <1>5, <3>1 DEF RegistryInv, LayersAreRegistrations
    <3>2. CASE x = id /\ layers'[x][i] = l
      BY <1>2, <1>6, <1>9, <3>2
    <3> QED BY <2>1, <3>1, <3>2
  <2>3. ASSUME NEW x \in Ids, NEW i \in DOMAIN layers'[x],
               NEW j \in DOMAIN layers'[x],
               layers'[x][i].of = layers'[x][j].of
        PROVE  i = j
    <3>1. \A k \in DOMAIN layers[x] : layers[x][k].of # n + 1
      BY <1>1, <1>5 DEF RegistryInv, LayersAreRegistrations
    <3>2. CASE i \in DOMAIN layers[x] /\ j \in DOMAIN layers[x]
      BY <1>6, <2>1, <2>3, <3>1, <3>2
         DEF RegistryInv, LayersAreRegistrations
    <3>3. CASE ~(i \in DOMAIN layers[x] /\ j \in DOMAIN layers[x])
      BY <1>6, <2>1, <2>3, <3>1, <3>3
    <3> QED BY <3>2, <3>3
  <2> QED BY <2>2, <2>3 DEF LayersAreRegistrations
<1>11. RegistrationsAreLayers'
  <2>1. ASSUME NEW u \in Registrations', u \notin disposed'
        PROVE  \E i \in DOMAIN layers'[made'[u].id] :
                 layers'[made'[u].id][i].of = u
    <3>1. CASE u \in Registrations
      <4>1. PICK i \in DOMAIN layers[made[u].id] :
              layers[made[u].id][i].of = u
        BY <2>1, <3>1 DEF RegistryInv, RegistrationsAreLayers
      <4>2. made'[u] = made[u] /\ made[u].id \in Ids
        BY <1>2, <1>5, <3>1, MadeTyped DEF RegistryInv
      <4>3. /\ i \in DOMAIN layers'[made[u].id]
            /\ layers'[made[u].id][i] = layers[made[u].id][i]
        BY <1>4a, <4>1, <4>2
      <4> QED BY <4>1, <4>2, <4>3
    <3>2. CASE u = n + 1
      <4>1. Len(layers[id]) + 1 \in DOMAIN layers'[id]
        BY <1>4
      <4> QED BY <1>2, <1>4, <1>6, <3>2, <4>1
    <3> QED BY <1>5, <2>1, <3>1, <3>2
  <2> QED BY <2>1 DEF RegistrationsAreLayers
<1> QED BY <1>1, <1>2, <1>5, <1>6, <1>7, <1>8, <1>10, <1>11
        DEF RegistryInv, n

\* Of the layers of an undisposed registration's id, only its own has its
\* generation.
LEMMA OneMatches ==
  ASSUME RegistryInv, NEW u \in Registrations, u \notin disposed
  PROVE  \E i \in DOMAIN layers[made[u].id] :
           /\ layers[made[u].id][i].of = u
           /\ Matching(u) = {i} /\ Min(Matching(u)) = i
<1> DEFINE id == made[u].id
<1>1. PICK i \in DOMAIN layers[id] : layers[id][i].of = u
  BY DEF RegistryInv, RegistrationsAreLayers
<1>2. /\ id \in Ids /\ DOMAIN layers[id] \subseteq Nat
  <2>1. RegistryType
    BY DEF RegistryInv
  <2>2. id \in Ids
    BY <2>1, MadeTyped
  <2>3. layers[id] \in Seq([of : Nat, active : BOOLEAN])
    BY <2>1, <2>2 DEF RegistryType
  <2> QED BY <2>2, <2>3
<1>3. i \in Matching(u)
  BY <1>1, <1>2 DEF Matching, ActiveAt, RegistryInv, LayersAreRegistrations
<1>4. ASSUME NEW j \in Matching(u)
      PROVE  j = i
  <2>1. /\ j \in DOMAIN layers[id] /\ layers[id][j].of \in Registrations
        /\ made[layers[id][j].of].generation = made[u].generation
    BY <1>2, <1>4
       DEF Matching, ActiveAt, RegistryInv, LayersAreRegistrations
  <2>2. layers[id][j].of = u
    BY <2>1, GenerationsDiffer
  <2> QED BY <1>1, <1>2, <2>1, <2>2 DEF RegistryInv, LayersAreRegistrations
<1>5. Matching(u) = {i}
  BY <1>3, <1>4
<1>6. Min({i}) = i
  BY <1>1, <1>2 DEF Min
<1> QED BY <1>1, <1>5, <1>6

\* A disposable takes out the layer of its registration and no other.
LEMMA DisposeRemoves ==
  ASSUME RegistryInv, NEW u \in Registrations, Dispose(u),
         UNCHANGED <<made, generation>>
  PROVE  RegistryInv'
<1>1. CASE u \in disposed
  <2>1. disposed \cup {u} = disposed
    BY <1>1
  <2>2. /\ made' = made /\ generation' = generation /\ layers' = layers
        /\ disposed' = disposed
    BY <1>1, <2>1 DEF Dispose
  <2>3. RegistryType' /\ Generations'
    BY <2>2 DEF RegistryInv, RegistryType, Generations, Registrations
  <2>4. LayersAreRegistrations' /\ RegistrationsAreLayers'
    BY <2>2 DEF RegistryInv, Registrations,
                LayersAreRegistrations, RegistrationsAreLayers
  <2> QED BY <2>3, <2>4 DEF RegistryInv
<1>2. CASE u \notin disposed
  <2> DEFINE id == made[u].id
             old == layers[id]
             stack(i) == [old EXCEPT ![i].active = FALSE]
             L == [of : Nat, active : BOOLEAN]
  <2>1. PICK i \in DOMAIN old : /\ old[i].of = u
                                /\ Matching(u) = {i} /\ Min(Matching(u)) = i
    BY <1>2, OneMatches
  <2>2. /\ layers' = [layers EXCEPT ![id] = Without(id, i)]
        /\ disposed' = disposed \cup {u}
    BY <1>2, <2>1 DEF Dispose
  <2>3. /\ id \in Ids /\ layers \in [Ids -> Seq(L)] /\ old \in Seq(L)
        /\ Registrations' = Registrations
    BY MadeTyped DEF RegistryInv, RegistryType, Registrations
  <2>4. /\ stack(i) \in Seq(L) /\ DOMAIN stack(i) = DOMAIN old
        /\ stack(i)[i].of = u /\ stack(i)[i].active = FALSE
        /\ \A j \in DOMAIN old : j # i => stack(i)[j] = old[j]
    <3>4. old[i] \in L
      <4>1. i \in 1..Len(old)
        BY <2>1, <2>3, LenProperties
      <4> QED BY <2>3, <4>1, ElementOfSeq
    <3>1. [old[i] EXCEPT !.active = FALSE] \in L
      BY <3>4
    <3>2. stack(i) = [old EXCEPT ![i] = [old[i] EXCEPT !.active = FALSE]]
      BY <2>1, <2>3
    <3>3. stack(i) \in Seq(L)
      <4>1. i \in 1..Len(old)
        BY <2>1, <2>3, LenProperties
      <4> QED BY <2>3, <3>1, <3>2, <4>1, ExceptSeq
    <3> QED BY <2>1, <2>3, <3>3, <3>4
  <2>5. /\ \/ layers'[id] = stack(i)
           \/ /\ layers'[id] = <<>>
              /\ \A j \in DOMAIN stack(i) : ~stack(i)[j].active
        /\ \A x \in Ids : x # id => layers'[x] = layers[x]
        /\ layers' \in [Ids -> Seq(L)]
    <3>1. \/ Without(id, i) = stack(i)
          \/ /\ Without(id, i) = <<>>
             /\ \A j \in DOMAIN stack(i) : ~stack(i)[j].active
      BY DEF Without
    <3>2. Without(id, i) \in Seq(L)
      BY <2>4, <3>1, EmptySeq
    <3> QED BY <2>2, <2>3, <3>1, <3>2
  <2> HIDE DEF stack, L
  <2>6. RegistryType' /\ Generations'
    BY <2>2, <2>3, <2>5
       DEF RegistryInv, RegistryType, Generations, L
  <2>7. ASSUME NEW x \in Ids, NEW j \in DOMAIN layers'[x]
        PROVE  /\ j \in DOMAIN layers[x]
               /\ layers'[x][j].of = layers[x][j].of
               /\ \/ layers'[x][j] = layers[x][j]
                     /\ layers[x][j].of # u
                  \/ layers[x][j].of = u /\ ~layers'[x][j].active
    <3>1. CASE x = id
      <4>1. layers'[id] # <<>>
        BY <3>1
      <4>2. layers'[id] = stack(i) /\ j \in DOMAIN old
        BY <2>4, <2>5, <3>1, <4>1
      <4>3. \A k \in DOMAIN old : k # i => old[k].of # u
        BY <2>1, <2>3 DEF RegistryInv, LayersAreRegistrations
      <4> QED BY <2>1, <2>4, <3>1, <4>2, <4>3
    <3>2. CASE x # id
      <4>1. layers'[x] = layers[x]
        BY <2>5, <3>2
      <4>2. layers[x][j].of # u
        BY <2>7, <3>2, <4>1 DEF RegistryInv, LayersAreRegistrations
      <4> QED BY <2>7, <4>1, <4>2
    <3> QED BY <3>1, <3>2
  <2>8. LayersAreRegistrations'
    <3>1. ASSUME NEW x \in Ids, NEW j \in DOMAIN layers'[x]
          PROVE  /\ layers'[x][j].of \in Registrations
                 /\ made[layers'[x][j].of].id = x
                 /\ layers'[x][j].active <=> layers'[x][j].of \notin disposed'
                 /\ \A k \in DOMAIN layers'[x] :
                      layers'[x][j].of = layers'[x][k].of => j = k
      BY <2>2, <2>7 DEF RegistryInv, LayersAreRegistrations
    <3> QED BY <2>3, <3>1 DEF LayersAreRegistrations
  <2>9. RegistrationsAreLayers'
    <3>1. ASSUME NEW v \in Registrations, v \notin disposed'
          PROVE  \E j \in DOMAIN layers'[made[v].id] :
                   layers'[made[v].id][j].of = v
      <4>1. v \notin disposed /\ v # u /\ made[v].id \in Ids
        BY <2>2, <3>1, MadeTyped DEF RegistryInv
      <4>2. PICK j \in DOMAIN layers[made[v].id] :
              layers[made[v].id][j].of = v
        BY <4>1 DEF RegistryInv, RegistrationsAreLayers
      <4>3. CASE made[v].id = id
        <5>1. j # i /\ old[j].active
          BY <2>1, <4>1, <4>2, <4>3 DEF RegistryInv, LayersAreRegistrations
        <5>2. stack(i)[j] = old[j] /\ j \in DOMAIN stack(i)
          BY <2>4, <4>2, <4>3, <5>1
        <5>3. layers'[id] = stack(i)
          BY <2>5, <5>1, <5>2
        <5> QED BY <4>2, <4>3, <5>2, <5>3
      <4>4. CASE made[v].id # id
        BY <2>5, <4>1, <4>2, <4>4
      <4> QED BY <4>3, <4>4
    <3> QED BY <2>3, <3>1 DEF RegistrationsAreLayers
  <2> QED BY <2>6, <2>8, <2>9 DEF RegistryInv
<1> QED BY <1>1, <1>2

-----------------------------------------------------------------------------
(* The steps of the loader and of the extensions.                          *)

\* Registries nobody touches stay as they are, whatever the counter does.
LEMMA RegistriesStay ==
  ASSUME RegistryInv, UNCHANGED <<made, layers, disposed>>,
         generation' = generation \/ generation' = generation + 1
  PROVE  RegistryInv'
<1>1. /\ made' = made /\ layers' = layers /\ disposed' = disposed
      /\ generation \in Nat /\ generation' \in Nat
      /\ generation <= generation'
  BY DEF RegistryInv, RegistryType
<1>2. RegistryType'
  BY <1>1 DEF RegistryInv, RegistryType, Registrations
<1>3. Generations'
  <2>1. \A u \in Registrations : made[u].generation <= generation'
    BY <1>1, MadeTyped DEF RegistryInv, Generations
  <2> QED BY <1>1, <2>1 DEF RegistryInv, Generations, Registrations
<1>4. LayersAreRegistrations' /\ RegistrationsAreLayers'
  BY <1>1 DEF RegistryInv, Registrations,
              LayersAreRegistrations, RegistrationsAreLayers
<1> QED BY <1>2, <1>3, <1>4 DEF RegistryInv

\* What the loader's variables are made of, in the form the steps need.
LEMMA LoaderTyped ==
  ASSUME LoaderType
  PROVE  /\ work.kind \in Kinds /\ work.package \in Owner
         /\ work.left \in Seq(Nat)
         /\ Len(active) \in Nat /\ DOMAIN active = 1..Len(active)
         /\ \A i \in DOMAIN active :
              /\ active[i] \in [package : Owner, owned : Seq(Nat)]
              /\ active[i].package \in Owner
              /\ active[i].owned \in Seq(Nat)
<1> DEFINE A == [package : Owner, owned : Seq(Nat)]
<1>1. active \in Seq(A)
  BY DEF LoaderType
<1>2. Len(active) \in Nat /\ DOMAIN active = 1..Len(active)
  BY <1>1, LenProperties
<1>3. \A i \in DOMAIN active : active[i] \in A
  BY <1>1, <1>2, ElementOfSeq
<1> QED BY <1>2, <1>3 DEF LoaderType

\* An extension registers during its activation: it goes on the list.
LEMMA RegisterOwnedStep ==
  ASSUME RegistryInv, LoaderInv, NEW id \in Ids, NEW replace \in BOOLEAN,
         RegisterOwned(id, replace), queue' = queue
  PROVE  RegistryInv' /\ LoaderInv'
<1>1. CASE ~Permitted(id, replace)
  <2>1. /\ made' = made /\ layers' = layers /\ disposed' = disposed
        /\ work' = work /\ active' = active
        /\ generation' = generation + 1
    BY <1>1 DEF RegisterOwned
  <2>2. RegistryInv'
    BY <2>1, RegistriesStay
  <2>3. LoaderType' /\ EveryoneOwned'
    BY <2>1 DEF LoaderInv, LoaderType, EveryoneOwned, Owned, Registrations
  <2>4. Records' /\ QueueType' /\ Queue'
    BY <2>1 DEF LoaderInv, Records, QueueType, Queue
  <2> QED BY <2>2, <2>3, <2>4 DEF LoaderInv
<1>2. CASE Permitted(id, replace)
  <2>8. PICK n : n = Len(made) + 1
    OBVIOUS
  <2>1. /\ Register(id, work.package, FALSE) /\ generation' = generation + 1
        /\ disposed' = disposed /\ active' = active
        /\ work.kind = "activating"
        /\ work' = [work EXCEPT !.left = Append(@, n)]
    BY <1>2, <2>8 DEF RegisterOwned
  <2>2. /\ RegistryInv' /\ n \in Nat
        /\ Registrations' = Registrations \cup {n}
        /\ \A u \in Registrations : made'[u] = made[u]
    BY <2>1, <2>8, LoaderTyped, RegisterAppends DEF LoaderInv
  <2>3. /\ work'.kind = work.kind /\ work'.package = work.package
        /\ work'.left = Append(work.left, n)
        /\ work' \in [kind : Kinds, package : Owner, left : Seq(Nat)]
    BY <2>1, <2>2, LoaderTyped, AppendProperties DEF LoaderInv, LoaderType
  <2>4. /\ Len(work.left) \in Nat
        /\ DOMAIN work.left = 1..Len(work.left)
        /\ DOMAIN work'.left = 1..(Len(work.left) + 1)
        /\ work'.left[Len(work.left) + 1] = n
        /\ \A k \in DOMAIN work.left : work'.left[k] = work.left[k]
    <3>1. PICK s : s = work.left
      OBVIOUS
    <3>2. s \in Seq(Nat) /\ n \in Nat /\ work'.left = Append(s, n)
      BY <2>2, <2>3, <3>1, LoaderTyped DEF LoaderInv
    <3> QED BY <3>1, <3>2
  <2>5. LoaderType'
    <3>1. \A k \in DOMAIN work'.left : work'.left[k] \in Registrations'
      BY <2>2, <2>4 DEF LoaderInv, LoaderType
    <3> QED BY <2>1, <2>2, <2>3, <3>1 DEF LoaderInv, LoaderType
  <2>6. EveryoneOwned'
    <3>1. ASSUME NEW u \in Registrations, Owned(u)
          PROVE  Owned(u)'
      <4>1. \A k \in DOMAIN work.left :
              k \in DOMAIN work'.left /\ work'.left[k] = work.left[k]
        BY <2>4
      <4> QED BY <2>1, <3>1, <4>1 DEF Owned
    <3>2. Owned(n)'
      <4>1. Len(work.left) + 1 \in DOMAIN work'.left
        BY <2>4
      <4> QED BY <2>4, <4>1 DEF Owned
    <3>3. ASSUME NEW u \in Registrations'
          PROVE  u \in disposed' \/ made'[u].late \/ Owned(u)'
      BY <2>1, <2>2, <3>1, <3>2, <3>3 DEF LoaderInv, EveryoneOwned
    <3> QED BY <3>3 DEF EveryoneOwned
  <2>7. Records' /\ QueueType' /\ Queue'
    BY <2>1, <2>3 DEF LoaderInv, Records, QueueType, Queue
  <2> QED BY <2>2, <2>5, <2>6, <2>7 DEF LoaderInv
<1> QED BY <1>1, <1>2

\* What registers after its activation is on no list, and needs none.
LEMMA RegisterLateStep ==
  ASSUME RegistryInv, LoaderInv, NEW id \in Ids, NEW replace \in BOOLEAN,
         RegisterLate(id, replace), queue' = queue
  PROVE  RegistryInv' /\ LoaderInv'
<1> DEFINE n == Len(made) + 1
<1>1. PICK i \in DOMAIN active : Register(id, active[i].package, TRUE)
  BY DEF RegisterLate
<1>2. /\ generation' = generation + 1 /\ disposed' = disposed
      /\ work' = work /\ active' = active
  BY DEF RegisterLate
<1>3. /\ RegistryInv' /\ n \in Nat /\ made'[n].late
      /\ Registrations' = Registrations \cup {n}
      /\ \A u \in Registrations : made'[u] = made[u]
  BY <1>1, <1>2, LoaderTyped, RegisterAppends DEF LoaderInv
<1> HIDE DEF n
<1>4. LoaderType'
  BY <1>2, <1>3 DEF LoaderInv, LoaderType
<1>5. EveryoneOwned'
  <2>1. \A u : Owned(u)' <=> Owned(u)
    BY <1>2 DEF Owned
  <2> QED BY <1>2, <1>3, <2>1 DEF LoaderInv, EveryoneOwned
<1>6. Records' /\ QueueType' /\ Queue'
  BY <1>2 DEF LoaderInv, Records, QueueType, Queue
<1> QED BY <1>3, <1>4, <1>5, <1>6 DEF LoaderInv

\* An extension calls a disposable itself.
LEMMA DisposeEarlyStep ==
  ASSUME RegistryInv, LoaderInv, NEW u \in Registrations, DisposeEarly(u),
         queue' = queue
  PROVE  RegistryInv' /\ LoaderInv'
<1>1. /\ Dispose(u) /\ disposed' = disposed \cup {u}
      /\ made' = made /\ generation' = generation
      /\ work' = work /\ active' = active
  BY DEF DisposeEarly, Dispose
<1>2. RegistryInv'
  BY <1>1, DisposeRemoves
<1>3. LoaderType' /\ EveryoneOwned'
  BY <1>1 DEF LoaderInv, LoaderType, EveryoneOwned, Owned, Registrations
<1>4. Records' /\ QueueType' /\ Queue'
  BY <1>1 DEF LoaderInv, Records, QueueType, Queue
<1> QED BY <1>2, <1>3, <1>4 DEF LoaderInv

\* The loader disposes the last of its list.
LEMMA DisposeNextStep ==
  ASSUME RegistryInv, LoaderInv, DisposeNext, queue' = queue
  PROVE  RegistryInv' /\ LoaderInv'
<1>9. PICK u : u = Last(work.left)
  OBVIOUS
<1>1. /\ Dispose(u) /\ disposed' = disposed \cup {u}
      /\ made' = made /\ generation' = generation /\ active' = active
      /\ work' = [work EXCEPT !.left = Front(@)]
      /\ work.kind \in {"rolling back", "unloading"}
  BY <1>9 DEF DisposeNext, Dispose
<1>2. work.left \in Seq(Nat) /\ work.left # <<>>
  BY LoaderTyped DEF LoaderInv, DisposeNext
<1>3. /\ Front(work.left) \in Seq(Nat)
      /\ Len(work.left) \in DOMAIN work.left
      /\ u = work.left[Len(work.left)]
      /\ \A j \in DOMAIN Front(work.left) :
           j \in DOMAIN work.left /\ Front(work.left)[j] = work.left[j]
      /\ \A k \in DOMAIN work.left :
           work.left[k] = u \/ \E j \in DOMAIN Front(work.left) :
                                Front(work.left)[j] = work.left[k]
  <2>1. PICK s : s = work.left
    OBVIOUS
  <2>2. s \in Seq(Nat) /\ s # <<>>
    BY <1>2, <2>1
  <2> QED BY <1>9, <2>1, <2>2, FrontProperties
<1>4. RegistryInv'
  <2>1. u \in Registrations
    BY <1>3 DEF LoaderInv, LoaderType
  <2> QED BY <1>1, <2>1, DisposeRemoves
<1>5. /\ work'.kind = work.kind /\ work'.package = work.package
      /\ work'.left = Front(work.left)
      /\ work' \in [kind : Kinds, package : Owner, left : Seq(Nat)]
  BY <1>1, <1>3 DEF LoaderInv, LoaderType
<1>6. LoaderType'
  <2>1. \A k \in DOMAIN work'.left : work'.left[k] \in Registrations
    BY <1>3, <1>5 DEF LoaderInv, LoaderType
  <2> QED BY <1>1, <1>5, <2>1 DEF LoaderInv, LoaderType, Registrations
<1>7. EveryoneOwned'
  <2>1. ASSUME NEW v \in Registrations, v \notin disposed', Owned(v)
        PROVE  Owned(v)'
    <3>1. v # u
      BY <1>1, <2>1
    <3>2. CASE \E k \in DOMAIN work.left : work.left[k] = v
      <4>1. PICK k \in DOMAIN work.left : work.left[k] = v
        BY <3>2
      <4>2. PICK j \in DOMAIN Front(work.left) :
              Front(work.left)[j] = work.left[k]
        BY <1>3, <3>1, <4>1
      <4>3. j \in DOMAIN work'.left /\ work'.left[j] = v
        BY <1>5, <4>1, <4>2
      <4> QED BY <4>3 DEF Owned
    <3>3. CASE ~\E k \in DOMAIN work.left : work.left[k] = v
      BY <1>1, <2>1, <3>3 DEF Owned
    <3> QED BY <3>2, <3>3
  <2> QED BY <1>1, <2>1 DEF LoaderInv, EveryoneOwned, Registrations
<1>8. Records' /\ QueueType' /\ Queue'
  BY <1>1, <1>5 DEF LoaderInv, Records, QueueType, Queue
<1> QED BY <1>4, <1>6, <1>7, <1>8 DEF LoaderInv

\* Nothing of the registries changes and nothing that is owned is let go.
LEMMA OwnersChange ==
  ASSUME LoaderInv, UNCHANGED <<made, disposed>>,
         \A u \in Registrations : Owned(u) => Owned(u)'
  PROVE  EveryoneOwned'
BY DEF LoaderInv, EveryoneOwned, Registrations

\* The next package of the queue is activated.
LEMMA BeginActivationStep ==
  ASSUME RegistryInv, LoaderInv, queue # <<>>,
         BeginActivation(Head(queue)), queue' = Tail(queue)
  PROVE  RegistryInv' /\ LoaderInv'
<1>1. /\ made' = made /\ layers' = layers /\ disposed' = disposed
      /\ active' = active /\ generation' = generation + 1
      /\ work.kind = "none"
      /\ work' = Work("activating", Head(queue), <<>>)
  BY DEF BeginActivation, Idle
<1>2. /\ work'.kind = "activating" /\ work'.package = Head(queue)
      /\ work'.left = <<>> /\ work.left = <<>>
  BY <1>1 DEF Work, LoaderInv, Records
<1>3. /\ queue' \in Seq(Packages) /\ Head(queue) \in Packages
      /\ Head(queue) = queue[1]
      /\ DOMAIN queue = 1..Len(queue) /\ Len(queue) \in Nat \ {0}
      /\ DOMAIN queue' = 1..(Len(queue) - 1)
      /\ \A n \in DOMAIN queue' : queue'[n] = queue[n + 1]
  <2>1. queue \in Seq(Packages)
    BY DEF LoaderInv, QueueType
  <2> QED BY <2>1
<1>4. LoaderType'
  <2>1. work' \in [kind : Kinds, package : Owner, left : Seq(Nat)]
    BY <1>1, <1>3, EmptySeq DEF Work, Kinds, Owner
  <2> QED BY <1>1, <1>2, <2>1 DEF LoaderInv, LoaderType, Registrations
<1>5. EveryoneOwned'
  <2>1. \A u \in Registrations : Owned(u) => Owned(u)'
    BY <1>1, <1>2 DEF Owned
  <2> QED BY <1>1, <2>1, OwnersChange
<1>6. Records' /\ Queue'
  <2>1. \A n \in DOMAIN queue' : n + 1 \in DOMAIN queue /\ n + 1 # 1
    BY <1>3
  <2>2. 1 \in DOMAIN queue
    BY <1>3
  <2>3. Records'
    BY <1>1, <1>2, <1>3, <2>2 DEF LoaderInv, Records, Queue
  <2>4. \A m, n \in DOMAIN queue' : queue'[m] = queue'[n] => m = n
    <3>1. \A m, n \in DOMAIN queue' : m + 1 = n + 1 => m = n
      BY <1>3
    <3> QED BY <1>3, <2>1, <3>1 DEF LoaderInv, Queue
  <2>5. \A n \in DOMAIN queue' :
          /\ \A i \in DOMAIN active : active[i].package # queue'[n]
          /\ Head(queue) # queue'[n]
    BY <1>3, <2>1, <2>2 DEF LoaderInv, Queue
  <2> QED BY <1>1, <1>2, <2>3, <2>4, <2>5 DEF Queue
<1>7. RegistryInv'
  BY <1>1, RegistriesStay
<1> QED BY <1>3, <1>4, <1>5, <1>6, <1>7 DEF LoaderInv, QueueType

\* An activation that returns becomes a record, which takes its list over.
LEMMA ActivationReturnsStep ==
  ASSUME RegistryInv, LoaderInv, ActivationReturns, queue' = queue
  PROVE  RegistryInv' /\ LoaderInv'
<1> DEFINE A == [package : Owner, owned : Seq(Nat)]
<1>1. PICK n, r : /\ n = Len(active)
                  /\ r = [package |-> work.package, owned |-> work.left]
  OBVIOUS
<1>2. /\ made' = made /\ layers' = layers /\ disposed' = disposed
      /\ generation' = generation
      /\ work.kind = "activating" /\ active' = Append(active, r)
      /\ work' = Work("none", work.package, <<>>)
  BY <1>1 DEF ActivationReturns
<1>3. /\ work'.kind = "none" /\ work'.left = <<>>
      /\ work' \in [kind : Kinds, package : Owner, left : Seq(Nat)]
  BY <1>2, LoaderTyped, EmptySeq DEF Work, Kinds, LoaderInv
<1>4. /\ r \in A /\ active \in Seq(A) /\ n \in Nat
      /\ r.package = work.package /\ r.owned = work.left
  BY <1>1, LoaderTyped DEF LoaderInv, LoaderType
<1>5. /\ active' \in Seq(A) /\ active'[n + 1] = r
      /\ DOMAIN active = 1..n /\ DOMAIN active' = 1..(n + 1)
      /\ \A i \in DOMAIN active : active'[i] = active[i]
  BY <1>1, <1>2, <1>4, AppendProperties
<1>6. /\ n + 1 \in DOMAIN active' /\ n + 1 \notin DOMAIN active
      /\ \A i \in DOMAIN active' : i \in DOMAIN active \/ i = n + 1
      /\ \A i \in DOMAIN active : i \in DOMAIN active'
  BY <1>4, <1>5
<1>7. LoaderType'
  <2>1. \A i \in DOMAIN active' : \A k \in DOMAIN active'[i].owned :
          active'[i].owned[k] \in Registrations
    <3>1. ASSUME NEW i \in DOMAIN active, NEW k \in DOMAIN active'[i].owned
          PROVE  active'[i].owned[k] \in Registrations
      BY <1>5 DEF LoaderInv, LoaderType
    <3>2. ASSUME NEW k \in DOMAIN active'[n + 1].owned
          PROVE  active'[n + 1].owned[k] \in Registrations
      BY <1>4, <1>5 DEF LoaderInv, LoaderType
    <3> SUFFICES ASSUME NEW i \in DOMAIN active',
                        NEW k \in DOMAIN active'[i].owned
                 PROVE  active'[i].owned[k] \in Registrations
      OBVIOUS
    <3>3. CASE i \in DOMAIN active
      BY <3>1, <3>3
    <3>4. CASE i = n + 1
      <4>1. k \in DOMAIN active'[n + 1].owned
        BY <3>4
      <4> QED BY <3>2, <3>4, <4>1
    <3> QED BY <1>6, <3>3, <3>4
  <2>2. DOMAIN work'.left = {}
    BY <1>3
  <2> QED BY <1>2, <1>3, <1>5, <2>1, <2>2 DEF LoaderType, Registrations
<1>8. EveryoneOwned'
  <2>1. ASSUME NEW u \in Registrations, Owned(u)
        PROVE  Owned(u)'
    <3>1. CASE \E k \in DOMAIN work.left : work.left[k] = u
      BY <1>4, <1>5, <1>6, <3>1 DEF Owned
    <3>2. CASE \E i \in DOMAIN active : \E k \in DOMAIN active[i].owned :
                 active[i].owned[k] = u
      BY <1>5, <1>6, <3>2 DEF Owned
    <3> QED BY <2>1, <3>1, <3>2 DEF Owned
  <2> QED BY <1>2, <2>1, OwnersChange
<1>9. Records'
  <2>1. \A i, j \in DOMAIN active' :
          active'[i].package = active'[j].package => i = j
    BY <1>2, <1>4, <1>5, <1>6 DEF LoaderInv, Records
  <2> QED BY <1>3, <2>1 DEF Records
<1>10. Queue' /\ QueueType'
  <2>1. \A m \in DOMAIN queue : \A i \in DOMAIN active' :
          active'[i].package # queue[m]
    BY <1>2, <1>4, <1>5, <1>6 DEF LoaderInv, Queue
  <2> QED BY <1>3, <2>1 DEF LoaderInv, Queue, QueueType
<1>11. RegistryInv'
  BY <1>2, RegistriesStay
<1> QED BY <1>7, <1>8, <1>9, <1>10, <1>11 DEF LoaderInv

\* Work changes its kind, or ends with nothing left: the lists stay.
LEMMA WorkGoesOn ==
  ASSUME RegistryInv, LoaderInv,
         UNCHANGED <<made, layers, disposed, generation, active, queue>>,
         NEW kind \in {"none", "rolling back"},
         work' = Work(kind, work.package, work.left),
         kind = "none" => work.left = <<>>
  PROVE  RegistryInv' /\ LoaderInv'
<1>1. /\ made' = made /\ layers' = layers /\ disposed' = disposed
      /\ generation' = generation /\ active' = active /\ queue' = queue
      /\ work'.kind = kind /\ work'.package = work.package
      /\ work'.left = work.left
  BY DEF Work
<1>2. work' \in [kind : Kinds, package : Owner, left : Seq(Nat)]
  BY LoaderTyped DEF Work, Kinds, LoaderInv
<1>3. LoaderType'
  BY <1>1, <1>2 DEF LoaderInv, LoaderType, Registrations
<1>4. EveryoneOwned'
  <2>1. \A u \in Registrations : Owned(u) => Owned(u)'
    BY <1>1 DEF Owned
  <2> QED BY <1>1, <2>1, OwnersChange
<1>5. Records' /\ QueueType' /\ Queue'
  BY <1>1 DEF LoaderInv, Records, QueueType, Queue
<1>6. RegistryInv'
  BY <1>1, RegistriesStay
<1> QED BY <1>3, <1>4, <1>5, <1>6 DEF LoaderInv

\* A record's list is what the unload has to dispose.
LEMMA BeginUnloadStep ==
  ASSUME RegistryInv, LoaderInv, NEW p, BeginUnload(p), queue' = queue
  PROVE  /\ RegistryInv' /\ LoaderInv'
         /\ work'.kind = "unloading"
         /\ \A j \in DOMAIN active' : active'[j].owned # <<>> =>
              /\ active'[j].package # p
              /\ j \in DOMAIN active /\ active[j] = active'[j]
<1> DEFINE A == [package : Owner, owned : Seq(Nat)]
<1>1. PICK i \in DOMAIN active :
        /\ active[i].package = p
        /\ work' = Work("unloading", p, active[i].owned)
        /\ active' = [active EXCEPT ![i].owned = <<>>]
  BY DEF BeginUnload
<1>2. /\ made' = made /\ layers' = layers /\ disposed' = disposed
      /\ generation' = generation /\ work.kind = "none"
      /\ work.left = <<>>
  BY DEF BeginUnload, Idle, LoaderInv, Records
<1>3. /\ active \in Seq(A) /\ active[i] \in A
      /\ active[i].package \in Owner /\ active[i].owned \in Seq(Nat)
      /\ DOMAIN active = 1..Len(active) /\ Len(active) \in Nat
  BY <1>1, LoaderTyped DEF LoaderInv, LoaderType
<1>4. /\ work'.kind = "unloading" /\ work'.package = p
      /\ work'.left = active[i].owned
      /\ work' \in [kind : Kinds, package : Owner, left : Seq(Nat)]
  BY <1>1, <1>3 DEF Work, Kinds
<1>5. /\ active' \in Seq(A) /\ DOMAIN active' = DOMAIN active
      /\ active'[i].package = p /\ active'[i].owned = <<>>
      /\ \A j \in DOMAIN active : j # i => active'[j] = active[j]
  <2>1. [active[i] EXCEPT !.owned = <<>>] \in A
    BY <1>3, EmptySeq
  <2>2. active' = [active EXCEPT ![i] = [active[i] EXCEPT !.owned = <<>>]]
    BY <1>1
  <2>3. active' \in Seq(A)
    BY <1>1, <1>3, <2>1, <2>2, ExceptSeq
  <2> QED BY <1>1, <1>3, <2>3
<1>6. LoaderType'
  <2>1. \A j \in DOMAIN active' : \A k \in DOMAIN active'[j].owned :
          active'[j].owned[k] \in Registrations
    <3>1. DOMAIN active'[i].owned = {}
      BY <1>5
    <3>2. ASSUME NEW j \in DOMAIN active, j # i,
                 NEW k \in DOMAIN active'[j].owned
          PROVE  active'[j].owned[k] \in Registrations
      BY <1>5, <3>2 DEF LoaderInv, LoaderType
    <3> QED BY <1>5, <3>1, <3>2
  <2>2. \A k \in DOMAIN work'.left : work'.left[k] \in Registrations
    BY <1>1, <1>4 DEF LoaderInv, LoaderType
  <2> QED BY <1>2, <1>4, <1>5, <2>1, <2>2 DEF LoaderType, Registrations
<1>7. EveryoneOwned'
  <2>1. ASSUME NEW u \in Registrations, Owned(u)
        PROVE  Owned(u)'
    <3>1. PICK j \in DOMAIN active : \E k \in DOMAIN active[j].owned :
            active[j].owned[k] = u
      BY <1>2, <2>1 DEF Owned
    <3>2. CASE j = i
      BY <1>4, <3>1, <3>2 DEF Owned
    <3>3. CASE j # i
      BY <1>5, <3>1, <3>3 DEF Owned
    <3> QED BY <3>2, <3>3
  <2> QED BY <1>2, <2>1, OwnersChange
<1>8. \A j \in DOMAIN active : active'[j].package = active[j].package
  BY <1>1, <1>5
<1>9. Records'
  <2>1. \A j, k \in DOMAIN active' :
          active'[j].package = active'[k].package => j = k
    BY <1>5, <1>8 DEF LoaderInv, Records
  <2>2. \A j \in DOMAIN active' :
          active'[j].package = p => active'[j].owned = <<>>
    BY <1>1, <1>5, <2>1
  <2> QED BY <1>4, <2>1, <2>2 DEF Records
<1>10. QueueType' /\ Queue'
  <2>1. QueueType'
    BY <1>4 DEF LoaderInv, QueueType
  <2>2. Queue'
    BY <1>4, <1>5, <1>8 DEF LoaderInv, Queue
  <2> QED BY <2>1, <2>2
<1>11. RegistryInv'
  BY <1>2, RegistriesStay
<1>12. \A j \in DOMAIN active' : active'[j].owned # <<>> =>
         /\ active'[j].package # p
         /\ j \in DOMAIN active /\ active[j] = active'[j]
  <2>1. ASSUME NEW j \in DOMAIN active, j # i
        PROVE  active'[j].package # p /\ active[j] = active'[j]
    BY <1>1, <1>5, <2>1 DEF LoaderInv, Records
  <2> QED BY <1>5, <2>1
<1> QED BY <1>4, <1>6, <1>7, <1>9, <1>10, <1>11, <1>12 DEF LoaderInv

\* The record that goes has nothing on its list.
LEMMA UnloadReturnsStep ==
  ASSUME RegistryInv, LoaderInv, UnloadReturns, queue' = queue
  PROVE  /\ RegistryInv' /\ LoaderInv'
         /\ work'.kind = "none"
         /\ \A j \in DOMAIN active' :
              \E k \in DOMAIN active : active'[j] = active[k]
<1> DEFINE A == [package : Owner, owned : Seq(Nat)]
<1>1. PICK i \in DOMAIN active : active[i].package = work.package
                               /\ active' = RemoveAt(active, i)
  BY DEF UnloadReturns
<1>2. /\ made' = made /\ layers' = layers /\ disposed' = disposed
      /\ generation' = generation
      /\ work.kind = "unloading" /\ work.left = <<>>
      /\ work' = Work("none", work.package, <<>>)
  BY DEF UnloadReturns
<1>3. PICK n : n = Len(active)
  OBVIOUS
<1>4. /\ active \in Seq(A) /\ n \in Nat /\ DOMAIN active = 1..n
      /\ active[i].owned = <<>>
  BY <1>1, <1>2, <1>3, LoaderTyped DEF LoaderInv, LoaderType, Records
<1>5. /\ active' \in Seq(A) /\ DOMAIN active' = 1..(n - 1)
      /\ \A j \in 1..(n - 1) :
           active'[j] = IF j < i THEN active[j] ELSE active[j + 1]
  <2>1. PICK s : s = active
    OBVIOUS
  <2> HIDE DEF A
  <2>2. s \in Seq(A) /\ i \in DOMAIN s /\ Len(s) = n
    BY <1>1, <1>3, <1>4, <2>1
  <2>3. /\ RemoveAt(s, i) \in Seq(A) /\ Len(RemoveAt(s, i)) = n - 1
        /\ \A j \in 1..(n - 1) :
             RemoveAt(s, i)[j] = IF j < i THEN s[j] ELSE s[j + 1]
    BY <2>2, RemoveAtProperties
  <2>4. DOMAIN RemoveAt(s, i) = 1..(n - 1)
    BY <2>3, LenProperties
  <2> QED BY <1>1, <2>1, <2>3, <2>4
<1>6. /\ work'.kind = "none" /\ work'.left = <<>>
      /\ work' \in [kind : Kinds, package : Owner, left : Seq(Nat)]
  BY <1>2, LoaderTyped, EmptySeq DEF Work, Kinds, LoaderInv
\* Where each record comes from, and where those that stay go.
<1>7. \A j \in DOMAIN active' : \E k \in DOMAIN active :
        /\ active'[j] = active[k] /\ k # i
        /\ k = IF j < i THEN j ELSE j + 1
  <2>1. i \in 1..n
    BY <1>1, <1>4
  <2>2. ASSUME NEW j \in DOMAIN active', j < i
        PROVE  j \in DOMAIN active /\ j # i /\ active'[j] = active[j]
    BY <1>4, <1>5, <2>1, <2>2
  <2>3. ASSUME NEW j \in DOMAIN active', ~(j < i)
        PROVE  /\ j + 1 \in DOMAIN active /\ j + 1 # i
               /\ active'[j] = active[j + 1]
    BY <1>4, <1>5, <2>1, <2>3
  <2> QED BY <2>2, <2>3
<1>8. \A k \in DOMAIN active : k # i =>
        \E j \in DOMAIN active' : active'[j] = active[k]
  <2>1. ASSUME NEW k \in DOMAIN active, k < i
        PROVE  k \in DOMAIN active' /\ active'[k] = active[k]
    BY <1>1, <1>4, <1>5, <2>1
  <2>2. ASSUME NEW k \in DOMAIN active, k > i
        PROVE  k - 1 \in DOMAIN active' /\ active'[k - 1] = active[k]
    <3>1. k - 1 \in 1..(n - 1) /\ ~(k - 1 < i) /\ (k - 1) + 1 = k
      BY <1>1, <1>4, <2>2
    <3>2. active'[k - 1] = active[(k - 1) + 1]
      BY <1>5, <3>1
    <3> QED BY <1>5, <3>1, <3>2
  <2>3. \A k \in DOMAIN active : k # i => k < i \/ k > i
    BY <1>1, <1>4
  <2> QED BY <2>1, <2>2, <2>3
<1>9. LoaderType'
  <2>1. \A j \in DOMAIN active' : \A k \in DOMAIN active'[j].owned :
          active'[j].owned[k] \in Registrations
    BY <1>7 DEF LoaderInv, LoaderType
  <2> QED BY <1>2, <1>5, <1>6, <2>1 DEF LoaderType, Registrations
<1>10. EveryoneOwned'
  <2>1. ASSUME NEW u \in Registrations, Owned(u)
        PROVE  Owned(u)'
    <3>1. PICK k \in DOMAIN active : \E m \in DOMAIN active[k].owned :
            active[k].owned[m] = u
      BY <1>2, <2>1 DEF Owned
    <3>3. DOMAIN active[i].owned = {}
      BY <1>4
    <3>2. PICK j \in DOMAIN active' : active'[j] = active[k]
      BY <1>8, <3>1, <3>3
    <3> QED BY <3>1, <3>2 DEF Owned
  <2> QED BY <1>2, <2>1, OwnersChange
<1>11. Records'
  <2>1. ASSUME NEW j \in DOMAIN active', NEW k \in DOMAIN active',
               active'[j].package = active'[k].package
        PROVE  j = k
    <3>1. PICK a \in DOMAIN active : /\ active'[j] = active[a]
                                     /\ a = IF j < i THEN j ELSE j + 1
      BY <1>7
    <3>2. PICK b \in DOMAIN active : /\ active'[k] = active[b]
                                     /\ b = IF k < i THEN k ELSE k + 1
      BY <1>7
    <3>3. a = b
      BY <2>1, <3>1, <3>2 DEF LoaderInv, Records
    <3>4. i \in Int /\ j \in Int /\ k \in Int
      BY <1>1, <1>4, <1>5
    <3> QED BY <3>1, <3>2, <3>3, <3>4
  <2> QED BY <1>6, <2>1 DEF Records
<1>12. QueueType' /\ Queue'
  <2>1. \A m \in DOMAIN queue : \A j \in DOMAIN active' :
          active'[j].package # queue[m]
    BY <1>7 DEF LoaderInv, Queue
  <2> QED BY <1>6, <2>1 DEF LoaderInv, QueueType, Queue
<1>13. RegistryInv'
  BY <1>2, RegistriesStay
<1> QED BY <1>6, <1>7, <1>9, <1>10, <1>11, <1>12, <1>13 DEF LoaderInv

-----------------------------------------------------------------------------
(* The stages of the command.                                              *)

AppIsOn == app \in {"loop", "shutting down", "returned"}

\* Work happens in the two stages that start it, the app lives while it is
\* run, and the cleanup has on its list whoever still owns something.
RunInv ==
  /\ work.kind \in {"activating", "rolling back"} => stage = "activate"
  /\ work.kind = "unloading" => stage = "cleanup"
  /\ AppIsOn => stage = "run"
  /\ (stage \in {"cleanup", "exited"} /\ context) =>
       session # "open" /\ agent # "running" /\ approval # "pending"
  /\ stage = "cleanup" =>
       /\ unloads \in Seq(Owner)
       /\ \A i \in DOMAIN active : active[i].owned # <<>> =>
            \E k \in DOMAIN unloads : unloads[k] = active[i].package
  /\ (stage = "exited" /\ context) =>
       \A i \in DOMAIN active : active[i].owned = <<>>

IInv == RegistryInv /\ LoaderInv /\ RunInv

\* At first there is nothing.
LEMMA InitIInv ==
  ASSUME Init
  PROVE  IInv
<1>1. /\ made = <<>> /\ layers = [id \in Ids |-> <<>>] /\ disposed = {}
      /\ generation = 0 /\ active = <<>> /\ queue = Candidates
      /\ work = [kind |-> "none", package |-> "none", left |-> <<>>]
      /\ stage = "start" /\ app = "off" /\ context = FALSE
  BY DEF Init, PluginInit
<1>2. Registrations = {}
  BY <1>1 DEF Registrations
<1>3. RegistryInv
  <2>1. RegistryType
    BY <1>1, <1>2, EmptySeq DEF RegistryType
  <2>2. Generations /\ LayersAreRegistrations /\ RegistrationsAreLayers
    BY <1>1, <1>2
       DEF Generations, LayersAreRegistrations, RegistrationsAreLayers
  <2> QED BY <2>1, <2>2 DEF RegistryInv
<1>4. LoaderInv
  <2>1. LoaderType
    BY <1>1, <1>2, EmptySeq DEF LoaderType, Kinds, Owner
  <2>2. EveryoneOwned /\ Records
    BY <1>1, <1>2 DEF EveryoneOwned, Records
  <2>3. QueueType /\ Queue
    BY <1>1 DEF QueueType, Queue, CandidatesAssumption
  <2> QED BY <2>1, <2>2, <2>3 DEF LoaderInv
<1>5. RunInv
  BY <1>1 DEF RunInv, AppIsOn
<1> QED BY <1>3, <1>4, <1>5 DEF IInv

\* A step of the command that leaves the loader alone.
LEMMA LoaderStays ==
  ASSUME IInv, UNCHANGED pluginVars, queue' = queue
  PROVE  RegistryInv' /\ LoaderInv'
<1>1. /\ made' = made /\ layers' = layers /\ disposed' = disposed
      /\ generation' = generation /\ work' = work /\ active' = active
  BY DEF pluginVars
<1>2. RegistryInv'
  BY <1>1, RegistriesStay DEF IInv
<1>3. LoaderType' /\ EveryoneOwned'
  BY <1>1 DEF IInv, LoaderInv, LoaderType, EveryoneOwned, Owned,
              Registrations
<1>4. Records' /\ QueueType' /\ Queue'
  BY <1>1 DEF IInv, LoaderInv, Records, QueueType, Queue
<1> QED BY <1>2, <1>3, <1>4 DEF LoaderInv

\* The stages before the app runs.
LEMMA StartingStep ==
  ASSUME IInv, Starting
  PROVE  IInv'
<1>1. CASE LoadNext
  <2>1. /\ BeginActivation(Head(queue)) /\ queue' = Tail(queue)
        /\ queue # <<>> /\ stage = "activate" /\ active' = active
        /\ UNCHANGED <<stage, app, context, session, agent, approval, unloads>>
        /\ work' = Work("activating", Head(queue), <<>>)
    BY <1>1 DEF LoadNext, BeginActivation
  <2>2. RegistryInv' /\ LoaderInv'
    BY <2>1, BeginActivationStep DEF IInv
  <2>3. RunInv'
    BY <2>1 DEF IInv, RunInv, AppIsOn, Work
  <2> QED BY <2>2, <2>3 DEF IInv
<1>2. CASE StartUp \/ ActivationDone \/ RunAuth \/ SelectProvider
           \/ SelectAgent \/ SelectApp
  <2>1. UNCHANGED pluginVars /\ queue' = queue
    BY <1>2 DEF StartUp, ActivationDone, RunAuth, SelectProvider, SelectAgent,
                SelectApp
  <2>2. RegistryInv' /\ LoaderInv'
    BY <2>1, LoaderStays
  <2>3. /\ stage \in {"start", "activate", "auth", "provider", "agent", "app"}
        /\ stage = "activate" => work.kind = "none"
        /\ stage' \in {"activate", "auth", "provider", "agent", "app", "run",
                       "closing"}
        /\ app' = app /\ work' = work
    BY <1>2 DEF StartUp, ActivationDone, RunAuth, SelectProvider, SelectAgent,
                SelectApp, Idle, Fails, pluginVars
  <2>4. RunInv'
    BY <2>3 DEF IInv, RunInv, AppIsOn, Kinds
  <2> QED BY <2>2, <2>4 DEF IInv
<1> QED BY <1>1, <1>2 DEF Starting

\* While the app runs, and on its way out.
LEMMA RunningStep ==
  ASSUME IInv,
         Running \/ FinishShutdown \/ CloseBridge \/ BridgeReads \/ StopApp
  PROVE  IInv'
<1>1. UNCHANGED pluginVars /\ queue' = queue
  BY DEF Running, RunApp, StartAgent, CancelRun, AskApproval, AgentEnds,
         BeginShutdown, LoopLeaves, Signal, FinishShutdown, CloseBridge,
         BridgeReads, StopApp
<1>2. RegistryInv' /\ LoaderInv'
  BY <1>1, LoaderStays
<1>3. /\ work' = work /\ active' = active
  BY <1>1 DEF pluginVars
<1>4. CASE RunApp \/ StartAgent \/ CancelRun \/ AskApproval
           \/ BeginShutdown \/ LoopLeaves \/ Signal
           \/ FinishShutdown \/ CloseBridge \/ StopApp
  <2>1. /\ stage \in {"run", "closing"} /\ stage' \in {"run", "closing"}
        /\ AppIsOn' => stage' = "run"
    BY <1>4 DEF RunApp, StartAgent, CancelRun, AskApproval, BeginShutdown,
                LoopLeaves, Signal, FinishShutdown, CloseBridge, StopApp,
                IInv, RunInv, AppIsOn
  <2> QED BY <1>2, <1>3, <2>1 DEF IInv, RunInv
<1>5. CASE AgentEnds \/ BridgeReads
  <2>1. /\ UNCHANGED <<stage, app, context, session, approval, unloads>>
        /\ agent' = agent \/ agent' = "idle"
    BY <1>5 DEF AgentEnds, BridgeReads
  <2> QED BY <1>2, <1>3, <2>1 DEF IInv, RunInv, AppIsOn
<1> QED BY <1>4, <1>5 DEF Running

\* The cleanup starts: every record is on its list.
LEMMA CleanupStep ==
  ASSUME IInv, Cleanup
  PROVE  IInv'
<1>1. UNCHANGED pluginVars /\ queue' = queue /\ stage = "closing"
      /\ app' = app /\ context' = context
      /\ work' = work /\ active' = active
  BY DEF Cleanup, pluginVars
<1>2. RegistryInv' /\ LoaderInv'
  BY <1>1, LoaderStays
<1>3. ~AppIsOn /\ ~AppIsOn' /\ work.kind = "none"
  BY <1>1, LoaderTyped DEF IInv, RunInv, LoaderInv, AppIsOn, Kinds
<1>4. CASE ~context
  <2>1. stage' = "exited"
    BY <1>4 DEF Cleanup
  <2> QED BY <1>1, <1>2, <1>3, <1>4, <2>1 DEF IInv, RunInv
<1>5. CASE context
  <2>1. /\ stage' = "cleanup" /\ unloads' = ReversedActive
        /\ session' # "open" /\ agent' # "running" /\ approval' # "pending"
    BY <1>5 DEF Cleanup, Cancelled
  <2>2. PICK n, f : /\ n = Len(active)
                    /\ f = [i \in DOMAIN active |-> active[i].package]
    OBVIOUS
  <2>3. /\ n \in Nat /\ DOMAIN active = 1..n
        /\ \A i \in 1..n : f[i] \in Owner /\ f[i] = active[i].package
        /\ f = [i \in 1..n |-> active[i].package]
    BY <2>2, LoaderTyped DEF IInv, LoaderInv
  <2>4. f \in Seq(Owner) /\ Len(f) = n
    <3>1. f \in [1..n -> Owner]
      BY <2>3
    <3>2. f \in Seq(Owner)
      BY <2>3, <3>1, SeqDef
    <3> QED BY <2>3, <3>1, <3>2, LenProperties
  <2>5. unloads' = [i \in 1..n |-> f[(n - i) + 1]]
    BY <2>1, <2>2, <2>4 DEF ReversedActive, Reverse
  <2>6. \A i \in 1..n : (n - i) + 1 \in 1..n /\ (n - ((n - i) + 1)) + 1 = i
    BY <2>3
  <2>7. unloads' \in Seq(Owner)
    <3>1. unloads' \in [1..n -> Owner]
      BY <2>3, <2>5, <2>6
    <3> QED BY <2>3, <3>1, SeqDef
  <2>8. ASSUME NEW i \in DOMAIN active
        PROVE  \E k \in DOMAIN unloads' : unloads'[k] = active[i].package
    <3>1. i \in 1..n /\ (n - i) + 1 \in DOMAIN unloads'
      BY <2>3, <2>5, <2>6
    <3>2. unloads'[(n - i) + 1] = f[i]
      BY <2>5, <2>6, <3>1
    <3> QED BY <2>3, <3>1, <3>2
  <2> QED BY <1>1, <1>2, <1>3, <2>1, <2>7, <2>8 DEF IInv, RunInv
<1> QED BY <1>4, <1>5

\* The cleanup unloads one after the other, and ends when none is left.
LEMMA UnloadingStep ==
  ASSUME IInv, UnloadNext \/ UnloadFails \/ CleanupDone
  PROVE  IInv'
<1>1. CASE UnloadNext
  <2>1. PICK p, s : p = Head(unloads) /\ s = unloads
    OBVIOUS
  <2>2. /\ stage = "cleanup" /\ s # <<>> /\ BeginUnload(p)
        /\ unloads' = Tail(s) /\ queue' = queue
        /\ UNCHANGED <<stage, app, context, session, agent, approval>>
    BY <1>1, <2>1 DEF UnloadNext
  <2>3. /\ RegistryInv' /\ LoaderInv'
        /\ work'.kind = "unloading"
        /\ \A j \in DOMAIN active' : active'[j].owned # <<>> =>
             /\ active'[j].package # p
             /\ j \in DOMAIN active /\ active[j] = active'[j]
    BY <2>2, BeginUnloadStep DEF IInv
  <2>4. /\ s \in Seq(Owner) /\ unloads' \in Seq(Owner)
        /\ \A k \in DOMAIN s :
             s[k] = p \/ \E m \in DOMAIN unloads' : unloads'[m] = s[k]
    <3>1. s \in Seq(Owner)
      BY <2>1, <2>2 DEF IInv, RunInv
    <3>2. /\ Len(s) \in Nat \ {0} /\ DOMAIN s = 1..Len(s) /\ p = s[1]
          /\ Tail(s) \in Seq(Owner) /\ DOMAIN Tail(s) = 1..(Len(s) - 1)
          /\ \A m \in 1..(Len(s) - 1) : Tail(s)[m] = s[m + 1]
      BY <2>1, <2>2, <3>1
    <3>3. ASSUME NEW k \in DOMAIN s, k # 1
          PROVE  k - 1 \in DOMAIN Tail(s) /\ Tail(s)[k - 1] = s[k]
      <4>1. k - 1 \in 1..(Len(s) - 1) /\ (k - 1) + 1 = k
        BY <3>2, <3>3
      <4>2. Tail(s)[k - 1] = s[(k - 1) + 1]
        BY <3>2, <4>1
      <4> QED BY <3>2, <4>1, <4>2
    <3> QED BY <2>2, <3>1, <3>2, <3>3
  <2>5. ASSUME NEW j \in DOMAIN active', active'[j].owned # <<>>
        PROVE  \E m \in DOMAIN unloads' : unloads'[m] = active'[j].package
    <3>1. /\ active'[j].package # p
          /\ \E k \in DOMAIN s : s[k] = active'[j].package
      BY <2>1, <2>2, <2>3, <2>5 DEF IInv, RunInv
    <3> QED BY <2>4, <3>1
  <2> QED BY <2>2, <2>3, <2>4, <2>5 DEF IInv, RunInv, AppIsOn
<1>2. CASE UnloadFails
  <2>1. /\ work.kind = "unloading" /\ work.left = <<>>
        /\ work' = Work("none", work.package, work.left)
        /\ UNCHANGED <<made, layers, disposed, generation, active, queue>>
        /\ UNCHANGED <<stage, app, context, session, agent, approval, unloads>>
    BY <1>2 DEF UnloadFails, UnloadThrows
  <2>2. RegistryInv' /\ LoaderInv'
    BY <2>1, WorkGoesOn DEF IInv
  <2>3. work'.kind = "none"
    BY <2>1 DEF Work
  <2> QED BY <2>1, <2>2, <2>3 DEF IInv, RunInv, AppIsOn
<1>3. CASE CleanupDone
  <2>1. /\ UNCHANGED pluginVars /\ queue' = queue /\ work' = work
        /\ active' = active /\ work.kind = "none"
        /\ stage = "cleanup" /\ stage' = "exited" /\ unloads = <<>>
        /\ UNCHANGED <<app, context, session, agent, approval, unloads>>
    BY <1>3 DEF CleanupDone, pluginVars, Idle
  <2>2. RegistryInv' /\ LoaderInv'
    BY <2>1, LoaderStays
  <2>3. \A i \in DOMAIN active : active[i].owned = <<>>
    BY <2>1 DEF IInv, RunInv
  <2> QED BY <2>1, <2>2, <2>3 DEF IInv, RunInv, AppIsOn
<1> QED BY <1>1, <1>2, <1>3

\* The loader disposes, and an unload or a rollback ends.
LEMMA LoaderRunsStep ==
  ASSUME IInv, LoaderRuns
  PROVE  IInv'
<1>1. UNCHANGED <<queue, stage, app, context, session, agent, approval,
                  unloads>>
  BY DEF LoaderRuns, runVars
<1>2. CASE DisposeNext
  <2>1. /\ work' = [work EXCEPT !.left = Front(@)] /\ active' = active
        /\ work \in [kind : Kinds, package : Owner, left : Seq(Nat)]
    BY <1>2 DEF DisposeNext, IInv, LoaderInv, LoaderType
  <2>2. work'.kind = work.kind
    BY <2>1
  <2>3. RegistryInv' /\ LoaderInv'
    BY <1>1, <1>2, DisposeNextStep DEF IInv
  <2> QED BY <1>1, <2>1, <2>2, <2>3 DEF IInv, RunInv, AppIsOn
<1>3. CASE RolledBack
  <2>1. /\ work' = Work("none", work.package, work.left) /\ work.left = <<>>
        /\ UNCHANGED <<made, layers, disposed, generation, active>>
    BY <1>3 DEF RolledBack
  <2>2. RegistryInv' /\ LoaderInv'
    BY <1>1, <2>1, WorkGoesOn DEF IInv
  <2>3. work'.kind = "none"
    BY <2>1 DEF Work
  <2> QED BY <1>1, <2>1, <2>2, <2>3 DEF IInv, RunInv, AppIsOn
<1>4. CASE UnloadReturns
  <2>1. /\ RegistryInv' /\ LoaderInv' /\ work'.kind = "none"
        /\ \A j \in DOMAIN active' :
             \E k \in DOMAIN active : active'[j] = active[k]
    BY <1>1, <1>4, UnloadReturnsStep DEF IInv
  <2>2. work.kind = "unloading"
    BY <1>4 DEF UnloadReturns
  <2>3. /\ stage = "cleanup" /\ unloads \in Seq(Owner)
        /\ \A i \in DOMAIN active : active[i].owned # <<>> =>
             \E k \in DOMAIN unloads : unloads[k] = active[i].package
    BY <2>2 DEF IInv, RunInv
  <2>4. \A i \in DOMAIN active' : active'[i].owned # <<>> =>
          \E k \in DOMAIN unloads : unloads[k] = active'[i].package
    BY <2>1, <2>3
  <2> QED BY <1>1, <2>1, <2>3, <2>4 DEF IInv, RunInv, AppIsOn
<1> QED BY <1>2, <1>3, <1>4 DEF LoaderRuns

\* What the extensions do.
LEMMA ExtensionRunsStep ==
  ASSUME IInv, ExtensionRuns
  PROVE  IInv'
<1>1. /\ UNCHANGED <<queue, stage, app, context, session, agent, approval,
                     unloads>>
      /\ stage # "exited"
  BY DEF ExtensionRuns, runVars
<1>2. ASSUME NEW id \in Ids, NEW replace \in BOOLEAN,
             RegisterOwned(id, replace)
      PROVE  IInv'
  <2>1. RegistryInv' /\ LoaderInv'
    BY <1>1, <1>2, RegisterOwnedStep DEF IInv
  <2>2. /\ work.kind = "activating" /\ active' = active
        /\ work \in [kind : Kinds, package : Owner, left : Seq(Nat)]
        /\ \/ work' = work
           \/ work' = [work EXCEPT !.left = Append(@, Len(made) + 1)]
    BY <1>2 DEF RegisterOwned, IInv, LoaderInv, LoaderType
  <2>3. work'.kind = work.kind
    BY <2>2
  <2> QED BY <1>1, <2>1, <2>2, <2>3 DEF IInv, RunInv, AppIsOn
<1>3. ASSUME NEW id \in Ids, NEW replace \in BOOLEAN,
             RegisterLate(id, replace)
      PROVE  IInv'
  <2>1. RegistryInv' /\ LoaderInv'
    BY <1>1, <1>3, RegisterLateStep DEF IInv
  <2>2. work' = work /\ active' = active
    BY <1>3 DEF RegisterLate
  <2> QED BY <1>1, <2>1, <2>2 DEF IInv, RunInv, AppIsOn
<1>4. ASSUME NEW u \in Registrations, DisposeEarly(u)
      PROVE  IInv'
  <2>1. RegistryInv' /\ LoaderInv'
    BY <1>1, <1>4, DisposeEarlyStep DEF IInv
  <2>2. work' = work /\ active' = active
    BY <1>4 DEF DisposeEarly
  <2> QED BY <1>1, <2>1, <2>2 DEF IInv, RunInv, AppIsOn
<1>5. CASE ActivationReturns
  <2>1. RegistryInv' /\ LoaderInv'
    BY <1>1, <1>5, ActivationReturnsStep DEF IInv
  <2>2. work'.kind = "none" /\ stage = "activate"
    BY <1>5 DEF ActivationReturns, Work, IInv, RunInv
  <2> QED BY <1>1, <2>1, <2>2 DEF IInv, RunInv, AppIsOn
<1>6. CASE ActivationThrows
  <2>1. /\ work.kind = "activating" /\ active' = active
        /\ work \in [kind : Kinds, package : Owner, left : Seq(Nat)]
        /\ work' = [work EXCEPT !.kind = "rolling back"]
        /\ UNCHANGED <<made, layers, disposed, generation>>
    BY <1>6 DEF ActivationThrows, IInv, LoaderInv, LoaderType
  <2>2. work' = Work("rolling back", work.package, work.left)
    BY <2>1 DEF Work
  <2>3. RegistryInv' /\ LoaderInv'
    BY <1>1, <2>1, <2>2, WorkGoesOn DEF IInv
  <2>4. work'.kind = "rolling back" /\ stage = "activate"
    BY <2>1 DEF IInv, RunInv
  <2> QED BY <1>1, <2>1, <2>3, <2>4 DEF IInv, RunInv, AppIsOn
<1> QED BY <1>2, <1>3, <1>4, <1>5, <1>6 DEF ExtensionRuns, ExtensionStep

\* Every step keeps the inductive invariant.
LEMMA NextIInv ==
  ASSUME IInv, [Next]_vars
  PROVE  IInv'
<1>1. CASE UNCHANGED vars
  <2>1. /\ UNCHANGED pluginVars /\ queue' = queue
        /\ work' = work /\ active' = active
        /\ UNCHANGED <<stage, app, context, session, agent, approval, unloads>>
    BY <1>1 DEF vars, pluginVars, runVars
  <2>2. RegistryInv' /\ LoaderInv'
    BY <2>1, LoaderStays
  <2> QED BY <2>1, <2>2 DEF IInv, RunInv, AppIsOn
<1>2. CASE Next
  BY <1>1, <1>2, StartingStep, RunningStep, CleanupStep, UnloadingStep,
     LoaderRunsStep, ExtensionRunsStep DEF Next, Ending, Stopped
<1> QED BY <1>1, <1>2

\* The registries, the loader and the command are in step in every reachable
\* state.
THEOREM LoaderIsKept == Spec => []IInv
<1>1. Init => IInv
  BY InitIInv
<1>2. IInv /\ [Next]_vars => IInv'
  BY NextIInv
<1> QED BY <1>1, <1>2, PTL DEF Spec

\* Whatever is registered, replaced, disposed early, rolled back or unloaded
\* and in whatever order: a layer goes with its own disposable and with no
\* other, and what an activation registered is on a list that is disposed
\* (LayeredRegistry, registry.ts:36-79; activation.ts:24-71).
THEOREM LayersAreKept == Spec => []LayersFollowOwners
<1>1. ASSUME IInv, NEW u \in Registrations
      PROVE  /\ u \notin disposed <=>
                  \E i \in DOMAIN layers[made[u].id] :
                    layers[made[u].id][i] = [of |-> u, active |-> TRUE]
             /\ (u \notin disposed /\ ~made[u].late) =>
                  \/ u \in ToSet(work.left)
                  \/ \E i \in DOMAIN active : u \in ToSet(active[i].owned)
  <2> DEFINE id == made[u].id
             L == [of : Nat, active : BOOLEAN]
  <2>1. id \in Ids /\ layers \in [Ids -> Seq(L)]
    BY <1>1, MadeTyped DEF IInv, RegistryInv, RegistryType
  <2>2. \A i \in DOMAIN layers[id] : layers[id][i] \in L
    <3>1. layers[id] \in Seq(L)
      BY <2>1
    <3>2. DOMAIN layers[id] = 1..Len(layers[id])
      BY <3>1, LenProperties
    <3> QED BY <3>1, <3>2, ElementOfSeq
  <2>3. ASSUME NEW i \in DOMAIN layers[id], layers[id][i].of = u,
               u \notin disposed
        PROVE  layers[id][i] = [of |-> u, active |-> TRUE]
    <3>1. layers[id][i].active = TRUE
      BY <1>1, <2>1, <2>2, <2>3
         DEF IInv, RegistryInv, LayersAreRegistrations
    <3> QED BY <2>2, <2>3, <3>1
  <2>4. ASSUME NEW i \in DOMAIN layers[id],
               layers[id][i] = [of |-> u, active |-> TRUE]
        PROVE  u \notin disposed
    <3>1. layers[id][i].of = u /\ layers[id][i].active
      BY <2>4
    <3> QED BY <1>1, <2>1, <3>1 DEF IInv, RegistryInv, LayersAreRegistrations
  <2>5. u \notin disposed => \E i \in DOMAIN layers[id] : layers[id][i].of = u
    BY <1>1 DEF IInv, RegistryInv, RegistrationsAreLayers
  <2>6. (u \notin disposed /\ ~made[u].late) => Owned(u)
    BY <1>1 DEF IInv, LoaderInv, EveryoneOwned
  <2>7. Owned(u) => \/ u \in ToSet(work.left)
                    \/ \E i \in DOMAIN active : u \in ToSet(active[i].owned)
    BY DEF Owned, ToSet
  <2> QED BY <2>3, <2>4, <2>5, <2>6, <2>7
<1>2. IInv => LayersFollowOwners
  BY <1>1 DEF LayersFollowOwners
<1> QED BY <1>2, LoaderIsKept, PTL

\* A command that got as far as its context exits with every contribution of
\* an activation disposed, the session closed, nobody waiting for an approval
\* and an agent's run that is still going told to end, whichever unloads threw
\* (runBootstrap and the production stages' cleanup, bootstrap.ts:113-142,
\* 191).
THEOREM CommandsReleaseEverything == Spec => []EverythingReleased
<1>1. ASSUME IInv, stage = "exited", context, NEW u \in Registrations
      PROVE  u \in disposed \/ made[u].late
  <2>1. \A i \in DOMAIN active : DOMAIN active[i].owned = {}
    <3>1. \A i \in DOMAIN active : active[i].owned = <<>>
      BY <1>1 DEF IInv, RunInv
    <3> QED BY <3>1
  <2>2. work.kind = "none"
    BY <1>1, LoaderTyped DEF IInv, RunInv, LoaderInv, Kinds
  <2>3. DOMAIN work.left = {}
    BY <1>1, <2>2 DEF IInv, LoaderInv, Records
  <2>4. ~Owned(u)
    BY <2>1, <2>3 DEF Owned
  <2> QED BY <1>1, <2>4 DEF IInv, LoaderInv, EveryoneOwned
<1>2. IInv => EverythingReleased
  BY <1>1 DEF EverythingReleased, IInv, RunInv
<1> QED BY <1>2, LoaderIsKept, PTL

=============================================================================
