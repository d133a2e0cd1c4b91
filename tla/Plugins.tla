------------------------------- MODULE Plugins -------------------------------
(***************************************************************************)
(* The plugin loader of packages/iyon-plugins: PackageLoader activates the *)
(* extension of one package at a time, the extension registers             *)
(* contributions through its ExtensionContext, LayeredRegistry stacks the  *)
(* contributions that share an id, and unloading disposes what the         *)
(* activation owned.                                                       *)
(*                                                                         *)
(* The registries differ only in the values they hold, so that one table   *)
(* indexed by Ids stands for all of them (an id names its registry too).   *)
(* A contribution is a number: its place in "made", the history of the     *)
(* registrations.  Nothing registers with the registries of a production   *)
(* loader but its extensions, so that every generation a layer carries     *)
(* comes from the loader's counter.                                        *)
(***************************************************************************)
EXTENDS Naturals, Sequences, FiniteSets, FiniteSetsExt, SequencesExt

CONSTANTS Ids,       \* the ids contributions are registered under
          Packages,  \* the packages, each with one extension
          MaxOwned,  \* bounds the registrations of one activation
          MaxLate,   \* bounds those an extension makes after its activation
          MaxGeneration  \* bounds the loader's counter

VARIABLES
  made,        \* LayeredRegistry: every registration, in order
  layers,      \* LayeredRegistry.layers: the stack of each id
  disposed,    \* the registrations whose disposable has been called
  generation,  \* PackageLoader.generation
  work,        \* the activation, rollback or unload under way
  active,      \* PackageLoader.active: the records, oldest first
  failures     \* the packages whose activation failed

pluginVars ==
  <<made, layers, disposed, generation, work, active, failures>>

(* The kinds are "none", "activating", "rolling back" and "unloading";     *)
(* "left" is what the activation owns so far, or what is left to dispose.  *)
Work(kind, package, left) ==
  [kind |-> kind, package |-> package, left |-> left]

Idle == work.kind = "none"

Registrations == 1 .. Len(made)

-----------------------------------------------------------------------------
(* LayeredRegistry *)

(* The places of the active layers of id.                                  *)
ActiveAt(id) == {i \in DOMAIN layers[id] : layers[id][i].active}

(* What lookup and get answer: the newest active layer; 0 is undefined.    *)
Lookup(id) ==
  IF ActiveAt(id) = {} THEN 0 ELSE layers[id][Max(ActiveAt(id))].of

Permitted(id, replace) == replace \/ Lookup(id) = 0

(* register: the caller checked that the id is free or replaced.           *)
Register(id, owner, late) ==
  /\ made' = Append(made, [id |-> id, owner |-> owner, late |-> late,
                           generation |-> generation + 1])
  /\ layers' = [layers EXCEPT
       ![id] = Append(@, [of |-> Len(made) + 1, active |-> TRUE])]

(* remove: the oldest active layer of the id with that generation; a stack *)
(* with no active layer is dropped.                                        *)
MatchingById(u) == ActiveAt(made[u].id)

Matching(u) ==
  {i \in ActiveAt(made[u].id) :
     made[layers[made[u].id][i].of].generation = made[u].generation}

Without(id, i) ==
  LET stack == [layers[id] EXCEPT ![i].active = FALSE] IN
  IF \E j \in DOMAIN stack : stack[j].active THEN stack ELSE <<>>

(* The disposable a registration returns: only its first call removes.     *)
Dispose(u) ==
  /\ disposed' = disposed \cup {u}
  /\ layers' =
       IF u \in disposed \/ Matching(u) = {} THEN layers
       ELSE [layers EXCEPT ![made[u].id] = Without(made[u].id,
                                                   Min(Matching(u)))]

-----------------------------------------------------------------------------
(* activateExtension and unloadExtension *)

BeginActivation(p) ==
  /\ Idle
  /\ work' = Work("activating", p, <<>>)
  /\ generation' = generation + 1
  /\ UNCHANGED <<made, layers, disposed, active, failures>>

(* The extension registers.  The generation is allocated before the        *)
(* registry looks for a duplicate; what a refused extension does next is   *)
(* its own choice.                                                         *)
RegisterOwned(id, replace) ==
  /\ work.kind = "activating" /\ Len(work.left) < MaxOwned
  /\ generation < MaxGeneration
  /\ generation' = generation + 1
  /\ IF Permitted(id, replace)
     THEN /\ Register(id, work.package, FALSE)
          /\ work' = [work EXCEPT !.left = Append(@, Len(made) + 1)]
     ELSE UNCHANGED <<made, layers, work>>
  /\ UNCHANGED <<disposed, active, failures>>

ActivationReturns ==
  /\ work.kind = "activating"
  /\ active' = Append(active, [package |-> work.package,
                               owned |-> work.left])
  /\ work' = Work("none", work.package, <<>>)
  /\ UNCHANGED <<made, layers, disposed, generation, failures>>

ActivationThrows ==
  /\ work.kind = "activating"
  /\ work' = [work EXCEPT !.kind = "rolling back"]
  /\ UNCHANGED <<made, layers, disposed, generation, active, failures>>

(* Resources are disposed newest first, each awaited; one that throws does *)
(* not keep the others from being disposed.                                *)
DisposeNext ==
  /\ work.kind \in {"rolling back", "unloading"} /\ work.left # <<>>
  /\ Dispose(Last(work.left))
  /\ work' = [work EXCEPT !.left = Front(@)]
  /\ UNCHANGED <<made, generation, active, failures>>

RolledBack ==
  /\ work.kind = "rolling back" /\ work.left = <<>>
  /\ failures' = failures \cup {work.package}
  /\ work' = Work("none", work.package, <<>>)
  /\ UNCHANGED <<made, layers, disposed, generation, active>>

(* PackageLoader.unload of one extension.                                  *)
BeginUnload(p) ==
  /\ Idle
  /\ \E i \in DOMAIN active :
       /\ active[i].package = p
       /\ work' = Work("unloading", p, active[i].owned)
       /\ active' = [active EXCEPT ![i].owned = <<>>]
  /\ UNCHANGED <<made, layers, disposed, generation, failures>>

(* The record goes: the loader keeps one of each package.                  *)
UnloadReturns ==
  /\ work.kind = "unloading" /\ work.left = <<>>
  /\ \E i \in DOMAIN active :
       active[i].package = work.package /\ active' = RemoveAt(active, i)
  /\ work' = Work("none", work.package, <<>>)
  /\ UNCHANGED <<made, layers, disposed, generation, failures>>

(* A disposable of the extension's own threw: the error surfaces once all  *)
(* are disposed, and the loader keeps the record.                          *)
UnloadThrows ==
  /\ work.kind = "unloading" /\ work.left = <<>>
  /\ work' = Work("none", work.package, <<>>)
  /\ UNCHANGED <<made, layers, disposed, generation, active, failures>>

(* An extension keeps its context: what it registers after its activation  *)
(* returned goes on no list the loader disposes.                           *)
RegisterLate(id, replace) ==
  /\ Permitted(id, replace)
  /\ Cardinality({u \in Registrations : made[u].late}) < MaxLate
  /\ \E i \in DOMAIN active : Register(id, active[i].package, TRUE)
  /\ generation' = generation + 1
  /\ UNCHANGED <<disposed, work, active, failures>>

(* It keeps the disposables it was given, too, and may call one any time.  *)
DisposeEarly(u) ==
  /\ u \notin disposed
  /\ Dispose(u)
  /\ UNCHANGED <<made, generation, work, active, failures>>

-----------------------------------------------------------------------------

PluginInit ==
  /\ made = <<>> /\ layers = [id \in Ids |-> <<>>] /\ disposed = {}
  /\ generation = 0 /\ failures = {} /\ active = <<>>
  /\ work = [kind |-> "none", package |-> "none", left |-> <<>>]

(* Steps the extensions choose.                                            *)
ExtensionStep ==
  \/ \E id \in Ids, replace \in BOOLEAN :
       RegisterOwned(id, replace) \/ RegisterLate(id, replace)
  \/ \E u \in Registrations : DisposeEarly(u)
  \/ ActivationReturns \/ ActivationThrows

-----------------------------------------------------------------------------

(* Disposing takes out the layer of that very registration, however many   *)
(* extensions have stacked theirs on the id and in whatever order they     *)
(* leave: a registration is in its stack, active, until its own disposable *)
(* is called and never after (LayeredRegistry.remove matches by generation *)
(* and registration id, registry.ts:70-79).  And none of an activation     *)
(* outlives the loader's record of it: one that is still active is owned   *)
(* by the activation, rollback or unload under way or by a record          *)
(* (activateExtension, unloadExtension, activation.ts:51-71).              *)
LayersFollowOwners ==
  \A u \in Registrations :
    /\ u \notin disposed <=>
         \E i \in DOMAIN layers[made[u].id] :
           layers[made[u].id][i] = [of |-> u, active |-> TRUE]
    /\ (u \notin disposed /\ ~made[u].late) =>
         \/ u \in ToSet(work.left)
         \/ \E i \in DOMAIN active : u \in ToSet(active[i].owned)

=============================================================================
