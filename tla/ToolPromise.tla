----------------------------- MODULE ToolPromise -----------------------------
(***************************************************************************)
(* What the tool phase of a reply promises, whatever carries it out: calls *)
(* are taken in the model's order and one at a time, a tool that must ask  *)
(* works only after somebody granted it, nothing starts to work once the   *)
(* run is stopped, and what became of a call is never revised.  ToolCalls  *)
(* (execution.ts, approval.ts and the kernel's tool.rs) and CoreTools (the *)
(* core's agent/tool_execution.rs) are shown to implement it.              *)
(***************************************************************************)
EXTENDS Naturals

CONSTANT Calls         (* the positions of the calls in the reply, numbers *)

VARIABLES
  asking,              (* the calls whose tool must ask first; never changes *)
  granted,             (* the calls somebody granted                       *)
  work,                (* each call: waiting, asked, working or settled    *)
  stopped              (* nothing may start to work any more               *)

promiseVars == <<asking, granted, work, stopped>>

Settled == {"done", "failed", "refused", "dropped"}

\* It is c's turn: what precedes it is settled.
Turn(c) == \A d \in Calls : d < c => work[d] \in Settled

Become(c, state) == work' = [work EXCEPT ![c] = state]

PromiseInit ==
  /\ asking \in SUBSET Calls
  /\ granted = {}
  /\ work = [c \in Calls |-> "waiting"]
  /\ stopped = FALSE

Ask(c) ==
  /\ Turn(c) /\ c \in asking /\ work[c] = "waiting"
  /\ Become(c, "asked")
  /\ UNCHANGED <<asking, granted, stopped>>

\* A grant may come too late to be of use, but is given only when asked for.
Grant(c) ==
  /\ work[c] = "asked"
  /\ granted' = granted \cup {c}
  /\ \E state \in {"failed", "dropped"} \cup
                  IF stopped THEN {} ELSE {"working"} : Become(c, state)
  /\ UNCHANGED <<asking, stopped>>

WorkFreely(c) ==
  /\ Turn(c) /\ c \notin asking /\ work[c] = "waiting" /\ ~stopped
  /\ Become(c, "working")
  /\ UNCHANGED <<asking, granted, stopped>>

\* Refusing is also how an application that is leaving answers.
Refuse(c) ==
  /\ work[c] = "asked"
  /\ Become(c, "refused")
  /\ UNCHANGED <<asking, granted, stopped>>

\* A call whose tool nobody knows is done without any work.
GiveUp(c) ==
  /\ Turn(c)
  /\ \/ work[c] = "waiting" /\ \E state \in Settled \ {"refused"} :
                                 Become(c, state)
     \/ work[c] = "asked" /\ Become(c, "dropped")
  /\ UNCHANGED <<asking, granted, stopped>>

Finish(c) ==
  /\ work[c] = "working"
  /\ \E state \in {"done", "failed", "dropped"} : Become(c, state)
  /\ UNCHANGED <<asking, granted, stopped>>

Stop ==
  /\ stopped' = TRUE
  /\ UNCHANGED <<asking, granted, work>>

PromiseNext ==
  \/ Stop
  \/ \E c \in Calls : \/ Ask(c) \/ Grant(c) \/ WorkFreely(c)
                      \/ Refuse(c) \/ GiveUp(c) \/ Finish(c)

Promise == PromiseInit /\ [][PromiseNext]_promiseVars
==============================================================================
