----------------------------- MODULE GcAdapter -----------------------------
(***************************************************************************)
(* One case under one toolchain (GcAdapter.Run and buildRun,               *)
(* harness/harness.go; killGroup, harness/proc_unix.go): the case is       *)
(* built, its binary is run, each under a deadline of its own within the   *)
(* caller's context, and what it wrote is parsed.                          *)
(*                                                                         *)
(* A command is the direct child, the processes it forks, and the pipe     *)
(* that os/exec copies until no process holds it any more.  When the       *)
(* context of a command ends before its child is reaped, killGroup's       *)
(* Cancel kills the child's process group; after the child is reaped       *)
(* os/exec no longer looks at the context, and only WaitDelay ends the     *)
(* copying.  What a build leaves running is not followed into the run.     *)
(***************************************************************************)
EXTENDS Naturals

VARIABLES
  parent,   \* the caller's context: live, canceled, expired
  phase,    \* build or run
  step,     \* where Run is
  ended,    \* who ended the phase's context: nobody, its budget, the caller
  child,    \* the direct child, and how it went
  kin,      \* its descendants that are alive
  pipe,     \* open, copied to its end, or cut off by WaitDelay
  killed,   \* the group was sent SIGKILL
  flooded,  \* the capped buffer dropped output
  outcome   \* what Run returned

vars == <<parent, phase, step, ended, child, kin, pipe, killed, flooded, outcome>>

command == <<child, kin, pipe, killed, flooded>>

\* A descendant is in the child's group and holds the pipe or does not, or
\* has left the group (setsid) with the pipe.
Kin     == {"holder", "loner", "stray"}
InGroup == {"holder", "loner"}
Holders == {"holder", "stray"}

Pending        == [status |-> "", why |-> ""]
Ends(s, w)     == [status |-> s, why |-> w]

\* ctx.Err() == DeadlineExceeded: a child context that the parent ends
\* reports the parent's own error.
DeadlineExceeded == ended = "budget" \/ (ended = "caller" /\ parent = "expired")

\* cmd.Run() returned an error: the child did not start or not end well,
\* Cancel was called, or WaitDelay passed.
Err == child # "zero" \/ killed \/ pipe = "cut"

Done(o) == /\ step' = "done"
           /\ outcome' = o
           /\ UNCHANGED <<parent, phase, ended, command>>

-----------------------------------------------------------------------------
(* Slips a change to this code could make; no step uses them.              *)

\* exec.CommandContext's own Cancel: the direct child alone.
KillChild ==
  /\ step = "running" /\ ended # "nobody" /\ ~killed
  /\ killed' = TRUE
  /\ child' = IF child = "alive" THEN "killed" ELSE child
  /\ UNCHANGED <<parent, phase, step, ended, kin, pipe, flooded, outcome>>

\* No WaitDelay: Wait goes on while anyone holds the pipe.
DrainUnbounded ==
  /\ step = "draining"
  /\ kin \cap Holders = {}
  /\ pipe' = "copied"
  /\ step' = "waited"
  /\ UNCHANGED <<parent, phase, ended, child, kin, killed, flooded, outcome>>

\* The exit code is looked at instead of the error.
ClassifyByExit ==
  /\ phase = "run" /\ step = "waited"
  /\ \/ DeadlineExceeded /\ Done(Ends("timeout", "timeout"))
     \/ ~DeadlineExceeded /\ child # "zero" /\ Done(Ends("run-failed", "run"))
     \/ ~DeadlineExceeded /\ child = "zero" /\ flooded /\ Done(Ends("run-failed", "cap"))
     \/ /\ ~DeadlineExceeded /\ child = "zero" /\ ~flooded
        /\ step' = "parse"
        /\ UNCHANGED <<parent, phase, ended, command, outcome>>

-----------------------------------------------------------------------------
(* Run: the toolchain and the temporary directory, two commands, parsing.  *)

Prepare ==
  /\ step = "prepare"
  /\ \/ Done(Ends("adapter-error", "prepare"))
     \/ /\ step' = "start"
        /\ ended' = IF parent = "live" THEN "nobody" ELSE "caller"
        /\ UNCHANGED <<parent, phase, command, outcome>>

\* cmd.Start: not under a context that has ended; it may fail.
Start ==
  /\ step = "start"
  /\ \/ /\ ended = "nobody"
        /\ child' = "alive"
        /\ step' = "running"
        /\ UNCHANGED <<parent, phase, ended, kin, pipe, killed, flooded, outcome>>
     \/ /\ step' = "waited"
        /\ UNCHANGED <<parent, phase, ended, command, outcome>>

\* killGroup's Cancel, when the context has ended and the child was not
\* reaped yet, whether it still runs or not.
KillGroup ==
  /\ step = "running" /\ ended # "nobody" /\ ~killed
  /\ killed' = TRUE
  /\ child' = IF child = "alive" THEN "killed" ELSE child
  /\ kin' = kin \ InGroup
  /\ UNCHANGED <<parent, phase, step, ended, pipe, flooded, outcome>>

\* The child is reaped, and the context is looked at no more; a context
\* that has ended before has called Cancel.
Reap ==
  /\ step = "running" /\ child # "alive"
  /\ ended # "nobody" => killed
  /\ step' = "draining"
  /\ UNCHANGED <<parent, phase, ended, command, outcome>>

\* The copying ends when the pipe is closed at its other end, or WaitDelay
\* after the child was reaped or the group killed.
Drain ==
  /\ step = "draining"
  /\ pipe' = IF kin \cap Holders = {} THEN "copied" ELSE "cut"
  /\ step' = "waited"
  /\ UNCHANGED <<parent, phase, ended, child, kin, killed, flooded, outcome>>

\* After the build: a failure names the deadline that ended it, and the run
\* gets a context of its own.  A flooded build log is no failure.
ClassifyBuild ==
  /\ phase = "build" /\ step = "waited"
  /\ \/ Err /\ DeadlineExceeded /\ parent # "live" /\ Done(Ends("build-failed", "caller"))
     \/ Err /\ DeadlineExceeded /\ parent = "live" /\ Done(Ends("build-failed", "budget"))
     \/ Err /\ ~DeadlineExceeded /\ Done(Ends("build-failed", "build"))
     \/ /\ ~Err
        /\ phase' = "run" /\ step' = "start"
        /\ ended' = IF parent = "live" THEN "nobody" ELSE "caller"
        /\ child' = "none" /\ kin' = {} /\ pipe' = "open"
        /\ killed' = FALSE /\ flooded' = FALSE
        /\ UNCHANGED <<parent, outcome>>

ClassifyRun ==
  /\ phase = "run" /\ step = "waited"
  /\ \/ DeadlineExceeded /\ Done(Ends("timeout", "timeout"))
     \/ ~DeadlineExceeded /\ Err /\ Done(Ends("run-failed", "run"))
     \/ ~DeadlineExceeded /\ ~Err /\ flooded /\ Done(Ends("run-failed", "cap"))
     \/ /\ ~DeadlineExceeded /\ ~Err /\ ~flooded
        /\ step' = "parse"
        /\ UNCHANGED <<parent, phase, ended, command, outcome>>

\* observe.Parse accepts the document or not.
Parse ==
  /\ step = "parse"
  /\ Done(Ends("ran", "observed")) \/ Done(Ends("run-failed", "parse"))

-----------------------------------------------------------------------------
(* The processes and the contexts.                                         *)

ChildExits ==
  /\ child = "alive"
  /\ child' \in {"zero", "nonzero"}
  /\ UNCHANGED <<parent, phase, step, ended, kin, pipe, killed, flooded, outcome>>

\* The child forks, or a descendant that can still pass on all it has.
Fork ==
  /\ child = "alive" \/ "holder" \in kin
  /\ \E k \in Kin \ kin : kin' = kin \cup {k}
  /\ UNCHANGED <<parent, phase, step, ended, child, pipe, killed, flooded, outcome>>

KinExits ==
  /\ \E k \in kin : kin' = kin \ {k}
  /\ UNCHANGED <<parent, phase, step, ended, child, pipe, killed, flooded, outcome>>

\* More output than the buffer takes.
Flood ==
  /\ step \in {"running", "draining"} /\ ~flooded
  /\ child = "alive" \/ kin \cap Holders # {}
  /\ flooded' = TRUE
  /\ UNCHANGED <<parent, phase, step, ended, child, kin, pipe, killed, outcome>>

\* The caller cancels, or its own deadline passes; the phase's context ends
\* with it, unless it has ended already.
ParentEnds ==
  /\ parent = "live"
  /\ parent' \in {"canceled", "expired"}
  /\ ended' = IF step # "prepare" /\ ended = "nobody" THEN "caller" ELSE ended
  /\ UNCHANGED <<phase, step, command, outcome>>

BudgetEnds ==
  /\ step \in {"start", "running", "draining", "waited"}
  /\ ended = "nobody"
  /\ ended' = "budget"
  /\ UNCHANGED <<parent, phase, step, command, outcome>>

-----------------------------------------------------------------------------
AdapterStep == \/ Prepare \/ Start \/ KillGroup \/ Reap \/ Drain
               \/ ClassifyBuild \/ ClassifyRun \/ Parse

WorldStep == ChildExits \/ Fork \/ KinExits \/ Flood \/ ParentEnds

Init ==
  /\ parent \in {"live", "canceled", "expired"}
  /\ phase = "build" /\ step = "prepare" /\ ended = "nobody"
  /\ child = "none" /\ kin = {} /\ pipe = "open"
  /\ killed = FALSE /\ flooded = FALSE
  /\ outcome = Pending

Next == AdapterStep \/ BudgetEnds \/ WorldStep

Spec == Init /\ [][Next]_vars

\* The goroutines of os/exec run and time passes; no process ever has to
\* end by itself.
FairSpec == Spec /\ WF_vars(AdapterStep) /\ WF_vars(BudgetEnds)

-----------------------------------------------------------------------------
(* Properties.                                                             *)

TypeOK ==
  /\ parent \in {"live", "canceled", "expired"}
  /\ phase \in {"build", "run"}
  /\ step \in {"prepare", "start", "running", "draining", "waited", "parse", "done"}
  /\ ended \in {"nobody", "budget", "caller"}
  /\ child \in {"none", "alive", "zero", "nonzero", "killed"}
  /\ kin \subseteq Kin
  /\ pipe \in {"open", "copied", "cut"}
  /\ killed \in BOOLEAN /\ flooded \in BOOLEAN
  /\ outcome.status \in {"", "ran", "build-failed", "run-failed", "timeout", "adapter-error"}
  /\ outcome.status = "" <=> step # "done"

\* A document counts as observed only if the program ended by itself with
\* status zero, all it and its descendants wrote was copied, and nothing of
\* it was dropped: no prefix of an output is ever an observation.
RanIsComplete ==
  outcome.status = "ran" =>
    phase = "run" /\ child = "zero" /\ ~killed /\ pipe = "copied" /\ ~flooded

\* "Cancellation kills the subprocess's whole PROCESS GROUP" (killGroup):
\* when a deadline takes the child, no process of its group outlives it.
GroupDiesWithChild == killed => kin \cap InGroup = {}

\* Run returns, whatever the compiler, the program and their descendants
\* do: "WaitDelay guarantees Wait returns even if the child holds its pipes
\* open" (killGroup).
Returns == <>(step = "done")
=============================================================================
