------------------------------ MODULE PollTask ------------------------------
(***************************************************************************)
(* A polled data source: the mining-pool source (mining_pool_common's      *)
(* pool_base.cpp) and the Bitaxe source (bitaxe_source.cpp), which keep    *)
(* the same hand-shake between the task that polls and the task that       *)
(* starts and stops it.                                                    *)
(*                                                                         *)
(* Start() arms the source and creates a poll task; Stop() raises a flag,  *)
(* waits on a binary semaphore for the task to signal its exit, gives up   *)
(* after twelve seconds, and forgets the task either way.  A task given    *)
(* up on is still there: it may signal later, for a Stop() that does not   *)
(* wait for it, and Start() lowers the flag it has yet to see.             *)
(*                                                                         *)
(* The owners are the tasks that call DataHub::StartAll and StopAll: the   *)
(* main task for its commands (control_command_drain.cpp), and the task    *)
(* that installs an update (init_control_api.cpp's pre-flash hook).        *)
(*                                                                         *)
(* Time: a poll task that is not waiting for a server answers the flag     *)
(* within a few seconds (it sleeps one at a time), so Stop() gives up only *)
(* when every poll task there is has a request under way.                  *)
(***************************************************************************)
EXTENDS Naturals, FiniteSets

CONSTANTS
  Tasks,       \* handles of poll tasks; one may be used again once its task is gone
  Owners,      \* the tasks that start and stop the source
  Commands     \* [Owners -> SUBSET {"stop", "restart", "update"}]

ASSUME PollTaskAssumption ==
  Commands \in [Owners -> SUBSET {"stop", "restart", "update"}]

VARIABLES
  task_,      \* a handle is kept: Stop() has somebody to wait for
  hub_,       \* the pointer to the hub is set
  stop_,      \* the flag the poll task looks at
  done_,      \* the binary semaphore holds a signal
  live,       \* the poll tasks that have not signalled their exit
  at,         \* what each of them is doing
  control,    \* where each owner is in Start() or Stop(), and what for
  given_up    \* how often Stop() stopped waiting (history)

vars == <<task_, hub_, stop_, done_, live, at, control, given_up>>

Doing(o, step) == control' = [control EXCEPT ![o].step = step]

(* WireDataSources has started the source. *)
Init ==
  /\ task_ = TRUE /\ hub_ = TRUE /\ stop_ = FALSE /\ done_ = FALSE
  /\ \E t \in Tasks :
       /\ live = {t}
       /\ at = [u \in Tasks |-> IF u = t THEN "loop" ELSE "gone"]
  /\ control = [o \in Owners |-> [step |-> "idle", command |-> "stop"]]
  /\ given_up = 0

-----------------------------------------------------------------------------
(* Stop(). *)

(* What an owner does when Stop() has returned. *)
After(command) ==
  CASE command = "restart" -> "start"
    [] command = "update" -> "flash"
    [] OTHER -> "idle"

(* Mutant: the hub's pointer is cleared before the wait, not after it. *)
CallStopClearsFirst(o) ==
  \E c \in Commands[o] :
    /\ control[o].step = "idle"
    /\ hub_' = FALSE
    /\ stop_' = (stop_ \/ task_)
    /\ control' = [control EXCEPT ![o] = [step |-> IF task_ THEN "wait" ELSE After(c),
                                         command |-> c]]
    /\ UNCHANGED <<task_, done_, live, at, given_up>>

(* A command reaches its owner.  Without a task there is nobody to wait    *)
(* for.                                                                    *)
CallStop(o) ==
  \E c \in Commands[o] :
    /\ control[o].step = "idle"
    /\ IF task_
       THEN /\ stop_' = TRUE /\ UNCHANGED hub_
            /\ control' = [control EXCEPT ![o] = [step |-> "wait", command |-> c]]
       ELSE /\ hub_' = FALSE /\ UNCHANGED stop_
            /\ control' = [control EXCEPT ![o] = [step |-> After(c), command |-> c]]
    /\ UNCHANGED <<task_, done_, live, at, given_up>>

TakeDone(o) ==
  /\ control[o].step = "wait"
  /\ done_
  /\ done_' = FALSE
  /\ Doing(o, "clear")
  /\ UNCHANGED <<task_, hub_, stop_, live, at, given_up>>

GiveUp(o) ==
  /\ control[o].step = "wait"
  /\ ~done_ /\ \A t \in live : at[t] = "fetch"
  /\ given_up' = given_up + 1
  /\ Doing(o, "clear")
  /\ UNCHANGED <<task_, hub_, stop_, done_, live, at>>

Forget(o) ==
  /\ control[o].step = "clear"
  /\ hub_' = FALSE /\ task_' = FALSE
  /\ Doing(o, After(control[o].command))
  /\ UNCHANGED <<stop_, done_, live, at, given_up>>

-----------------------------------------------------------------------------
(* Start().  A signal left over in the semaphore stays there. *)

(* Mutant: the flag of the last Stop() stays up. *)
ArmUnderFlag(o) ==
  /\ control[o].step = "start"
  /\ hub_' = TRUE
  /\ Doing(o, "create")
  /\ UNCHANGED <<task_, stop_, done_, live, at, given_up>>

Arm(o) ==
  /\ control[o].step = "start"
  /\ hub_' = TRUE /\ stop_' = FALSE
  /\ Doing(o, "create")
  /\ UNCHANGED <<task_, done_, live, at, given_up>>

CreateTask(o) ==
  /\ control[o].step = "create"
  /\ \E t \in Tasks \ live :
       /\ live' = live \cup {t}
       /\ at' = [at EXCEPT ![t] = "loop"]
  /\ task_' = TRUE
  /\ Doing(o, "idle")
  /\ UNCHANGED <<hub_, stop_, done_, given_up>>

(* No memory for the task (or, the first time, for the semaphore). *)
CreateFails(o) ==
  /\ control[o].step = "create"
  /\ task_' = FALSE /\ hub_' = FALSE
  /\ Doing(o, "idle")
  /\ UNCHANGED <<stop_, done_, live, at, given_up>>

-----------------------------------------------------------------------------
(* The poll task: Run(), PollOnce(), TaskTrampoline(). *)

Goes(t, place) == at' = [at EXCEPT ![t] = place]

(* Mutant: a task leaves only if nobody has signalled yet. *)
LoopUntilSignalled(t) ==
  /\ t \in live /\ at[t] = "loop"
  /\ Goes(t, IF stop_ /\ ~done_ THEN "exit" ELSE "fetch")
  /\ UNCHANGED <<task_, hub_, stop_, done_, live, control, given_up>>

Loop(t) ==
  /\ t \in live /\ at[t] = "loop"
  /\ Goes(t, IF stop_ THEN "exit" ELSE "fetch")
  /\ UNCHANGED <<task_, hub_, stop_, done_, live, control, given_up>>

(* The request ends; its answer is used only if the hub is still known.    *)
FetchEnds(t) ==
  /\ t \in live /\ at[t] = "fetch"
  /\ \E place \in {"loop", "report"} :
       /\ place = "report" => hub_
       /\ Goes(t, place)
  /\ UNCHANGED <<task_, hub_, stop_, done_, live, control, given_up>>

(* hub_ is read again to call Report on it. *)
Report(t) ==
  /\ t \in live /\ at[t] = "report"
  /\ Goes(t, "loop")
  /\ UNCHANGED <<task_, hub_, stop_, done_, live, control, given_up>>

(* Mutant: the task signals as it sees the flag and reports once more. *)
ExitEarly(t) ==
  /\ t \in live /\ at[t] \in {"exit", "report"}
  /\ stop_
  /\ done_' = TRUE
  /\ IF at[t] = "exit" THEN live' = live \ {t} /\ Goes(t, "gone") ELSE UNCHANGED <<live, at>>
  /\ UNCHANGED <<task_, hub_, stop_, control, given_up>>

Exit(t) ==
  /\ t \in live /\ at[t] = "exit"
  /\ done_' = TRUE
  /\ live' = live \ {t} /\ Goes(t, "gone")
  /\ UNCHANGED <<task_, hub_, stop_, control, given_up>>

-----------------------------------------------------------------------------
OwnerStep(o) ==
  \/ TakeDone(o) \/ GiveUp(o) \/ Forget(o) \/ Arm(o) \/ CreateTask(o) \/ CreateFails(o)

TaskStep(t) == Loop(t) \/ FetchEnds(t) \/ Report(t) \/ Exit(t)

Next ==
  \/ \E o \in Owners : CallStop(o) \/ OwnerStep(o)
  \/ \E t \in Tasks : TaskStep(t)

Spec == Init /\ [][Next]_vars

(* The scheduler runs every task, and a request ends: its socket times     *)
(* out.  This is WF_vars(OwnerStep(o)) and WF_vars(TaskStep(t)) with the   *)
(* guards of the steps written out, so that they can be reasoned from.     *)
OwnerReady(o) ==
  \/ control[o].step \in {"clear", "start", "create"}
  \/ control[o].step = "wait" /\ (done_ \/ \A t \in live : at[t] = "fetch")

OwnerRuns(o) == []<>(~OwnerReady(o)) \/ []<><<OwnerStep(o)>>_vars

TaskRuns(t) == []<>(t \notin live) \/ []<><<TaskStep(t)>>_vars

FairSpec ==
  /\ Spec
  /\ \A o \in Owners : OwnerRuns(o)
  /\ \A t \in Tasks : TaskRuns(t)

-----------------------------------------------------------------------------
(* Properties. *)

Places == {"loop", "fetch", "report", "exit"}

(* Fields and hand-shake; a task is live from its creation to its signal.  *)
TypeOK ==
  /\ task_ \in BOOLEAN /\ hub_ \in BOOLEAN /\ stop_ \in BOOLEAN /\ done_ \in BOOLEAN
  /\ live \subseteq Tasks
  /\ at \in [Tasks -> Places \cup {"gone"}]
  /\ control \in [Owners -> [step : {"idle", "wait", "clear", "start", "create", "flash"},
                             command : {"stop", "restart", "update"}]]
  /\ given_up \in Nat
  /\ \A t \in Tasks : t \in live <=> at[t] # "gone"

(* Every poll task, and every signal nobody has waited for yet, is         *)
(* answered for: by the Stop() still to come or under way, or by one that  *)
(* gave up.  So a source polls from one task, and from one more for each   *)
(* time Stop() gave up, however its restarts fall.                         *)
Owed == IF task_ /\ \A o \in Owners : control[o].step # "clear" THEN 1 ELSE 0

Signals == IF done_ THEN 1 ELSE 0

PollersAccounted == Cardinality(live) + Signals <= given_up + Owed

(* As long as no Stop() gave up, Stop() returns to a source that polls no  *)
(* more ("the wait lets the task release its buffers"), and no task uses   *)
(* the hub's pointer after Stop() cleared it.                              *)
StopIsFinal ==
  given_up = 0 =>
    /\ ~task_ => live = {}
    /\ \A t \in live : at[t] = "report" => hub_

(* The source is started and nobody is in the middle of a Start or a Stop. *)
Started == task_ /\ \A o \in Owners : control[o].step = "idle"

Polled == \E t \in live : at[t] = "fetch"

(* A source left started polls: no flag and no signal left over from an    *)
(* earlier Stop() ends the task that the last Start() created.             *)
PollsWhenStarted == <>[]Started => []<>Polled

(* A source that stays stopped falls silent: each poll task ends for good, *)
(* those given up on included.                                             *)
FallsSilent == \A t \in Tasks : <>[]stop_ => <>[](t \notin live)
=============================================================================
