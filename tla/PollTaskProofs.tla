--------------------------- MODULE PollTaskProofs ---------------------------
(***************************************************************************)
(* Theorems about PollTask for any set of poll tasks.  Type correctness    *)
(* holds whoever calls Start() and Stop(); that the poll tasks are         *)
(* accounted for, that Stop() is final and that a source left started      *)
(* polls is proved for one owner, since two that call at once break it;    *)
(* that a source left stopped falls silent, for two.                       *)
(***************************************************************************)
EXTENDS PollTask, FiniteSetTheorems, TLAPS

(***************************************************************************)
(* Type correctness.                                                       *)
(***************************************************************************)

LEMMA TypeInit == Init => TypeOK
<1> SUFFICES ASSUME Init PROVE TypeOK
  OBVIOUS
<1>1. PICK t \in Tasks :
        /\ live = {t}
        /\ at = [u \in Tasks |-> IF u = t THEN "loop" ELSE "gone"]
  BY DEF Init
<1>2. at \in [Tasks -> Places \cup {"gone"}]
  BY <1>1 DEF Places
<1>3. \A u \in Tasks : u \in live <=> at[u] # "gone"
  BY <1>1
<1>4. control \in [Owners -> [step : {"idle", "wait", "clear", "start", "create", "flash"},
                             command : {"stop", "restart", "update"}]]
  BY DEF Init
<1> QED
  BY <1>1, <1>2, <1>3, <1>4 DEF Init, TypeOK

LEMMA TypeStep == TypeOK /\ [Next]_vars => TypeOK'
<1> SUFFICES ASSUME TypeOK, [Next]_vars PROVE TypeOK'
  OBVIOUS
<1> USE DEF TypeOK, Places
<1>1. ASSUME NEW o \in Owners, CallStop(o) PROVE TypeOK'
  <2>1. PICK c \in Commands[o] :
          /\ IF task_
             THEN /\ stop_' = TRUE /\ UNCHANGED hub_
                  /\ control' = [control EXCEPT ![o] = [step |-> "wait", command |-> c]]
             ELSE /\ hub_' = FALSE /\ UNCHANGED stop_
                  /\ control' = [control EXCEPT ![o] = [step |-> After(c), command |-> c]]
          /\ UNCHANGED <<task_, done_, live, at, given_up>>
    BY <1>1 DEF CallStop
  <2>2. c \in {"stop", "restart", "update"}
    BY PollTaskAssumption
  <2>3. After(c) \in {"idle", "start", "flash"}
    BY DEF After
  <2>4. control' \in [Owners -> [step : {"idle", "wait", "clear", "start", "create", "flash"},
                                command : {"stop", "restart", "update"}]]
    BY <2>1, <2>2, <2>3
  <2>5. stop_' \in BOOLEAN /\ hub_' \in BOOLEAN
    BY <2>1
  <2> QED
    BY <2>1, <2>4, <2>5
<1>2. ASSUME NEW o \in Owners, TakeDone(o) PROVE TypeOK'
  BY <1>2 DEF TakeDone, Doing
<1>3. ASSUME NEW o \in Owners, GiveUp(o) PROVE TypeOK'
  BY <1>3 DEF GiveUp, Doing
<1>4. ASSUME NEW o \in Owners, Forget(o) PROVE TypeOK'
  <2>1. After(control[o].command) \in {"idle", "start", "flash"}
    BY DEF After
  <2> QED
    BY <1>4, <2>1 DEF Forget, Doing
<1>5. ASSUME NEW o \in Owners, Arm(o) PROVE TypeOK'
  BY <1>5 DEF Arm, Doing
<1>6. ASSUME NEW o \in Owners, CreateTask(o) PROVE TypeOK'
  <2>1. PICK t \in Tasks \ live : live' = live \cup {t} /\ at' = [at EXCEPT ![t] = "loop"]
    BY <1>6 DEF CreateTask
  <2> QED
    BY <1>6, <2>1 DEF CreateTask, Doing
<1>7. ASSUME NEW o \in Owners, CreateFails(o) PROVE TypeOK'
  BY <1>7 DEF CreateFails, Doing
<1>8. ASSUME NEW t \in Tasks, Loop(t) PROVE TypeOK'
  BY <1>8 DEF Loop, Goes
<1>9. ASSUME NEW t \in Tasks, FetchEnds(t) PROVE TypeOK'
  BY <1>9 DEF FetchEnds, Goes
<1>10. ASSUME NEW t \in Tasks, Report(t) PROVE TypeOK'
  BY <1>10 DEF Report, Goes
<1>11. ASSUME NEW t \in Tasks, Exit(t) PROVE TypeOK'
  BY <1>11 DEF Exit, Goes
<1>12. CASE UNCHANGED vars
  BY <1>12 DEF vars
<1> QED
  BY <1>1, <1>2, <1>3, <1>4, <1>5, <1>6, <1>7, <1>8, <1>9, <1>10, <1>11, <1>12
  DEF Next, OwnerStep, TaskStep

(* The fields stay within their types, and a poll task is live from its    *)
(* creation to its signal, whoever starts and stops the source.            *)
THEOREM TypeCorrect == Spec => []TypeOK
<1>1. Init => TypeOK
  BY TypeInit
<1>2. TypeOK /\ [Next]_vars => TypeOK'
  BY TypeStep
<1> QED
  BY <1>1, <1>2, PTL DEF Spec

(***************************************************************************)
(* One owner.  The inductive invariant adds to PollersAccounted where the  *)
(* owner is when a handle is kept: Stop() waits only for a task it has a   *)
(* handle of, Start() runs only without one, and a handle kept or being    *)
(* created goes with the pointer to the hub.                               *)
(***************************************************************************)

HandleFits(o) ==
  /\ control[o].step \in {"wait", "clear"} => task_
  /\ control[o].step \in {"start", "create", "flash"} => ~task_
  /\ task_ \/ control[o].step = "create" => hub_

Inv(o) ==
  /\ TypeOK
  /\ IsFiniteSet(live)
  /\ HandleFits(o)
  /\ PollersAccounted

LEMMA InvInit ==
  ASSUME NEW o, Owners = {o}, Init
  PROVE  Inv(o)
<1>1. TypeOK
  BY TypeInit
<1>2. PICK t \in Tasks : live = {t}
  BY DEF Init
<1>3. IsFiniteSet(live) /\ Cardinality(live) = 1
  BY <1>2, FS_Singleton
<1>4. HandleFits(o)
  BY DEF Init, HandleFits
<1>5. Owed = 1 /\ Signals = 0
  BY DEF Init, Owed, Signals
<1>6. PollersAccounted
  BY <1>3, <1>5 DEF PollersAccounted, Init
<1> QED
  BY <1>1, <1>3, <1>4, <1>6 DEF Inv

(* A step of the owner or of a task changes the account by what it does to *)
(* the live tasks, the signal and the handle.                              *)
LEMMA InvStep ==
  ASSUME NEW o, Owners = {o}, Inv(o), [Next]_vars
  PROVE  Inv(o)'
<1> USE DEF Inv
<1>1. TypeOK'
  BY TypeStep
<1> DEFINE n == Cardinality(live)
<1>2. n \in Nat /\ given_up \in Nat /\ Owed \in {0, 1} /\ Signals \in {0, 1}
  BY FS_CardinalityType DEF TypeOK, Owed, Signals
<1>3. n + Signals <= given_up + Owed
  BY DEF PollersAccounted
<1>4. Owed = IF task_ /\ control[o].step # "clear" THEN 1 ELSE 0
  BY DEF Owed
<1>5. Owed' = IF task_' /\ control'[o].step # "clear" THEN 1 ELSE 0
  BY DEF Owed
<1> DEFINE Kept == IsFiniteSet(live)' /\ HandleFits(o)' /\ PollersAccounted'
<1>6. ASSUME CallStop(o) PROVE Kept
  <2>1. PICK c \in Commands[o] :
          /\ control[o].step = "idle"
          /\ IF task_
             THEN /\ stop_' = TRUE /\ UNCHANGED hub_
                  /\ control' = [control EXCEPT ![o] = [step |-> "wait", command |-> c]]
             ELSE /\ hub_' = FALSE /\ UNCHANGED stop_
                  /\ control' = [control EXCEPT ![o] = [step |-> After(c), command |-> c]]
          /\ UNCHANGED <<task_, done_, live, at, given_up>>
    BY <1>6 DEF CallStop
  <2>2. After(c) \in {"idle", "start", "flash"}
    BY DEF After
  <2>3. HandleFits(o)'
    BY <2>1, <2>2 DEF HandleFits, TypeOK
  <2>4. Owed' = Owed
    BY <2>1, <2>2, <1>4, <1>5 DEF TypeOK
  <2>5. Signals' = Signals
    BY <2>1 DEF Signals
  <2> QED
    BY <2>1, <2>3, <2>4, <2>5 DEF PollersAccounted
<1>7. ASSUME TakeDone(o) PROVE Kept
  <2>1. HandleFits(o)'
    BY <1>7 DEF TakeDone, Doing, HandleFits, TypeOK
  <2>2. Owed = 1 /\ Owed' = 0
    BY <1>7, <1>4, <1>5 DEF TakeDone, Doing, HandleFits, TypeOK
  <2>3. Signals = 1 /\ Signals' = 0
    BY <1>7 DEF TakeDone, Signals
  <2> QED
    BY <1>7, <1>2, <1>3, <2>1, <2>2, <2>3 DEF TakeDone, PollersAccounted
<1>8. ASSUME GiveUp(o) PROVE Kept
  <2>1. HandleFits(o)'
    BY <1>8 DEF GiveUp, Doing, HandleFits, TypeOK
  <2>2. Owed = 1 /\ Owed' = 0
    BY <1>8, <1>4, <1>5 DEF GiveUp, Doing, HandleFits, TypeOK
  <2>3. Signals' = Signals
    BY <1>8 DEF GiveUp, Signals
  <2> QED
    BY <1>8, <1>2, <1>3, <2>1, <2>2, <2>3 DEF GiveUp, PollersAccounted
<1>9. ASSUME Forget(o) PROVE Kept
  <2>1. After(control[o].command) \in {"idle", "start", "flash"}
    BY DEF After
  <2>2. HandleFits(o)'
    BY <1>9, <2>1 DEF Forget, Doing, HandleFits, TypeOK
  <2>3. Owed' = Owed
    BY <1>9, <1>4, <1>5 DEF Forget
  <2>4. Signals' = Signals
    BY <1>9 DEF Forget, Signals
  <2> QED
    BY <1>9, <2>2, <2>3, <2>4 DEF Forget, PollersAccounted
<1>10. ASSUME Arm(o) PROVE Kept
  <2>1. HandleFits(o)'
    BY <1>10 DEF Arm, Doing, HandleFits, TypeOK
  <2>2. Owed' = Owed
    BY <1>10, <1>4, <1>5 DEF Arm, Doing, HandleFits, TypeOK
  <2>3. Signals' = Signals
    BY <1>10 DEF Arm, Signals
  <2> QED
    BY <1>10, <2>1, <2>2, <2>3 DEF Arm, PollersAccounted
<1>11. ASSUME CreateTask(o) PROVE Kept
  <2>1. PICK t \in Tasks \ live : live' = live \cup {t}
    BY <1>11 DEF CreateTask
  <2>2. IsFiniteSet(live)' /\ Cardinality(live)' = n + 1
    BY <2>1, FS_AddElement
  <2>3. HandleFits(o)'
    BY <1>11 DEF CreateTask, Doing, HandleFits, TypeOK
  <2>4. Owed = 0 /\ Owed' = 1
    BY <1>11, <1>4, <1>5 DEF CreateTask, Doing, HandleFits, TypeOK
  <2>5. Signals' = Signals
    BY <1>11 DEF CreateTask, Signals
  <2> QED
    BY <1>11, <1>2, <1>3, <2>2, <2>3, <2>4, <2>5 DEF CreateTask, PollersAccounted
<1>12. ASSUME CreateFails(o) PROVE Kept
  <2>1. HandleFits(o)'
    BY <1>12 DEF CreateFails, Doing, HandleFits, TypeOK
  <2>2. Owed = 0 /\ Owed' = 0
    BY <1>12, <1>4, <1>5 DEF CreateFails, HandleFits
  <2>3. Signals' = Signals
    BY <1>12 DEF CreateFails, Signals
  <2> QED
    BY <1>12, <2>1, <2>2, <2>3 DEF CreateFails, PollersAccounted
<1>13. ASSUME NEW t \in Tasks, Loop(t) \/ FetchEnds(t) \/ Report(t) PROVE Kept
  <2>1. UNCHANGED <<task_, hub_, done_, live, control, given_up>>
    BY <1>13 DEF Loop, FetchEnds, Report
  <2>2. HandleFits(o)' /\ Owed' = Owed /\ Signals' = Signals
    BY <2>1 DEF HandleFits, Owed, Signals
  <2> QED
    BY <2>1, <2>2 DEF PollersAccounted
<1>14. ASSUME NEW t \in Tasks, Exit(t) PROVE Kept
  <2>1. t \in live /\ live' = live \ {t}
    BY <1>14 DEF Exit
  <2>2. IsFiniteSet(live)' /\ Cardinality(live)' = n - 1
    BY <2>1, FS_RemoveElement
  <2>3. HandleFits(o)' /\ Owed' = Owed /\ given_up' = given_up
    BY <1>14 DEF Exit, HandleFits, Owed
  <2>4. Signals' = 1
    BY <1>14 DEF Exit, Signals
  <2> QED
    BY <1>2, <1>3, <2>2, <2>3, <2>4 DEF PollersAccounted
<1>15. ASSUME UNCHANGED vars PROVE Kept
  BY <1>15 DEF vars, HandleFits, PollersAccounted, Owed, Signals
<1> QED
  BY <1>1, <1>6, <1>7, <1>8, <1>9, <1>10, <1>11, <1>12, <1>13, <1>14, <1>15
  DEF Next, OwnerStep, TaskStep

LEMMA InvAlways ==
  ASSUME NEW o, Owners = {o}
  PROVE  Spec => []Inv(o)
<1>1. Init => Inv(o)
  BY InvInit
<1>2. Inv(o) /\ [Next]_vars => Inv(o)'
  BY InvStep
<1> QED
  BY <1>1, <1>2, PTL DEF Spec

(* With one owner there are never more poll tasks, and signals left over,  *)
(* than one and the number of times Stop() gave up.                        *)
THEOREM PollersAreAccounted ==
  ASSUME NEW o, Owners = {o}
  PROVE  Spec => []PollersAccounted
<1>1. Spec => []Inv(o)
  BY InvAlways
<1>2. Inv(o) => PollersAccounted
  BY DEF Inv
<1> QED
  BY <1>1, <1>2, PTL

(* With one owner, until a Stop() gives up, no task polls after Stop() and *)
(* none uses a hub pointer that Stop() cleared.                            *)
THEOREM StopIsFinalForOneOwner ==
  ASSUME NEW o, Owners = {o}
  PROVE  Spec => []StopIsFinal
<1>1. Spec => []Inv(o)
  BY InvAlways
<1>2. ASSUME Inv(o) PROVE StopIsFinal
  <2> SUFFICES ASSUME given_up = 0
               PROVE  /\ ~task_ => live = {}
                      /\ \A t \in live : at[t] = "report" => hub_
    BY DEF StopIsFinal
  <2>1. Cardinality(live) \in Nat /\ (Cardinality(live) = 0 => live = {})
    BY <1>2, FS_CardinalityType, FS_EmptySet DEF Inv
  <2>2. Cardinality(live) <= Owed
    BY <1>2, <2>1 DEF Inv, PollersAccounted, Signals, Owed
  <2>3. ASSUME ~task_ PROVE live = {}
    BY <2>1, <2>2, <2>3 DEF Owed
  <2>4. task_ => hub_
    BY <1>2 DEF Inv, HandleFits
  <2> QED
    BY <2>3, <2>4
<1> QED
  BY <1>1, <1>2, PTL

(***************************************************************************)
(* Liveness.  The fairness of a task is stated as []<> of its steps, so    *)
(* the temporal prover can take it: what one step does, and what the steps *)
(* of the others leave alone, are lemmas of the transition relation.       *)
(***************************************************************************)

(* A poll task is moved by its own steps, and by a creation that uses its  *)
(* handle again.                                                           *)
LEMMA OthersLeaveTask ==
  ASSUME TypeOK, [Next]_vars, NEW t \in Tasks
  PROVE  \/ at'[t] = at[t]
         \/ TaskStep(t)
         \/ at[t] = "gone" /\ at'[t] = "loop" /\ \E o \in Owners : control[o].step = "create"
<1>1. ASSUME NEW o \in Owners, CreateTask(o)
      PROVE  \/ at'[t] = at[t]
             \/ /\ at[t] = "gone" /\ at'[t] = "loop"
                /\ \E p \in Owners : control[p].step = "create"
  BY <1>1 DEF CreateTask, TypeOK
<1>2. ASSUME NEW o \in Owners, CallStop(o) \/ (OwnerStep(o) /\ ~CreateTask(o))
      PROVE  at' = at
  BY <1>2 DEF CallStop, OwnerStep, TakeDone, GiveUp, Forget, Arm, CreateFails
<1>3. ASSUME NEW u \in Tasks, TaskStep(u), u # t PROVE at'[t] = at[t]
  BY <1>3 DEF TaskStep, Loop, FetchEnds, Report, Exit, Goes, TypeOK
<1>4. ASSUME UNCHANGED vars PROVE at' = at
  BY <1>4 DEF vars
<1> QED
  BY <1>1, <1>2, <1>3, <1>4 DEF Next

(* What its own step does to it: a request leads back to the top of the    *)
(* loop, where the flag decides between another request and the exit.      *)
LEMMA TaskMoves ==
  ASSUME TypeOK, NEW t \in Tasks, TaskStep(t)
  PROVE  \/ at[t] = "loop" /\ stop_ /\ at'[t] = "exit"
         \/ at[t] = "loop" /\ ~stop_ /\ at'[t] = "fetch"
         \/ at[t] = "fetch" /\ at'[t] \in {"loop", "report"}
         \/ at[t] = "report" /\ at'[t] = "loop"
         \/ at[t] = "exit" /\ at'[t] = "gone"
  BY DEF TaskStep, Loop, FetchEnds, Report, Exit, Goes, TypeOK

(* While the flag stays up, no owner gets to create a task: Start() lowers *)
(* it first.  One already past that point creates its task or fails.       *)
LEMMA FlagKeepsCreation ==
  ASSUME TypeOK, [Next]_vars, stop_', NEW o \in Owners, control[o].step # "create"
  PROVE  control'[o].step # "create"
<1>1. ASSUME NEW p \in Owners, Arm(p) PROVE FALSE
  BY <1>1 DEF Arm
<1>2. ASSUME NEW p \in Owners, CallStop(p) PROVE control'[o].step # "create"
  <2>1. PICK c \in Commands[p] :
          control' = [control EXCEPT ![p] = [step |-> IF task_ THEN "wait" ELSE After(c),
                                             command |-> c]]
    BY <1>2 DEF CallStop
  <2>2. After(c) # "create"
    BY DEF After
  <2> QED
    BY <2>1, <2>2 DEF TypeOK
<1>3. ASSUME NEW p \in Owners, Forget(p) PROVE control'[o].step # "create"
  <2>1. \A c : After(c) # "create"
    BY DEF After
  <2> QED
    BY <1>3, <2>1 DEF Forget, Doing, TypeOK
<1>4. ASSUME NEW p \in Owners, TakeDone(p) \/ GiveUp(p) \/ CreateTask(p) \/ CreateFails(p)
      PROVE  control'[o].step # "create"
  BY <1>4 DEF TakeDone, GiveUp, CreateTask, CreateFails, Doing, TypeOK
<1>5. ASSUME NEW u \in Tasks, TaskStep(u) PROVE control' = control
  BY <1>5 DEF TaskStep, Loop, FetchEnds, Report, Exit
<1>6. ASSUME UNCHANGED vars PROVE control' = control
  BY <1>6 DEF vars
<1> QED
  BY <1>1, <1>2, <1>3, <1>4, <1>5, <1>6 DEF Next, OwnerStep

LEMMA CreationEnds ==
  ASSUME TypeOK, NEW o \in Owners, control[o].step = "create", OwnerStep(o)
  PROVE  control'[o].step # "create"
  BY DEF OwnerStep, TakeDone, GiveUp, Forget, Arm, CreateTask, CreateFails, Doing, TypeOK

(* So an owner at the creation leaves it for good while the flag is up.    *)
CreatesNoMore(o) == <>[]stop_ => <>[](control[o].step # "create")

LEMMA CreationsEnd ==
  ASSUME NEW o \in Owners
  PROVE  FairSpec => CreatesNoMore(o)
<1> DEFINE Up == stop_
           Creates == control[o].step = "create"
<1>1. FairSpec => Spec /\ OwnerRuns(o)
  BY DEF FairSpec
<1>2. TypeOK /\ [Next]_vars /\ Up' /\ ~Creates => ~Creates'
  BY FlagKeepsCreation
<1>3. TypeOK /\ Creates /\ <<OwnerStep(o)>>_vars => ~Creates'
  BY CreationEnds
<1>4. ~OwnerReady(o) => ~Creates
  BY DEF OwnerReady
<1>5. Creates <=> ~(control[o].step # "create")
  OBVIOUS
<1>6. Up <=> stop_
  OBVIOUS
<1> HIDE DEF Up, Creates
<1>7. Spec /\ OwnerRuns(o) => (<>[]Up => <>[]~Creates)
  BY <1>2, <1>3, <1>4, TypeCorrect, PTL DEF Spec, OwnerRuns
<1> QED
  BY <1>1, <1>5, <1>6, <1>7, PTL DEF CreatesNoMore

(* With two owners, as on the device (the main task and the task that      *)
(* installs an update; o = p is the one owner), a source that stays        *)
(* stopped falls silent: whoever gave up on whom, each poll task that is   *)
(* left sees the flag, leaves its loop and is gone, and nobody creates     *)
(* another.                                                                *)
THEOREM StoppedFallsSilent ==
  ASSUME NEW o, NEW p, Owners = {o, p}
  PROVE  FairSpec => FallsSilent
<1> SUFFICES ASSUME NEW t \in Tasks
             PROVE  FairSpec => (<>[]stop_ => <>[](t \notin live))
  BY DEF FallsSilent
<1> DEFINE Up == stop_
           OCreated == control[o].step # "create"
           PCreated == control[p].step # "create"
           Top == at[t] = "loop"
           Asks == at[t] = "fetch"
           Reports == at[t] = "report"
           Leaves == at[t] = "exit"
           Silent == at[t] = "gone"
<1>1. FairSpec => Spec /\ TaskRuns(t)
  BY DEF FairSpec
<1>2. FairSpec => CreatesNoMore(o) /\ CreatesNoMore(p)
  BY CreationsEnd
<1>3. TypeOK => Top \/ Asks \/ Reports \/ Leaves \/ Silent
  BY DEF TypeOK, Places
<1>4. TypeOK => (Silent <=> t \notin live)
  BY DEF TypeOK
<1>5. /\ Top => ~Asks /\ ~Reports /\ ~Leaves /\ ~Silent
      /\ Asks => ~Reports /\ ~Leaves /\ ~Silent
      /\ Reports => ~Leaves /\ ~Silent
      /\ Leaves => ~Silent
  OBVIOUS
<1>6. TypeOK /\ [Next]_vars /\ Up /\ OCreated /\ PCreated =>
        /\ Top => Top' \/ Leaves'
        /\ Asks => Asks' \/ Top' \/ Reports'
        /\ Reports => Reports' \/ Top'
        /\ Leaves => Leaves' \/ Silent'
        /\ Silent => Silent'
  BY OthersLeaveTask, TaskMoves
<1>7. TypeOK /\ <<TaskStep(t)>>_vars /\ Up =>
        /\ Top => Leaves'
        /\ Asks => Top' \/ Reports'
        /\ Reports => Top'
        /\ Leaves => Silent'
  BY TaskMoves
<1>8. /\ Up <=> stop_
      /\ OCreated <=> control[o].step # "create"
      /\ PCreated <=> control[p].step # "create"
  OBVIOUS
<1> HIDE DEF Up, OCreated, PCreated, Top, Asks, Reports, Leaves, Silent
<1> DEFINE Quiet == <>[]Up /\ <>[]OCreated /\ <>[]PCreated
           Gone == t \notin live
<1>9. Gone <=> t \notin live
  OBVIOUS
<1>10. TypeOK => (Silent <=> Gone)
  BY <1>4
<1> HIDE DEF Gone
<1>11. Spec => []TypeOK
  BY TypeCorrect
<1>12. TaskRuns(t) => []<>Gone \/ []<><<TaskStep(t)>>_vars
  BY DEF TaskRuns, Gone
<1>13. Spec => [][Next]_vars
  BY PTL DEF Spec
<1>14. []TypeOK /\ [][Next]_vars /\ Quiet => <>[](Silent => []Silent)
  BY <1>6, PTL
<1>15. []TypeOK /\ [][Next]_vars /\ Quiet /\ []<>Gone => <>[]Gone
  BY <1>14, <1>10, PTL
<1>16. []TypeOK /\ [][Next]_vars /\ Quiet /\ []<><<TaskStep(t)>>_vars => <>[]Silent
  BY <1>3, <1>5, <1>6, <1>7, PTL
<1>17. []TypeOK /\ <>[]Silent => <>[]Gone
  BY <1>10, PTL
<1> QED
  BY <1>1, <1>2, <1>8, <1>9, <1>11, <1>12, <1>13, <1>15, <1>16, <1>17,
     PTL DEF CreatesNoMore

(***************************************************************************)
(* A source left started, with one owner: the flag is down and some task   *)
(* is not on its way out, and a task that is not goes on polling.  Which   *)
(* task that is depends on the moment the source was left alone, so the    *)
(* tasks' fairness is needed of all of them at that moment: it is written  *)
(* with the [] outside, which says the same of every task.                 *)
(***************************************************************************)

Stays(t) == t \in live /\ at[t] # "exit"

SInv(o) ==
  /\ TypeOK
  /\ control[o].step = "create" => ~stop_
  /\ task_ /\ control[o].step = "idle" => ~stop_ /\ \E t \in live : Stays(t)

LEMMA SInvInit == ASSUME NEW o, Owners = {o}, Init PROVE SInv(o)
<1>1. TypeOK
  BY TypeInit
<1>2. PICK t \in Tasks :
        /\ live = {t}
        /\ at = [u \in Tasks |-> IF u = t THEN "loop" ELSE "gone"]
  BY DEF Init
<1>3. at[t] = "loop"
  BY <1>2
<1> QED
  BY <1>1, <1>2, <1>3 DEF Init, SInv, Stays

LEMMA SInvStep == ASSUME NEW o, Owners = {o}, SInv(o), [Next]_vars PROVE SInv(o)'
<1> USE DEF SInv
<1>1. TypeOK'
  BY TypeStep
<1>2. CASE CallStop(o)
  <2>1. PICK c \in Commands[o] :
          /\ control[o].step = "idle"
          /\ control' = [control EXCEPT ![o] = [step |-> IF task_ THEN "wait" ELSE After(c),
                                                command |-> c]]
          /\ UNCHANGED task_
    BY <1>2 DEF CallStop
  <2>2. After(c) # "create"
    BY DEF After
  <2>3. control'[o].step = IF task_ THEN "wait" ELSE After(c)
    BY <2>1 DEF TypeOK
  <2> QED
    BY <1>1, <2>1, <2>2, <2>3
<1>3. CASE TakeDone(o) \/ GiveUp(o)
  <2>1. control'[o].step = "clear"
    BY <1>3 DEF TakeDone, GiveUp, Doing, TypeOK
  <2> QED
    BY <1>1, <2>1
<1>4. CASE Forget(o)
  <2>1. After(control[o].command) # "create"
    BY DEF After
  <2>2. ~task_' /\ control'[o].step = After(control[o].command)
    BY <1>4 DEF Forget, Doing, TypeOK
  <2> QED
    BY <1>1, <2>1, <2>2
<1>5. CASE Arm(o)
  <2>1. ~stop_' /\ control'[o].step = "create"
    BY <1>5 DEF Arm, Doing, TypeOK
  <2> QED
    BY <1>1, <2>1
<1>6. CASE CreateTask(o)
  <2>1. PICK t \in Tasks \ live : live' = live \cup {t} /\ at' = [at EXCEPT ![t] = "loop"]
    BY <1>6 DEF CreateTask
  <2>2. t \in live' /\ at'[t] = "loop"
    BY <2>1 DEF TypeOK
  <2>3. ~stop_' /\ control'[o].step = "idle"
    BY <1>6 DEF CreateTask, Doing, TypeOK
  <2> QED
    BY <1>1, <2>2, <2>3 DEF Stays
<1>7. CASE CreateFails(o)
  <2>1. ~task_' /\ control'[o].step = "idle"
    BY <1>7 DEF CreateFails, Doing, TypeOK
  <2> QED
    BY <1>1, <2>1
<1>8. ASSUME NEW u \in Tasks, TaskStep(u) PROVE SInv(o)'
  <2>1. UNCHANGED <<task_, stop_, control>>
    BY <1>8 DEF TaskStep, Loop, FetchEnds, Report, Exit
  <2>2. ASSUME NEW t \in live, Stays(t), ~stop_ PROVE t \in live' /\ Stays(t)'
    <3>1. t # u => at'[t] = at[t]
      BY <1>8 DEF TaskStep, Loop, FetchEnds, Report, Exit, Goes, TypeOK
    <3>2. t = u => at'[t] \in {"fetch", "loop", "report"}
      BY <1>8, <2>2, TaskMoves DEF Stays
    <3>3. at'[t] # "gone" /\ at'[t] # "exit" /\ t \in Tasks
      BY <2>2, <3>1, <3>2 DEF Stays, TypeOK
    <3> QED
      BY <1>1, <3>3 DEF Stays, TypeOK
  <2> QED
    BY <1>1, <2>1, <2>2
<1>9. CASE UNCHANGED vars
  BY <1>1, <1>9 DEF vars, Stays
<1> QED
  BY <1>2, <1>3, <1>4, <1>5, <1>6, <1>7, <1>8, <1>9 DEF Next, OwnerStep, TaskStep

LEMMA SInvAlways ==
  ASSUME NEW o, Owners = {o}
  PROVE  Spec => []SInv(o)
<1>1. Init => SInv(o)
  BY SInvInit
<1>2. SInv(o) /\ [Next]_vars => SInv(o)'
  BY SInvStep
<1> QED
  BY <1>1, <1>2, PTL DEF Spec

(* A source left started has a poll task that is not leaving: no flag left *)
(* over from an earlier Stop() meets the task that Start() created.        *)
THEOREM StartedHasPoller ==
  ASSUME NEW o, Owners = {o}
  PROVE  Spec => [](Started => \E t \in live : Stays(t))
<1>1. SInv(o) => (Started => \E t \in live : Stays(t))
  BY DEF SInv, Started
<1> QED
  BY <1>1, SInvAlways, PTL

AllTasksRun == [](\A t \in Tasks : TaskRuns(t))

LeftStarted == []Started
Polls == []<>Polled
Continues(o) == []SInv(o) /\ [][Next]_vars

(* A task that is not leaving polls for ever, as long as nobody stops the  *)
(* source.                                                                 *)
LEMMA StayingTaskPolls ==
  ASSUME NEW o, Owners = {o}, NEW t \in Tasks
  PROVE  Continues(o) /\ TaskRuns(t) /\ LeftStarted /\ Stays(t) => Polls
<1> DEFINE Down == ~stop_
           Top == at[t] = "loop"
           Asks == at[t] = "fetch"
           Reports == at[t] = "report"
           Gone == t \notin live
<1>1. SInv(o) /\ Started => Down
  BY DEF SInv, Started
<1>2. TypeOK /\ Stays(t) => ~Gone /\ (Top \/ Asks \/ Reports)
  BY DEF TypeOK, Stays, Places
<1>3. TypeOK /\ Down /\ Stays(t) /\ [Next]_vars =>
        /\ Top => Top' \/ Asks'
        /\ Asks => Asks' \/ Top' \/ Reports'
        /\ Reports => Reports' \/ Top'
  BY OthersLeaveTask, TaskMoves DEF Stays, TypeOK
<1>4. TypeOK' /\ (Top' \/ Asks' \/ Reports') => Stays(t)'
  BY DEF TypeOK, Stays
<1>5. TypeOK /\ Down /\ <<TaskStep(t)>>_vars =>
        /\ Top => Asks'
        /\ Reports => Top'
        /\ Asks => Top' \/ Reports'
  BY TaskMoves
<1>6. SInv(o) => TypeOK
  BY DEF SInv
<1>7. TaskRuns(t) => []<>Gone \/ []<><<TaskStep(t)>>_vars
  BY DEF TaskRuns
<1>8. /\ Top => ~Asks /\ ~Reports
      /\ Asks => ~Reports
      /\ Stays(t) /\ Asks => Polled
  BY DEF Stays, Polled
<1> HIDE DEF Down, Top, Asks, Reports, Gone
<1>9. Continues(o) /\ LeftStarted /\ Stays(t) => []Stays(t)
  BY <1>1, <1>2, <1>3, <1>4, <1>6, PTL DEF Continues, LeftStarted
<1>10. Continues(o) /\ LeftStarted /\ []Stays(t) /\ []<><<TaskStep(t)>>_vars => []<>Asks
  BY <1>1, <1>2, <1>3, <1>5, <1>6, <1>8, PTL DEF Continues, LeftStarted
<1>11. Continues(o) /\ []Stays(t) /\ []<>Gone => FALSE
  BY <1>2, <1>6, PTL DEF Continues
<1>12. Continues(o) /\ LeftStarted /\ TaskRuns(t) /\ Stays(t) => []<>Asks /\ []Stays(t)
  BY <1>7, <1>9, <1>10, <1>11, PTL
<1>13. []<>Asks /\ []Stays(t) => []<>Polled
  BY <1>8, PTL
<1>14. []<>Polled => Polls
  BY PTL DEF Polls
<1> QED
  BY <1>12, <1>13, <1>14, PTL

(* With one owner, a source left started polls: whatever Stop() and        *)
(* Start() came before, and whichever task is left of them.                *)
THEOREM StartedSourcePolls ==
  ASSUME NEW o, Owners = {o}
  PROVE  Spec /\ AllTasksRun => PollsWhenStarted
<1>1. SInv(o) => (Started => \E t \in Tasks : Stays(t))
  BY DEF SInv, Started, TypeOK
<1> DEFINE EachRuns == \A t \in Tasks : TaskRuns(t)
           Stayer == \E t \in Tasks : Stays(t)
<1>2. Continues(o) /\ EachRuns /\ LeftStarted /\ Stayer => Polls
  BY StayingTaskPolls
<1>3. SInv(o) => (Started => Stayer)
  BY <1>1
<1>4. AllTasksRun => []EachRuns
  BY DEF AllTasksRun
<1> HIDE DEF EachRuns, Stayer
<1>5. Spec => []Continues(o)
  BY SInvAlways, PTL DEF Spec, Continues
<1>6. Continues(o) /\ EachRuns /\ LeftStarted => Polls
  BY <1>2, <1>3, PTL DEF Continues, LeftStarted
<1>7. []Continues(o) /\ []EachRuns /\ <>LeftStarted => Polls
  <2>1. []Continues(o) /\ []EachRuns /\ <>LeftStarted => <>Polls
    BY <1>6, PTL
  <2> QED
    BY <2>1, PTL DEF Polls
<1> QED
  BY <1>4, <1>5, <1>7, PTL DEF PollsWhenStarted, LeftStarted, Polls
=============================================================================
