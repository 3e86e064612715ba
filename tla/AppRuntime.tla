----------------------------- MODULE AppRuntime -----------------------------
(***************************************************************************)
(* The on-device app runtime of the ESP-IDF firmware                       *)
(* (src/firmware/esp-idf/main/idf_app_runtime.cpp).  Three kinds of task   *)
(* share the app records without a lock, on two cores:                     *)
(*   - the shell task runs the `app-run` and `app-stop` commands;          *)
(*   - the supervisor wakes every second, compares each running app's      *)
(*     heartbeat with a timeout, and kills and restarts a silent one;      *)
(*   - each app task writes its own heartbeat, and fails itself when its   *)
(*     stack watermark is too low.                                         *)
(* A step is one access to a shared record or one kernel call; only the    *)
(* text in `failure`, which no code tests, is stored together with the     *)
(* state it explains.  A FreeRTOS task handle is the address of a control  *)
(* block: it is reused once the task is gone.                              *)
(***************************************************************************)
EXTENDS Naturals, Sequences

CONSTANTS
    Names,       \* app names the operator may type
    Builtins,    \* the names the constructor registers, in order
    SignedNames, \* names whose stored bundle carries a valid signature
    Handles,     \* task control blocks the heap has room for
    NoTask,      \* nullptr as a task handle
    NoApp,       \* an actor that works on no app
    MaxApps,     \* kMaxApps
    MaxRestarts, \* kMaximumRestarts
    Timeout,     \* ticks of silence tolerated: 4 * periodMs, by app
    MaxTick,     \* bound: the kernel tick stops here
    TickMod      \* the width of TickType_t

ASSUME NamesAssumption ==
    /\ Builtins \in Seq(Names)
    /\ SignedNames \subseteq Names
    /\ NoApp \notin Names
    /\ NoTask \notin Handles

ASSUME BoundsAssumption ==
    /\ MaxApps \in Nat /\ Len(Builtins) <= MaxApps
    /\ MaxRestarts \in Nat
    /\ Timeout \in [Names -> Nat]
    /\ MaxTick \in Nat /\ TickMod \in Nat /\ MaxTick < TickMod

VARIABLES
    slots,        \* apps_[0 .. appCount_-1]: the registered names, in order
    state,        \* AppRecord::state
    task,         \* AppRecord::task
    failure,      \* AppRecord::failure
    heartbeat,    \* AppRecord::heartbeat
    restartCount, \* AppRecord::restartCount
    life,         \* what each task control block is doing
    owner,        \* the record each app task was created with
    tick,         \* xTaskGetTickCount()
    pc,           \* where the shell and the supervisor are
    target,       \* the record each of the two works on
    seen,         \* the handle each of the two read when it tested app->task
    now,          \* supervise(): the local tick snapshot
    cursor,       \* supervise(): the loop index
    fault,        \* vTaskDelete was given a handle of no task
    crossed,      \* history: the record the supervisor is reading was being changed
    overlap       \* history: two parties worked on one record at once

records == <<slots, state, task, failure, heartbeat, restartCount>>
tasks == <<life, owner>>
control == <<pc, target, seen>>
sweep == <<now, cursor>>
history == <<crossed, overlap>>
vars == <<records, tasks, tick, control, sweep, fault, history>>

Actors == {"shell", "sup"}
Registered == {slots[i] : i \in 1..Len(slots)}
Live(h) == life[h] \in {"work", "measure", "failing"}
Elapsed(later, earlier) == (later + TickMod - earlier) % TickMod
Expired(a, t) == Elapsed(t, heartbeat[a]) > Timeout[a]

(***************************************************************************)
(* The parties that are past their test of a record and still write to it. *)
(***************************************************************************)
Busy(c, a) == target[c] = a
Failing(a) == \E h \in Handles : life[h] = "failing" /\ owner[h] = a
Overlapping ==
    \E a \in Names : \/ Busy("shell", a) /\ Busy("sup", a)
                     \/ Failing(a) /\ \E c \in Actors : Busy(c, a)

\* The supervisor is between its first read of a record and its decision, and
\* another party works on that record.
Looking == pc["sup"] \in {"see", "test"}
Crossing ==
    Looking /\ (Busy("shell", slots[cursor]) \/ Failing(slots[cursor]))

Init ==
    /\ slots = Builtins
    /\ state = [a \in Names |-> "stopped"]
    /\ task = [a \in Names |-> NoTask]
    /\ failure = [a \in Names |-> "none"]
    /\ heartbeat = [a \in Names |-> 0]
    /\ restartCount = [a \in Names |-> 0]
    /\ life = [h \in Handles |-> "dead"]
    /\ owner = [h \in Handles |-> NoApp]
    /\ tick = 0
    /\ \E s \in {"sleep", "absent"} :  \* the constructor ignores xTaskCreate's result
           pc = [c \in Actors |-> IF c = "shell" THEN "idle" ELSE s]
    /\ target = [c \in Actors |-> NoApp]
    /\ seen = [c \in Actors |-> NoTask]
    /\ now = 0 /\ cursor = 0
    /\ fault = FALSE /\ crossed = FALSE /\ overlap = FALSE

Goto(c, label) == pc' = [pc EXCEPT ![c] = label]

\* Leave the record: the shell prints its answer, the supervisor goes on to
\* the next slot.
Return(c) ==
    /\ Goto(c, IF c = "shell" THEN "idle" ELSE "scan")
    /\ target' = [target EXCEPT ![c] = NoApp]
    /\ seen' = [seen EXCEPT ![c] = NoTask]
    /\ cursor' = IF c = "sup" THEN cursor + 1 ELSE cursor
    /\ now' = now

Tick ==
    /\ tick < MaxTick
    /\ tick' = tick + 1
    /\ UNCHANGED <<records, tasks, control, sweep, fault>>

-----------------------------------------------------------------------------
(* start(), entered by the shell and by the supervisor                     *)

\* The heap is too low, or xTaskCreate finds no memory.
CreateFails(c) ==
    /\ pc[c] = "create"
    /\ \E why \in {"insufficient heap", "task allocation failed"} :
           failure' = [failure EXCEPT ![target[c]] = why]
    /\ state' = [state EXCEPT ![target[c]] = "failed"]
    /\ Return(c)
    /\ UNCHANGED <<slots, task, heartbeat, restartCount, tasks, tick, fault>>

\* xTaskCreate stores the handle in the record and makes the task ready: it
\* may run before the creator does another step.
Create(c) ==
    /\ pc[c] = "create"
    /\ \E h \in Handles :
           /\ life[h] = "dead"
           /\ life' = [life EXCEPT ![h] = "work"]
           /\ owner' = [owner EXCEPT ![h] = target[c]]
           /\ task' = [task EXCEPT ![target[c]] = h]
    /\ Goto(c, "publish")
    /\ UNCHANGED <<slots, state, failure, heartbeat, restartCount, tick,
                   target, seen, sweep, fault>>

Publish(c) ==
    /\ pc[c] = "publish"
    /\ state' = [state EXCEPT ![target[c]] = "running"]
    /\ failure' = [failure EXCEPT ![target[c]] = "none"]
    /\ Goto(c, "beat")
    /\ UNCHANGED <<slots, task, heartbeat, restartCount, tasks, tick,
                   target, seen, sweep, fault>>

\* Variant: the first heartbeat is dated one tick ahead.
FirstBeat_Ahead(c) ==
    /\ pc[c] = "beat"
    /\ heartbeat' = [heartbeat EXCEPT ![target[c]] = tick + 1]
    /\ Return(c)
    /\ UNCHANGED <<slots, state, task, failure, restartCount, tasks, tick, fault>>

FirstBeat(c) ==
    /\ pc[c] = "beat"
    /\ heartbeat' = [heartbeat EXCEPT ![target[c]] = tick]
    /\ Return(c)
    /\ UNCHANGED <<slots, state, task, failure, restartCount, tasks, tick, fault>>

-----------------------------------------------------------------------------
(* vTaskDelete(app->task), called by stop() and by supervise()             *)

\* The field is plain and unlocked: the build may pass the value that was
\* tested or read the field again.  A null handle deletes the caller.
Delete(c) ==
    /\ pc[c] = "delete"
    /\ \E h \in {seen[c], task[target[c]]} :
        \/ /\ h = NoTask
           /\ Goto(c, "gone")
           /\ UNCHANGED <<life, fault>>
        \/ /\ h # NoTask
           /\ life' = [life EXCEPT ![h] = "dead"]
           /\ fault' = (fault \/ life[h] = "dead")
           /\ Goto(c, "clear")
    /\ UNCHANGED <<records, owner, tick, target, seen, sweep>>

\* Variant: the handle is left in the record after the deletion.
Clear_Forgotten(c) ==
    /\ pc[c] = "clear"
    /\ Goto(c, IF c = "shell" THEN "mark" ELSE "budget")
    /\ UNCHANGED <<records, tasks, tick, target, seen, sweep, fault>>

Clear(c) ==
    /\ pc[c] = "clear"
    /\ task' = [task EXCEPT ![target[c]] = NoTask]
    /\ Goto(c, IF c = "shell" THEN "mark" ELSE "budget")
    /\ UNCHANGED <<slots, state, failure, heartbeat, restartCount, tasks, tick,
                   target, seen, sweep, fault>>

-----------------------------------------------------------------------------
(* The shell task: run() and stop()                                        *)

\* `app-run` of a registered name; start() refuses a record with a task.
Run(a) ==
    /\ pc["shell"] = "idle"
    /\ a \in Registered
    /\ task[a] = NoTask
    /\ Goto("shell", "create")
    /\ target' = [target EXCEPT !["shell"] = a]
    /\ UNCHANGED <<records, tasks, tick, seen, sweep, fault>>

\* loadAndVerify(): the stored bundle exists, is well formed and is signed.
Verifies(a) == a \in SignedNames
\* findOrCreateSigned(): a fresh record while there is room.
Register(a) == Len(slots) < MaxApps /\ slots' = Append(slots, a)

\* `app-run` of a name not seen before: its bundle is verified once, here; later
\* runs find the record.
RunSigned(a) ==
    /\ pc["shell"] = "idle"
    /\ a \notin Registered
    /\ Verifies(a)
    /\ Register(a)
    /\ Goto("shell", "create")
    /\ target' = [target EXCEPT !["shell"] = a]
    /\ UNCHANGED <<state, task, failure, heartbeat, restartCount, tasks, tick,
                   seen, sweep, fault>>

Stop(a) ==
    /\ pc["shell"] = "idle"
    /\ a \in Registered
    /\ task[a] # NoTask
    /\ Goto("shell", "delete")
    /\ target' = [target EXCEPT !["shell"] = a]
    /\ seen' = [seen EXCEPT !["shell"] = task[a]]
    /\ UNCHANGED <<records, tasks, tick, sweep, fault>>

\* Variant: stop() leaves the state as it was.
StopMark_Forgotten ==
    /\ pc["shell"] = "mark"
    /\ Return("shell")
    /\ UNCHANGED <<records, tasks, tick, fault>>

StopMark ==
    /\ pc["shell"] = "mark"
    /\ state' = [state EXCEPT ![target["shell"]] = "stopped"]
    /\ Return("shell")
    /\ UNCHANGED <<slots, task, failure, heartbeat, restartCount, tasks, tick, fault>>

-----------------------------------------------------------------------------
(* The supervisor                                                          *)

\* Variant: the sweep starts at the second slot.
Wake_SkipsFirst ==
    /\ pc["sup"] = "sleep"
    /\ now' = tick
    /\ cursor' = 2
    /\ Goto("sup", "scan")
    /\ UNCHANGED <<records, tasks, tick, target, seen, fault>>

Wake ==
    /\ pc["sup"] = "sleep"
    /\ now' = tick
    /\ cursor' = 1
    /\ Goto("sup", "scan")
    /\ UNCHANGED <<records, tasks, tick, target, seen, fault>>

\* The next record of the sweep.
Skip ==
    /\ Goto("sup", "scan")
    /\ seen' = [seen EXCEPT !["sup"] = NoTask]
    /\ cursor' = cursor + 1

\* The three tests that condemn an app are three reads of its record, and a
\* whole app-stop may come between two of them.
ReadState ==
    /\ pc["sup"] = "scan"
    /\ cursor \in 1..Len(slots)
    /\ IF state[slots[cursor]] = "running"
          THEN Goto("sup", "see") /\ UNCHANGED <<seen, cursor>>
          ELSE Skip
    /\ UNCHANGED <<records, tasks, tick, target, now, fault>>

ReadTask ==
    /\ pc["sup"] = "see"
    /\ LET h == task[slots[cursor]] IN
           IF h # NoTask
             THEN /\ Goto("sup", "test")
                  /\ seen' = [seen EXCEPT !["sup"] = h]
                  /\ UNCHANGED cursor
             ELSE Skip
    /\ UNCHANGED <<records, tasks, tick, target, now, fault>>

ReadHeartbeat ==
    /\ pc["sup"] = "test"
    /\ LET a == slots[cursor] IN
           IF Expired(a, now)
             THEN /\ Goto("sup", "delete")
                  /\ target' = [target EXCEPT !["sup"] = a]
                  /\ UNCHANGED <<seen, cursor>>
             ELSE Skip /\ UNCHANGED target
    /\ UNCHANGED <<records, tasks, tick, now, fault>>

Rest ==
    /\ pc["sup"] = "scan"
    /\ cursor > Len(slots)
    /\ Goto("sup", "sleep")
    /\ now' = 0 /\ cursor' = 0
    /\ UNCHANGED <<records, tasks, tick, target, seen, fault>>

\* Variant: without the `continue`, a failed app is restarted all the same.
GiveUp_FallsThrough ==
    /\ pc["sup"] = "budget"
    /\ restartCount[target["sup"]] >= MaxRestarts
    /\ state' = [state EXCEPT ![target["sup"]] = "failed"]
    /\ failure' = [failure EXCEPT ![target["sup"]] = "heartbeat timeout"]
    /\ Goto("sup", "check")
    /\ UNCHANGED <<slots, task, heartbeat, restartCount, tasks, tick,
                   target, seen, sweep, fault>>

\* Give up once the restarts are used up; the count is never reset.
GiveUp ==
    /\ pc["sup"] = "budget"
    /\ restartCount[target["sup"]] >= MaxRestarts
    /\ state' = [state EXCEPT ![target["sup"]] = "failed"]
    /\ failure' = [failure EXCEPT ![target["sup"]] = "heartbeat timeout"]
    /\ Return("sup")
    /\ UNCHANGED <<slots, task, heartbeat, restartCount, tasks, tick, fault>>

\* Variant: one restart too many (`>` for `>=`).
Restart_OneMore ==
    /\ pc["sup"] = "budget"
    /\ restartCount[target["sup"]] <= MaxRestarts
    /\ restartCount' = [restartCount EXCEPT ![target["sup"]] = @ + 1]
    /\ Goto("sup", "check")
    /\ UNCHANGED <<slots, state, task, failure, heartbeat, tasks, tick,
                   target, seen, sweep, fault>>

Restart ==
    /\ pc["sup"] = "budget"
    /\ restartCount[target["sup"]] < MaxRestarts
    /\ restartCount' = [restartCount EXCEPT ![target["sup"]] = @ + 1]
    /\ Goto("sup", "check")
    /\ UNCHANGED <<slots, state, task, failure, heartbeat, tasks, tick,
                   target, seen, sweep, fault>>

\* start()'s test of app->task: the build may read the field again or keep
\* the null that supervise() stored in it.
Recheck ==
    /\ pc["sup"] = "check"
    /\ \/ Goto("sup", "create") /\ UNCHANGED <<target, seen, sweep>>
       \/ task[target["sup"]] # NoTask /\ Return("sup")
    /\ UNCHANGED <<records, tasks, tick, fault>>

-----------------------------------------------------------------------------
(* An app task                                                             *)

\* The top of the task's loop.
Beat(h) ==
    /\ life[h] = "work"
    /\ heartbeat' = [heartbeat EXCEPT ![owner[h]] = tick]
    /\ life' = [life EXCEPT ![h] = "measure"]
    /\ UNCHANGED <<slots, state, task, failure, restartCount, owner, tick,
                   control, sweep, fault>>

\* The stack is deep enough: the LED or the log, then vTaskDelay.
Pause(h) ==
    /\ life[h] = "measure"
    /\ life' = [life EXCEPT ![h] = "work"]
    /\ UNCHANGED <<records, owner, tick, control, sweep, fault>>

\* The stack watermark is below kMinimumStackWords.
StackLimit(h) ==
    /\ life[h] = "measure"
    /\ failure' = [failure EXCEPT ![owner[h]] = "stack resource limit"]
    /\ state' = [state EXCEPT ![owner[h]] = "failed"]
    /\ life' = [life EXCEPT ![h] = "failing"]
    /\ UNCHANGED <<slots, task, heartbeat, restartCount, owner, tick, control,
                   sweep, fault>>

TaskClear(h) ==
    /\ life[h] = "failing"
    /\ task' = [task EXCEPT ![owner[h]] = NoTask]
    /\ life' = [life EXCEPT ![h] = "dying"]
    /\ UNCHANGED <<slots, state, failure, heartbeat, restartCount, owner, tick,
                   control, sweep, fault>>

TaskExit(h) ==
    /\ life[h] = "dying"
    /\ life' = [life EXCEPT ![h] = "dead"]
    /\ UNCHANGED <<records, owner, tick, control, sweep, fault>>

-----------------------------------------------------------------------------
StartStep(c) == CreateFails(c) \/ Create(c) \/ Publish(c) \/ FirstBeat(c)
SupStep ==
    \/ Wake \/ ReadState \/ ReadTask \/ ReadHeartbeat \/ Rest
    \/ Delete("sup") \/ Clear("sup") \/ GiveUp \/ Restart \/ Recheck
    \/ StartStep("sup")
ShellStep ==
    \/ \E a \in Names : Run(a) \/ RunSigned(a) \/ Stop(a)
    \/ Delete("shell") \/ Clear("shell") \/ StopMark
    \/ StartStep("shell")
TaskStep ==
    \E h \in Handles :
        Beat(h) \/ Pause(h) \/ StackLimit(h) \/ TaskClear(h) \/ TaskExit(h)

\* Two parties overlapped when both were past their tests of one record, or
\* when the supervisor intervenes in a record that changed hands under its reads.
Remember ==
    /\ crossed' = (Looking' /\ (crossed \/ Crossing'))
    /\ overlap' = (overlap \/ Overlapping' \/ (crossed /\ target'["sup"] # NoApp))

Next == (Tick \/ SupStep \/ ShellStep \/ TaskStep) /\ Remember

Spec == Init /\ [][Next]_vars

\* The kernel runs the supervisor (priority 2) and the tick goes on; nothing
\* is assumed of the operator, of the heap, nor of the app tasks.
FairSpec == Spec /\ WF_vars(SupStep /\ Remember) /\ WF_vars(Tick /\ Remember)

-----------------------------------------------------------------------------
(* Properties                                                              *)

Resting == {"idle", "absent", "sleep", "scan", "see", "test"}
Working == {"delete", "clear", "mark", "budget", "check", "create", "publish", "beat"}

Reasons == {"none", "insufficient heap", "task allocation failed",
            "stack resource limit", "heartbeat timeout"}

RecordsOK ==
    /\ slots \in Seq(Names)
    /\ state \in [Names -> {"stopped", "running", "failed"}]
    /\ task \in [Names -> Handles \cup {NoTask}]
    /\ failure \in [Names -> Reasons]
    /\ heartbeat \in [Names -> 0..MaxTick]
    /\ restartCount \in [Names -> Nat]
TasksOK ==
    /\ life \in [Handles -> {"dead", "work", "measure", "failing", "dying"}]
    /\ owner \in [Handles -> Names \cup {NoApp}]
ControlOK ==
    /\ pc \in [Actors -> Resting \cup Working \cup {"gone"}]
    /\ target \in [Actors -> Names \cup {NoApp}]
    /\ seen \in [Actors -> Handles \cup {NoTask}]
ClockOK ==
    /\ tick \in 0..MaxTick /\ now \in 0..MaxTick
    /\ cursor \in Nat
FlagsOK == fault \in BOOLEAN /\ crossed \in BOOLEAN /\ overlap \in BOOLEAN
TypeOK == RecordsOK /\ TasksOK /\ ControlOK /\ ClockOK /\ FlagsOK

Settled(a) == ~Failing(a) /\ \A c \in Actors : ~Busy(c, a)
Tasks(a) == {h \in Handles : Live(h) /\ owner[h] = a}

\* While no two parties have ever worked on one record at once (two that are past
\* their tests of it, or the supervisor intervening in a record another worked on
\* since its first read), the kernel is given only live handles, no caller deletes
\* itself, an app has at most one task, and a record nobody works on says "running"
\* exactly when the task it names is alive (start(), stop(), supervise() and
\* taskThunk() together).
SerialLifecycle ==
    ~overlap =>
        /\ ~fault /\ \A c \in Actors : pc[c] # "gone"
        /\ \A h, g \in Handles :
               Live(h) /\ Live(g) /\ owner[h] = owner[g] => h = g
        /\ \A a \in Names :
               Settled(a) => IF state[a] = "running" THEN Tasks(a) = {task[a]}
                                                     ELSE Tasks(a) = {}

\* The supervisor declares an app lost to "heartbeat timeout" only when all of
\* its restarts are spent, and never spends more than there are, whatever the
\* shell and the app tasks do meanwhile (supervise(), the restart count).
RestartBudget ==
    \A a \in Names :
        /\ restartCount[a] <= MaxRestarts
        /\ failure[a] = "heartbeat timeout" => restartCount[a] = MaxRestarts

\* What makes the three invariants inductive.  Wherever the shell or the
\* supervisor works on a record, the record is a registered one; a task was
\* created with one, and only registered records name a task.
ActorsAnchored ==
    \A c \in Actors :
        /\ pc[c] \in Working => target[c] \in Registered
        /\ pc[c] \in {"test", "delete"} => seen[c] # NoTask
        /\ pc[c] \in Resting => target[c] = NoApp
SweepAnchored == Looking => cursor \in 1..Len(slots)
TasksAnchored == \A h \in Handles : life[h] # "dead" => owner[h] \in Names
RecordsAnchored == \A a \in Names : task[a] # NoTask => a \in Registered
Shape ==
    TypeOK /\ ActorsAnchored /\ SweepAnchored /\ TasksAnchored /\ RecordsAnchored

Owns(a) == task[a] \in Handles /\ Live(task[a]) /\ owner[task[a]] = a

Clearing(a) == \E c \in Actors : Busy(c, a) /\ pc[c] = "clear"

\* With one party per record: the live tasks are exactly those the records name,
\* save between a deletion and the store that follows it (when the handle may
\* already name another app's task), and each program point knows whether its
\* record has a task.
LiveNamed == \A h \in Handles : Live(h) => task[owner[h]] = h
FailingMarked == \A h \in Handles : life[h] = "failing" => state[owner[h]] = "failed"
NamedLive == \A a \in Names : task[a] = NoTask \/ Owns(a) \/ Clearing(a)
PointsKnow ==
    \A c \in Actors :
        /\ pc[c] # "gone"
        /\ pc[c] = "delete" => seen[c] = task[target[c]]
        /\ pc[c] = "clear" => ~Owns(target[c])
        /\ pc[c] \in {"mark", "budget", "check", "create"} => task[target[c]] = NoTask
        /\ pc[c] \in {"publish", "beat"} => task[target[c]] # NoTask
        /\ pc[c] = "beat" => state[target[c]] = "running"
        /\ c = "sup" /\ pc[c] \in Working => state[target[c]] = "running"
\* While nobody works on the record the supervisor reads, what it read still
\* holds; when somebody does, that is remembered.
ReadsHold ==
    /\ Crossing => crossed
    /\ Looking /\ ~crossed =>
           /\ state[slots[cursor]] = "running"
           /\ pc["sup"] = "test" => seen["sup"] = task[slots[cursor]]
SettledTruth == \A a \in Names : Settled(a) => (state[a] = "running" <=> task[a] # NoTask)
Exclusive ==
    /\ ~fault /\ ~Overlapping
    /\ LiveNamed /\ FailingMarked /\ NamedLive /\ PointsKnow /\ ReadsHold
    /\ SettledTruth

IInv == Shape /\ RestartBudget /\ (overlap \/ Exclusive)

\* While no two parties have worked on one record at once, an app that was
\* stopped, or failed by whatever cause, runs again only through app-run.
DownStaysDown ==
    [][\A a \in Names :
           ~overlap /\ state[a] # "running" /\ state'[a] = "running"
               => Busy("shell", a)]_vars

\* An app never has two live tasks, and so two stacks, whatever the order of
\* the shell's and the supervisor's steps ("Each app has bounded task
\* resources").
OneTaskPerApp ==
    \A h, g \in Handles : Live(h) /\ Live(g) /\ owner[h] = owner[g] => h = g

\* The supervisor decides to restart only an app that is silent for longer than
\* its timeout at that moment ("restarted stalled app").
RestartsOnlyStalled ==
    [][\A a \in Names :
           Busy("sup", a)' /\ ~Busy("sup", a)
               => tick > heartbeat[a] + Timeout[a]]_vars

\* While there is a supervisor, no app stays "running" for ever with a
\* heartbeat older than its timeout: it beats, is restarted or is failed
\* (supervisorThunk() and supervise()).
HeartbeatSupervised ==
    [](pc["sup"] \notin {"absent", "gone"}) =>
        \A a \in Names :
            []<>~(state[a] = "running" /\ task[a] # NoTask /\ Expired(a, tick))
=============================================================================
