-------------------------- MODULE AppRuntimeProofs --------------------------
(***************************************************************************)
(* Proofs about AppRuntime, for every set of apps and handles, every       *)
(* restart budget, every timeout and every bound on the tick.              *)
(***************************************************************************)
EXTENDS AppRuntime, TLAPS

\* A registered name is a name.
LEMMA RegisteredNames ==
    ASSUME RecordsOK PROVE Registered \subseteq Names
<1>1. slots \in Seq(Names) BY DEF RecordsOK
<1>2. \A i \in 1..Len(slots) : slots[i] \in Names BY <1>1
<1> QED BY <1>2 DEF Registered

\* Appending a record registers one more name and forgets none.
LEMMA AppendRegisters ==
    ASSUME RecordsOK, NEW a \in Names, slots' = Append(slots, a)
    PROVE  Registered' = Registered \cup {a} /\ slots' \in Seq(Names)
<1>1. slots \in Seq(Names) BY DEF RecordsOK
<1>2. Len(slots') = Len(slots) + 1 /\ slots'[Len(slots) + 1] = a BY <1>1
<1>3. \A i \in 1..Len(slots) : slots'[i] = slots[i] BY <1>1
<1>4. Len(slots) \in Nat BY <1>1
<1>5. 1..Len(slots') = (1..Len(slots)) \cup {Len(slots) + 1} BY <1>2, <1>4
<1>6. slots' \in Seq(Names) BY <1>1
<1> QED BY <1>2, <1>3, <1>5, <1>6 DEF Registered

\* Counting up one entry of a table of naturals leaves such a table.
LEMMA CountUp ==
    ASSUME NEW f \in [Names -> Nat], NEW a \in Names
    PROVE  [f EXCEPT ![a] = @ + 1] \in [Names -> Nat]
OBVIOUS

\* The initial state has the right types; no record, task or actor is in use.
LEMMA ShapeInit == Init => Shape
<1> SUFFICES ASSUME Init PROVE Shape OBVIOUS
<1> USE NamesAssumption, BoundsAssumption DEF Init
<1>1. RecordsOK BY DEF RecordsOK, Reasons
<1>2. TasksOK /\ TasksAnchored BY DEF TasksOK, TasksAnchored
<1>3. ControlOK BY DEF ControlOK, Actors, Resting, Working
<1>4. ClockOK BY DEF ClockOK
<1>5. FlagsOK BY DEF FlagsOK
<1>6. ActorsAnchored BY DEF ActorsAnchored, Actors, Resting, Working
<1>7. RecordsAnchored BY DEF RecordsAnchored
<1>8. SweepAnchored BY DEF SweepAnchored, Looking, Actors
<1> QED BY <1>1, <1>2, <1>3, <1>4, <1>5, <1>6, <1>7, <1>8 DEF Shape, TypeOK

\* The supervisor reads the record its sweep is at: apps are only ever added,
\* and the index moves on only between records.
LEMMA SweepStep == Shape /\ [Next]_vars => SweepAnchored'
<1> SUFFICES ASSUME Shape, [Next]_vars PROVE SweepAnchored'
    OBVIOUS
<1>p. /\ slots \in Seq(Names) /\ cursor \in Nat /\ SweepAnchored
      /\ pc \in [Actors -> Resting \cup Working \cup {"gone"}]
      BY DEF Shape, TypeOK, RecordsOK, ClockOK, ControlOK
<1>l. Len(slots) \in Nat BY <1>p
<1>1. CASE pc'["sup"] \notin {"see", "test"} BY <1>1 DEF SweepAnchored, Looking
<1>2. ASSUME pc'["sup"] = pc["sup"], cursor' = cursor, slots' = slots
      PROVE  SweepAnchored'
      BY <1>2, <1>p DEF SweepAnchored, Looking
<1>3. ASSUME NEW c \in Actors,
             \/ CreateFails(c) \/ Create(c) \/ Publish(c) \/ FirstBeat(c)
             \/ Delete(c) \/ Clear(c)
      PROVE  SweepAnchored'
  <2>1. CASE c = "sup"
        BY <1>1, <1>3, <1>p, <2>1
           DEF CreateFails, Create, Publish, FirstBeat, Delete, Clear, Return, Goto,
               Actors
  <2>2. CASE c = "shell"
    <3>1. pc'["sup"] = pc["sup"]
          BY <1>3, <1>p, <2>2
             DEF CreateFails, Create, Publish, FirstBeat, Delete, Clear, Return,
                 Goto, Actors, control
    <3>2. cursor' = cursor /\ slots' = slots
          BY <1>3, <2>2
             DEF CreateFails, Create, Publish, FirstBeat, Delete, Clear, Return,
                 records, sweep
    <3> QED BY <3>1, <3>2, <1>2
  <2> QED BY <2>1, <2>2 DEF Actors
<1>4. ASSUME NEW a \in Names, Run(a) \/ Stop(a) PROVE SweepAnchored'
  <2>1. pc'["sup"] = pc["sup"] BY <1>4, <1>p DEF Run, Stop, Goto, Actors
  <2>2. cursor' = cursor /\ slots' = slots
        BY <1>4 DEF Run, Stop, records, sweep
  <2> QED BY <2>1, <2>2, <1>2
<1>5. ASSUME NEW a \in Names, RunSigned(a) PROVE SweepAnchored'
  <2>1. pc'["sup"] = pc["sup"] BY <1>5, <1>p DEF RunSigned, Goto, Actors
  <2>2. cursor' = cursor BY <1>5 DEF RunSigned, sweep
  <2>3. Len(slots') = Len(slots) + 1 BY <1>5, <1>p DEF RunSigned, Register
  <2> QED BY <2>1, <2>2, <2>3, <1>p, <1>l DEF SweepAnchored, Looking
<1>6. CASE StopMark
  <2>1. pc'["sup"] = pc["sup"] BY <1>6, <1>p DEF StopMark, Return, Goto, Actors
  <2>2. cursor' = cursor /\ slots' = slots
        BY <1>6 DEF StopMark, Return, records
  <2> QED BY <2>1, <2>2, <1>2
<1>7. CASE Wake \/ Rest \/ GiveUp \/ Restart \/ Recheck \/ ReadHeartbeat
      BY <1>1, <1>7, <1>p
         DEF Wake, Rest, GiveUp, Restart, Recheck, ReadHeartbeat, Skip, Return, Goto,
             Actors
<1>8. CASE ReadState
      BY <1>8, <1>1, <1>p
         DEF ReadState, Skip, Goto, records, SweepAnchored, Looking, Actors
<1>9. CASE ReadTask
      BY <1>9, <1>1, <1>p
         DEF ReadTask, Skip, Goto, records, SweepAnchored, Looking, Actors
<1>10. ASSUME NEW h \in Handles,
              Beat(h) \/ Pause(h) \/ StackLimit(h) \/ TaskClear(h) \/ TaskExit(h)
       PROVE  SweepAnchored'
       BY <1>2, <1>10
          DEF Beat, Pause, StackLimit, TaskClear, TaskExit, records, control, sweep
<1>11. CASE Tick \/ UNCHANGED vars
       BY <1>2, <1>11 DEF Tick, vars, records, control, sweep
<1> QED BY <1>3, <1>4, <1>5, <1>6, <1>7, <1>8, <1>9, <1>10, <1>11
        DEF Next, SupStep, ShellStep, TaskStep, StartStep, Actors

\* Every step keeps the types, the two actors on registered records and the
\* tasks on records.
LEMMA ShapeStep == Shape /\ [Next]_vars => Shape'
<1> SUFFICES ASSUME Shape, [Next]_vars PROVE Shape'
    OBVIOUS
<1> USE NamesAssumption, BoundsAssumption
<1>p. /\ RecordsOK /\ TasksOK /\ ControlOK /\ ClockOK /\ FlagsOK
      /\ ActorsAnchored /\ SweepAnchored /\ TasksAnchored /\ RecordsAnchored
      BY DEF Shape, TypeOK
<1>s. SweepAnchored' BY SweepStep
<1>n. Registered \subseteq Names BY <1>p, RegisteredNames
<1> USE <1>p, <1>n
<1>1. ASSUME Tick, Remember PROVE Shape'
  <2>r. Registered' = Registered BY <1>1 DEF Tick, records, Registered
  <2>1. RecordsOK' BY <1>1 DEF Tick, records, RecordsOK, Reasons
  <2>2. TasksOK' BY <1>1 DEF Tick, tasks, RecordsOK, ControlOK, TasksOK
  <2>3. ControlOK'
    BY <1>1 DEF Tick, control, RecordsOK, ControlOK, Resting, Working, Actors
  <2>4. ClockOK' BY <1>1 DEF Tick, sweep, ClockOK
  <2>5. FlagsOK' BY <1>1 DEF Tick, Remember, FlagsOK, Looking
  <2>6. ActorsAnchored'
    BY <2>r, <1>1
       DEF Tick, control, ControlOK, ActorsAnchored, Resting, Working, Actors
  <2>7. TasksAnchored' BY <1>1 DEF Tick, tasks, TasksOK, TasksAnchored
  <2>8. RecordsAnchored' BY <2>r, <1>1 DEF Tick, records, RecordsOK, RecordsAnchored
  <2> QED BY <2>1, <2>2, <2>3, <2>4, <2>5, <2>6, <2>7, <2>8, <1>s
        DEF Shape, TypeOK
<1>2. ASSUME NEW c \in Actors, CreateFails(c), Remember PROVE Shape'
  <2>t. target[c] \in Registered /\ target[c] \in Names
        BY <1>2 DEF CreateFails, ActorsAnchored, Working, Actors
  <2>r. Registered' = Registered BY <1>2 DEF CreateFails, records, Registered
  <2>1. RecordsOK' BY <2>t, <1>2 DEF CreateFails, records, RecordsOK, Reasons
  <2>2. TasksOK' BY <2>t, <1>2 DEF CreateFails, tasks, RecordsOK, ControlOK, TasksOK
  <2>3. ControlOK'
    BY <2>t, <1>2
       DEF CreateFails, Return, Goto, control, RecordsOK, ControlOK, Resting, Working,
           Actors
  <2>4. ClockOK'
    <3>1. cursor' \in {cursor, cursor + 1} /\ now' = now /\ tick' = tick
          BY <1>2 DEF CreateFails, Return, sweep
    <3> QED BY <3>1 DEF ClockOK
  <2>5. FlagsOK' BY <1>2 DEF CreateFails, Remember, FlagsOK, Looking
  <2>6. ActorsAnchored'
    BY <2>t, <2>r, <1>2
       DEF CreateFails, Return, Goto, control, ControlOK, ActorsAnchored, Resting,
           Working, Actors
  <2>7. TasksAnchored' BY <2>t, <1>2 DEF CreateFails, tasks, TasksOK, TasksAnchored
  <2>8. RecordsAnchored'
    BY <2>t, <2>r, <1>2 DEF CreateFails, records, RecordsOK, RecordsAnchored
  <2> QED BY <2>1, <2>2, <2>3, <2>4, <2>5, <2>6, <2>7, <2>8, <1>s
        DEF Shape, TypeOK
<1>3. ASSUME NEW c \in Actors, Create(c), Remember PROVE Shape'
  <2>t. target[c] \in Registered /\ target[c] \in Names
        BY <1>3 DEF Create, ActorsAnchored, Working, Actors
  <2>r. Registered' = Registered BY <1>3 DEF Create, records, Registered
  <2>1. RecordsOK'
    <3>1. task' \in [Names -> Handles \cup {NoTask}]
          BY <2>t, <1>3 DEF Create, RecordsOK, Reasons
    <3> QED BY <3>1, <1>3 DEF Create, RecordsOK
  <2>2. TasksOK' BY <2>t, <1>3 DEF Create, tasks, RecordsOK, ControlOK, TasksOK
  <2>3. ControlOK'
    BY <2>t, <1>3
       DEF Create, Goto, control, RecordsOK, ControlOK, Resting, Working, Actors
  <2>4. ClockOK' BY <2>t, <1>3 DEF Create, Goto, sweep, ClockOK
  <2>5. FlagsOK' BY <1>3 DEF Create, Remember, FlagsOK, Looking
  <2>6. ActorsAnchored'
    BY <2>t, <2>r, <1>3
       DEF Create, Goto, control, ControlOK, ActorsAnchored, Resting, Working, Actors
  <2>7. TasksAnchored' BY <2>t, <1>3 DEF Create, tasks, TasksOK, TasksAnchored
  <2>8. RecordsAnchored'
    BY <2>t, <2>r, <1>3 DEF Create, records, RecordsOK, RecordsAnchored
  <2> QED BY <2>1, <2>2, <2>3, <2>4, <2>5, <2>6, <2>7, <2>8, <1>s
        DEF Shape, TypeOK
<1>4. ASSUME NEW c \in Actors, Publish(c), Remember PROVE Shape'
  <2>t. target[c] \in Registered /\ target[c] \in Names
        BY <1>4 DEF Publish, ActorsAnchored, Working, Actors
  <2>r. Registered' = Registered BY <1>4 DEF Publish, records, Registered
  <2>1. RecordsOK' BY <2>t, <1>4 DEF Publish, records, RecordsOK, Reasons
  <2>2. TasksOK' BY <2>t, <1>4 DEF Publish, tasks, RecordsOK, ControlOK, TasksOK
  <2>3. ControlOK'
    BY <2>t, <1>4
       DEF Publish, Goto, control, RecordsOK, ControlOK, Resting, Working, Actors
  <2>4. ClockOK' BY <2>t, <1>4 DEF Publish, Goto, sweep, ClockOK
  <2>5. FlagsOK' BY <1>4 DEF Publish, Remember, FlagsOK, Looking
  <2>6. ActorsAnchored'
    BY <2>t, <2>r, <1>4
       DEF Publish, Goto, control, ControlOK, ActorsAnchored, Resting, Working, Actors
  <2>7. TasksAnchored' BY <2>t, <1>4 DEF Publish, tasks, TasksOK, TasksAnchored
  <2>8. RecordsAnchored'
    BY <2>t, <2>r, <1>4 DEF Publish, records, RecordsOK, RecordsAnchored
  <2> QED BY <2>1, <2>2, <2>3, <2>4, <2>5, <2>6, <2>7, <2>8, <1>s
        DEF Shape, TypeOK
<1>5. ASSUME NEW c \in Actors, FirstBeat(c), Remember PROVE Shape'
  <2>t. target[c] \in Registered /\ target[c] \in Names
        BY <1>5 DEF FirstBeat, ActorsAnchored, Working, Actors
  <2>r. Registered' = Registered BY <1>5 DEF FirstBeat, records, Registered
  <2>1. RecordsOK'
    <3>1. heartbeat' \in [Names -> 0..MaxTick]
          BY <2>t, <1>5 DEF FirstBeat, ClockOK, RecordsOK, Reasons
    <3> QED BY <3>1, <1>5 DEF FirstBeat, RecordsOK
  <2>2. TasksOK' BY <2>t, <1>5 DEF FirstBeat, tasks, RecordsOK, ControlOK, TasksOK
  <2>3. ControlOK'
    BY <2>t, <1>5
       DEF FirstBeat, Return, Goto, control, RecordsOK, ControlOK, Resting, Working,
           Actors
  <2>4. ClockOK'
    <3>1. cursor' \in {cursor, cursor + 1} /\ now' = now /\ tick' = tick
          BY <1>5 DEF FirstBeat, Return, sweep
    <3> QED BY <3>1 DEF ClockOK
  <2>5. FlagsOK' BY <1>5 DEF FirstBeat, Remember, FlagsOK, Looking
  <2>6. ActorsAnchored'
    BY <2>t, <2>r, <1>5
       DEF FirstBeat, Return, Goto, control, ControlOK, ActorsAnchored, Resting,
           Working, Actors
  <2>7. TasksAnchored' BY <2>t, <1>5 DEF FirstBeat, tasks, TasksOK, TasksAnchored
  <2>8. RecordsAnchored'
    BY <2>t, <2>r, <1>5 DEF FirstBeat, records, RecordsOK, RecordsAnchored
  <2> QED BY <2>1, <2>2, <2>3, <2>4, <2>5, <2>6, <2>7, <2>8, <1>s
        DEF Shape, TypeOK
<1>6. ASSUME NEW c \in Actors, Delete(c), Remember PROVE Shape'
  <2>t. target[c] \in Registered /\ target[c] \in Names
        BY <1>6 DEF Delete, ActorsAnchored, Working, Actors
  <2>r. Registered' = Registered BY <1>6 DEF Delete, records, Registered
  <2>1. RecordsOK' BY <2>t, <1>6 DEF Delete, records, RecordsOK, Reasons
  <2>2. TasksOK' BY <2>t, <1>6 DEF Delete, tasks, RecordsOK, ControlOK, TasksOK
  <2>3. ControlOK'
    <3>1. pc' \in [Actors -> Resting \cup Working \cup {"gone"}]
          BY <1>6 DEF Delete, Goto, control, ControlOK, Resting, Working, Actors
    <3>2. target' \in [Actors -> Names \cup {NoApp}]
          BY <2>t, <1>6 DEF Delete, Goto, control, ControlOK, Actors
    <3>3. seen' \in [Actors -> Handles \cup {NoTask}]
          BY <2>t, <1>6 DEF Delete, Goto, control, RecordsOK, ControlOK, Actors
    <3> QED BY <3>1, <3>2, <3>3 DEF ControlOK
  <2>4. ClockOK' BY <2>t, <1>6 DEF Delete, Goto, sweep, ClockOK
  <2>5. FlagsOK' BY <1>6 DEF Delete, Remember, FlagsOK, Looking
  <2>6. ActorsAnchored'
    BY <2>t, <2>r, <1>6
       DEF Delete, Goto, control, ControlOK, ActorsAnchored, Resting, Working, Actors
  <2>7. TasksAnchored' BY <2>t, <1>6 DEF Delete, tasks, TasksOK, TasksAnchored
  <2>8. RecordsAnchored'
    BY <2>t, <2>r, <1>6 DEF Delete, records, RecordsOK, RecordsAnchored
  <2> QED BY <2>1, <2>2, <2>3, <2>4, <2>5, <2>6, <2>7, <2>8, <1>s
        DEF Shape, TypeOK
<1>7. ASSUME NEW c \in Actors, Clear(c), Remember PROVE Shape'
  <2>t. target[c] \in Registered /\ target[c] \in Names
        BY <1>7 DEF Clear, ActorsAnchored, Working, Actors
  <2>r. Registered' = Registered BY <1>7 DEF Clear, records, Registered
  <2>1. RecordsOK' BY <2>t, <1>7 DEF Clear, records, RecordsOK, Reasons
  <2>2. TasksOK' BY <2>t, <1>7 DEF Clear, tasks, RecordsOK, ControlOK, TasksOK
  <2>3. ControlOK'
    BY <2>t, <1>7
       DEF Clear, Goto, control, RecordsOK, ControlOK, Resting, Working, Actors
  <2>4. ClockOK' BY <2>t, <1>7 DEF Clear, Goto, sweep, ClockOK
  <2>5. FlagsOK' BY <1>7 DEF Clear, Remember, FlagsOK, Looking
  <2>6. ActorsAnchored'
    BY <2>t, <2>r, <1>7
       DEF Clear, Goto, control, ControlOK, ActorsAnchored, Resting, Working, Actors
  <2>7. TasksAnchored' BY <2>t, <1>7 DEF Clear, tasks, TasksOK, TasksAnchored
  <2>8. RecordsAnchored'
    BY <2>t, <2>r, <1>7 DEF Clear, records, RecordsOK, RecordsAnchored
  <2> QED BY <2>1, <2>2, <2>3, <2>4, <2>5, <2>6, <2>7, <2>8, <1>s
        DEF Shape, TypeOK
<1>8. ASSUME NEW a \in Names, Run(a), Remember PROVE Shape'
  <2>r. Registered' = Registered BY <1>8 DEF Run, records, Registered
  <2>1. RecordsOK' BY <1>8 DEF Run, records, RecordsOK, Reasons
  <2>2. TasksOK' BY <1>8 DEF Run, tasks, RecordsOK, ControlOK, TasksOK
  <2>3. ControlOK'
    BY <1>8 DEF Run, Goto, control, RecordsOK, ControlOK, Resting, Working, Actors
  <2>4. ClockOK' BY <1>8 DEF Run, Goto, sweep, ClockOK
  <2>5. FlagsOK' BY <1>8 DEF Run, Remember, FlagsOK, Looking
  <2>6. ActorsAnchored'
    BY <2>r, <1>8
       DEF Run, Goto, control, ControlOK, ActorsAnchored, Resting, Working, Actors
  <2>7. TasksAnchored' BY <1>8 DEF Run, tasks, TasksOK, TasksAnchored
  <2>8. RecordsAnchored' BY <2>r, <1>8 DEF Run, records, RecordsOK, RecordsAnchored
  <2> QED BY <2>1, <2>2, <2>3, <2>4, <2>5, <2>6, <2>7, <2>8, <1>s
        DEF Shape, TypeOK
<1>9. ASSUME NEW a \in Names, RunSigned(a), Remember PROVE Shape'
  <2>t. Registered' = Registered \cup {a} /\ slots' \in Seq(Names)
        BY <1>9, AppendRegisters DEF RunSigned, Register
  <2>1. RecordsOK' BY <2>t, <1>9 DEF RunSigned, records, RecordsOK, Reasons
  <2>2. TasksOK' BY <2>t, <1>9 DEF RunSigned, tasks, RecordsOK, ControlOK, TasksOK
  <2>3. ControlOK'
    BY <2>t, <1>9
       DEF RunSigned, Goto, Register, control, RecordsOK, ControlOK, Resting, Working,
           Actors
  <2>4. ClockOK' BY <2>t, <1>9 DEF RunSigned, Goto, Register, sweep, ClockOK
  <2>5. FlagsOK' BY <1>9 DEF RunSigned, Remember, FlagsOK, Looking
  <2>6. ActorsAnchored'
    BY <2>t, <1>9
       DEF RunSigned, Goto, Register, control, ControlOK, ActorsAnchored, Resting,
           Working, Actors
  <2>7. TasksAnchored' BY <2>t, <1>9 DEF RunSigned, tasks, TasksOK, TasksAnchored
  <2>8. RecordsAnchored' BY <2>t, <1>9 DEF RunSigned, records, RecordsOK, RecordsAnchored
  <2> QED BY <2>1, <2>2, <2>3, <2>4, <2>5, <2>6, <2>7, <2>8, <1>s
        DEF Shape, TypeOK
<1>10. ASSUME NEW a \in Names, Stop(a), Remember PROVE Shape'
  <2>r. Registered' = Registered BY <1>10 DEF Stop, records, Registered
  <2>1. RecordsOK' BY <1>10 DEF Stop, records, RecordsOK, Reasons
  <2>2. TasksOK' BY <1>10 DEF Stop, tasks, RecordsOK, ControlOK, TasksOK
  <2>3. ControlOK'
    BY <1>10 DEF Stop, Goto, control, RecordsOK, ControlOK, Resting, Working, Actors
  <2>4. ClockOK' BY <1>10 DEF Stop, Goto, sweep, ClockOK
  <2>5. FlagsOK' BY <1>10 DEF Stop, Remember, FlagsOK, Looking
  <2>6. ActorsAnchored'
    BY <2>r, <1>10
       DEF Stop, Goto, control, ControlOK, ActorsAnchored, Resting, Working, Actors
  <2>7. TasksAnchored' BY <1>10 DEF Stop, tasks, TasksOK, TasksAnchored
  <2>8. RecordsAnchored' BY <2>r, <1>10 DEF Stop, records, RecordsOK, RecordsAnchored
  <2> QED BY <2>1, <2>2, <2>3, <2>4, <2>5, <2>6, <2>7, <2>8, <1>s
        DEF Shape, TypeOK
<1>11. ASSUME StopMark, Remember PROVE Shape'
  <2>t. target["shell"] \in Registered /\ target["shell"] \in Names
        BY <1>11 DEF StopMark, ActorsAnchored, Working, Actors
  <2>r. Registered' = Registered BY <1>11 DEF StopMark, records, Registered
  <2>1. RecordsOK' BY <2>t, <1>11 DEF StopMark, records, RecordsOK, Reasons
  <2>2. TasksOK' BY <2>t, <1>11 DEF StopMark, tasks, RecordsOK, ControlOK, TasksOK
  <2>3. ControlOK'
    BY <2>t, <1>11
       DEF StopMark, Return, Goto, control, RecordsOK, ControlOK, Resting, Working,
           Actors
  <2>4. ClockOK'
    <3>1. cursor' \in {cursor, cursor + 1} /\ now' = now /\ tick' = tick
          BY <1>11 DEF StopMark, Return, sweep
    <3> QED BY <3>1 DEF ClockOK
  <2>5. FlagsOK' BY <1>11 DEF StopMark, Remember, FlagsOK, Looking
  <2>6. ActorsAnchored'
    BY <2>t, <2>r, <1>11
       DEF StopMark, Return, Goto, control, ControlOK, ActorsAnchored, Resting,
           Working, Actors
  <2>7. TasksAnchored' BY <2>t, <1>11 DEF StopMark, tasks, TasksOK, TasksAnchored
  <2>8. RecordsAnchored'
    BY <2>t, <2>r, <1>11 DEF StopMark, records, RecordsOK, RecordsAnchored
  <2> QED BY <2>1, <2>2, <2>3, <2>4, <2>5, <2>6, <2>7, <2>8, <1>s
        DEF Shape, TypeOK
<1>12. ASSUME Wake, Remember PROVE Shape'
  <2>r. Registered' = Registered BY <1>12 DEF Wake, records, Registered
  <2>1. RecordsOK' BY <1>12 DEF Wake, records, RecordsOK, Reasons
  <2>2. TasksOK' BY <1>12 DEF Wake, tasks, RecordsOK, ControlOK, TasksOK
  <2>3. ControlOK'
    BY <1>12 DEF Wake, Goto, control, RecordsOK, ControlOK, Resting, Working, Actors
  <2>4. ClockOK' BY <1>12 DEF Wake, Goto, sweep, ClockOK
  <2>5. FlagsOK' BY <1>12 DEF Wake, Remember, FlagsOK, Looking
  <2>6. ActorsAnchored'
    BY <2>r, <1>12
       DEF Wake, Goto, control, ControlOK, ActorsAnchored, Resting, Working, Actors
  <2>7. TasksAnchored' BY <1>12 DEF Wake, tasks, TasksOK, TasksAnchored
  <2>8. RecordsAnchored' BY <2>r, <1>12 DEF Wake, records, RecordsOK, RecordsAnchored
  <2> QED BY <2>1, <2>2, <2>3, <2>4, <2>5, <2>6, <2>7, <2>8, <1>s
        DEF Shape, TypeOK
<1>13. ASSUME ReadState, Remember PROVE Shape'
  <2>t. slots[cursor] \in Registered /\ slots[cursor] \in Names
        BY <1>13 DEF ReadState, Registered, SweepAnchored, Looking
  <2>r. Registered' = Registered BY <1>13 DEF ReadState, records, Registered
  <2>1. RecordsOK' BY <1>13 DEF ReadState, records, RecordsOK, Reasons
  <2>2. TasksOK' BY <1>13 DEF ReadState, tasks, TasksOK
  <2>3. ControlOK'
    <3>1. pc' \in [Actors -> Resting \cup Working \cup {"gone"}]
          BY <1>13 DEF ReadState, Skip, Goto, ControlOK, Resting, Working, Actors
    <3>2. target' \in [Actors -> Names \cup {NoApp}]
          BY <2>t, <1>13 DEF ReadState, ControlOK, Actors
    <3>3. seen' \in [Actors -> Handles \cup {NoTask}]
          BY <2>t, <1>13 DEF ReadState, Skip, RecordsOK, ControlOK, Actors
    <3> QED BY <3>1, <3>2, <3>3 DEF ControlOK
  <2>4. ClockOK' BY <1>13 DEF ReadState, Skip, ClockOK
  <2>5. FlagsOK' BY <1>13 DEF ReadState, Remember, FlagsOK, Looking
  <2>6. ActorsAnchored'
    BY <2>t, <2>r, <1>13
       DEF ReadState, Skip, Goto, ControlOK, ActorsAnchored, Resting, Working, Actors
  <2>7. TasksAnchored' BY <1>13 DEF ReadState, tasks, TasksOK, TasksAnchored
  <2>8. RecordsAnchored' BY <2>r, <1>13 DEF ReadState, records, RecordsAnchored
  <2> QED BY <2>1, <2>2, <2>3, <2>4, <2>5, <2>6, <2>7, <2>8, <1>s
        DEF Shape, TypeOK
<1>23. ASSUME ReadTask, Remember PROVE Shape'
  <2>t. slots[cursor] \in Registered /\ slots[cursor] \in Names
        BY <1>23 DEF ReadTask, Registered, SweepAnchored, Looking
  <2>r. Registered' = Registered BY <1>23 DEF ReadTask, records, Registered
  <2>1. RecordsOK' BY <1>23 DEF ReadTask, records, RecordsOK, Reasons
  <2>2. TasksOK' BY <1>23 DEF ReadTask, tasks, TasksOK
  <2>3. ControlOK'
    <3>1. pc' \in [Actors -> Resting \cup Working \cup {"gone"}]
          BY <1>23 DEF ReadTask, Skip, Goto, ControlOK, Resting, Working, Actors
    <3>2. target' \in [Actors -> Names \cup {NoApp}]
          BY <2>t, <1>23 DEF ReadTask, ControlOK, Actors
    <3>3. seen' \in [Actors -> Handles \cup {NoTask}]
          BY <2>t, <1>23 DEF ReadTask, Skip, RecordsOK, ControlOK, Actors
    <3> QED BY <3>1, <3>2, <3>3 DEF ControlOK
  <2>4. ClockOK' BY <1>23 DEF ReadTask, Skip, ClockOK
  <2>5. FlagsOK' BY <1>23 DEF ReadTask, Remember, FlagsOK, Looking
  <2>6. ActorsAnchored'
    BY <2>t, <2>r, <1>23
       DEF ReadTask, Skip, Goto, ControlOK, ActorsAnchored, Resting, Working, Actors
  <2>7. TasksAnchored' BY <1>23 DEF ReadTask, tasks, TasksOK, TasksAnchored
  <2>8. RecordsAnchored' BY <2>r, <1>23 DEF ReadTask, records, RecordsAnchored
  <2> QED BY <2>1, <2>2, <2>3, <2>4, <2>5, <2>6, <2>7, <2>8, <1>s
        DEF Shape, TypeOK
<1>24. ASSUME ReadHeartbeat, Remember PROVE Shape'
  <2>t. slots[cursor] \in Registered /\ slots[cursor] \in Names
        BY <1>24 DEF ReadHeartbeat, Registered, SweepAnchored, Looking
  <2>r. Registered' = Registered BY <1>24 DEF ReadHeartbeat, records, Registered
  <2>1. RecordsOK' BY <1>24 DEF ReadHeartbeat, records, RecordsOK, Reasons
  <2>2. TasksOK' BY <1>24 DEF ReadHeartbeat, tasks, TasksOK
  <2>3. ControlOK'
    <3>1. pc' \in [Actors -> Resting \cup Working \cup {"gone"}]
          BY <1>24 DEF ReadHeartbeat, Skip, Goto, ControlOK, Resting, Working, Actors
    <3>2. target' \in [Actors -> Names \cup {NoApp}]
          BY <2>t, <1>24 DEF ReadHeartbeat, ControlOK, Actors
    <3>3. seen' \in [Actors -> Handles \cup {NoTask}]
          BY <2>t, <1>24 DEF ReadHeartbeat, Skip, RecordsOK, ControlOK, Actors
    <3> QED BY <3>1, <3>2, <3>3 DEF ControlOK
  <2>4. ClockOK' BY <1>24 DEF ReadHeartbeat, Skip, ClockOK
  <2>5. FlagsOK' BY <1>24 DEF ReadHeartbeat, Remember, FlagsOK, Looking
  <2>6. ActorsAnchored'
    BY <2>t, <2>r, <1>24
       DEF ReadHeartbeat, Skip, Goto, ControlOK, ActorsAnchored, Resting, Working, Actors
  <2>7. TasksAnchored' BY <1>24 DEF ReadHeartbeat, tasks, TasksOK, TasksAnchored
  <2>8. RecordsAnchored' BY <2>r, <1>24 DEF ReadHeartbeat, records, RecordsAnchored
  <2> QED BY <2>1, <2>2, <2>3, <2>4, <2>5, <2>6, <2>7, <2>8, <1>s
        DEF Shape, TypeOK
<1>14. ASSUME Rest, Remember PROVE Shape'
  <2>r. Registered' = Registered BY <1>14 DEF Rest, records, Registered
  <2>1. RecordsOK' BY <1>14 DEF Rest, records, RecordsOK, Reasons
  <2>2. TasksOK' BY <1>14 DEF Rest, tasks, RecordsOK, ControlOK, TasksOK
  <2>3. ControlOK'
    BY <1>14 DEF Rest, Goto, control, RecordsOK, ControlOK, Resting, Working, Actors
  <2>4. ClockOK' BY <1>14 DEF Rest, Goto, sweep, ClockOK
  <2>5. FlagsOK' BY <1>14 DEF Rest, Remember, FlagsOK, Looking
  <2>6. ActorsAnchored'
    BY <2>r, <1>14
       DEF Rest, Goto, control, ControlOK, ActorsAnchored, Resting, Working, Actors
  <2>7. TasksAnchored' BY <1>14 DEF Rest, tasks, TasksOK, TasksAnchored
  <2>8. RecordsAnchored' BY <2>r, <1>14 DEF Rest, records, RecordsOK, RecordsAnchored
  <2> QED BY <2>1, <2>2, <2>3, <2>4, <2>5, <2>6, <2>7, <2>8, <1>s
        DEF Shape, TypeOK
<1>15. ASSUME GiveUp, Remember PROVE Shape'
  <2>t. target["sup"] \in Registered /\ target["sup"] \in Names
        BY <1>15 DEF GiveUp, ActorsAnchored, Working, Actors
  <2>r. Registered' = Registered BY <1>15 DEF GiveUp, records, Registered
  <2>1. RecordsOK' BY <2>t, <1>15 DEF GiveUp, records, RecordsOK, Reasons
  <2>2. TasksOK' BY <2>t, <1>15 DEF GiveUp, tasks, RecordsOK, ControlOK, TasksOK
  <2>3. ControlOK'
    BY <2>t, <1>15
       DEF GiveUp, Return, Goto, control, RecordsOK, ControlOK, Resting, Working,
           Actors
  <2>4. ClockOK'
    <3>1. cursor' \in {cursor, cursor + 1} /\ now' = now /\ tick' = tick
          BY <1>15 DEF GiveUp, Return, sweep
    <3> QED BY <3>1 DEF ClockOK
  <2>5. FlagsOK' BY <1>15 DEF GiveUp, Remember, FlagsOK, Looking
  <2>6. ActorsAnchored'
    BY <2>t, <2>r, <1>15
       DEF GiveUp, Return, Goto, control, ControlOK, ActorsAnchored, Resting, Working,
           Actors
  <2>7. TasksAnchored' BY <2>t, <1>15 DEF GiveUp, tasks, TasksOK, TasksAnchored
  <2>8. RecordsAnchored'
    BY <2>t, <2>r, <1>15 DEF GiveUp, records, RecordsOK, RecordsAnchored
  <2> QED BY <2>1, <2>2, <2>3, <2>4, <2>5, <2>6, <2>7, <2>8, <1>s
        DEF Shape, TypeOK
<1>16. ASSUME Restart, Remember PROVE Shape'
  <2>t. target["sup"] \in Registered /\ target["sup"] \in Names
        BY <1>16 DEF Restart, ActorsAnchored, Working, Actors
  <2>r. Registered' = Registered BY <1>16 DEF Restart, records, Registered
  <2>1. RecordsOK'
    <3>0. restartCount \in [Names -> Nat] BY DEF RecordsOK
    <3>1. restartCount' \in [Names -> Nat]
          BY <2>t, <3>0, <1>16, CountUp DEF Restart
    <3> QED BY <3>1, <1>16 DEF Restart, RecordsOK
  <2>2. TasksOK' BY <2>t, <1>16 DEF Restart, tasks, RecordsOK, ControlOK, TasksOK
  <2>3. ControlOK'
    BY <2>t, <1>16
       DEF Restart, Goto, control, RecordsOK, ControlOK, Resting, Working, Actors
  <2>4. ClockOK' BY <2>t, <1>16 DEF Restart, Goto, sweep, ClockOK
  <2>5. FlagsOK' BY <1>16 DEF Restart, Remember, FlagsOK, Looking
  <2>6. ActorsAnchored'
    BY <2>t, <2>r, <1>16
       DEF Restart, Goto, control, ControlOK, ActorsAnchored, Resting, Working, Actors
  <2>7. TasksAnchored' BY <2>t, <1>16 DEF Restart, tasks, TasksOK, TasksAnchored
  <2>8. RecordsAnchored'
    BY <2>t, <2>r, <1>16 DEF Restart, records, RecordsOK, RecordsAnchored
  <2> QED BY <2>1, <2>2, <2>3, <2>4, <2>5, <2>6, <2>7, <2>8, <1>s
        DEF Shape, TypeOK
<1>17. ASSUME Recheck, Remember PROVE Shape'
  <2>t. target["sup"] \in Registered /\ target["sup"] \in Names
        BY <1>17 DEF Recheck, ActorsAnchored, Working, Actors
  <2>r. Registered' = Registered BY <1>17 DEF Recheck, records, Registered
  <2>1. RecordsOK' BY <2>t, <1>17 DEF Recheck, records, RecordsOK, Reasons
  <2>2. TasksOK' BY <2>t, <1>17 DEF Recheck, tasks, RecordsOK, ControlOK, TasksOK
  <2>3. ControlOK'
    <3>1. pc' \in [Actors -> Resting \cup Working \cup {"gone"}]
          BY <1>17 DEF Recheck, Return, Goto, control, ControlOK, Resting, Working, Actors
    <3>2. target' \in [Actors -> Names \cup {NoApp}]
          BY <2>t, <1>17 DEF Recheck, Return, Goto, control, ControlOK, Actors
    <3>3. seen' \in [Actors -> Handles \cup {NoTask}]
          BY <2>t, <1>17 DEF Recheck, Return, Goto, control, RecordsOK, ControlOK, Actors
    <3> QED BY <3>1, <3>2, <3>3 DEF ControlOK
  <2>4. ClockOK'
    <3>1. cursor' \in {cursor, cursor + 1} /\ now' = now /\ tick' = tick
          BY <1>17 DEF Recheck, Return, sweep
    <3> QED BY <3>1 DEF ClockOK
  <2>5. FlagsOK' BY <1>17 DEF Recheck, Remember, FlagsOK, Looking
  <2>6. ActorsAnchored'
    BY <2>t, <2>r, <1>17
       DEF Recheck, Return, Goto, control, ControlOK, ActorsAnchored, Resting,
           Working, Actors
  <2>7. TasksAnchored' BY <2>t, <1>17 DEF Recheck, tasks, TasksOK, TasksAnchored
  <2>8. RecordsAnchored'
    BY <2>t, <2>r, <1>17 DEF Recheck, records, RecordsOK, RecordsAnchored
  <2> QED BY <2>1, <2>2, <2>3, <2>4, <2>5, <2>6, <2>7, <2>8, <1>s
        DEF Shape, TypeOK
<1>18. ASSUME NEW h \in Handles, Beat(h), Remember PROVE Shape'
  <2>t. owner[h] \in Names BY <1>18 DEF Beat, TasksAnchored
  <2>r. Registered' = Registered BY <1>18 DEF Beat, records, Registered
  <2>1. RecordsOK'
    <3>1. heartbeat' \in [Names -> 0..MaxTick]
          BY <2>t, <1>18 DEF Beat, ClockOK, RecordsOK, Reasons
    <3> QED BY <3>1, <1>18 DEF Beat, RecordsOK
  <2>2. TasksOK' BY <2>t, <1>18 DEF Beat, tasks, RecordsOK, ControlOK, TasksOK
  <2>3. ControlOK'
    BY <2>t, <1>18 DEF Beat, control, RecordsOK, ControlOK, Resting, Working, Actors
  <2>4. ClockOK' BY <2>t, <1>18 DEF Beat, sweep, ClockOK
  <2>5. FlagsOK' BY <1>18 DEF Beat, Remember, FlagsOK, Looking
  <2>6. ActorsAnchored'
    BY <2>t, <2>r, <1>18
       DEF Beat, control, ControlOK, ActorsAnchored, Resting, Working, Actors
  <2>7. TasksAnchored' BY <2>t, <1>18 DEF Beat, tasks, TasksOK, TasksAnchored
  <2>8. RecordsAnchored'
    BY <2>t, <2>r, <1>18 DEF Beat, records, RecordsOK, RecordsAnchored
  <2> QED BY <2>1, <2>2, <2>3, <2>4, <2>5, <2>6, <2>7, <2>8, <1>s
        DEF Shape, TypeOK
<1>25. ASSUME NEW h \in Handles, Pause(h), Remember PROVE Shape'
  <2>r. Registered' = Registered BY <1>25 DEF Pause, records, Registered
  <2>1. RecordsOK' BY <1>25 DEF Pause, records, RecordsOK, Reasons
  <2>2. TasksOK' BY <1>25 DEF Pause, TasksOK
  <2>3. ControlOK' BY <1>25 DEF Pause, control, ControlOK
  <2>4. ClockOK' BY <1>25 DEF Pause, sweep, ClockOK
  <2>5. FlagsOK' BY <1>25 DEF Pause, Remember, FlagsOK, Looking
  <2>6. ActorsAnchored' BY <2>r, <1>25 DEF Pause, control, ActorsAnchored
  <2>7. TasksAnchored' BY <1>25 DEF Pause, TasksOK, TasksAnchored
  <2>8. RecordsAnchored' BY <2>r, <1>25 DEF Pause, records, RecordsAnchored
  <2> QED BY <2>1, <2>2, <2>3, <2>4, <2>5, <2>6, <2>7, <2>8, <1>s
        DEF Shape, TypeOK
<1>19. ASSUME NEW h \in Handles, StackLimit(h), Remember PROVE Shape'
  <2>t. owner[h] \in Names BY <1>19 DEF StackLimit, TasksAnchored
  <2>r. Registered' = Registered BY <1>19 DEF StackLimit, records, Registered
  <2>1. RecordsOK'
    <3>2. state' \in [Names -> {"stopped", "running", "failed"}]
          BY <2>t, <1>19 DEF StackLimit, ClockOK, RecordsOK, Reasons
    <3>3. failure' \in [Names -> Reasons]
          BY <2>t, <1>19 DEF StackLimit, ClockOK, RecordsOK, Reasons
    <3> QED BY <3>2, <3>3, <1>19 DEF StackLimit, RecordsOK
  <2>2. TasksOK' BY <2>t, <1>19 DEF StackLimit, tasks, RecordsOK, ControlOK, TasksOK
  <2>3. ControlOK'
    BY <2>t, <1>19
       DEF StackLimit, control, RecordsOK, ControlOK, Resting, Working, Actors
  <2>4. ClockOK' BY <2>t, <1>19 DEF StackLimit, sweep, ClockOK
  <2>5. FlagsOK' BY <1>19 DEF StackLimit, Remember, FlagsOK, Looking
  <2>6. ActorsAnchored'
    BY <2>t, <2>r, <1>19
       DEF StackLimit, control, ControlOK, ActorsAnchored, Resting, Working, Actors
  <2>7. TasksAnchored' BY <2>t, <1>19 DEF StackLimit, tasks, TasksOK, TasksAnchored
  <2>8. RecordsAnchored'
    BY <2>t, <2>r, <1>19 DEF StackLimit, records, RecordsOK, RecordsAnchored
  <2> QED BY <2>1, <2>2, <2>3, <2>4, <2>5, <2>6, <2>7, <2>8, <1>s
        DEF Shape, TypeOK
<1>20. ASSUME NEW h \in Handles, TaskClear(h), Remember PROVE Shape'
  <2>t. owner[h] \in Names BY <1>20 DEF TaskClear, TasksAnchored
  <2>r. Registered' = Registered BY <1>20 DEF TaskClear, records, Registered
  <2>1. RecordsOK' BY <2>t, <1>20 DEF TaskClear, records, RecordsOK, Reasons
  <2>2. TasksOK' BY <2>t, <1>20 DEF TaskClear, tasks, RecordsOK, ControlOK, TasksOK
  <2>3. ControlOK'
    BY <2>t, <1>20
       DEF TaskClear, control, RecordsOK, ControlOK, Resting, Working, Actors
  <2>4. ClockOK' BY <2>t, <1>20 DEF TaskClear, sweep, ClockOK
  <2>5. FlagsOK' BY <1>20 DEF TaskClear, Remember, FlagsOK, Looking
  <2>6. ActorsAnchored'
    BY <2>t, <2>r, <1>20
       DEF TaskClear, control, ControlOK, ActorsAnchored, Resting, Working, Actors
  <2>7. TasksAnchored' BY <2>t, <1>20 DEF TaskClear, tasks, TasksOK, TasksAnchored
  <2>8. RecordsAnchored'
    BY <2>t, <2>r, <1>20 DEF TaskClear, records, RecordsOK, RecordsAnchored
  <2> QED BY <2>1, <2>2, <2>3, <2>4, <2>5, <2>6, <2>7, <2>8, <1>s
        DEF Shape, TypeOK
<1>21. ASSUME NEW h \in Handles, TaskExit(h), Remember PROVE Shape'
  <2>r. Registered' = Registered BY <1>21 DEF TaskExit, records, Registered
  <2>1. RecordsOK' BY <1>21 DEF TaskExit, records, RecordsOK, Reasons
  <2>2. TasksOK' BY <1>21 DEF TaskExit, tasks, RecordsOK, ControlOK, TasksOK
  <2>3. ControlOK'
    BY <1>21 DEF TaskExit, control, RecordsOK, ControlOK, Resting, Working, Actors
  <2>4. ClockOK' BY <1>21 DEF TaskExit, sweep, ClockOK
  <2>5. FlagsOK' BY <1>21 DEF TaskExit, Remember, FlagsOK, Looking
  <2>6. ActorsAnchored'
    BY <2>r, <1>21
       DEF TaskExit, control, ControlOK, ActorsAnchored, Resting, Working, Actors
  <2>7. TasksAnchored' BY <1>21 DEF TaskExit, tasks, TasksOK, TasksAnchored
  <2>8. RecordsAnchored' BY <2>r, <1>21 DEF TaskExit, records, RecordsOK, RecordsAnchored
  <2> QED BY <2>1, <2>2, <2>3, <2>4, <2>5, <2>6, <2>7, <2>8, <1>s
        DEF Shape, TypeOK
<1>22. CASE UNCHANGED vars
  <2>1. RecordsOK' /\ TasksOK' BY <1>22 DEF vars, records, tasks, RecordsOK, TasksOK
  <2>2. ControlOK' /\ ClockOK' BY <1>22 DEF vars, control, sweep, ControlOK, ClockOK
  <2>3. FlagsOK' BY <1>22 DEF vars, history, FlagsOK
  <2>4. ActorsAnchored' BY <1>22 DEF vars, records, control, ActorsAnchored, Registered
  <2>5. TasksAnchored' BY <1>22 DEF vars, tasks, TasksAnchored
  <2>6. RecordsAnchored' BY <1>22 DEF vars, records, RecordsAnchored, Registered
  <2> QED BY <2>1, <2>2, <2>3, <2>4, <2>5, <2>6, <1>s DEF Shape, TypeOK
<1> QED
  BY <1>1, <1>2, <1>3, <1>4, <1>5, <1>6, <1>7, <1>8, <1>9, <1>10, <1>11, <1>12, <1>13,
     <1>14, <1>15, <1>16, <1>17, <1>18, <1>19, <1>20, <1>21, <1>22, <1>23, <1>24,
     <1>25
     DEF Next, SupStep, ShellStep, TaskStep, StartStep, Actors

\* Only start(), the supervisor's bookkeeping and an app task's own failure
\* touch the restart count or the recorded reason.
LEMMA BudgetStep == Shape /\ RestartBudget /\ [Next]_vars => RestartBudget'
<1> SUFFICES ASSUME Shape, RestartBudget, [Next]_vars PROVE RestartBudget'
    OBVIOUS
<1>m. MaxRestarts \in Nat BY BoundsAssumption
<1>p. /\ failure \in [Names -> Reasons] /\ restartCount \in [Names -> Nat]
      /\ RecordsOK /\ ActorsAnchored
      BY DEF Shape, TypeOK, RecordsOK
<1>n. Registered \subseteq Names BY <1>p, RegisteredNames
<1>1. ASSUME UNCHANGED <<failure, restartCount>> PROVE RestartBudget'
      BY <1>1 DEF RestartBudget
<1>2. ASSUME NEW c \in Actors, CreateFails(c) PROVE RestartBudget'
  <2>1. \A a \in Names : failure'[a] # "heartbeat timeout" \/ failure'[a] = failure[a]
        BY <1>2, <1>p DEF CreateFails
  <2> QED BY <1>2, <2>1 DEF CreateFails, RestartBudget
<1>3. ASSUME NEW c \in Actors, Publish(c) PROVE RestartBudget'
  <2>1. \A a \in Names : failure'[a] # "heartbeat timeout" \/ failure'[a] = failure[a]
        BY <1>3, <1>p DEF Publish
  <2> QED BY <1>3, <2>1 DEF Publish, RestartBudget
<1>4. ASSUME GiveUp PROVE RestartBudget'
  <2>1. target["sup"] \in Names
        BY <1>4, <1>p, <1>n DEF GiveUp, ActorsAnchored, Working, Actors
  <2>2. \A a \in Names : failure'[a] = IF a = target["sup"] THEN "heartbeat timeout"
                                                            ELSE failure[a]
        BY <1>4, <1>p, <2>1 DEF GiveUp
  <2>3. restartCount' = restartCount /\ restartCount[target["sup"]] >= MaxRestarts
        BY <1>4 DEF GiveUp
  <2>4. restartCount[target["sup"]] \in Nat BY <1>p, <2>1
  <2>6. restartCount[target["sup"]] <= MaxRestarts BY <2>1 DEF RestartBudget
  <2>7. restartCount[target["sup"]] = MaxRestarts BY <1>m, <2>3, <2>4, <2>6
  <2>5. ASSUME NEW a \in Names
        PROVE  restartCount[a] <= MaxRestarts
               /\ (failure'[a] = "heartbeat timeout" => restartCount[a] = MaxRestarts)
        BY <2>2, <2>7 DEF RestartBudget
  <2> QED BY <2>3, <2>5 DEF RestartBudget
<1>5. ASSUME Restart PROVE RestartBudget'
  <2>1. target["sup"] \in Names
        BY <1>5, <1>p, <1>n DEF Restart, ActorsAnchored, Working, Actors
  <2>2. restartCount' = [restartCount EXCEPT ![target["sup"]] = @ + 1]
        BY <1>5 DEF Restart
  <2>3. \A a \in Names :
            restartCount'[a] = IF a = target["sup"] THEN restartCount[a] + 1
                                                    ELSE restartCount[a]
        BY <1>p, <2>1, <2>2
  <2>4. failure' = failure /\ restartCount[target["sup"]] < MaxRestarts
        BY <1>5 DEF Restart
  <2>5. \A a \in Names : restartCount[a] \in Nat BY <1>p
  <2>6. ASSUME NEW a \in Names
        PROVE  restartCount'[a] <= MaxRestarts
               /\ (failure[a] = "heartbeat timeout" => restartCount'[a] = MaxRestarts)
    <3>1. CASE a = target["sup"]
      <4>1. failure[a] = "heartbeat timeout" => restartCount[a] = MaxRestarts
        BY DEF RestartBudget
      <4>2. restartCount[a] \in Nat /\ restartCount[a] < MaxRestarts BY <3>1, <2>4, <2>5
      <4>3. restartCount'[a] = restartCount[a] + 1 BY <3>1, <2>3
      <4>4. restartCount'[a] <= MaxRestarts BY <1>m, <4>2, <4>3
      <4>0. restartCount[a] # MaxRestarts BY <1>m, <4>2
      <4>5. failure[a] # "heartbeat timeout" BY <4>0, <4>1
      <4> QED BY <4>4, <4>5
    <3>2. CASE a # target["sup"] BY <3>2, <2>3 DEF RestartBudget
    <3> QED BY <3>1, <3>2
  <2> QED BY <2>4, <2>6 DEF RestartBudget
<1>6. ASSUME NEW h \in Handles, StackLimit(h) PROVE RestartBudget'
  <2>1. \A a \in Names : failure'[a] # "heartbeat timeout" \/ failure'[a] = failure[a]
        BY <1>6, <1>p DEF StackLimit
  <2> QED BY <1>6, <2>1 DEF StackLimit, RestartBudget
<1>7. CASE UNCHANGED vars
      BY <1>1, <1>7 DEF vars, records
<1>8. CASE \/ Tick \/ Wake \/ ReadState \/ ReadTask \/ ReadHeartbeat
           \/ Rest \/ Recheck \/ StopMark
      BY <1>1, <1>8
         DEF Tick, Wake, ReadState, ReadTask, ReadHeartbeat, Rest, Recheck, StopMark,
             records
<1>9. ASSUME NEW c \in Actors, Create(c) \/ FirstBeat(c) \/ Delete(c) \/ Clear(c)
      PROVE RestartBudget'
      BY <1>1, <1>9 DEF Create, FirstBeat, Delete, Clear, records
<1>10. ASSUME NEW a \in Names, Run(a) \/ RunSigned(a) \/ Stop(a)
       PROVE RestartBudget'
       BY <1>1, <1>10 DEF Run, RunSigned, Stop, records
<1>11. ASSUME NEW h \in Handles, Beat(h) \/ Pause(h) \/ TaskClear(h) \/ TaskExit(h)
       PROVE RestartBudget'
       BY <1>1, <1>11 DEF Beat, Pause, TaskClear, TaskExit, records
<1> QED BY <1>2, <1>3, <1>4, <1>5, <1>6, <1>7, <1>8, <1>9, <1>10, <1>11
        DEF Next, SupStep, ShellStep, TaskStep, StartStep, Actors

\* Without overlap the two actors work on different records, and neither works
\* on the record of an app that is failing itself.
Apart ==
    /\ \A c, d \in Actors : c # d /\ target[c] \in Names => target[d] # target[c]
    /\ \A h \in Handles : life[h] = "failing" => \A c \in Actors : target[c] # owner[h]

LEMMA NoOverlapApart == Shape /\ ~Overlapping => Apart
BY DEF Shape, TasksAnchored, Overlapping, Busy, Failing, Actors, Apart

\* What Shape says of single records, handles and actors.
Facts ==
    /\ \A a \in Names : task[a] \in Handles \/ task[a] = NoTask
    /\ \A h \in Handles : Live(h) => owner[h] \in Names
    /\ \A c \in Actors : pc[c] \in Working => target[c] \in Names
    /\ NoApp \notin Names /\ NoTask \notin Handles

LEMMA ShapeFacts == Shape => Facts
<1> SUFFICES ASSUME Shape PROVE Facts OBVIOUS
<1>1. Registered \subseteq Names BY RegisteredNames DEF Shape, TypeOK
<1> QED BY <1>1, NamesAssumption
        DEF Shape, TypeOK, RecordsOK, TasksAnchored, ActorsAnchored, Live, Facts

\* A step that leaves the lifecycle fields alone keeps what they say.
LEMMA LifecycleFrame ==
    ASSUME LiveNamed, FailingMarked, NamedLive, PointsKnow, SettledTruth,
           UNCHANGED <<state, task, life, owner, pc, target, seen>>
    PROVE  LiveNamed' /\ FailingMarked' /\ NamedLive' /\ PointsKnow' /\ SettledTruth'
<1>1. LiveNamed' BY DEF LiveNamed, Live
<1>2. FailingMarked' BY DEF FailingMarked
<1>3. NamedLive' BY DEF NamedLive, Owns, Live, Clearing, Busy
<1>4. PointsKnow' BY DEF PointsKnow, Owns, Live
<1>5. SettledTruth' BY DEF SettledTruth, Settled, Failing, Busy
<1> QED BY <1>1, <1>2, <1>3, <1>4, <1>5

\* While nobody works on the record under the supervisor's reads, no step makes
\* what it read untrue.
LEMMA ReadsStep == Shape /\ Shape' /\ ReadsHold /\ Next => ReadsHold'
<1> SUFFICES ASSUME Shape, Shape', ReadsHold, Next PROVE ReadsHold'
    OBVIOUS
<1>p. /\ slots \in Seq(Names) /\ cursor \in Nat /\ SweepAnchored /\ Facts
      /\ RecordsOK /\ ControlOK /\ TasksOK
      BY ShapeFacts DEF Shape, TypeOK, RecordsOK, ClockOK
<1>h. /\ Remember
      /\ Tick \/ SupStep \/ ShellStep \/ TaskStep
      BY DEF Next
<1>c. Crossing' => crossed' BY <1>h DEF Remember, Crossing
<1>1. CASE ~Looking' \/ crossed' BY <1>1, <1>c DEF ReadsHold
<1> SUFFICES ASSUME Looking', ~crossed'
             PROVE  /\ state'[slots'[cursor']] = "running"
                    /\ pc'["sup"] = "test" => seen'["sup"] = task'[slots'[cursor']]
    BY <1>1, <1>c DEF ReadsHold
<1>n. ~crossed /\ ~Crossing' BY <1>h DEF Remember
<1>o. /\ target'["shell"] # slots'[cursor']
      /\ \A h \in Handles : ~(life'[h] = "failing" /\ owner'[h] = slots'[cursor'])
      BY <1>n DEF Crossing, Busy, Failing
<1>k. Looking =>
        /\ slots[cursor] \in Names /\ cursor \in 1..Len(slots)
        /\ state[slots[cursor]] = "running"
        /\ pc["sup"] = "test" => seen["sup"] = task[slots[cursor]]
        /\ target["shell"] # slots[cursor]
        /\ \A h \in Handles : ~(life[h] = "failing" /\ owner[h] = slots[cursor])
      BY <1>p, <1>n DEF ReadsHold, Crossing, Busy, Failing, SweepAnchored
<1>u. ASSUME pc'["sup"] = pc["sup"], seen'["sup"] = seen["sup"], cursor' = cursor,
             slots'[cursor] = slots[cursor],
             Looking => /\ state'[slots[cursor]] = state[slots[cursor]]
                        /\ task'[slots[cursor]] = task[slots[cursor]]
      PROVE  /\ state'[slots'[cursor']] = "running"
             /\ pc'["sup"] = "test" => seen'["sup"] = task'[slots'[cursor']]
      BY <1>u, <1>k DEF Looking
<1>2. CASE Tick \/ \E h \in Handles : Beat(h) \/ Pause(h) \/ TaskExit(h)
      BY <1>2, <1>u DEF Tick, Beat, Pause, TaskExit, records, control, sweep
<1>3. ASSUME NEW h \in Handles, StackLimit(h) \/ TaskClear(h)
      PROVE  /\ state'[slots'[cursor']] = "running"
             /\ pc'["sup"] = "test" => seen'["sup"] = task'[slots'[cursor']]
  <2>1. /\ pc' = pc /\ seen' = seen /\ cursor' = cursor /\ slots' = slots
        BY <1>3 DEF StackLimit, TaskClear, records, control, sweep
  <2>2. Looking => owner[h] # slots[cursor]
        BY <1>3, <1>k, <1>o, <1>p, <2>1 DEF StackLimit, TaskClear, TasksOK, Looking
  <2>3. Looking => /\ state'[slots[cursor]] = state[slots[cursor]]
                   /\ task'[slots[cursor]] = task[slots[cursor]]
        BY <1>3, <1>k, <1>p, <2>2 DEF StackLimit, TaskClear, RecordsOK
  <2> QED BY <2>1, <2>3, <1>u
<1>4. ASSUME StartStep("shell") \/ Delete("shell") \/ Clear("shell") \/ StopMark
      PROVE  /\ state'[slots'[cursor']] = "running"
             /\ pc'["sup"] = "test" => seen'["sup"] = task'[slots'[cursor']]
  <2>1. pc'["sup"] = pc["sup"] /\ seen'["sup"] = seen["sup"]
        BY <1>4, <1>p
           DEF StartStep, CreateFails, Create, Publish, FirstBeat, Delete, Clear,
               StopMark, Return, Goto, control, ControlOK, Actors
  <2>2. cursor' = cursor /\ slots' = slots
        BY <1>4
           DEF StartStep, CreateFails, Create, Publish, FirstBeat, Delete, Clear,
               StopMark, Return, records, sweep
  <2>3. Looking => /\ state'[slots[cursor]] = state[slots[cursor]]
                   /\ task'[slots[cursor]] = task[slots[cursor]]
        BY <1>4, <1>k, <1>p
           DEF StartStep, CreateFails, Create, Publish, FirstBeat, Delete, Clear,
               StopMark, records, RecordsOK
  <2> QED BY <2>1, <2>2, <2>3, <1>u
<1>5. ASSUME NEW a \in Names, Run(a) \/ RunSigned(a) \/ Stop(a)
      PROVE  /\ state'[slots'[cursor']] = "running"
             /\ pc'["sup"] = "test" => seen'["sup"] = task'[slots'[cursor']]
  <2>1. pc'["sup"] = pc["sup"] /\ seen'["sup"] = seen["sup"]
        BY <1>5, <1>p DEF Run, RunSigned, Stop, Goto, control, ControlOK, Actors
  <2>2. cursor' = cursor /\ state' = state /\ task' = task
        BY <1>5 DEF Run, RunSigned, Stop, records, sweep
  <2>3. Looking BY <2>1 DEF Looking
  <2>4. slots'[cursor] = slots[cursor]
        BY <1>5, <1>k, <1>p, <2>3 DEF Run, RunSigned, Register, Stop, records
  <2> QED BY <2>1, <2>2, <2>4, <1>u
<1>6. CASE ReadState
      BY <1>6, <1>p
         DEF ReadState, Skip, Goto, records, Looking, ControlOK, Actors
<1>7. CASE ReadTask
      BY <1>7, <1>k, <1>p
         DEF ReadTask, Skip, Goto, records, Looking, ControlOK, Actors
<1>8. ASSUME \/ Wake \/ ReadHeartbeat \/ Rest \/ GiveUp \/ Restart \/ Recheck
             \/ StartStep("sup") \/ Delete("sup") \/ Clear("sup")
      PROVE  FALSE
      BY <1>8, <1>p
         DEF Wake, ReadHeartbeat, Skip, Rest, GiveUp, Restart, Recheck, StartStep,
             CreateFails, Create, Publish, FirstBeat, Delete, Clear, Return, Goto,
             Looking, ControlOK, Actors
<1> QED BY <1>h, <1>2, <1>3, <1>4, <1>5, <1>6, <1>7, <1>8
        DEF SupStep, ShellStep, TaskStep

\* While one party works on a record, Exclusive is kept by every step that
\* does not bring a second party to it.
LEMMA ExclusiveStep ==
    /\ Shape /\ Shape' /\ Exclusive /\ Next
    /\ ~Overlapping' /\ (target'["sup"] # NoApp => ~crossed)
    => Exclusive'
<1> SUFFICES ASSUME Shape, Shape', Exclusive, Next, ~Overlapping',
                    target'["sup"] # NoApp => ~crossed
             PROVE  Exclusive'
    OBVIOUS
<1>p. RecordsOK /\ TasksOK /\ ControlOK /\ ActorsAnchored /\ RecordsAnchored
      BY DEF Shape, TypeOK
<1>e. LiveNamed /\ FailingMarked /\ NamedLive /\ PointsKnow /\ SettledTruth
      BY DEF Exclusive
<1>a. Apart /\ Apart' /\ Facts
      BY NoOverlapApart, ShapeFacts, PTL DEF Exclusive
<1>r. ReadsHold' BY ReadsStep DEF Exclusive

<1>1. ASSUME Tick PROVE Exclusive'
  <2>f. ~fault' BY <1>1 DEF Tick, Exclusive
  <2> QED BY <1>1, <1>e, <1>r, <2>f, LifecycleFrame
         DEF Tick, records, tasks, control, Exclusive
<1>2. ASSUME NEW c \in Actors, CreateFails(c) PROVE Exclusive'
  <2>f. ~fault' BY <1>2 DEF CreateFails, Exclusive
  <2>k. pc[c] = "create" /\ target[c] \in Names
        BY <1>a, <1>2 DEF CreateFails, Facts, Working, Actors
  <2>e. /\ \A b \in Names : state'[b] = IF b = target[c] THEN "failed" ELSE state[b]
        /\ \A d \in Actors :
               pc'[d] = IF d = c THEN IF c = "shell" THEN "idle" ELSE "scan" ELSE pc[d]
        /\ \A d \in Actors : target'[d] = IF d = c THEN NoApp ELSE target[d]
        /\ \A d \in Actors : seen'[d] = IF d = c THEN NoTask ELSE seen[d]
        /\ task' = task /\ life' = life /\ owner' = owner
        BY <2>k, <1>2, <1>p
           DEF CreateFails, Return, Goto, records, tasks, control, ControlOK,
               RecordsOK
  <2>1. LiveNamed'
        BY <2>k, <2>e, <1>e, <1>a, <1>p
           DEF LiveNamed, Live, Owns, PointsKnow, Apart, Facts, Working
  <2>2. FailingMarked'
        BY <2>k, <2>e, <1>e, <1>a, <1>p DEF FailingMarked, Apart, Live, Facts
  <2>3. NamedLive'
        BY <2>k, <2>e, <1>e, <1>a, <1>p
           DEF NamedLive, LiveNamed, Owns, Live, Clearing, Busy, PointsKnow, Apart,
               Facts
  <2>4. PointsKnow'
        BY <2>k, <2>e, <1>e, <1>a, <1>p
           DEF PointsKnow, NamedLive, Clearing, Busy, LiveNamed, Owns, Live, Apart,
               Facts, Working, RecordsAnchored
  <2>5. SettledTruth'
        BY <2>k, <2>e, <1>e, <1>a, <1>p
           DEF SettledTruth, FailingMarked, PointsKnow, Settled, Failing, Busy, Live,
               Apart, Facts, Actors
  <2> QED BY <2>f, <2>1, <2>2, <2>3, <2>4, <2>5, <1>r DEF Exclusive
<1>3. ASSUME NEW c \in Actors, Create(c) PROVE Exclusive'
  <2>f. ~fault' BY <1>3 DEF Create, Exclusive
  <2>k. pc[c] = "create" /\ target[c] \in Names
        BY <1>a, <1>3 DEF Create, Facts, Working, Actors
  <2>h. PICK h \in Handles :
            /\ life[h] = "dead"
            /\ life' = [life EXCEPT ![h] = "work"]
            /\ owner' = [owner EXCEPT ![h] = target[c]]
            /\ task' = [task EXCEPT ![target[c]] = h]
        BY <1>3 DEF Create
  <2>e. /\ \A b \in Names : task'[b] = IF b = target[c] THEN h ELSE task[b]
        /\ \A g \in Handles : life'[g] = IF g = h THEN "work" ELSE life[g]
        /\ \A g \in Handles : owner'[g] = IF g = h THEN target[c] ELSE owner[g]
        /\ \A d \in Actors : pc'[d] = IF d = c THEN "publish" ELSE pc[d]
        /\ state' = state /\ target' = target /\ seen' = seen
        BY <2>k, <2>h, <1>3, <1>p
           DEF Create, Goto, records, tasks, control, ControlOK, RecordsOK, TasksOK
  <2>1. LiveNamed'
        BY <2>k, <2>h, <2>e, <1>e, <1>a, <1>p
           DEF LiveNamed, Live, Owns, PointsKnow, Apart, Facts, Working
  <2>2. FailingMarked'
        BY <2>k, <2>h, <2>e, <1>e, <1>a, <1>p DEF FailingMarked, Apart, Live, Facts
  <2>3. NamedLive'
        BY <2>k, <2>h, <2>e, <1>e, <1>a, <1>p
           DEF NamedLive, LiveNamed, Owns, Live, Clearing, Busy, PointsKnow, Apart,
               Facts
  <2>4. PointsKnow'
        BY <2>k, <2>h, <2>e, <1>e, <1>a, <1>p
           DEF PointsKnow, NamedLive, Clearing, Busy, LiveNamed, Owns, Live, Apart,
               Facts, Working, RecordsAnchored
  <2>5. SettledTruth'
        BY <2>k, <2>h, <2>e, <1>e, <1>a, <1>p
           DEF SettledTruth, FailingMarked, PointsKnow, Settled, Failing, Busy, Live,
               Apart, Facts, Actors
  <2> QED BY <2>f, <2>1, <2>2, <2>3, <2>4, <2>5, <1>r DEF Exclusive
<1>4. ASSUME NEW c \in Actors, Publish(c) PROVE Exclusive'
  <2>f. ~fault' BY <1>4 DEF Publish, Exclusive
  <2>k. pc[c] = "publish" /\ target[c] \in Names
        BY <1>a, <1>4 DEF Publish, Facts, Working, Actors
  <2>e. /\ \A b \in Names : state'[b] = IF b = target[c] THEN "running" ELSE state[b]
        /\ \A d \in Actors : pc'[d] = IF d = c THEN "beat" ELSE pc[d]
        /\ task' = task /\ life' = life
        /\ owner' = owner /\ target' = target /\ seen' = seen
        BY <2>k, <1>4, <1>p
           DEF Publish, Goto, records, tasks, control, ControlOK, RecordsOK
  <2>1. LiveNamed'
        BY <2>k, <2>e, <1>e, <1>a, <1>p
           DEF LiveNamed, Live, Owns, PointsKnow, Apart, Facts, Working
  <2>2. FailingMarked'
        BY <2>k, <2>e, <1>e, <1>a, <1>p DEF FailingMarked, Apart, Live, Facts
  <2>3. NamedLive'
        BY <2>k, <2>e, <1>e, <1>a, <1>p
           DEF NamedLive, LiveNamed, Owns, Live, Clearing, Busy, PointsKnow, Apart,
               Facts
  <2>4. PointsKnow'
        BY <2>k, <2>e, <1>e, <1>a, <1>p
           DEF PointsKnow, NamedLive, Clearing, Busy, LiveNamed, Owns, Live, Apart,
               Facts, Working, RecordsAnchored
  <2>5. SettledTruth'
        BY <2>k, <2>e, <1>e, <1>a, <1>p
           DEF SettledTruth, FailingMarked, PointsKnow, Settled, Failing, Busy, Live,
               Apart, Facts, Actors
  <2> QED BY <2>f, <2>1, <2>2, <2>3, <2>4, <2>5, <1>r DEF Exclusive
<1>5. ASSUME NEW c \in Actors, FirstBeat(c) PROVE Exclusive'
  <2>f. ~fault' BY <1>5 DEF FirstBeat, Exclusive
  <2>k. pc[c] = "beat" /\ target[c] \in Names
        BY <1>a, <1>5 DEF FirstBeat, Facts, Working, Actors
  <2>e. /\ \A d \in Actors :
               pc'[d] = IF d = c THEN IF c = "shell" THEN "idle" ELSE "scan" ELSE pc[d]
        /\ \A d \in Actors : target'[d] = IF d = c THEN NoApp ELSE target[d]
        /\ \A d \in Actors : seen'[d] = IF d = c THEN NoTask ELSE seen[d]
        /\ state' = state /\ task' = task /\ life' = life /\ owner' = owner
        BY <2>k, <1>5, <1>p
           DEF FirstBeat, Return, Goto, records, tasks, control, ControlOK
  <2>1. LiveNamed'
        BY <2>k, <2>e, <1>e, <1>a, <1>p
           DEF LiveNamed, Live, Owns, PointsKnow, Apart, Facts, Working
  <2>2. FailingMarked'
        BY <2>k, <2>e, <1>e, <1>a, <1>p DEF FailingMarked, Apart, Live, Facts
  <2>3. NamedLive'
        BY <2>k, <2>e, <1>e, <1>a, <1>p
           DEF NamedLive, LiveNamed, Owns, Live, Clearing, Busy, PointsKnow, Apart,
               Facts
  <2>4. PointsKnow'
        BY <2>k, <2>e, <1>e, <1>a, <1>p
           DEF PointsKnow, NamedLive, Clearing, Busy, LiveNamed, Owns, Live, Apart,
               Facts, Working, RecordsAnchored
  <2>5. SettledTruth'
        BY <2>k, <2>e, <1>e, <1>a, <1>p
           DEF SettledTruth, FailingMarked, PointsKnow, Settled, Failing, Busy, Live,
               Apart, Facts, Actors
  <2> QED BY <2>f, <2>1, <2>2, <2>3, <2>4, <2>5, <1>r DEF Exclusive
<1>6. ASSUME NEW c \in Actors, Delete(c) PROVE Exclusive'
  <2>k. pc[c] = "delete" /\ target[c] \in Names
        BY <1>a, <1>6 DEF Delete, Facts, Working, Actors
  <2>o. Owns(target[c])
        BY <2>k, <1>p, <1>a, <1>e
           DEF NamedLive, PointsKnow, ActorsAnchored, Clearing, Busy, Apart
  <2>h. \E h \in {task[target[c]]} :
            /\ life' = [life EXCEPT ![h] = "dead"]
            /\ fault' = (fault \/ life[h] = "dead")
            /\ Goto(c, "clear")
        BY <2>k, <2>o, <1>a, <1>e, <1>6 DEF Delete, PointsKnow, Owns, Facts
  <2>f. ~fault' BY <2>o, <2>h DEF Owns, Live, Exclusive
  <2>g. life' = [life EXCEPT ![task[target[c]]] = "dead"] /\ Goto(c, "clear")
        BY <2>h
  <2>j. /\ task[target[c]] \in Handles /\ life[task[target[c]]] # "dead"
        /\ owner[task[target[c]]] = target[c]
        BY <2>o DEF Owns, Live
  <2>e. /\ \A g \in Handles : life'[g] = IF g = task[target[c]] THEN "dead" ELSE life[g]
        /\ \A d \in Actors : pc'[d] = IF d = c THEN "clear" ELSE pc[d]
        /\ state' = state /\ task' = task /\ owner' = owner /\ target' = target /\ seen' = seen
        BY <2>k, <2>o, <2>g, <2>j, <1>6, <1>p
           DEF Delete, Goto, records, tasks, control, ControlOK, TasksOK
  <2>1. LiveNamed'
        BY <2>k, <2>o, <2>g, <2>j, <2>e, <1>e, <1>a, <1>p
           DEF LiveNamed, Live, Owns, PointsKnow, Apart, Facts, Working
  <2>2. FailingMarked'
        BY <2>k, <2>o, <2>g, <2>j, <2>e, <1>e, <1>a, <1>p
           DEF FailingMarked, Apart, Live, Facts
  <2>3. NamedLive'
        BY <2>k, <2>o, <2>g, <2>j, <2>e, <1>e, <1>a, <1>p
           DEF NamedLive, LiveNamed, Owns, Live, Clearing, Busy, PointsKnow, Apart,
               Facts
  <2>4. PointsKnow'
        BY <2>k, <2>o, <2>g, <2>j, <2>e, <1>e, <1>a, <1>p
           DEF PointsKnow, NamedLive, Clearing, Busy, LiveNamed, Owns, Live, Apart,
               Facts, Working, RecordsAnchored
  <2>5. SettledTruth'
        BY <2>k, <2>o, <2>g, <2>j, <2>e, <1>e, <1>a, <1>p
           DEF SettledTruth, FailingMarked, PointsKnow, Settled, Failing, Busy, Live,
               Apart, Facts, Actors
  <2> QED BY <2>f, <2>1, <2>2, <2>3, <2>4, <2>5, <1>r DEF Exclusive
<1>7. ASSUME NEW c \in Actors, Clear(c) PROVE Exclusive'
  <2>f. ~fault' BY <1>7 DEF Clear, Exclusive
  <2>k. pc[c] = "clear" /\ target[c] \in Names
        BY <1>a, <1>7 DEF Clear, Facts, Working, Actors
  <2>e. /\ \A b \in Names : task'[b] = IF b = target[c] THEN NoTask ELSE task[b]
        /\ \A d \in Actors :
               pc'[d] = IF d = c THEN IF c = "shell" THEN "mark" ELSE "budget" ELSE pc[d]
        /\ state' = state /\ life' = life /\ owner' = owner /\ target' = target /\ seen' = seen
        BY <2>k, <1>7, <1>p DEF Clear, Goto, records, tasks, control, ControlOK, RecordsOK
  <2>1. LiveNamed'
        BY <2>k, <2>e, <1>e, <1>a, <1>p
           DEF LiveNamed, Live, Owns, PointsKnow, Apart, Facts, Working
  <2>2. FailingMarked'
        BY <2>k, <2>e, <1>e, <1>a, <1>p DEF FailingMarked, Apart, Live, Facts
  <2>3. NamedLive'
        BY <2>k, <2>e, <1>e, <1>a, <1>p
           DEF NamedLive, LiveNamed, Owns, Live, Clearing, Busy, PointsKnow, Apart,
               Facts
  <2>4. PointsKnow'
        BY <2>k, <2>e, <1>e, <1>a, <1>p
           DEF PointsKnow, NamedLive, Clearing, Busy, LiveNamed, Owns, Live, Apart,
               Facts, Working, RecordsAnchored
  <2>5. SettledTruth'
        BY <2>k, <2>e, <1>e, <1>a, <1>p
           DEF SettledTruth, FailingMarked, PointsKnow, Settled, Failing, Busy, Live,
               Apart, Facts, Actors
  <2> QED BY <2>f, <2>1, <2>2, <2>3, <2>4, <2>5, <1>r DEF Exclusive
<1>8. ASSUME NEW a \in Names, Run(a) PROVE Exclusive'
  <2>f. ~fault' BY <1>8 DEF Run, Exclusive
  <2>k. pc["shell"] = "idle" /\ task[a] = NoTask /\ "shell" \in Actors /\ target["shell"] = NoApp
        BY <1>p, <1>8 DEF Run, ActorsAnchored, Resting, Actors
  <2>e. /\ \A d \in Actors : pc'[d] = IF d = "shell" THEN "create" ELSE pc[d]
        /\ \A d \in Actors : target'[d] = IF d = "shell" THEN a ELSE target[d]
        /\ state' = state /\ task' = task /\ life' = life /\ owner' = owner /\ seen' = seen
        BY <2>k, <1>8, <1>p DEF Run, Goto, records, tasks, control, ControlOK
  <2>1. LiveNamed'
        BY <2>k, <2>e, <1>e, <1>a, <1>p
           DEF LiveNamed, Live, Owns, PointsKnow, Apart, Facts, Working
  <2>2. FailingMarked'
        BY <2>k, <2>e, <1>e, <1>a, <1>p DEF FailingMarked, Apart, Live, Facts
  <2>3. NamedLive'
        BY <2>k, <2>e, <1>e, <1>a, <1>p
           DEF NamedLive, LiveNamed, Owns, Live, Clearing, Busy, PointsKnow, Apart,
               Facts
  <2>4. PointsKnow'
        BY <2>k, <2>e, <1>e, <1>a, <1>p
           DEF PointsKnow, NamedLive, Clearing, Busy, LiveNamed, Owns, Live, Apart,
               Facts, Working, RecordsAnchored
  <2>5. SettledTruth'
        BY <2>k, <2>e, <1>e, <1>a, <1>p
           DEF SettledTruth, FailingMarked, PointsKnow, Settled, Failing, Busy, Live,
               Apart, Facts, Actors
  <2> QED BY <2>f, <2>1, <2>2, <2>3, <2>4, <2>5, <1>r DEF Exclusive
<1>9. ASSUME NEW a \in Names, RunSigned(a) PROVE Exclusive'
  <2>f. ~fault' BY <1>9 DEF RunSigned, Exclusive
  <2>k. pc["shell"] = "idle" /\ task[a] = NoTask /\ "shell" \in Actors /\ target["shell"] = NoApp
        BY <1>p, <1>9 DEF RunSigned, RecordsAnchored, ActorsAnchored, Resting, Actors
  <2>e. /\ \A d \in Actors : pc'[d] = IF d = "shell" THEN "create" ELSE pc[d]
        /\ \A d \in Actors : target'[d] = IF d = "shell" THEN a ELSE target[d]
        /\ state' = state /\ task' = task /\ life' = life /\ owner' = owner /\ seen' = seen
        BY <2>k, <1>9, <1>p
           DEF RunSigned, Goto, Register, records, tasks, control, ControlOK
  <2>1. LiveNamed'
        BY <2>k, <2>e, <1>e, <1>a, <1>p
           DEF LiveNamed, Live, Owns, PointsKnow, Apart, Facts, Working
  <2>2. FailingMarked'
        BY <2>k, <2>e, <1>e, <1>a, <1>p DEF FailingMarked, Apart, Live, Facts
  <2>3. NamedLive'
        BY <2>k, <2>e, <1>e, <1>a, <1>p
           DEF NamedLive, LiveNamed, Owns, Live, Clearing, Busy, PointsKnow, Apart,
               Facts
  <2>4. PointsKnow'
        BY <2>k, <2>e, <1>e, <1>a, <1>p
           DEF PointsKnow, NamedLive, Clearing, Busy, LiveNamed, Owns, Live, Apart,
               Facts, Working, RecordsAnchored
  <2>5. SettledTruth'
        BY <2>k, <2>e, <1>e, <1>a, <1>p
           DEF SettledTruth, FailingMarked, PointsKnow, Settled, Failing, Busy, Live,
               Apart, Facts, Actors
  <2> QED BY <2>f, <2>1, <2>2, <2>3, <2>4, <2>5, <1>r DEF Exclusive
<1>10. ASSUME NEW a \in Names, Stop(a) PROVE Exclusive'
  <2>f. ~fault' BY <1>10 DEF Stop, Exclusive
  <2>k. pc["shell"] = "idle" /\ task[a] # NoTask /\ "shell" \in Actors /\ target["shell"] = NoApp
        BY <1>p, <1>10 DEF Stop, ActorsAnchored, Resting, Actors
  <2>e. /\ \A d \in Actors : pc'[d] = IF d = "shell" THEN "delete" ELSE pc[d]
        /\ \A d \in Actors : target'[d] = IF d = "shell" THEN a ELSE target[d]
        /\ \A d \in Actors : seen'[d] = IF d = "shell" THEN task[a] ELSE seen[d]
        /\ state' = state /\ task' = task /\ life' = life /\ owner' = owner
        BY <2>k, <1>10, <1>p DEF Stop, Goto, records, tasks, control, ControlOK
  <2>1. LiveNamed'
        BY <2>k, <2>e, <1>e, <1>a, <1>p
           DEF LiveNamed, Live, Owns, PointsKnow, Apart, Facts, Working
  <2>2. FailingMarked'
        BY <2>k, <2>e, <1>e, <1>a, <1>p DEF FailingMarked, Apart, Live, Facts
  <2>3. NamedLive'
        BY <2>k, <2>e, <1>e, <1>a, <1>p
           DEF NamedLive, LiveNamed, Owns, Live, Clearing, Busy, PointsKnow, Apart,
               Facts
  <2>4. PointsKnow'
        BY <2>k, <2>e, <1>e, <1>a, <1>p
           DEF PointsKnow, NamedLive, Clearing, Busy, LiveNamed, Owns, Live, Apart,
               Facts, Working, RecordsAnchored
  <2>5. SettledTruth'
        BY <2>k, <2>e, <1>e, <1>a, <1>p
           DEF SettledTruth, FailingMarked, PointsKnow, Settled, Failing, Busy, Live,
               Apart, Facts, Actors
  <2> QED BY <2>f, <2>1, <2>2, <2>3, <2>4, <2>5, <1>r DEF Exclusive
<1>11. ASSUME StopMark PROVE Exclusive'
  <2>f. ~fault' BY <1>11 DEF StopMark, Exclusive
  <2>k. pc["shell"] = "mark" /\ target["shell"] \in Names /\ "shell" \in Actors
        BY <1>a, <1>11 DEF StopMark, Facts, Working, Actors
  <2>e. /\ \A b \in Names : state'[b] = IF b = target["shell"] THEN "stopped" ELSE state[b]
        /\ \A d \in Actors : pc'[d] = IF d = "shell" THEN "idle" ELSE pc[d]
        /\ \A d \in Actors : target'[d] = IF d = "shell" THEN NoApp ELSE target[d]
        /\ \A d \in Actors : seen'[d] = IF d = "shell" THEN NoTask ELSE seen[d]
        /\ task' = task /\ life' = life /\ owner' = owner
        BY <2>k, <1>11, <1>p
           DEF StopMark, Return, Goto, records, tasks, control, ControlOK, RecordsOK
  <2>1. LiveNamed'
        BY <2>k, <2>e, <1>e, <1>a, <1>p
           DEF LiveNamed, Live, Owns, PointsKnow, Apart, Facts, Working
  <2>2. FailingMarked'
        BY <2>k, <2>e, <1>e, <1>a, <1>p DEF FailingMarked, Apart, Live, Facts
  <2>3. NamedLive'
        BY <2>k, <2>e, <1>e, <1>a, <1>p
           DEF NamedLive, LiveNamed, Owns, Live, Clearing, Busy, PointsKnow, Apart,
               Facts
  <2>4. PointsKnow'
        BY <2>k, <2>e, <1>e, <1>a, <1>p
           DEF PointsKnow, NamedLive, Clearing, Busy, LiveNamed, Owns, Live, Apart,
               Facts, Working, RecordsAnchored
  <2>5. SettledTruth'
        BY <2>k, <2>e, <1>e, <1>a, <1>p
           DEF SettledTruth, FailingMarked, PointsKnow, Settled, Failing, Busy, Live,
               Apart, Facts, Actors
  <2> QED BY <2>f, <2>1, <2>2, <2>3, <2>4, <2>5, <1>r DEF Exclusive
<1>12. ASSUME Wake PROVE Exclusive'
  <2>f. ~fault' BY <1>12 DEF Wake, Exclusive
  <2>k. pc["sup"] = "sleep" /\ "sup" \in Actors
        BY <1>12 DEF Wake, Actors
  <2>e. /\ \A d \in Actors : pc'[d] = IF d = "sup" THEN "scan" ELSE pc[d]
        /\ state' = state /\ task' = task /\ life' = life
        /\ owner' = owner /\ target' = target /\ seen' = seen
        BY <2>k, <1>12, <1>p DEF Wake, Goto, records, tasks, control, ControlOK
  <2>1. LiveNamed'
        BY <2>k, <2>e, <1>e, <1>a, <1>p
           DEF LiveNamed, Live, Owns, PointsKnow, Apart, Facts, Working
  <2>2. FailingMarked'
        BY <2>k, <2>e, <1>e, <1>a, <1>p DEF FailingMarked, Apart, Live, Facts
  <2>3. NamedLive'
        BY <2>k, <2>e, <1>e, <1>a, <1>p
           DEF NamedLive, LiveNamed, Owns, Live, Clearing, Busy, PointsKnow, Apart,
               Facts
  <2>4. PointsKnow'
        BY <2>k, <2>e, <1>e, <1>a, <1>p
           DEF PointsKnow, NamedLive, Clearing, Busy, LiveNamed, Owns, Live, Apart,
               Facts, Working, RecordsAnchored
  <2>5. SettledTruth'
        BY <2>k, <2>e, <1>e, <1>a, <1>p
           DEF SettledTruth, FailingMarked, PointsKnow, Settled, Failing, Busy, Live,
               Apart, Facts, Actors
  <2> QED BY <2>f, <2>1, <2>2, <2>3, <2>4, <2>5, <1>r DEF Exclusive
<1>22. ASSUME ReadState PROVE Exclusive'
  <2>f. ~fault' BY <1>22 DEF ReadState, Exclusive
  <2>k. pc["sup"] = "scan" /\ "sup" \in Actors
        BY <1>22 DEF ReadState, Actors
  <2>e. /\ \A d \in Actors : d # "sup" => pc'[d] = pc[d] /\ seen'[d] = seen[d]
        /\ pc'["sup"] \in {"scan", "see", "test"}
        /\ state' = state /\ task' = task /\ life' = life
        /\ owner' = owner /\ target' = target
        BY <2>k, <1>22, <1>p DEF ReadState, Skip, Goto, records, tasks, ControlOK
  <2>1. LiveNamed'
        BY <2>k, <2>e, <1>e, <1>a, <1>p
           DEF LiveNamed, Live, Owns, PointsKnow, Apart, Facts, Working
  <2>2. FailingMarked'
        BY <2>k, <2>e, <1>e, <1>a, <1>p DEF FailingMarked, Apart, Live, Facts
  <2>3. NamedLive'
        BY <2>k, <2>e, <1>e, <1>a, <1>p
           DEF NamedLive, LiveNamed, Owns, Live, Clearing, Busy, PointsKnow, Apart,
               Facts
  <2>4. PointsKnow'
        BY <2>k, <2>e, <1>e, <1>a, <1>p
           DEF PointsKnow, NamedLive, Clearing, Busy, LiveNamed, Owns, Live, Apart,
               Facts, Working, RecordsAnchored
  <2>5. SettledTruth'
        BY <2>k, <2>e, <1>e, <1>a, <1>p
           DEF SettledTruth, FailingMarked, PointsKnow, Settled, Failing, Busy, Live,
               Apart, Facts, Actors
  <2> QED BY <2>f, <2>1, <2>2, <2>3, <2>4, <2>5, <1>r DEF Exclusive
<1>23. ASSUME ReadTask PROVE Exclusive'
  <2>f. ~fault' BY <1>23 DEF ReadTask, Exclusive
  <2>k. pc["sup"] = "see" /\ "sup" \in Actors
        BY <1>23 DEF ReadTask, Actors
  <2>e. /\ \A d \in Actors : d # "sup" => pc'[d] = pc[d] /\ seen'[d] = seen[d]
        /\ pc'["sup"] \in {"scan", "see", "test"}
        /\ state' = state /\ task' = task /\ life' = life
        /\ owner' = owner /\ target' = target
        BY <2>k, <1>23, <1>p DEF ReadTask, Skip, Goto, records, tasks, ControlOK
  <2>1. LiveNamed'
        BY <2>k, <2>e, <1>e, <1>a, <1>p
           DEF LiveNamed, Live, Owns, PointsKnow, Apart, Facts, Working
  <2>2. FailingMarked'
        BY <2>k, <2>e, <1>e, <1>a, <1>p DEF FailingMarked, Apart, Live, Facts
  <2>3. NamedLive'
        BY <2>k, <2>e, <1>e, <1>a, <1>p
           DEF NamedLive, LiveNamed, Owns, Live, Clearing, Busy, PointsKnow, Apart,
               Facts
  <2>4. PointsKnow'
        BY <2>k, <2>e, <1>e, <1>a, <1>p
           DEF PointsKnow, NamedLive, Clearing, Busy, LiveNamed, Owns, Live, Apart,
               Facts, Working, RecordsAnchored
  <2>5. SettledTruth'
        BY <2>k, <2>e, <1>e, <1>a, <1>p
           DEF SettledTruth, FailingMarked, PointsKnow, Settled, Failing, Busy, Live,
               Apart, Facts, Actors
  <2> QED BY <2>f, <2>1, <2>2, <2>3, <2>4, <2>5, <1>r DEF Exclusive
<1>13. ASSUME ReadHeartbeat PROVE Exclusive'
  <2>f. ~fault' BY <1>13 DEF ReadHeartbeat, Exclusive
  <2>k. /\ pc["sup"] = "test" /\ "sup" \in Actors
        /\ slots[cursor] \in Names /\ target["sup"] = NoApp
        BY <1>13, <1>p
           DEF ReadHeartbeat, ActorsAnchored, Resting, Actors, Shape, SweepAnchored,
               Looking, RecordsOK
  <2>1. CASE ~Expired(slots[cursor], now)
    <3>e. /\ \A d \in Actors : d # "sup" => pc'[d] = pc[d] /\ seen'[d] = seen[d]
          /\ pc'["sup"] = "scan"
          /\ state' = state /\ task' = task /\ life' = life
          /\ owner' = owner /\ target' = target
          BY <2>k, <2>1, <1>13, <1>p
             DEF ReadHeartbeat, Skip, Goto, records, tasks, ControlOK
    <3>1. LiveNamed'
          BY <2>k, <3>e, <1>e, <1>a, <1>p
             DEF LiveNamed, Live, Owns, PointsKnow, Apart, Facts, Working
    <3>2. FailingMarked'
          BY <2>k, <3>e, <1>e, <1>a, <1>p DEF FailingMarked, Apart, Live, Facts
    <3>3. NamedLive'
          BY <2>k, <3>e, <1>e, <1>a, <1>p
             DEF NamedLive, LiveNamed, Owns, Live, Clearing, Busy, PointsKnow, Apart,
                 Facts
    <3>4. PointsKnow'
          BY <2>k, <3>e, <1>e, <1>a, <1>p
             DEF PointsKnow, NamedLive, Clearing, Busy, LiveNamed, Owns, Live, Apart,
                 Facts, Working, RecordsAnchored
    <3>5. SettledTruth'
          BY <2>k, <3>e, <1>e, <1>a, <1>p
             DEF SettledTruth, FailingMarked, PointsKnow, Settled, Failing, Busy, Live,
                 Apart, Facts, Actors
    <3> QED BY <2>f, <3>1, <3>2, <3>3, <3>4, <3>5, <1>r DEF Exclusive
  <2>2. CASE Expired(slots[cursor], now)
    <3>c. ~crossed BY <1>13, <2>2, <2>k, <1>p, <1>a DEF ReadHeartbeat, ControlOK, Facts
    <3>s. /\ seen["sup"] # NoTask /\ seen["sup"] = task[slots[cursor]]
          /\ state[slots[cursor]] = "running"
          BY <3>c, <2>k, <1>p DEF Exclusive, ReadsHold, Looking, ActorsAnchored
    <3>e. /\ \A d \in Actors : pc'[d] = IF d = "sup" THEN "delete" ELSE pc[d]
          /\ \A d \in Actors : target'[d] = IF d = "sup" THEN slots[cursor] ELSE target[d]
          /\ seen' = seen
          /\ state' = state /\ task' = task /\ life' = life /\ owner' = owner
          BY <1>13, <2>2, <1>p DEF ReadHeartbeat, Goto, records, tasks, ControlOK
    <3>1. LiveNamed'
          BY <2>k, <3>s, <3>e, <1>e, <1>a, <1>p
             DEF LiveNamed, Live, Owns, PointsKnow, Apart, Facts, Working
    <3>2. FailingMarked'
          BY <2>k, <3>s, <3>e, <1>e, <1>a, <1>p DEF FailingMarked, Apart, Live, Facts
    <3>3. NamedLive'
          BY <2>k, <3>s, <3>e, <1>e, <1>a, <1>p
             DEF NamedLive, LiveNamed, Owns, Live, Clearing, Busy, PointsKnow, Apart,
                 Facts
    <3>4. PointsKnow'
          BY <2>k, <3>s, <3>e, <1>e, <1>a, <1>p
             DEF PointsKnow, NamedLive, Clearing, Busy, LiveNamed, Owns, Live, Apart,
                 Facts, Working, RecordsAnchored
    <3>5. SettledTruth'
          BY <2>k, <3>s, <3>e, <1>e, <1>a, <1>p
             DEF SettledTruth, FailingMarked, PointsKnow, Settled, Failing, Busy,
                 Live, Apart, Facts, Actors
    <3> QED BY <2>f, <3>1, <3>2, <3>3, <3>4, <3>5, <1>r DEF Exclusive
  <2> QED BY <2>1, <2>2
<1>14. ASSUME Rest PROVE Exclusive'
  <2>f. ~fault' BY <1>14 DEF Rest, Exclusive
  <2>k. pc["sup"] = "scan" /\ "sup" \in Actors
        BY <1>14 DEF Rest, Actors
  <2>e. /\ \A d \in Actors : pc'[d] = IF d = "sup" THEN "sleep" ELSE pc[d]
        /\ state' = state /\ task' = task /\ life' = life
        /\ owner' = owner /\ target' = target /\ seen' = seen
        BY <2>k, <1>14, <1>p DEF Rest, Goto, records, tasks, control, ControlOK
  <2>1. LiveNamed'
        BY <2>k, <2>e, <1>e, <1>a, <1>p
           DEF LiveNamed, Live, Owns, PointsKnow, Apart, Facts, Working
  <2>2. FailingMarked'
        BY <2>k, <2>e, <1>e, <1>a, <1>p DEF FailingMarked, Apart, Live, Facts
  <2>3. NamedLive'
        BY <2>k, <2>e, <1>e, <1>a, <1>p
           DEF NamedLive, LiveNamed, Owns, Live, Clearing, Busy, PointsKnow, Apart,
               Facts
  <2>4. PointsKnow'
        BY <2>k, <2>e, <1>e, <1>a, <1>p
           DEF PointsKnow, NamedLive, Clearing, Busy, LiveNamed, Owns, Live, Apart,
               Facts, Working, RecordsAnchored
  <2>5. SettledTruth'
        BY <2>k, <2>e, <1>e, <1>a, <1>p
           DEF SettledTruth, FailingMarked, PointsKnow, Settled, Failing, Busy, Live,
               Apart, Facts, Actors
  <2> QED BY <2>f, <2>1, <2>2, <2>3, <2>4, <2>5, <1>r DEF Exclusive
<1>15. ASSUME GiveUp PROVE Exclusive'
  <2>f. ~fault' BY <1>15 DEF GiveUp, Exclusive
  <2>k. pc["sup"] = "budget" /\ target["sup"] \in Names /\ "sup" \in Actors
        BY <1>a, <1>15 DEF GiveUp, Facts, Working, Actors
  <2>e. /\ \A b \in Names : state'[b] = IF b = target["sup"] THEN "failed" ELSE state[b]
        /\ \A d \in Actors : pc'[d] = IF d = "sup" THEN "scan" ELSE pc[d]
        /\ \A d \in Actors : target'[d] = IF d = "sup" THEN NoApp ELSE target[d]
        /\ \A d \in Actors : seen'[d] = IF d = "sup" THEN NoTask ELSE seen[d]
        /\ task' = task /\ life' = life /\ owner' = owner
        BY <2>k, <1>15, <1>p
           DEF GiveUp, Return, Goto, records, tasks, control, ControlOK, RecordsOK
  <2>1. LiveNamed'
        BY <2>k, <2>e, <1>e, <1>a, <1>p
           DEF LiveNamed, Live, Owns, PointsKnow, Apart, Facts, Working
  <2>2. FailingMarked'
        BY <2>k, <2>e, <1>e, <1>a, <1>p DEF FailingMarked, Apart, Live, Facts
  <2>3. NamedLive'
        BY <2>k, <2>e, <1>e, <1>a, <1>p
           DEF NamedLive, LiveNamed, Owns, Live, Clearing, Busy, PointsKnow, Apart,
               Facts
  <2>4. PointsKnow'
        BY <2>k, <2>e, <1>e, <1>a, <1>p
           DEF PointsKnow, NamedLive, Clearing, Busy, LiveNamed, Owns, Live, Apart,
               Facts, Working, RecordsAnchored
  <2>5. SettledTruth'
        BY <2>k, <2>e, <1>e, <1>a, <1>p
           DEF SettledTruth, FailingMarked, PointsKnow, Settled, Failing, Busy, Live,
               Apart, Facts, Actors
  <2> QED BY <2>f, <2>1, <2>2, <2>3, <2>4, <2>5, <1>r DEF Exclusive
<1>16. ASSUME Restart PROVE Exclusive'
  <2>f. ~fault' BY <1>16 DEF Restart, Exclusive
  <2>k. pc["sup"] = "budget" /\ target["sup"] \in Names /\ "sup" \in Actors
        BY <1>a, <1>16 DEF Restart, Facts, Working, Actors
  <2>e. /\ \A d \in Actors : pc'[d] = IF d = "sup" THEN "check" ELSE pc[d]
        /\ state' = state /\ task' = task /\ life' = life
        /\ owner' = owner /\ target' = target /\ seen' = seen
        BY <2>k, <1>16, <1>p DEF Restart, Goto, records, tasks, control, ControlOK
  <2>1. LiveNamed'
        BY <2>k, <2>e, <1>e, <1>a, <1>p
           DEF LiveNamed, Live, Owns, PointsKnow, Apart, Facts, Working
  <2>2. FailingMarked'
        BY <2>k, <2>e, <1>e, <1>a, <1>p DEF FailingMarked, Apart, Live, Facts
  <2>3. NamedLive'
        BY <2>k, <2>e, <1>e, <1>a, <1>p
           DEF NamedLive, LiveNamed, Owns, Live, Clearing, Busy, PointsKnow, Apart,
               Facts
  <2>4. PointsKnow'
        BY <2>k, <2>e, <1>e, <1>a, <1>p
           DEF PointsKnow, NamedLive, Clearing, Busy, LiveNamed, Owns, Live, Apart,
               Facts, Working, RecordsAnchored
  <2>5. SettledTruth'
        BY <2>k, <2>e, <1>e, <1>a, <1>p
           DEF SettledTruth, FailingMarked, PointsKnow, Settled, Failing, Busy, Live,
               Apart, Facts, Actors
  <2> QED BY <2>f, <2>1, <2>2, <2>3, <2>4, <2>5, <1>r DEF Exclusive
<1>17. ASSUME Recheck PROVE Exclusive'
  <2>f. ~fault' BY <1>17 DEF Recheck, Exclusive
  <2>k. pc["sup"] = "check" /\ target["sup"] \in Names /\ "sup" \in Actors
        BY <1>a, <1>17 DEF Recheck, Facts, Working, Actors
  <2>g. pc' = [pc EXCEPT !["sup"] = "create"] /\ UNCHANGED <<target, seen>>
        BY <1>17, <2>k, <1>e DEF Recheck, Goto, PointsKnow
  <2>e. /\ \A d \in Actors : pc'[d] = IF d = "sup" THEN "create" ELSE pc[d]
        /\ state' = state /\ task' = task /\ life' = life
        /\ owner' = owner /\ target' = target /\ seen' = seen
        BY <1>17, <2>g, <1>p DEF Recheck, Return, Goto, records, tasks, control, ControlOK
  <2>1. LiveNamed'
        BY <2>k, <2>e, <1>e, <1>a, <1>p
           DEF LiveNamed, Live, Owns, PointsKnow, Apart, Facts, Working
  <2>2. FailingMarked'
        BY <2>k, <2>e, <1>e, <1>a, <1>p DEF FailingMarked, Apart, Live, Facts
  <2>3. NamedLive'
        BY <2>k, <2>e, <1>e, <1>a, <1>p
           DEF NamedLive, LiveNamed, Owns, Live, Clearing, Busy, PointsKnow, Apart,
               Facts
  <2>4. PointsKnow'
        BY <2>k, <2>e, <1>e, <1>a, <1>p
           DEF PointsKnow, NamedLive, Clearing, Busy, LiveNamed, Owns, Live, Apart,
               Facts, Working, RecordsAnchored
  <2>5. SettledTruth'
        BY <2>k, <2>e, <1>e, <1>a, <1>p
           DEF SettledTruth, FailingMarked, PointsKnow, Settled, Failing, Busy, Live,
               Apart, Facts, Actors
  <2> QED BY <2>f, <2>1, <2>2, <2>3, <2>4, <2>5, <1>r DEF Exclusive
<1>18. ASSUME NEW h \in Handles, Beat(h) PROVE Exclusive'
  <2>f. ~fault' BY <1>18 DEF Beat, Exclusive
  <2>k. life[h] = "work"
        BY <1>18 DEF Beat
  <2>e. /\ \A g \in Handles : life'[g] = IF g = h THEN "measure" ELSE life[g]
        /\ state' = state /\ task' = task /\ owner' = owner
        /\ pc' = pc /\ target' = target /\ seen' = seen
        BY <2>k, <1>18, <1>p DEF Beat, records, control, TasksOK
  <2>1. LiveNamed'
        BY <2>k, <2>e, <1>e, <1>a, <1>p
           DEF LiveNamed, Live, Owns, PointsKnow, Apart, Facts, Working
  <2>2. FailingMarked'
        BY <2>k, <2>e, <1>e, <1>a, <1>p DEF FailingMarked, Apart, Live, Facts
  <2>3. NamedLive'
        BY <2>k, <2>e, <1>e, <1>a, <1>p
           DEF NamedLive, LiveNamed, Owns, Live, Clearing, Busy, PointsKnow, Apart,
               Facts
  <2>4. PointsKnow'
        BY <2>k, <2>e, <1>e, <1>a, <1>p
           DEF PointsKnow, NamedLive, Clearing, Busy, LiveNamed, Owns, Live, Apart,
               Facts, Working, RecordsAnchored
  <2>5. SettledTruth'
        BY <2>k, <2>e, <1>e, <1>a, <1>p
           DEF SettledTruth, FailingMarked, PointsKnow, Settled, Failing, Busy, Live,
               Apart, Facts, Actors
  <2> QED BY <2>f, <2>1, <2>2, <2>3, <2>4, <2>5, <1>r DEF Exclusive
<1>24. ASSUME NEW h \in Handles, Pause(h) PROVE Exclusive'
  <2>f. ~fault' BY <1>24 DEF Pause, Exclusive
  <2>k. life[h] = "measure"
        BY <1>24 DEF Pause
  <2>e. /\ \A g \in Handles : life'[g] = IF g = h THEN "work" ELSE life[g]
        /\ state' = state /\ task' = task /\ owner' = owner
        /\ pc' = pc /\ target' = target /\ seen' = seen
        BY <2>k, <1>24, <1>p DEF Pause, records, control, TasksOK
  <2>1. LiveNamed'
        BY <2>k, <2>e, <1>e, <1>a, <1>p
           DEF LiveNamed, Live, Owns, PointsKnow, Apart, Facts, Working
  <2>2. FailingMarked'
        BY <2>k, <2>e, <1>e, <1>a, <1>p DEF FailingMarked, Apart, Live, Facts
  <2>3. NamedLive'
        BY <2>k, <2>e, <1>e, <1>a, <1>p
           DEF NamedLive, LiveNamed, Owns, Live, Clearing, Busy, PointsKnow, Apart,
               Facts
  <2>4. PointsKnow'
        BY <2>k, <2>e, <1>e, <1>a, <1>p
           DEF PointsKnow, NamedLive, Clearing, Busy, LiveNamed, Owns, Live, Apart,
               Facts, Working, RecordsAnchored
  <2>5. SettledTruth'
        BY <2>k, <2>e, <1>e, <1>a, <1>p
           DEF SettledTruth, FailingMarked, PointsKnow, Settled, Failing, Busy, Live,
               Apart, Facts, Actors
  <2> QED BY <2>f, <2>1, <2>2, <2>3, <2>4, <2>5, <1>r DEF Exclusive
<1>19. ASSUME NEW h \in Handles, StackLimit(h) PROVE Exclusive'
  <2>f. ~fault' BY <1>19 DEF StackLimit, Exclusive
  <2>k. life[h] = "measure" /\ owner[h] \in Names
        BY <1>a, <1>19 DEF StackLimit, Facts, Live
  <2>e. /\ \A b \in Names : state'[b] = IF b = owner[h] THEN "failed" ELSE state[b]
        /\ \A g \in Handles : life'[g] = IF g = h THEN "failing" ELSE life[g]
        /\ task' = task /\ owner' = owner /\ pc' = pc /\ target' = target /\ seen' = seen
        BY <2>k, <1>19, <1>p DEF StackLimit, records, tasks, control, RecordsOK, TasksOK
  <2>1. LiveNamed'
        BY <2>k, <2>e, <1>e, <1>a, <1>p
           DEF LiveNamed, Live, Owns, PointsKnow, Apart, Facts, Working
  <2>2. FailingMarked'
        BY <2>k, <2>e, <1>e, <1>a, <1>p DEF FailingMarked, Apart, Live, Facts
  <2>3. NamedLive'
        BY <2>k, <2>e, <1>e, <1>a, <1>p
           DEF NamedLive, LiveNamed, Owns, Live, Clearing, Busy, PointsKnow, Apart,
               Facts
  <2>4. PointsKnow'
        BY <2>k, <2>e, <1>e, <1>a, <1>p
           DEF PointsKnow, NamedLive, Clearing, Busy, LiveNamed, Owns, Live, Apart,
               Facts, Working, RecordsAnchored
  <2>5. SettledTruth'
        BY <2>k, <2>e, <1>e, <1>a, <1>p
           DEF SettledTruth, FailingMarked, PointsKnow, Settled, Failing, Busy, Live,
               Apart, Facts, Actors
  <2> QED BY <2>f, <2>1, <2>2, <2>3, <2>4, <2>5, <1>r DEF Exclusive
<1>20. ASSUME NEW h \in Handles, TaskClear(h) PROVE Exclusive'
  <2>f. ~fault' BY <1>20 DEF TaskClear, Exclusive
  <2>k. life[h] = "failing" /\ owner[h] \in Names
        BY <1>a, <1>20 DEF TaskClear, Facts, Live
  <2>e. /\ \A b \in Names : task'[b] = IF b = owner[h] THEN NoTask ELSE task[b]
        /\ \A g \in Handles : life'[g] = IF g = h THEN "dying" ELSE life[g]
        /\ state' = state /\ owner' = owner /\ pc' = pc /\ target' = target /\ seen' = seen
        BY <2>k, <1>20, <1>p DEF TaskClear, records, tasks, control, RecordsOK, TasksOK
  <2>1. LiveNamed'
        BY <2>k, <2>e, <1>e, <1>a, <1>p
           DEF LiveNamed, Live, Owns, PointsKnow, Apart, Facts, Working
  <2>2. FailingMarked'
        BY <2>k, <2>e, <1>e, <1>a, <1>p DEF FailingMarked, Apart, Live, Facts
  <2>3. NamedLive'
        BY <2>k, <2>e, <1>e, <1>a, <1>p
           DEF NamedLive, LiveNamed, Owns, Live, Clearing, Busy, PointsKnow, Apart,
               Facts
  <2>4. PointsKnow'
        BY <2>k, <2>e, <1>e, <1>a, <1>p
           DEF PointsKnow, NamedLive, Clearing, Busy, LiveNamed, Owns, Live, Apart,
               Facts, Working, RecordsAnchored
  <2>5. SettledTruth'
        BY <2>k, <2>e, <1>e, <1>a, <1>p
           DEF SettledTruth, FailingMarked, PointsKnow, Settled, Failing, Busy, Live,
               Apart, Facts, Actors
  <2> QED BY <2>f, <2>1, <2>2, <2>3, <2>4, <2>5, <1>r DEF Exclusive
<1>21. ASSUME NEW h \in Handles, TaskExit(h) PROVE Exclusive'
  <2>f. ~fault' BY <1>21 DEF TaskExit, Exclusive
  <2>k. life[h] = "dying"
        BY <1>21 DEF TaskExit
  <2>e. /\ \A g \in Handles : life'[g] = IF g = h THEN "dead" ELSE life[g]
        /\ state' = state /\ task' = task /\ owner' = owner
        /\ pc' = pc /\ target' = target /\ seen' = seen
        BY <2>k, <1>21, <1>p DEF TaskExit, records, tasks, control, TasksOK
  <2>1. LiveNamed'
        BY <2>k, <2>e, <1>e, <1>a, <1>p
           DEF LiveNamed, Live, Owns, PointsKnow, Apart, Facts, Working
  <2>2. FailingMarked'
        BY <2>k, <2>e, <1>e, <1>a, <1>p DEF FailingMarked, Apart, Live, Facts
  <2>3. NamedLive'
        BY <2>k, <2>e, <1>e, <1>a, <1>p
           DEF NamedLive, LiveNamed, Owns, Live, Clearing, Busy, PointsKnow, Apart,
               Facts
  <2>4. PointsKnow'
        BY <2>k, <2>e, <1>e, <1>a, <1>p
           DEF PointsKnow, NamedLive, Clearing, Busy, LiveNamed, Owns, Live, Apart,
               Facts, Working, RecordsAnchored
  <2>5. SettledTruth'
        BY <2>k, <2>e, <1>e, <1>a, <1>p
           DEF SettledTruth, FailingMarked, PointsKnow, Settled, Failing, Busy, Live,
               Apart, Facts, Actors
  <2> QED BY <2>f, <2>1, <2>2, <2>3, <2>4, <2>5, <1>r DEF Exclusive
<1> QED
  BY <1>1, <1>2, <1>3, <1>4, <1>5, <1>6, <1>7, <1>8, <1>9, <1>10, <1>11, <1>12, <1>13,
     <1>14, <1>15, <1>16, <1>17, <1>18, <1>19, <1>20, <1>21, <1>22, <1>23, <1>24
     DEF Next, SupStep, ShellStep, TaskStep, StartStep, Actors
-----------------------------------------------------------------------------
\* The invariant holds at the start and is kept by every step.
LEMMA IInvInit == Init => IInv
<1> SUFFICES ASSUME Init PROVE IInv OBVIOUS
<1>1. Shape BY ShapeInit
<1>2. RestartBudget
  <2>1. \A a \in Names : failure[a] = "none" /\ restartCount[a] = 0 BY DEF Init
  <2>2. 0 <= MaxRestarts BY BoundsAssumption
  <2> QED BY <2>1, <2>2 DEF RestartBudget
<1>3. ~Overlapping
      BY NamesAssumption DEF Init, Overlapping, Busy, Failing, Actors
<1>4. LiveNamed /\ FailingMarked /\ NamedLive /\ SettledTruth
      BY DEF Init, LiveNamed, FailingMarked, NamedLive, SettledTruth, Live
<1>5. PointsKnow BY DEF Init, PointsKnow, Actors, Working
<1>6. ~fault BY DEF Init
<1>7. ReadsHold BY DEF Init, ReadsHold, Crossing, Looking, Actors
<1> QED BY <1>1, <1>2, <1>3, <1>4, <1>5, <1>6, <1>7 DEF IInv, Exclusive

LEMMA IInvStep == IInv /\ [Next]_vars => IInv'
<1> SUFFICES ASSUME IInv, [Next]_vars PROVE IInv' OBVIOUS
<1>1. Shape /\ Shape' BY ShapeStep DEF IInv
<1>2. RestartBudget' BY <1>1, BudgetStep DEF IInv
<1>3. ASSUME Next, ~overlap' PROVE Exclusive'
  <2>1. ~overlap /\ ~Overlapping' /\ (target'["sup"] # NoApp => ~crossed)
        BY <1>3 DEF Next, Remember
  <2> QED BY <2>1, <1>1, <1>3, ExclusiveStep DEF IInv
<1>4. ASSUME UNCHANGED vars, ~overlap' PROVE Exclusive'
  <2>1. ~overlap /\ ~fault' /\ ~Overlapping'
        BY <1>4
           DEF vars, history, tasks, control, IInv, Exclusive, Overlapping, Busy, Failing
  <2>2. UNCHANGED <<state, task, life, owner, pc, target, seen>>
        BY <1>4 DEF vars, records, tasks, control
  <2>3. ReadsHold'
        BY <1>4, <2>1
           DEF vars, records, tasks, control, sweep, history, IInv, Exclusive, ReadsHold,
               Crossing, Looking, Busy, Failing
  <2> QED BY <2>1, <2>2, <2>3, LifecycleFrame DEF IInv, Exclusive
<1>5. overlap' \/ Exclusive' BY <1>3, <1>4
<1> QED BY <1>1, <1>2, <1>5 DEF IInv

THEOREM Inductive == Spec => []IInv
BY IInvInit, IInvStep, PTL DEF Spec

\* The records, tasks and actors always have the values the code's types and
\* labels allow.
THEOREM TypeCorrect == Spec => []TypeOK
<1>1. IInv => TypeOK BY DEF IInv, Shape
<1> QED BY <1>1, Inductive, PTL

\* For every restart budget: supervise() never restarts an app more often than
\* kMaximumRestarts, and reports "heartbeat timeout" only once it is spent,
\* under every interleaving and whatever the kernel was handed.
THEOREM RestartsBounded == Spec => []RestartBudget
<1>1. IInv => RestartBudget BY DEF IInv
<1> QED BY <1>1, Inductive, PTL

\* For every number of apps and control blocks: as long as no two parties have
\* worked on one record at once, every deletion hits a live task, no app has two
\* tasks, and "running" means exactly that the recorded task is alive.
THEOREM LifecycleCorrect == Spec => []SerialLifecycle
<1>1. ASSUME IInv PROVE SerialLifecycle
  <2> SUFFICES ASSUME ~overlap PROVE
          /\ ~fault /\ \A c \in Actors : pc[c] # "gone"
          /\ \A h, g \in Handles :
                 Live(h) /\ Live(g) /\ owner[h] = owner[g] => h = g
          /\ \A a \in Names :
                 Settled(a) => IF state[a] = "running" THEN Tasks(a) = {task[a]}
                                                       ELSE Tasks(a) = {}
      BY DEF SerialLifecycle
  <2>e. ~fault /\ LiveNamed /\ NamedLive /\ PointsKnow /\ SettledTruth /\ Facts
        BY <1>1, ShapeFacts DEF IInv, Exclusive
  <2>1. \A c \in Actors : pc[c] # "gone" BY <2>e DEF PointsKnow
  <2>2. \A h, g \in Handles : Live(h) /\ Live(g) /\ owner[h] = owner[g] => h = g
        BY <2>e DEF LiveNamed
  <2>3. ASSUME NEW a \in Names, Settled(a)
        PROVE  IF state[a] = "running" THEN Tasks(a) = {task[a]} ELSE Tasks(a) = {}
    <3>1. state[a] = "running" <=> task[a] # NoTask BY <2>3, <2>e DEF SettledTruth
    <3>2. ~Clearing(a) BY <2>3 DEF Settled, Clearing
    <3>3. \A h \in Tasks(a) : h \in Handles /\ task[a] = h BY <2>e DEF Tasks, LiveNamed
    <3>4. CASE state[a] = "running"
          BY <3>1, <3>2, <3>3, <3>4, <2>e DEF NamedLive, Owns, Tasks
    <3>5. CASE state[a] # "running"
          BY <3>1, <3>3, <3>5, <2>e DEF Facts
    <3> QED BY <3>4, <3>5
  <2> QED BY <2>e, <2>1, <2>2, <2>3
<1> QED BY <1>1, Inductive, PTL

\* Without overlap the supervisor restarts only records that are still running,
\* so a stopped or failed app comes back only through app-run.
THEOREM RunsOnlyByRequest == Spec => DownStaysDown
<1>1. IInv /\ [Next]_vars =>
        \A a \in Names :
           ~overlap /\ state[a] # "running" /\ state'[a] = "running" => Busy("shell", a)
  <2> SUFFICES ASSUME IInv, [Next]_vars, NEW a \in Names,
                      ~overlap, state[a] # "running", state'[a] = "running"
               PROVE  Busy("shell", a)
      OBVIOUS
  <2>1. /\ RecordsOK /\ PointsKnow /\ Facts
        BY ShapeFacts DEF IInv, Shape, TypeOK, Exclusive
  <2>2. PICK c \in Actors : Publish(c)
    <3>1. CASE UNCHANGED state BY <3>1
    <3>2. ASSUME NEW c \in Actors, CreateFails(c) PROVE FALSE
          BY <2>1, <3>2 DEF CreateFails, RecordsOK
    <3>3. CASE StopMark BY <2>1, <3>3 DEF StopMark, RecordsOK
    <3>4. CASE GiveUp BY <2>1, <3>4 DEF GiveUp, RecordsOK
    <3>5. ASSUME NEW h \in Handles, StackLimit(h) PROVE FALSE
          BY <2>1, <3>5 DEF StackLimit, RecordsOK
    <3>6. CASE UNCHANGED vars BY <3>1, <3>6 DEF vars, records
    <3>7. CASE \/ Tick \/ Wake \/ ReadState \/ ReadTask \/ ReadHeartbeat
               \/ Rest \/ Restart \/ Recheck
          BY <3>1, <3>7
             DEF Tick, Wake, ReadState, ReadTask, ReadHeartbeat, Rest, Restart,
                 Recheck, records
    <3>8. ASSUME NEW c \in Actors, Create(c) \/ FirstBeat(c) \/ Delete(c) \/ Clear(c)
          PROVE  FALSE
          BY <3>1, <3>8 DEF Create, FirstBeat, Delete, Clear, records
    <3>9. ASSUME NEW b \in Names, Run(b) \/ RunSigned(b) \/ Stop(b) PROVE FALSE
          BY <3>1, <3>9 DEF Run, RunSigned, Stop, records
    <3>10. ASSUME NEW h \in Handles, Beat(h) \/ Pause(h) \/ TaskClear(h) \/ TaskExit(h)
           PROVE  FALSE
          BY <3>1, <3>10 DEF Beat, Pause, TaskClear, TaskExit, records
    <3> QED BY <3>2, <3>3, <3>4, <3>5, <3>6, <3>7, <3>8, <3>9, <3>10
            DEF Next, SupStep, ShellStep, TaskStep, StartStep, Actors
  <2>3. target[c] = a /\ pc[c] = "publish"
        BY <2>1, <2>2 DEF Publish, RecordsOK
  <2>4. c # "sup" BY <2>1, <2>3 DEF PointsKnow, Working
  <2> QED BY <2>3, <2>4 DEF Busy, Actors
<1> QED BY <1>1, Inductive, PTL DEF Spec, DownStaysDown
=============================================================================
