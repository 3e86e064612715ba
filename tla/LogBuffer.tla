----------------------------- MODULE LogBuffer -----------------------------
(***************************************************************************)
(* The log ring behind the `logs` command                                  *)
(* (src/firmware/esp-idf/main/idf_log_buffer.cpp).  capture_vprintf() runs *)
(* in every task that logs, on both cores.  The ring is under a spin lock; *)
(* the flag `capturing`, meant to keep the hook from recursing, is tested  *)
(* and written outside of it.  A step is one access to shared state.       *)
(*                                                                         *)
(* App tasks log too and may be deleted at any moment, except while they   *)
(* hold the spin lock, which disables interrupts.                          *)
(***************************************************************************)
EXTENDS Integers, Sequences

CONSTANTS
    Threads,   \* the tasks that log
    Shell,     \* the one that also runs `logs`
    AppTasks,  \* those that app-stop and the supervisor may delete
    NoThread,  \* the spin lock is free
    Messages,  \* formatted messages, without their line ends
    Blank,     \* a message of line ends only
    NoMessage, \* a slot that was never written
    Capacity   \* kMaxEntries

ASSUME LogAssumption ==
    /\ Capacity \in Nat \ {0}
    /\ NoThread \notin Threads
    /\ Blank \notin Messages /\ NoMessage \notin Messages
    /\ AppTasks \subseteq Threads /\ Shell \in Threads

VARIABLES
    entries,    \* the ring's slots, from 0
    nextEntry,
    entryCount,
    lock,       \* the task inside the critical section
    capturing,
    at,         \* where each task is
    message,    \* capture_vprintf(): the task's formatted message
    shown       \* the lines of the last dump

ring == <<entries, nextEntry, entryCount>>
vars == <<ring, lock, capturing, at, message, shown>>

Slots == 0..(Capacity - 1)
Sentence == Messages \cup {Blank}

Init ==
    /\ entries = [i \in Slots |-> NoMessage]
    /\ nextEntry = 0 /\ entryCount = 0
    /\ lock = NoThread
    /\ capturing = FALSE
    /\ at = [t \in Threads |-> "idle"]
    /\ message = [t \in Threads |-> Blank]
    /\ shown = << >>

Goto(t, label) == at' = [at EXCEPT ![t] = label]
Return(t) == Goto(t, "idle") /\ message' = [message EXCEPT ![t] = Blank]

-----------------------------------------------------------------------------
(* capture_vprintf()                                                       *)

Log(t) ==
    /\ at[t] = "idle"
    /\ \E m \in Sentence : message' = [message EXCEPT ![t] = m]
    /\ Goto(t, "test")
    /\ UNCHANGED <<ring, lock, capturing, shown>>

\* The message goes to the previous hook only: the ring misses it.
Skip(t) ==
    /\ at[t] = "test" /\ capturing
    /\ Return(t)
    /\ UNCHANGED <<ring, lock, capturing, shown>>

Test(t) ==
    /\ at[t] = "test" /\ ~capturing
    /\ Goto(t, "mark")
    /\ UNCHANGED <<ring, lock, capturing, message, shown>>

Mark(t) ==
    /\ at[t] = "mark"
    /\ capturing' = TRUE
    /\ Goto(t, "enter")
    /\ UNCHANGED <<ring, lock, message, shown>>

\* Variant: the ring is written without the spin lock.
Enter_Unlocked(t) ==
    /\ at[t] = "enter"
    /\ lock' = t
    /\ Goto(t, "store")
    /\ UNCHANGED <<ring, capturing, message, shown>>

Enter(t) ==
    /\ at[t] = "enter" /\ lock = NoThread
    /\ lock' = t
    /\ Goto(t, "store")
    /\ UNCHANGED <<ring, capturing, message, shown>>

Store(t) ==
    /\ at[t] = "store"
    /\ message[t] # Blank
    /\ entries' = [entries EXCEPT ![nextEntry] = message[t]]
    /\ Goto(t, "advance")
    /\ UNCHANGED <<nextEntry, entryCount, lock, capturing, message, shown>>

StoreNothing(t) ==
    /\ at[t] = "store"
    /\ message[t] = Blank
    /\ Goto(t, "leave")
    /\ UNCHANGED <<ring, lock, capturing, message, shown>>

Grown(count) == IF count < Capacity THEN count + 1 ELSE count

\* Variant: the index is not wrapped.
Advance_Unwrapped(t) ==
    /\ at[t] = "advance"
    /\ nextEntry' = nextEntry + 1
    /\ entryCount' = Grown(entryCount)
    /\ Goto(t, "leave")
    /\ UNCHANGED <<entries, lock, capturing, message, shown>>

\* Variant: the count stops one short of the capacity.
Advance_OneShort(t) ==
    /\ at[t] = "advance"
    /\ nextEntry' = (nextEntry + 1) % Capacity
    /\ entryCount' = IF entryCount < Capacity - 1 THEN entryCount + 1 ELSE entryCount
    /\ Goto(t, "leave")
    /\ UNCHANGED <<entries, lock, capturing, message, shown>>

Advance(t) ==
    /\ at[t] = "advance"
    /\ nextEntry' = (nextEntry + 1) % Capacity
    /\ entryCount' = Grown(entryCount)
    /\ Goto(t, "leave")
    /\ UNCHANGED <<entries, lock, capturing, message, shown>>

Leave(t) ==
    /\ at[t] = "leave"
    /\ lock' = NoThread
    /\ Goto(t, "unmark")
    /\ UNCHANGED <<ring, capturing, message, shown>>

\* Variant: `capturing` is not reset.
Unmark_Forgotten(t) ==
    /\ at[t] = "unmark"
    /\ Return(t)
    /\ UNCHANGED <<ring, lock, capturing, shown>>

Unmark(t) ==
    /\ at[t] = "unmark"
    /\ capturing' = FALSE
    /\ Return(t)
    /\ UNCHANGED <<ring, lock, shown>>

-----------------------------------------------------------------------------
(* log_dump(), run by the shell task                                       *)

DumpEnter ==
    /\ at[Shell] = "idle" /\ lock = NoThread
    /\ lock' = Shell
    /\ Goto(Shell, "copy")
    /\ UNCHANGED <<ring, capturing, message, shown>>

First(next, count) == (next + Capacity - count) % Capacity
Window(slots, next, count) ==
    [i \in 1..count |-> slots[(First(next, count) + i - 1) % Capacity]]

Copy ==
    /\ at[Shell] = "copy"
    /\ shown' = Window(entries, nextEntry, entryCount)
    /\ lock' = NoThread
    /\ Goto(Shell, "idle")
    /\ UNCHANGED <<ring, capturing, message>>

-----------------------------------------------------------------------------
\* vTaskDelete of an app task; the next task of that app takes its place.
Deleted(t) ==
    /\ at[t] # "idle" /\ lock # t
    /\ Return(t)
    /\ UNCHANGED <<ring, lock, capturing, shown>>

CaptureStep(t) ==
    \/ Log(t) \/ Skip(t) \/ Test(t) \/ Mark(t) \/ Enter(t) \/ Store(t)
    \/ StoreNothing(t) \/ Advance(t) \/ Leave(t) \/ Unmark(t)

Next ==
    \/ \E t \in Threads : CaptureStep(t)
    \/ DumpEnter \/ Copy
    \/ \E t \in AppTasks : Deleted(t)

Spec == Init /\ [][Next]_vars

-----------------------------------------------------------------------------
(* Properties                                                              *)

Critical == {"store", "advance", "leave", "copy"}
Section == {"enter", "store", "advance", "leave", "unmark"}

RingOK ==
    /\ entries \in [Slots -> Messages \cup {NoMessage}]
    /\ nextEntry \in Slots
    /\ entryCount \in 0..Capacity
TasksOK ==
    /\ lock \in Threads \cup {NoThread}
    /\ at \in [Threads -> {"idle", "test", "mark"} \cup Section \cup Critical]
    /\ message \in [Threads -> Sentence]
TypeOK == RingOK /\ TasksOK /\ capturing \in BOOLEAN /\ shown \in Seq(Messages)

\* The ring as a reader would find it once the writer inside, if any, is done.
Storing == \E t \in Threads : at[t] = "advance"
Kept == IF Storing
        THEN Window(entries, (nextEntry + 1) % Capacity, Grown(entryCount))
        ELSE Window(entries, nextEntry, entryCount)

\* However many tasks are past the unlocked test, the ring holds the last
\* Capacity messages in the order in which they were stored, and a dump shows
\* one instant of it.
Ring == INSTANCE LogRing WITH kept <- Kept
KeepsTheLast == Ring!Spec

\* A task is inside the critical section exactly when it owns the lock, however
\* many passed the unlocked test, and every slot a dump would read was written.
Owned == \A t \in Threads : at[t] \in Critical <=> lock = t
Guarded == Owned /\ Kept \in Seq(Messages)

\* While `capturing` refuses messages, some task is still capturing one
\* ("copied into a bounded, thread-safe in-memory ring").
CaptureHeld == capturing => \E t \in Threads : at[t] \in Section
=============================================================================
