-------------------------- MODULE LogBufferProofs --------------------------
(***************************************************************************)
(* Proofs about LogBuffer, for every number of tasks, every capacity and   *)
(* every set of app tasks that may be deleted.                             *)
(***************************************************************************)
EXTENDS LogBuffer, TLAPS

\* The arithmetic of the ring index.
LEMMA FirstWhileFilling ==
    ASSUME Capacity \in Nat \ {0}, NEW n \in Slots, NEW c \in 0..(Capacity - 1)
    PROVE  First((n + 1) % Capacity, c + 1) = First(n, c)
<1>1. CASE n + 1 < Capacity BY <1>1 DEF First, Slots
<1>2. CASE n + 1 = Capacity BY <1>2 DEF First, Slots
<1> QED BY <1>1, <1>2 DEF Slots

LEMMA FillingSlots ==
    ASSUME Capacity \in Nat \ {0}, NEW n \in Slots, NEW c \in 0..(Capacity - 1)
    PROVE  /\ (First(n, c) + c) % Capacity = n
           /\ \A i \in 1..c : (First(n, c) + i - 1) % Capacity \in Slots \ {n}
<1>1. CASE n < c BY <1>1 DEF First, Slots
<1>2. CASE n >= c BY <1>2 DEF First, Slots
<1> QED BY <1>1, <1>2 DEF Slots

LEMMA FullSlots ==
    ASSUME Capacity \in Nat \ {0}, NEW n \in Slots
    PROVE  /\ First(n, Capacity) = n
           /\ (First((n + 1) % Capacity, Capacity) + Capacity - 1) % Capacity = n
           /\ \A i \in 1..(Capacity - 1) :
                  /\ (First((n + 1) % Capacity, Capacity) + i - 1) % Capacity
                         = (n + i) % Capacity
                  /\ (n + i) % Capacity \in Slots \ {n}
<1>1. CASE n + 1 < Capacity BY <1>1 DEF First, Slots
<1>2. CASE n + 1 = Capacity BY <1>2 DEF First, Slots
<1> QED BY <1>1, <1>2 DEF Slots

LEMMA FullWrap ==
    ASSUME Capacity \in Nat \ {0}, NEW n \in Slots, NEW d, d = Capacity,
           NEW i \in 1..(Capacity - 1)
    PROVE  /\ (First((n + 1) % Capacity, d) + i - 1) % Capacity = (n + i) % Capacity
           /\ (n + i) % Capacity \in Slots \ {n}
BY FullSlots

-----------------------------------------------------------------------------
\* A function on 1..n with values in S is a sequence of length n.
LEMMA WindowSeq ==
    ASSUME NEW S, NEW n \in Nat, NEW f \in [1..n -> S]
    PROVE  f \in Seq(S) /\ Len(f) = n
OBVIOUS

\* An element of a sequence over S is in S.
LEMMA SeqElement ==
    ASSUME NEW S, NEW s \in Seq(S) PROVE \A i \in 1..Len(s) : s[i] \in S
OBVIOUS

\* Two sequences of one length with the same elements are equal.
LEMMA SeqEqual ==
    ASSUME NEW S, NEW s \in Seq(S), NEW u \in Seq(S), Len(s) = Len(u),
           \A i \in 1..Len(s) : s[i] = u[i]
    PROVE  s = u
OBVIOUS

\* What appending does to the elements and to the length.
LEMMA AppendAt ==
    ASSUME NEW S, NEW s \in Seq(S), NEW m \in S
    PROVE  /\ Append(s, m) \in Seq(S) /\ Len(Append(s, m)) = Len(s) + 1
           /\ Append(s, m)[Len(s) + 1] = m
           /\ \A i \in 1..Len(s) : Append(s, m)[i] = s[i]
OBVIOUS

\* Storing a message in the slot nextEntry and moving on pushes it on the window.
LEMMA StorePushes ==
    ASSUME Capacity \in Nat \ {0}, NEW n \in Slots, NEW c \in 0..Capacity,
           NEW e, NEW f, NEW m \in Messages,
           \A s \in Slots : f[s] = IF s = n THEN m ELSE e[s],
           Window(e, n, c) \in Seq(Messages)
    PROVE  LET w == Window(f, (n + 1) % Capacity, Grown(c))
           IN  w = Ring!Push(Window(e, n, c), m) /\ w \in Seq(Messages)
<1> DEFINE old == Window(e, n, c)
           d == Grown(c)
           w == Window(f, (n + 1) % Capacity, d)
<1>0. d \in 0..Capacity /\ (n + 1) % Capacity \in Slots
      BY DEF Grown, Slots
<1>s. /\ DOMAIN w = 1..d
      /\ \A i \in 1..d : w[i] = f[(First((n + 1) % Capacity, d) + i - 1) % Capacity]
      BY <1>0 DEF Window
<1>o. /\ DOMAIN old = 1..c
      /\ \A i \in 1..c : old[i] = e[(First(n, c) + i - 1) % Capacity]
      BY DEF Window
<1>f. w = [i \in 1..d |-> w[i]] BY <1>s DEF Window
<1>1. old \in Seq(Messages) /\ Len(old) = c
      BY <1>o
<1>2. \A s \in Slots : f[s] = IF s = n THEN m ELSE e[s]
      OBVIOUS
<1> HIDE DEF w, d, old
<1>3. CASE c < Capacity
  <2>1. d = c + 1 /\ c \in 0..(Capacity - 1) BY <1>3 DEF d, Grown
  <2>2. First((n + 1) % Capacity, d) = First(n, c) BY <2>1, FirstWhileFilling
  <2>3. w[d] = m
        BY <1>2, <1>s, <2>1, <2>2, FillingSlots
  <2>4. \A i \in 1..c : w[i] = old[i]
        BY <1>2, <1>s, <2>1, <2>2, FillingSlots, <1>o
  <2>5. /\ Append(old, m) \in Seq(Messages) /\ Len(Append(old, m)) = d
        /\ Append(old, m)[d] = m /\ \A i \in 1..c : Append(old, m)[i] = old[i]
        BY <1>1, <2>1, AppendAt
  <2>6. \A i \in 1..d : w[i] = Append(old, m)[i]
    <3> SUFFICES ASSUME NEW i \in 1..d PROVE w[i] = Append(old, m)[i] OBVIOUS
    <3>1. i = d \/ i \in 1..c BY <2>1
    <3> QED BY <3>1, <2>3, <2>4, <2>5
  <2>e. \A i \in 1..d : w[i] \in Messages BY <2>5, <2>6, SeqElement
  <2>d. w \in [1..d -> Messages] BY <1>f, <2>e
  <2>7. w \in Seq(Messages) /\ Len(w) = d
        BY <2>1, <2>d, WindowSeq
  <2>8. w = Append(old, m) BY <2>5, <2>6, <2>7, SeqEqual
  <2> QED BY <1>1, <1>3, <2>7, <2>8 DEF Ring!Push, w, d, old
<1>4. CASE c = Capacity
  <2>1. d = Capacity BY <1>4 DEF d, Grown
  <2>2. First(n, c) = n BY <1>4, FullSlots
  <2>n. (First((n + 1) % Capacity, d) + d - 1) % Capacity = n
        BY <2>1, FullSlots
  <2>3. w[d] = m
    <3>1. d \in 1..d BY <2>1
    <3> QED BY <3>1, <2>n, <1>2, <1>s
  <2>4. \A i \in 1..(Capacity - 1) : w[i] = e[(n + i) % Capacity]
    <3> SUFFICES ASSUME NEW i \in 1..(Capacity - 1)
                 PROVE  w[i] = e[(n + i) % Capacity]
        OBVIOUS
    <3>1. /\ (First((n + 1) % Capacity, d) + i - 1) % Capacity = (n + i) % Capacity
          /\ (n + i) % Capacity \in Slots \ {n}
          BY <2>1, FullWrap
    <3>2. i \in 1..d BY <2>1
    <3>3. w[i] = f[(First((n + 1) % Capacity, d) + i - 1) % Capacity] BY <1>s, <3>2
    <3>4. w[i] = f[(n + i) % Capacity] BY <3>1, <3>3
    <3> QED BY <1>2, <3>1, <3>4
  <2>5. \A i \in 1..(Capacity - 1) : old[i + 1] = e[(n + i) % Capacity]
        BY <1>4, <2>2, <1>o
  <2>6. Tail(old) \in Seq(Messages) /\ Len(Tail(old)) = Capacity - 1
        BY <1>1, <1>4
  <2>7. \A i \in 1..(Capacity - 1) : Tail(old)[i] = old[i + 1]
        BY <1>1, <1>4
  <2>8. /\ Append(Tail(old), m) \in Seq(Messages) /\ Len(Append(Tail(old), m)) = d
        /\ Append(Tail(old), m)[d] = m
        /\ \A i \in 1..(Capacity - 1) : Append(Tail(old), m)[i] = Tail(old)[i]
        BY <2>1, <2>6, AppendAt
  <2>9. \A i \in 1..d : w[i] = Append(Tail(old), m)[i]
    <3> SUFFICES ASSUME NEW i \in 1..d PROVE w[i] = Append(Tail(old), m)[i] OBVIOUS
    <3>1. i = d \/ i \in 1..(Capacity - 1) BY <2>1
    <3> QED BY <3>1, <2>3, <2>4, <2>5, <2>7, <2>8
  <2>e. \A i \in 1..d : w[i] \in Messages BY <2>8, <2>9, SeqElement
  <2>d. w \in [1..d -> Messages] BY <1>f, <2>e
  <2>10. w \in Seq(Messages) /\ Len(w) = d BY <2>1, <2>d, WindowSeq
  <2>11. w = Append(Tail(old), m) BY <2>8, <2>9, <2>10, SeqEqual
  <2>12. ~(Len(old) < Capacity) BY <1>1, <1>4
  <2> QED BY <2>10, <2>11, <2>12 DEF Ring!Push, w, d, old
<1> QED BY <1>3, <1>4 DEF w, d, old

-----------------------------------------------------------------------------
\* Only one task at a time is between its store and its index update.
LEMMA OneWriter ==
    ASSUME Owned, NEW t \in Threads, NEW u \in Threads,
           at[t] \in Critical, at[u] \in Critical
    PROVE  t = u
BY DEF Owned

\* The kept messages change only with the ring or with the writer's progress.
LEMMA KeptFrame ==
    ASSUME UNCHANGED ring, Storing' <=> Storing PROVE Kept' = Kept
BY DEF Kept, ring, Window, First

LEMMA InvInit == Init => TypeOK /\ Guarded
<1> SUFFICES ASSUME Init PROVE TypeOK /\ Guarded OBVIOUS
<1> USE LogAssumption DEF Init
<1>1. RingOK BY DEF RingOK, Slots
<1>2. TasksOK BY DEF TasksOK, Sentence
<1>2a. capturing \in BOOLEAN OBVIOUS
<1>2b. shown \in Seq(Messages)
  <2>1. shown = << >> OBVIOUS
  <2> QED BY ONLY <2>1
<1>3. capturing \in BOOLEAN /\ shown \in Seq(Messages) BY <1>2a, <1>2b
<1>4. Owned BY DEF Owned, Critical
<1>5. ~Storing BY DEF Storing
<1>6. Kept = [i \in 1..0 |-> entries[(First(0, 0) + i - 1) % Capacity]]
      BY <1>5 DEF Kept, Window
<1>7. Kept \in [1..0 -> Messages] BY <1>6
<1>8. Kept \in Seq(Messages) BY <1>7, WindowSeq
<1> QED BY <1>1, <1>2, <1>3, <1>4, <1>8 DEF TypeOK, Guarded

\* Every step keeps the invariant, and is a step of LogRing or changes neither
\* the kept messages nor the shown ones.
LEMMA InvStep ==
    TypeOK /\ Guarded /\ [Next]_vars =>
        TypeOK' /\ Guarded' /\ [Ring!Next]_<<Kept, shown>>
<1> SUFFICES ASSUME TypeOK, Guarded, [Next]_vars
             PROVE  TypeOK' /\ Guarded' /\ [Ring!Next]_<<Kept, shown>>
    OBVIOUS
<1> USE LogAssumption
<1>p. /\ RingOK /\ TasksOK /\ capturing \in BOOLEAN /\ shown \in Seq(Messages)
      /\ Owned /\ Kept \in Seq(Messages)
      BY DEF TypeOK, Guarded
<1>q. ASSUME RingOK', TasksOK', capturing' \in BOOLEAN, Owned', shown' = shown, Kept' = Kept
      PROVE  TypeOK' /\ Guarded' /\ [Ring!Next]_<<Kept, shown>>
      BY <1>p, <1>q DEF TypeOK, Guarded
<1>1. ASSUME NEW t \in Threads, Log(t) PROVE TypeOK' /\ Guarded' /\ [Ring!Next]_<<Kept, shown>>
  <2>1. RingOK' /\ capturing' \in BOOLEAN /\ shown' = shown
        BY <1>p, <1>1 DEF Log, ring, RingOK
  <2>2. \A u \in Threads : at'[u] = IF u = t THEN "test" ELSE at[u]
        BY <1>p, <1>1 DEF Log, Goto, Return, TasksOK
  <2>3. TasksOK'
        BY <1>p, <1>1 DEF Log, Goto, Return, TasksOK, Sentence, Section, Critical
  <2>4. Owned'
        BY <1>p, <1>1, <2>2 DEF Log, Owned, Critical, TasksOK
  <2>5. Storing' <=> Storing
        BY <1>p, <1>1, <2>2 DEF Log, Storing, Owned, Critical
  <2>6. Kept' = Kept BY <1>1, <2>5, KeptFrame DEF Log
  <2> QED BY <2>1, <2>3, <2>4, <2>6, <1>q
<1>2. ASSUME NEW t \in Threads, Skip(t) PROVE TypeOK' /\ Guarded' /\ [Ring!Next]_<<Kept, shown>>
  <2>1. RingOK' /\ capturing' \in BOOLEAN /\ shown' = shown
        BY <1>p, <1>2 DEF Skip, ring, RingOK
  <2>2. \A u \in Threads : at'[u] = IF u = t THEN "idle" ELSE at[u]
        BY <1>p, <1>2 DEF Skip, Goto, Return, TasksOK
  <2>3. TasksOK'
        BY <1>p, <1>2 DEF Skip, Goto, Return, TasksOK, Sentence, Section, Critical
  <2>4. Owned'
        BY <1>p, <1>2, <2>2 DEF Skip, Owned, Critical, TasksOK
  <2>5. Storing' <=> Storing
        BY <1>p, <1>2, <2>2 DEF Skip, Storing, Owned, Critical
  <2>6. Kept' = Kept BY <1>2, <2>5, KeptFrame DEF Skip
  <2> QED BY <2>1, <2>3, <2>4, <2>6, <1>q
<1>3. ASSUME NEW t \in Threads, Test(t) PROVE TypeOK' /\ Guarded' /\ [Ring!Next]_<<Kept, shown>>
  <2>1. RingOK' /\ capturing' \in BOOLEAN /\ shown' = shown
        BY <1>p, <1>3 DEF Test, ring, RingOK
  <2>2. \A u \in Threads : at'[u] = IF u = t THEN "mark" ELSE at[u]
        BY <1>p, <1>3 DEF Test, Goto, Return, TasksOK
  <2>3. TasksOK'
        BY <1>p, <1>3 DEF Test, Goto, Return, TasksOK, Sentence, Section, Critical
  <2>4. Owned'
        BY <1>p, <1>3, <2>2 DEF Test, Owned, Critical, TasksOK
  <2>5. Storing' <=> Storing
        BY <1>p, <1>3, <2>2 DEF Test, Storing, Owned, Critical
  <2>6. Kept' = Kept BY <1>3, <2>5, KeptFrame DEF Test
  <2> QED BY <2>1, <2>3, <2>4, <2>6, <1>q
<1>4. ASSUME NEW t \in Threads, Mark(t) PROVE TypeOK' /\ Guarded' /\ [Ring!Next]_<<Kept, shown>>
  <2>1. RingOK' /\ capturing' \in BOOLEAN /\ shown' = shown
        BY <1>p, <1>4 DEF Mark, ring, RingOK
  <2>2. \A u \in Threads : at'[u] = IF u = t THEN "enter" ELSE at[u]
        BY <1>p, <1>4 DEF Mark, Goto, Return, TasksOK
  <2>3. TasksOK'
        BY <1>p, <1>4 DEF Mark, Goto, Return, TasksOK, Sentence, Section, Critical
  <2>4. Owned'
        BY <1>p, <1>4, <2>2 DEF Mark, Owned, Critical, TasksOK
  <2>5. Storing' <=> Storing
        BY <1>p, <1>4, <2>2 DEF Mark, Storing, Owned, Critical
  <2>6. Kept' = Kept BY <1>4, <2>5, KeptFrame DEF Mark
  <2> QED BY <2>1, <2>3, <2>4, <2>6, <1>q
<1>5. ASSUME NEW t \in Threads, Enter(t) PROVE TypeOK' /\ Guarded' /\ [Ring!Next]_<<Kept, shown>>
  <2>1. RingOK' /\ capturing' \in BOOLEAN /\ shown' = shown
        BY <1>p, <1>5 DEF Enter, ring, RingOK
  <2>2. \A u \in Threads : at'[u] = IF u = t THEN "store" ELSE at[u]
        BY <1>p, <1>5 DEF Enter, Goto, Return, TasksOK
  <2>3. TasksOK'
        BY <1>p, <1>5 DEF Enter, Goto, Return, TasksOK, Sentence, Section, Critical
  <2>4. Owned'
        BY <1>p, <1>5, <2>2 DEF Enter, Owned, Critical, TasksOK
  <2>5. Storing' <=> Storing
        BY <1>p, <1>5, <2>2 DEF Enter, Storing, Owned, Critical
  <2>6. Kept' = Kept BY <1>5, <2>5, KeptFrame DEF Enter
  <2> QED BY <2>1, <2>3, <2>4, <2>6, <1>q
<1>6. ASSUME NEW t \in Threads, StoreNothing(t)
      PROVE TypeOK' /\ Guarded' /\ [Ring!Next]_<<Kept, shown>>
  <2>1. RingOK' /\ capturing' \in BOOLEAN /\ shown' = shown
        BY <1>p, <1>6 DEF StoreNothing, ring, RingOK
  <2>2. \A u \in Threads : at'[u] = IF u = t THEN "leave" ELSE at[u]
        BY <1>p, <1>6 DEF StoreNothing, Goto, Return, TasksOK
  <2>3. TasksOK'
        BY <1>p, <1>6 DEF StoreNothing, Goto, Return, TasksOK, Sentence, Section, Critical
  <2>4. Owned'
        BY <1>p, <1>6, <2>2 DEF StoreNothing, Owned, Critical, TasksOK
  <2>5. Storing' <=> Storing
        BY <1>p, <1>6, <2>2 DEF StoreNothing, Storing, Owned, Critical
  <2>6. Kept' = Kept BY <1>6, <2>5, KeptFrame DEF StoreNothing
  <2> QED BY <2>1, <2>3, <2>4, <2>6, <1>q
<1>7. ASSUME NEW t \in Threads, Leave(t) PROVE TypeOK' /\ Guarded' /\ [Ring!Next]_<<Kept, shown>>
  <2>1. RingOK' /\ capturing' \in BOOLEAN /\ shown' = shown
        BY <1>p, <1>7 DEF Leave, ring, RingOK
  <2>2. \A u \in Threads : at'[u] = IF u = t THEN "unmark" ELSE at[u]
        BY <1>p, <1>7 DEF Leave, Goto, Return, TasksOK
  <2>3. TasksOK'
        BY <1>p, <1>7 DEF Leave, Goto, Return, TasksOK, Sentence, Section, Critical
  <2>4. Owned'
        BY <1>p, <1>7, <2>2 DEF Leave, Owned, Critical, TasksOK
  <2>5. Storing' <=> Storing
        BY <1>p, <1>7, <2>2 DEF Leave, Storing, Owned, Critical
  <2>6. Kept' = Kept BY <1>7, <2>5, KeptFrame DEF Leave
  <2> QED BY <2>1, <2>3, <2>4, <2>6, <1>q
<1>8. ASSUME NEW t \in Threads, Unmark(t) PROVE TypeOK' /\ Guarded' /\ [Ring!Next]_<<Kept, shown>>
  <2>1. RingOK' /\ capturing' \in BOOLEAN /\ shown' = shown
        BY <1>p, <1>8 DEF Unmark, ring, RingOK
  <2>2. \A u \in Threads : at'[u] = IF u = t THEN "idle" ELSE at[u]
        BY <1>p, <1>8 DEF Unmark, Goto, Return, TasksOK
  <2>3. TasksOK'
        BY <1>p, <1>8 DEF Unmark, Goto, Return, TasksOK, Sentence, Section, Critical
  <2>4. Owned'
        BY <1>p, <1>8, <2>2 DEF Unmark, Owned, Critical, TasksOK
  <2>5. Storing' <=> Storing
        BY <1>p, <1>8, <2>2 DEF Unmark, Storing, Owned, Critical
  <2>6. Kept' = Kept BY <1>8, <2>5, KeptFrame DEF Unmark
  <2> QED BY <2>1, <2>3, <2>4, <2>6, <1>q
<1>9. ASSUME DumpEnter PROVE TypeOK' /\ Guarded' /\ [Ring!Next]_<<Kept, shown>>
  <2>1. RingOK' /\ capturing' \in BOOLEAN /\ shown' = shown
        BY <1>p, <1>9 DEF DumpEnter, ring, RingOK
  <2>2. \A u \in Threads : at'[u] = IF u = Shell THEN "copy" ELSE at[u]
        BY <1>p, <1>9 DEF DumpEnter, Goto, Return, TasksOK
  <2>3. TasksOK'
        BY <1>p, <1>9 DEF DumpEnter, Goto, Return, TasksOK, Sentence, Section, Critical
  <2>4. Owned'
        BY <1>p, <1>9, <2>2 DEF DumpEnter, Owned, Critical, TasksOK
  <2>5. Storing' <=> Storing
        BY <1>p, <1>9, <2>2 DEF DumpEnter, Storing, Owned, Critical
  <2>6. Kept' = Kept BY <1>9, <2>5, KeptFrame DEF DumpEnter
  <2> QED BY <2>1, <2>3, <2>4, <2>6, <1>q
<1>10. ASSUME NEW t \in AppTasks, Deleted(t)
      PROVE TypeOK' /\ Guarded' /\ [Ring!Next]_<<Kept, shown>>
  <2>1. RingOK' /\ capturing' \in BOOLEAN /\ shown' = shown
        BY <1>p, <1>10 DEF Deleted, ring, RingOK
  <2>2. \A u \in Threads : at'[u] = IF u = t THEN "idle" ELSE at[u]
        BY <1>p, <1>10 DEF Deleted, Goto, Return, TasksOK
  <2>3. TasksOK'
        BY <1>p, <1>10 DEF Deleted, Goto, Return, TasksOK, Sentence, Section, Critical
  <2>4. Owned'
        BY <1>p, <1>10, <2>2 DEF Deleted, Owned, Critical, TasksOK
  <2>5. Storing' <=> Storing
        BY <1>p, <1>10, <2>2 DEF Deleted, Storing, Owned, Critical
  <2>6. Kept' = Kept BY <1>10, <2>5, KeptFrame DEF Deleted
  <2> QED BY <2>1, <2>3, <2>4, <2>6, <1>q
<1>11. ASSUME NEW t \in Threads, Store(t)
       PROVE  TypeOK' /\ Guarded' /\ [Ring!Next]_<<Kept, shown>>
  <2>m. message[t] \in Messages
        BY <1>p, <1>11 DEF Store, TasksOK, Sentence
  <2>1. entries' = [entries EXCEPT ![nextEntry] = message[t]]
        /\ nextEntry' = nextEntry /\ entryCount' = entryCount
        BY <1>11 DEF Store
  <2>2. RingOK' /\ capturing' \in BOOLEAN /\ shown' = shown
        BY <1>p, <1>11, <2>m DEF Store, RingOK
  <2>3. \A u \in Threads : at'[u] = IF u = t THEN "advance" ELSE at[u]
        BY <1>p, <1>11 DEF Store, Goto, TasksOK
  <2>4. TasksOK'
        BY <1>p, <1>11 DEF Store, Goto, TasksOK, Section, Critical
  <2>5. Owned'
        BY <1>p, <1>11, <2>3 DEF Store, Owned, Critical
  <2>6. ~Storing
        BY <1>p, <1>11 DEF Store, Storing, Owned, Critical
  <2>7. Storing' BY <2>3 DEF Storing
  <2>8. Kept' = Window(entries', (nextEntry + 1) % Capacity, Grown(entryCount))
        BY <2>1, <2>7 DEF Kept, Grown, Window, First
  <2>9. Kept = Window(entries, nextEntry, entryCount) BY <2>6 DEF Kept
  <2>10. Kept' = Ring!Push(Kept, message[t]) /\ Kept' \in Seq(Messages)
    <3>1. nextEntry \in Slots /\ entryCount \in 0..Capacity BY <1>p DEF RingOK
    <3>2. \A s \in Slots : entries'[s] = IF s = nextEntry THEN message[t] ELSE entries[s]
          BY <1>p, <2>1 DEF RingOK
    <3>3. Window(entries, nextEntry, entryCount) \in Seq(Messages) BY <1>p, <2>9
    <3> QED BY <2>m, <2>8, <2>9, <3>1, <3>2, <3>3, StorePushes
  <2>11. Ring!Capture BY <2>m, <2>2, <2>10 DEF Ring!Capture
  <2> QED BY <1>p, <2>2, <2>4, <2>5, <2>10, <2>11 DEF TypeOK, Guarded, Ring!Next
<1>12. ASSUME NEW t \in Threads, Advance(t)
       PROVE  TypeOK' /\ Guarded' /\ [Ring!Next]_<<Kept, shown>>
  <2>1. RingOK' /\ capturing' \in BOOLEAN /\ shown' = shown
        BY <1>p, <1>12 DEF Advance, Grown, RingOK, Slots
  <2>2. \A u \in Threads : at'[u] = IF u = t THEN "leave" ELSE at[u]
        BY <1>p, <1>12 DEF Advance, Goto, TasksOK
  <2>3. TasksOK'
        BY <1>p, <1>12 DEF Advance, Goto, TasksOK, Section, Critical
  <2>4. Owned'
        BY <1>p, <1>12, <2>2 DEF Advance, Owned, Critical
  <2>5. Storing BY <1>12 DEF Advance, Storing
  <2>6. ~Storing'
        BY <1>p, <1>12, <2>2, OneWriter DEF Advance, Storing, Critical
  <2>7. Kept' = Kept
        BY <1>12, <2>5, <2>6 DEF Advance, Kept, Window, First
  <2> QED BY <2>1, <2>3, <2>4, <2>7, <1>q
<1>13. ASSUME Copy PROVE TypeOK' /\ Guarded' /\ [Ring!Next]_<<Kept, shown>>
  <2>1. RingOK' /\ capturing' \in BOOLEAN
        BY <1>p, <1>13 DEF Copy, ring, RingOK
  <2>2. \A u \in Threads : at'[u] = IF u = Shell THEN "idle" ELSE at[u]
        BY <1>p, <1>13 DEF Copy, Goto, TasksOK
  <2>3. TasksOK'
        BY <1>p, <1>13 DEF Copy, Goto, TasksOK, Section, Critical
  <2>4. Owned'
        BY <1>p, <1>13, <2>2 DEF Copy, Owned, Critical
  <2>5. ~Storing
        BY <1>p, <1>13, OneWriter DEF Copy, Storing, Critical
  <2>6. ~Storing' BY <2>2, <2>5 DEF Storing
  <2>7. Kept' = Kept BY <1>13, <2>5, <2>6, KeptFrame DEF Copy
  <2>8. shown' = Kept BY <1>13, <2>5 DEF Copy, Kept
  <2>9. Ring!Dump BY <2>7, <2>8 DEF Ring!Dump
  <2> QED BY <1>p, <2>1, <2>3, <2>4, <2>7, <2>8, <2>9 DEF TypeOK, Guarded, Ring!Next
<1>14. CASE UNCHANGED vars
  <2>1. RingOK' /\ TasksOK' /\ capturing' \in BOOLEAN /\ Owned' /\ shown' = shown
        BY <1>p, <1>14 DEF vars, ring, RingOK, TasksOK, Owned
  <2>2. Kept' = Kept BY <1>14, KeptFrame DEF vars, Storing
  <2> QED BY <2>1, <2>2, <1>q
<1> QED BY <1>1, <1>2, <1>3, <1>4, <1>5, <1>6, <1>7, <1>8, <1>9, <1>10, <1>11, <1>12,
           <1>13, <1>14
        DEF Next, CaptureStep

\* For every number of tasks and every capacity, deletions of app tasks
\* included: the lock is exclusive and a dump reads written slots only.
THEOREM RingGuarded == Spec => [](TypeOK /\ Guarded)
BY InvInit, InvStep, PTL DEF Spec

\* Every variable stays in its type: a task holds the next entry of the ring and
\* the entry count within the capacity, deletions of app tasks included.
THEOREM TypeCorrect == Spec => []TypeOK
BY RingGuarded, PTL

\* The locked ring implements "the last Capacity messages in order, dumped at
\* one instant" for every number of tasks and every capacity.
THEOREM KeepsLast == Spec => KeepsTheLast
<1>1. Init => Ring!Init
  <2> SUFFICES ASSUME Init PROVE Ring!Init OBVIOUS
  <2>1. ~Storing BY DEF Init, Storing
  <2>2. Kept = [i \in 1..0 |-> entries[(First(0, 0) + i - 1) % Capacity]]
        BY <2>1 DEF Init, Kept, Window
  <2>3. Kept \in [1..0 -> Messages] BY <2>2
  <2>4. Kept \in Seq(Messages) /\ Len(Kept) = 0 BY <2>3, WindowSeq
  <2>5. Kept = << >> BY <2>4
  <2> QED BY <2>5 DEF Init, Ring!Init
<1> QED BY <1>1, InvInit, InvStep, PTL DEF Spec, KeepsTheLast, Ring!Spec

-----------------------------------------------------------------------------
\* A step that leaves `capturing` set with no task inside its capture.
StrandedByDeletion ==
    CaptureHeld /\ ~CaptureHeld' =>
        \E t \in AppTasks : Deleted(t) /\ at[t] \in Section

\* Messages are refused, and no task is past the unlocked test.
Silenced == capturing /\ \A t \in Threads : at[t] \in {"idle", "test", "copy"}

\* The flag `capturing` outlives the capture only if a task is deleted inside it:
\* whatever app tasks there are, no other step, by no other interleaving of the
\* unlocked test and the two writes, leaves the ring refusing messages for nobody.
THEOREM OnlyDeletionStrands == Spec => [][StrandedByDeletion]_vars
<1>1. TypeOK /\ [Next]_vars => [StrandedByDeletion]_vars
  <2> SUFFICES ASSUME TypeOK, [Next]_vars, CaptureHeld, ~CaptureHeld'
               PROVE  \E t \in AppTasks : Deleted(t) /\ at[t] \in Section
      BY DEF StrandedByDeletion
  <2>1. CASE UNCHANGED vars BY <2>1 DEF vars, CaptureHeld
  <2>2. ASSUME NEW t \in Threads, CaptureStep(t) PROVE FALSE
    <3>1. CASE Unmark(t) BY <3>1 DEF Unmark, CaptureHeld
    <3>2. CASE Mark(t)
          BY <3>2 DEF Mark, Goto, CaptureHeld, Section, TypeOK, TasksOK
    <3>3. CASE Log(t) \/ Skip(t) \/ Test(t)
          BY <3>3 DEF Log, Skip, Test, Goto, Return, CaptureHeld, Section, TypeOK, TasksOK
    <3>4. CASE Enter(t) \/ Store(t) \/ StoreNothing(t) \/ Advance(t) \/ Leave(t)
          BY <3>4 DEF Enter, Store, StoreNothing, Advance, Leave, Goto, CaptureHeld,
                      Section, TypeOK, TasksOK
    <3> QED BY <2>2, <3>1, <3>2, <3>3, <3>4 DEF CaptureStep
  <2>3. CASE DumpEnter \/ Copy
        BY <2>3, LogAssumption
           DEF DumpEnter, Copy, Goto, CaptureHeld, Section, TypeOK, TasksOK
  <2>4. ASSUME NEW t \in AppTasks, Deleted(t), at[t] \notin Section PROVE FALSE
        BY <2>4, LogAssumption
           DEF Deleted, Return, Goto, CaptureHeld, Section, TypeOK, TasksOK
  <2> QED BY <2>1, <2>2, <2>3, <2>4 DEF Next
<1> QED BY <1>1, RingGuarded, PTL DEF Spec

\* What such a deletion costs: once `capturing` is left set and no task is past
\* the unlocked test, that stays so for ever and no message enters the ring again,
\* whatever the tasks log and whichever of them are deleted and started anew.
THEOREM SilencedForGood == Spec => [][Silenced => Silenced' /\ UNCHANGED ring]_vars
<1>1. TypeOK /\ [Next]_vars => [Silenced => Silenced' /\ UNCHANGED ring]_vars
  <2> SUFFICES ASSUME TypeOK, [Next]_vars, Silenced PROVE Silenced' /\ UNCHANGED ring
      OBVIOUS
  <2>1. CASE UNCHANGED vars BY <2>1 DEF vars, Silenced
  <2>2. ASSUME NEW t \in Threads, CaptureStep(t) PROVE Silenced' /\ UNCHANGED ring
    <3>1. CASE Log(t) \/ Skip(t)
          BY <3>1 DEF Log, Skip, Goto, Return, Silenced, TypeOK, TasksOK
    <3>2. ~Test(t) BY DEF Test, Silenced
    <3>3. ~(Mark(t) \/ Enter(t) \/ Store(t) \/ StoreNothing(t) \/ Advance(t)
            \/ Leave(t) \/ Unmark(t))
          BY DEF Mark, Enter, Store, StoreNothing, Advance, Leave, Unmark, Silenced
    <3> QED BY <2>2, <3>1, <3>2, <3>3 DEF CaptureStep
  <2>3. CASE DumpEnter \/ Copy
        BY <2>3, LogAssumption DEF DumpEnter, Copy, Goto, Silenced, TypeOK, TasksOK
  <2>4. ASSUME NEW t \in AppTasks, Deleted(t) PROVE Silenced' /\ UNCHANGED ring
        BY <2>4, LogAssumption DEF Deleted, Return, Goto, Silenced, TypeOK, TasksOK
  <2> QED BY <2>1, <2>2, <2>3, <2>4 DEF Next
<1> QED BY <1>1, RingGuarded, PTL DEF Spec
=============================================================================
