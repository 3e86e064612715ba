------------------------- MODULE ShellSessionProofs -------------------------
(***************************************************************************)
(* Proofs about ShellSession, for every alphabet, every length of line and *)
(* chunk, and inputs of every length.  What the recursive functions of     *)
(* Edited and Commands compute is proved by induction over the positions   *)
(* of the input, as the absence of a least position where it fails.        *)
(***************************************************************************)
EXTENDS ShellSession, WellFoundedInduction, TLAPS

-----------------------------------------------------------------------------
(* The inductive invariant                                                 *)

\* The types of what a prompt holds, and of the flags.
Data ==
    /\ front \in {"session", "serial"}
    /\ result \in {"starting", "running", "closed", "error", "command requested close"}
    /\ line \in Seq(Plain) /\ Len(line) <= Room
    /\ chunk \in Seq(Bytes) /\ Len(chunk) <= MaxChunk
    /\ typed \in Seq(Bytes)
    /\ dispatched \in Seq(Seq(Plain))
    /\ screen \in Seq(Plain)
Flags ==
    /\ previousWasCarriageReturn \in BOOLEAN /\ lost \in BOOLEAN /\ refused \in BOOLEAN

\* What is read and what is handled together stay within the input.
WithinInput == Len(typed) + Len(chunk) <= MaxInput

IInv == Data /\ Flags /\ WithinInput /\ ShownIsDispatched /\ ExitIsLast

LEMMA TypeParts == IInv => TypeOK
<1> SUFFICES ASSUME IInv PROVE TypeOK OBVIOUS
<1>a. chunk \in Seq(Bytes) /\ typed \in Seq(Bytes) BY DEF IInv, Data
<1>1. Len(chunk) \in Nat /\ Len(typed) \in Nat BY <1>a
<1>2. Len(typed) <= MaxInput
      BY <1>1, SessionAssumption DEF IInv, WithinInput
<1> QED BY <1>2 DEF IInv, Data, Flags, TypeOK

-----------------------------------------------------------------------------
(* Sequences                                                               *)

LEMMA Least ==
    ASSUME NEW S \in SUBSET Nat, S # {}
    PROVE  \E i \in S : \A j \in S : i <= j
<1>1. PICK i \in S : \A j \in S : ~ (<<j, i>> \in OpToRel(<, Nat))
      BY NatLessThanWellFounded, WFMin
<1>2. \A j \in S : ~ (j < i) BY <1>1 DEF OpToRel
<1> QED BY <1>2

\* What holds of 0 and passes from each number to the next holds of all up to m.
LEMMA Induction ==
    ASSUME NEW m \in Nat, NEW S \in SUBSET Nat, 0 \in S,
           \A n \in 1..m : n - 1 \in S => n \in S
    PROVE  0..m \subseteq S
<1> SUFFICES ASSUME 0..m \ S # {} PROVE FALSE OBVIOUS
<1>1. 0..m \ S \in SUBSET Nat OBVIOUS
<1>2. PICK n \in 0..m \ S : \A j \in 0..m \ S : n <= j BY <1>1, Least
<1>3. n \in 1..m BY <1>2
<1>4. n - 1 \in S BY <1>2, <1>3
<1> QED BY <1>2, <1>3, <1>4

LEMMA Extremes ==
    ASSUME NEW n \in Nat, NEW solid \in SUBSET (1..n), solid # {}
    PROVE  /\ \E i \in solid : \A j \in solid : i <= j
           /\ \E i \in solid : \A j \in solid : i >= j
<1>1. \E i \in solid : \A j \in solid : i <= j
  <2>1. solid \in SUBSET Nat OBVIOUS
  <2> QED BY <2>1, Least
<1>2. \E i \in solid : \A j \in solid : i >= j
  <2> DEFINE left == {n - i : i \in solid}
  <2>1. left \in SUBSET Nat /\ left # {}
    <3>1. \A i \in solid : i \in 1..n OBVIOUS
    <3>2. \A i \in 1..n : n - i \in Nat OBVIOUS
    <3>3. \A i \in solid : n - i \in Nat BY <3>1, <3>2, Zenon
    <3>4. left \subseteq Nat BY <3>3, Zenon
    <3>5. left # {} OBVIOUS
    <3> QED BY <3>4, <3>5
  <2>2. PICK k \in left : \A j \in left : k <= j BY <2>1, Least
  <2>3. PICK i \in solid : k = n - i OBVIOUS
  <2>4. \A j \in solid : n - j \in left OBVIOUS
  <2>5. \A j \in solid : n - i <= n - j BY <2>2, <2>3, <2>4
  <2>6. \A j \in solid : i >= j BY <2>5
  <2> QED BY <2>6
<1> QED BY <1>1, <1>2

\* Trimming yields a part of the line.
LEMMA Trimmed ==
    ASSUME NEW S, NEW s \in Seq(S)
    PROVE  Trim(s) \in Seq(S) /\ Len(Trim(s)) <= Len(s)
<1> DEFINE solid == {i \in 1..Len(s) : ~Blank(s[i])}
           first == CHOOSE i \in solid : \A j \in solid : i <= j
           last == CHOOSE i \in solid : \A j \in solid : i >= j
<1>1. CASE solid = {} BY <1>1 DEF Trim
<1>2. CASE solid # {}
  <2>1. first \in solid /\ last \in solid
    <3>1. Len(s) \in Nat /\ solid \in SUBSET (1..Len(s)) OBVIOUS
    <3> HIDE DEF solid
    <3> QED BY <1>2, <3>1, Extremes
  <2>2. Trim(s) = SubSeq(s, first, last) BY <1>2 DEF Trim
  <2>3. first \in 1..Len(s) /\ last \in 1..Len(s) BY <2>1
  <2> HIDE DEF solid, first, last
  <2> QED BY <2>2, <2>3
<1> QED BY <1>1, <1>2

LEMMA Fronts ==
    ASSUME NEW S, NEW s \in Seq(S), s # << >>
    PROVE  Front(s) \in Seq(S) /\ Len(Front(s)) <= Len(s)
BY DEF Front

LEMMA Byte ==
    ASSUME Data, NEW b, Handle(b)
    PROVE  /\ result = "running" /\ front' = front
           /\ b \in Bytes
           /\ chunk' \in Seq(Bytes) /\ Len(chunk') <= MaxChunk /\ typed' \in Seq(Bytes)
           /\ WithinInput => WithinInput'
<1>1. /\ result = "running" /\ chunk # << >> /\ Head(chunk) = b /\ chunk' = Tail(chunk)
      /\ typed' = Append(typed, b) /\ front' = front
      BY DEF Handle
<1>2. chunk \in Seq(Bytes) /\ typed \in Seq(Bytes) BY DEF Data
<1>3. Len(chunk) \in Nat \ {0} /\ Len(chunk') = Len(chunk) - 1 /\ chunk' \in Seq(Bytes)
      /\ b \in Bytes
      BY <1>1, <1>2
<1>4. Len(typed) \in Nat /\ Len(typed') = Len(typed) + 1 /\ typed' \in Seq(Bytes)
      BY <1>1, <1>2, <1>3
<1>a. Len(chunk) <= MaxChunk /\ MaxChunk \in Nat BY SessionAssumption DEF Data
<1>5. Len(chunk') <= MaxChunk BY <1>3, <1>a
<1>6. WithinInput => WithinInput' BY <1>3, <1>4, SessionAssumption DEF WithinInput
<1> QED BY <1>1, <1>3, <1>4, <1>5, <1>6

\* What is echoed is seen, or it is known to be lost.
LEMMA Echoed ==
    ASSUME Data, Flags, NEW shown \in Seq(Plain), Write(shown)
    PROVE  /\ screen' \in Seq(Plain) /\ lost' \in BOOLEAN
           /\ lost' \/ (lost' = lost /\ screen' = shown)
<1>1. CASE screen' = shown /\ UNCHANGED lost
  <2>1. lost' \in BOOLEAN BY <1>1 DEF Flags
  <2> QED BY <1>1, <2>1
<1>2. CASE lost' = TRUE /\ UNCHANGED screen
  <2>1. lost' \in BOOLEAN BY <1>2
  <2> QED BY <1>2, <2>1 DEF Data
<1> QED BY <1>1, <1>2 DEF Write

-----------------------------------------------------------------------------
(* The steps                                                               *)

\* A step that keeps the prompt keeps what its lines may hold.
LEMMA SamePrompt ==
    ASSUME front' = front
    PROVE  Plain' = Plain /\ Room' = Room
BY DEF Plain, Room

LEMMA Started ==
    ASSUME IInv, Start
    PROVE  IInv'
<1>1. /\ front' = front /\ UNCHANGED <<line, chunk, typed, dispatched, screen>>
      /\ UNCHANGED <<previousWasCarriageReturn, lost, refused>>
      /\ result = "starting" /\ result' \in {"running", "error"}
      BY DEF Start, buffer, history
<1>2. Data' BY <1>1, SamePrompt DEF IInv, Data
<1>3. Flags' BY <1>1, Zenon DEF IInv, Flags
<1>4. WithinInput' BY <1>1 DEF IInv, WithinInput
<1>5. ShownIsDispatched' BY <1>1, Zenon DEF IInv, ShownIsDispatched
<1>6. ExitIsLast' BY <1>1 DEF IInv, ExitIsLast
<1> QED BY <1>2, <1>3, <1>4, <1>5, <1>6 DEF IInv

LEMMA ChunkSeq ==
    ASSUME NEW S, NEW n \in Nat, NEW c \in [1..n -> S]
    PROVE  c \in Seq(S) /\ Len(c) = n
OBVIOUS

LEMMA ReadSome ==
    ASSUME IInv, Read
    PROVE  IInv'
<1>1. /\ front' = front /\ result' = result /\ UNCHANGED <<line, typed, dispatched, screen>>
      /\ UNCHANGED <<previousWasCarriageReturn, lost, refused>>
      BY DEF Read, buffer, history
<1>2. PICK n \in 1..MaxChunk : Len(typed) + n <= MaxInput /\ chunk' \in [1..n -> Bytes]
      BY DEF Read
<1>3. n \in Nat /\ n <= MaxChunk BY <1>2, SessionAssumption
<1>4. chunk' \in Seq(Bytes) /\ Len(chunk') = n BY <1>2, <1>3, ChunkSeq
<1>5. Data' BY <1>1, <1>3, <1>4, SamePrompt DEF IInv, Data
<1>6. Flags' BY <1>1, Zenon DEF IInv, Flags
<1>7. WithinInput' BY <1>1, <1>2, <1>4 DEF WithinInput
<1>8. ShownIsDispatched' BY <1>1, Zenon DEF IInv, ShownIsDispatched
<1>9. ExitIsLast' BY <1>1 DEF IInv, ExitIsLast
<1> QED BY <1>5, <1>6, <1>7, <1>8, <1>9 DEF IInv

\* No command so far was exit in a session that runs.
LEMMA NoExitYet ==
    ASSUME ExitIsLast, front = "session", result = "running"
    PROVE  \A i \in 1..Len(dispatched) : dispatched[i] # Exit
BY DEF ExitIsLast

LEMMA Ended ==
    ASSUME IInv, ReadEnds
    PROVE  IInv'
<1>1. /\ front' = front /\ UNCHANGED <<line, chunk, typed, dispatched, screen>>
      /\ UNCHANGED <<previousWasCarriageReturn, lost, refused>>
      /\ front = "session" /\ result = "running" /\ result' = "closed"
      BY DEF ReadEnds, buffer, history
<1>2. Data' BY <1>1, SamePrompt DEF IInv, Data
<1>3. Flags' BY <1>1, Zenon DEF IInv, Flags
<1>4. WithinInput' BY <1>1 DEF IInv, WithinInput
<1>5. ShownIsDispatched' BY <1>1, Zenon DEF IInv, ShownIsDispatched
<1>6. ExitIsLast' BY <1>1, NoExitYet DEF IInv, ExitIsLast
<1> QED BY <1>2, <1>3, <1>4, <1>5, <1>6 DEF IInv

\* A byte that ends no line leaves the commands and the answer alone.
LEMMA NoCommand ==
    ASSUME IInv, NEW b, Handle(b), UNCHANGED <<result, dispatched>>,
           previousWasCarriageReturn' \in BOOLEAN, refused' \in BOOLEAN, lost' \in BOOLEAN,
           line' \in Seq(Plain), Len(line') <= Room, screen' \in Seq(Plain),
           lost' \/ screen' = line'
    PROVE  IInv'
<1>1. /\ front' = front /\ chunk' \in Seq(Bytes) /\ Len(chunk') <= MaxChunk
      /\ typed' \in Seq(Bytes) /\ WithinInput'
      BY Byte DEF IInv
<1>2. Data' BY <1>1, SamePrompt DEF IInv, Data
<1>3. Flags' BY Zenon DEF Flags
<1>4. ShownIsDispatched' BY Zenon DEF ShownIsDispatched
<1>5. ExitIsLast' BY <1>1 DEF IInv, ExitIsLast
<1> QED BY <1>1, <1>2, <1>3, <1>4, <1>5 DEF IInv

LEMMA Swallowed ==
    ASSUME IInv, NEW b, Swallow(b)
    PROVE  IInv'
<1>1. /\ Handle(b) /\ UNCHANGED <<result, dispatched, line, screen>>
      /\ previousWasCarriageReturn' = (b = CR) /\ UNCHANGED <<refused, lost>>
      BY DEF Swallow
<1>2. previousWasCarriageReturn' \in BOOLEAN /\ refused' \in BOOLEAN /\ lost' \in BOOLEAN
      BY <1>1, Zenon DEF IInv, Flags
<1>3. lost' \/ screen' = line' BY <1>1, Zenon DEF IInv, ShownIsDispatched
<1>4. line' \in Seq(Plain) /\ Len(line') <= Room /\ screen' \in Seq(Plain)
      BY <1>1 DEF IInv, Data
<1> QED BY <1>1, <1>2, <1>3, <1>4, NoCommand

LEMMA Erased ==
    ASSUME IInv, Backspace
    PROVE  IInv'
<1>1. /\ Handle(BS) /\ UNCHANGED <<result, dispatched>>
      /\ UNCHANGED <<previousWasCarriageReturn, refused>>
      BY DEF Backspace
<1>2. previousWasCarriageReturn' \in BOOLEAN /\ refused' \in BOOLEAN
      BY <1>1, Zenon DEF IInv, Flags
<1>3. Data /\ Flags /\ (lost \/ screen = line) BY DEF IInv, ShownIsDispatched
<1>4. line \in Seq(Plain) /\ Len(line) <= Room /\ screen \in Seq(Plain) BY <1>3 DEF Data
<1>5. CASE line = << >>
  <2>1. UNCHANGED <<line, screen>> /\ lost' = lost BY <1>5 DEF Backspace
  <2>2. lost' \in BOOLEAN /\ (lost' \/ screen' = line') BY <1>3, <2>1, Zenon DEF Flags
  <2> QED BY <1>1, <1>2, <1>4, <2>1, <2>2, NoCommand
<1>6. CASE line # << >>
  <2> DEFINE shown == IF screen = << >> THEN screen ELSE Front(screen)
  <2>1. line' = Front(line) /\ Write(shown) BY <1>6 DEF Backspace
  <2>2. shown \in Seq(Plain) BY <1>4, Fronts
  <2>3. line' \in Seq(Plain) /\ Len(line') <= Len(line) BY <1>4, <1>6, <2>1, Fronts
  <2>4. Len(line') <= Room
    <3>1. Len(line') \in Nat /\ Len(line) \in Nat BY <1>4, <2>3
    <3>2. Room \in Nat BY SessionAssumption DEF Room
    <3> QED BY <1>4, <2>3, <3>1, <3>2
  <2>5. screen = line => shown = Front(line) BY <1>6
  <2> HIDE DEF shown
  <2>6. /\ screen' \in Seq(Plain) /\ lost' \in BOOLEAN
        /\ lost' \/ (lost' = lost /\ screen' = shown)
        BY <1>3, <2>1, <2>2, Echoed
  <2>7. ASSUME lost' = lost, screen' = shown PROVE lost' \/ screen' = line'
    <3>1. CASE lost BY <2>7, <3>1, Zenon
    <3>2. CASE screen = line BY <2>1, <2>5, <2>7, <3>2, Zenon
    <3> QED BY <1>3, <3>1, <3>2, Zenon
  <2>8. lost' \/ screen' = line' BY <2>6, <2>7, Zenon
  <2> QED BY <1>1, <1>2, <2>3, <2>4, <2>6, <2>8, NoCommand
<1> QED BY <1>5, <1>6

LEMMA Inserted ==
    ASSUME IInv, NEW c, Insert(c)
    PROVE  IInv'
<1>1. /\ c \in Plain /\ Len(line) < Room
      /\ Handle(c) /\ UNCHANGED <<result, dispatched>> /\ refused' = refused
      /\ previousWasCarriageReturn' = FALSE
      /\ line' = Append(line, c) /\ Write(Append(screen, c))
      BY DEF Insert
<1>2. previousWasCarriageReturn' \in BOOLEAN /\ refused' \in BOOLEAN
      BY <1>1, Zenon DEF IInv, Flags
<1>3. Data /\ Flags /\ (lost \/ screen = line) BY DEF IInv, ShownIsDispatched
<1>4. line \in Seq(Plain) /\ screen \in Seq(Plain) BY <1>3 DEF Data
<1>5. line' \in Seq(Plain) /\ Len(line') = Len(line) + 1 /\ Append(screen, c) \in Seq(Plain)
      BY <1>1, <1>4
<1>6. Len(line') <= Room
  <2>1. Len(line) \in Nat /\ Room \in Nat BY <1>4, SessionAssumption DEF Room
  <2> QED BY <1>1, <1>5, <2>1
<1>7. /\ screen' \in Seq(Plain) /\ lost' \in BOOLEAN
      /\ lost' \/ (lost' = lost /\ screen' = Append(screen, c))
      BY <1>1, <1>3, <1>5, Echoed
<1>8. ASSUME lost' = lost, screen' = Append(screen, c) PROVE lost' \/ screen' = line'
  <2>1. CASE lost BY <1>8, <2>1, Zenon
  <2>2. CASE screen = line BY <1>1, <1>8, <2>2, Zenon
  <2> QED BY <1>3, <2>1, <2>2, Zenon
<1>9. lost' \/ screen' = line' BY <1>7, <1>8, Zenon
<1> QED BY <1>1, <1>2, <1>5, <1>6, <1>7, <1>9, NoCommand

\* A line that did not fit leaves nothing, neither in the buffer nor on the screen.
LEMMA Overflowed ==
    ASSUME IInv, NEW c, Overflow(c)
    PROVE  IInv'
<1>1. /\ Handle(c) /\ UNCHANGED <<result, dispatched>>
      /\ previousWasCarriageReturn' = FALSE /\ refused' = TRUE
      /\ line' = << >> /\ Write(<< >>)
      BY DEF Overflow
<1>2. previousWasCarriageReturn' \in BOOLEAN /\ refused' \in BOOLEAN BY <1>1, Zenon
<1>3. Data /\ Flags BY DEF IInv
<1>4. << >> \in Seq(Plain) /\ Len(<< >>) = 0 OBVIOUS
<1>5. line' \in Seq(Plain) /\ Len(line') <= Room
      BY <1>1, <1>4, SessionAssumption DEF Room
<1>6. /\ screen' \in Seq(Plain) /\ lost' \in BOOLEAN
      /\ lost' \/ (lost' = lost /\ screen' = << >>)
      BY <1>1, <1>3, <1>4, Echoed
<1>7. lost' \/ screen' = line' BY <1>1, <1>6, Zenon
<1> QED BY <1>1, <1>2, <1>5, <1>6, <1>7, NoCommand

LEMMA Dropped ==
    ASSUME IInv, NEW c, Drop(c)
    PROVE  IInv'
<1>1. /\ Handle(c) /\ UNCHANGED <<result, dispatched, line, screen>> /\ lost' = lost
      /\ previousWasCarriageReturn' = previousWasCarriageReturn /\ refused' = TRUE
      BY DEF Drop, buffer
<1>2. previousWasCarriageReturn' \in BOOLEAN /\ refused' \in BOOLEAN /\ lost' \in BOOLEAN
      BY <1>1, Zenon DEF IInv, Flags
<1>3. lost' \/ screen' = line' BY <1>1, Zenon DEF IInv, ShownIsDispatched
<1>4. line' \in Seq(Plain) /\ Len(line') <= Room /\ screen' \in Seq(Plain)
      BY <1>1 DEF IInv, Data
<1> QED BY <1>1, <1>2, <1>3, <1>4, NoCommand

\* The command of a finished line joins the others; exit is the last of them.
LEMMA Dispatched ==
    ASSUME Data, ExitIsLast, NEW b, Handle(b), Dispatch(line)
    PROVE  /\ dispatched' \in Seq(Seq(Plain))
           /\ result' \in {"running", "command requested close"}
           /\ ExitIsLast'
<1>1. line \in Seq(Plain) /\ dispatched \in Seq(Seq(Plain)) BY DEF Data
<1>2. Trim(line) \in Seq(Plain) BY <1>1, Trimmed
<1>3. result = "running" /\ front' = front BY DEF Handle
<1>4. result' = IF front = "session" /\ Trim(line) = Exit
                THEN "command requested close" ELSE "running"
      BY DEF Dispatch
<1>5. CASE ~Runs(line)
  <2>1. dispatched' = dispatched BY <1>5 DEF Dispatch
  <2>2. ExitIsLast' BY <1>3, <2>1, NoExitYet DEF ExitIsLast
  <2> QED BY <1>1, <1>4, <2>1, <2>2
<1>6. CASE Runs(line)
  <2>1. dispatched' = Append(dispatched, Trim(line)) BY <1>6 DEF Dispatch
  <2>2. dispatched' \in Seq(Seq(Plain)) /\ Len(dispatched) \in Nat
        /\ Len(dispatched') = Len(dispatched) + 1
        /\ dispatched'[Len(dispatched')] = Trim(line)
        /\ \A i \in 1..Len(dispatched) : dispatched'[i] = dispatched[i]
        BY <1>1, <1>2, <2>1
  <2>3. ASSUME front = "session", NEW i \in 1..Len(dispatched'), dispatched'[i] = Exit
        PROVE  i = Len(dispatched') /\ result' = "command requested close"
    <3>1. i \in 1..Len(dispatched) \/ i = Len(dispatched') BY <2>2
    <3>2. i \notin 1..Len(dispatched) BY <1>3, <2>2, <2>3, NoExitYet
    <3>3. i = Len(dispatched') BY <3>1, <3>2
    <3>4. Trim(line) = Exit BY <2>2, <2>3, <3>3
    <3> QED BY <1>4, <2>3, <3>3, <3>4
  <2>4. ExitIsLast' BY <1>3, <2>3 DEF ExitIsLast
  <2> QED BY <1>4, <2>2, <2>4
<1> QED BY <1>5, <1>6

LEMMA LineEnded ==
    ASSUME IInv, NEW b, EndLine(b)
    PROVE  IInv'
<1>1. /\ Handle(b) /\ Dispatch(line) /\ refused' = refused
      /\ previousWasCarriageReturn' = (b = CR)
      /\ line' = << >> /\ Write(<< >>)
      BY DEF EndLine
<1>2. Data /\ Flags /\ ExitIsLast BY DEF IInv
<1>3. /\ front' = front /\ chunk' \in Seq(Bytes) /\ Len(chunk') <= MaxChunk
      /\ typed' \in Seq(Bytes) /\ WithinInput'
      BY <1>1, Byte DEF IInv
<1>4. << >> \in Seq(Plain) /\ Len(<< >>) = 0 OBVIOUS
<1>5. line' \in Seq(Plain) /\ Len(line') <= Room
      BY <1>1, <1>4, SessionAssumption DEF Room
<1>6. /\ screen' \in Seq(Plain) /\ lost' \in BOOLEAN
      /\ lost' \/ (lost' = lost /\ screen' = << >>)
      BY <1>1, <1>2, <1>4, Echoed
<1>7. /\ dispatched' \in Seq(Seq(Plain)) /\ ExitIsLast'
      /\ result' \in {"running", "command requested close"}
      BY <1>1, <1>2, Dispatched
<1>8. Data' BY <1>2, <1>3, <1>5, <1>6, <1>7, SamePrompt DEF Data
<1>9. Flags' BY <1>1, <1>2, <1>6, Zenon DEF Flags
<1>10. ShownIsDispatched' BY <1>1, <1>6, Zenon DEF ShownIsDispatched
<1> QED BY <1>3, <1>7, <1>8, <1>9, <1>10 DEF IInv

-----------------------------------------------------------------------------
(* The line that a piece of the input makes up                             *)

EditsTo(f, prompt, p, m) ==
    f = [n \in 0..m |-> IF n = 0 THEN << >> ELSE Edit(prompt, f[n - 1], p[n])]

\* What the recursive function of Edited is at each position.
LEMMA EditsValues ==
    ASSUME NEW f, NEW prompt, NEW p, NEW m \in Nat, EditsTo(f, prompt, p, m)
    PROVE  f[0] = << >> /\ \A n \in 1..m : f[n] = Edit(prompt, f[n - 1], p[n])
<1> DEFINE g == [n \in 0..m |-> IF n = 0 THEN << >> ELSE Edit(prompt, f[n - 1], p[n])]
<1>1. f = g BY Zenon DEF EditsTo
<1>2. g[0] = << >> OBVIOUS
<1>3. \A n \in 1..m : g[n] = Edit(prompt, f[n - 1], p[n]) OBVIOUS
<1> HIDE DEF g
<1> QED BY <1>1, <1>2, <1>3

\* There is such a function for every piece: a function up to n - 1 extends to n.
LEMMA EditsExist ==
    ASSUME NEW prompt, NEW p, NEW m \in Nat
    PROVE  \E f : EditsTo(f, prompt, p, m)
<1> DEFINE S == {n \in Nat : \E f : EditsTo(f, prompt, p, n)}
<1>1. 0 \in S
  <2>1. EditsTo([n \in 0..0 |-> << >>], prompt, p, 0) BY DEF EditsTo
  <2> QED BY <2>1
<1>2. ASSUME NEW n \in 1..m, n - 1 \in S PROVE n \in S
  <2>1. PICK f : EditsTo(f, prompt, p, n - 1) BY <1>2
  <2>2. n \in Nat /\ n - 1 \in Nat OBVIOUS
  <2>3. f[0] = << >> /\ \A k \in 1..(n - 1) : f[k] = Edit(prompt, f[k - 1], p[k])
        BY <2>1, <2>2, EditsValues
  <2> DEFINE g == [k \in 0..n |-> IF k = n THEN Edit(prompt, f[n - 1], p[n]) ELSE f[k]]
  <2>4. \A k \in 0..(n - 1) : g[k] = f[k] OBVIOUS
  <2>5. \A k \in 0..n : g[k] = IF k = 0 THEN << >> ELSE Edit(prompt, g[k - 1], p[k])
    <3> SUFFICES ASSUME NEW k \in 0..n
                 PROVE  g[k] = IF k = 0 THEN << >> ELSE Edit(prompt, g[k - 1], p[k])
        OBVIOUS
    <3>1. CASE k = 0 BY <2>3, <2>4, <3>1
    <3>2. CASE k # 0 /\ k # n
      <4>1. k \in 1..(n - 1) /\ k - 1 \in 0..(n - 1) /\ k \in 0..(n - 1) BY <3>2
      <4>2. g[k] = f[k] /\ g[k - 1] = f[k - 1] BY <2>4, <4>1
      <4> QED BY <2>3, <3>2, <4>1, <4>2
    <3>3. CASE k = n
      <4>1. n - 1 \in 0..(n - 1) /\ k # 0 BY <3>3
      <4>2. g[n - 1] = f[n - 1] BY <2>4, <4>1
      <4>3. g[n] = Edit(prompt, f[n - 1], p[n]) OBVIOUS
      <4> QED BY <3>3, <4>1, <4>2, <4>3
    <3> QED BY <3>1, <3>2, <3>3
  <2>6. g = [k \in 0..n |-> g[k]] OBVIOUS
  <2> HIDE DEF g
  <2>7. [k \in 0..n |-> g[k]]
            = [k \in 0..n |-> IF k = 0 THEN << >> ELSE Edit(prompt, g[k - 1], p[k])]
        BY <2>5
  <2>8. EditsTo(g, prompt, p, n) BY <2>6, <2>7 DEF EditsTo
  <2> QED BY <2>2, <2>8
<1> HIDE DEF S
<1>3. S \in SUBSET Nat BY DEF S
<1>4. 0..m \subseteq S BY <1>1, <1>2, <1>3, Induction
<1>5. m \in S BY <1>4
<1> QED BY <1>5 DEF S

LEMMA EditedIs ==
    ASSUME NEW prompt, NEW p, Len(p) \in Nat
    PROVE  \E f : EditsTo(f, prompt, p, Len(p)) /\ Edited(prompt, p) = f[Len(p)]
<1> DEFINE g == CHOOSE f : EditsTo(f, prompt, p, Len(p))
<1>1. \E f : EditsTo(f, prompt, p, Len(p)) BY EditsExist
<1>2. EditsTo(g, prompt, p, Len(p)) BY <1>1
<1>3. Edited(prompt, p) = g[Len(p)] BY DEF Edited, EditsTo
<1> QED BY <1>2, <1>3

LEMMA EditedNothing ==
    ASSUME NEW prompt
    PROVE  Edited(prompt, << >>) = << >>
<1>1. Len(<< >>) = 0 OBVIOUS
<1>2. PICK f : EditsTo(f, prompt, << >>, 0) /\ Edited(prompt, << >>) = f[0]
      BY <1>1, EditedIs
<1> QED BY <1>2, EditsValues

\* One byte more is one edit more.
LEMMA EditedOneMore ==
    ASSUME NEW prompt, NEW S, NEW p \in Seq(S), NEW b \in S
    PROVE  Edited(prompt, Append(p, b)) = Edit(prompt, Edited(prompt, p), b)
<1> DEFINE q == Append(p, b)
           m == Len(p)
<1>1. m \in Nat /\ Len(q) = m + 1 /\ q[m + 1] = b /\ \A n \in 1..m : q[n] = p[n] OBVIOUS
<1> HIDE DEF q, m
<1>2. PICK f : EditsTo(f, prompt, p, m) /\ Edited(prompt, p) = f[m]
      BY <1>1, EditedIs DEF m
<1>3. PICK g : EditsTo(g, prompt, q, m + 1) /\ Edited(prompt, q) = g[m + 1]
  <2>1. Len(q) \in Nat BY <1>1
  <2>2. \E g : EditsTo(g, prompt, q, Len(q)) /\ Edited(prompt, q) = g[Len(q)]
        BY <2>1, EditedIs
  <2> QED BY <1>1, <2>2
<1>4. f[0] = << >> /\ \A n \in 1..m : f[n] = Edit(prompt, f[n - 1], p[n])
      BY <1>1, <1>2, EditsValues
<1>5. g[0] = << >> /\ \A n \in 1..(m + 1) : g[n] = Edit(prompt, g[n - 1], q[n])
  <2>1. m + 1 \in Nat BY <1>1
  <2> QED BY <1>3, <2>1, EditsValues
<1> DEFINE T == {n \in Nat : f[n] = g[n]}
<1>6. 0 \in T BY <1>4, <1>5
<1>7. ASSUME NEW n \in 1..m, n - 1 \in T PROVE n \in T
  <2>1. n \in Nat /\ n \in 1..(m + 1) BY <1>1
  <2>2. f[n] = Edit(prompt, f[n - 1], p[n]) /\ g[n] = Edit(prompt, g[n - 1], q[n])
        BY <1>4, <1>5, <2>1
  <2>3. f[n - 1] = g[n - 1] BY <1>7
  <2> QED BY <1>1, <2>1, <2>2, <2>3
<1> HIDE DEF T
<1>8. m \in T
  <2>1. T \in SUBSET Nat BY DEF T
  <2>2. m \in Nat BY <1>1
  <2>3. 0..m \subseteq T BY <1>6, <1>7, <2>1, <2>2, Induction
  <2> QED BY <2>2, <2>3
<1>9. f[m] = g[m] BY <1>8 DEF T
<1>10. g[m + 1] = Edit(prompt, g[m], q[m + 1])
  <2>1. m + 1 \in 1..(m + 1) /\ (m + 1) - 1 = m BY <1>1
  <2> QED BY <1>5, <2>1
<1> QED BY <1>1, <1>2, <1>3, <1>9, <1>10 DEF q

-----------------------------------------------------------------------------
(* The commands of an input                                                *)

CollectsTo(f, prompt, t, m) ==
    f = [n \in 0..m |-> IF n = 0 THEN << >> ELSE Collect(prompt, t, f[n - 1], n)]

\* The same for the recursive function of Commands.
LEMMA CollectsValues ==
    ASSUME NEW f, NEW prompt, NEW t, NEW m \in Nat, CollectsTo(f, prompt, t, m)
    PROVE  f[0] = << >> /\ \A n \in 1..m : f[n] = Collect(prompt, t, f[n - 1], n)
<1> DEFINE g == [n \in 0..m |-> IF n = 0 THEN << >> ELSE Collect(prompt, t, f[n - 1], n)]
<1>1. f = g BY Zenon DEF CollectsTo
<1>2. g[0] = << >> OBVIOUS
<1>3. \A n \in 1..m : g[n] = Collect(prompt, t, f[n - 1], n) OBVIOUS
<1> HIDE DEF g
<1> QED BY <1>1, <1>2, <1>3

LEMMA CollectsExist ==
    ASSUME NEW prompt, NEW t, NEW m \in Nat
    PROVE  \E f : CollectsTo(f, prompt, t, m)
<1> DEFINE S == {n \in Nat : \E f : CollectsTo(f, prompt, t, n)}
<1>1. 0 \in S
  <2>1. CollectsTo([n \in 0..0 |-> << >>], prompt, t, 0) BY DEF CollectsTo
  <2> QED BY <2>1
<1>2. ASSUME NEW n \in 1..m, n - 1 \in S PROVE n \in S
  <2>1. PICK f : CollectsTo(f, prompt, t, n - 1) BY <1>2
  <2>2. n \in Nat /\ n - 1 \in Nat OBVIOUS
  <2>3. f[0] = << >> /\ \A k \in 1..(n - 1) : f[k] = Collect(prompt, t, f[k - 1], k)
        BY <2>1, <2>2, CollectsValues
  <2> DEFINE g == [k \in 0..n |-> IF k = n THEN Collect(prompt, t, f[n - 1], n) ELSE f[k]]
  <2>4. \A k \in 0..(n - 1) : g[k] = f[k] OBVIOUS
  <2>5. \A k \in 0..n : g[k] = IF k = 0 THEN << >> ELSE Collect(prompt, t, g[k - 1], k)
    <3> SUFFICES ASSUME NEW k \in 0..n
                 PROVE  g[k] = IF k = 0 THEN << >> ELSE Collect(prompt, t, g[k - 1], k)
        OBVIOUS
    <3>1. CASE k = 0 BY <2>3, <2>4, <3>1
    <3>2. CASE k # 0 /\ k # n
      <4>1. k \in 1..(n - 1) /\ k - 1 \in 0..(n - 1) /\ k \in 0..(n - 1) BY <3>2
      <4>2. g[k] = f[k] /\ g[k - 1] = f[k - 1] BY <2>4, <4>1
      <4> QED BY <2>3, <3>2, <4>1, <4>2
    <3>3. CASE k = n
      <4>1. n - 1 \in 0..(n - 1) /\ k # 0 BY <3>3
      <4>2. g[n - 1] = f[n - 1] BY <2>4, <4>1
      <4>3. g[n] = Collect(prompt, t, f[n - 1], n) OBVIOUS
      <4> QED BY <3>3, <4>1, <4>2, <4>3
    <3> QED BY <3>1, <3>2, <3>3
  <2>6. g = [k \in 0..n |-> g[k]] OBVIOUS
  <2> HIDE DEF g
  <2>7. [k \in 0..n |-> g[k]]
            = [k \in 0..n |-> IF k = 0 THEN << >> ELSE Collect(prompt, t, g[k - 1], k)]
        BY <2>5
  <2>8. CollectsTo(g, prompt, t, n) BY <2>6, <2>7 DEF CollectsTo
  <2> QED BY <2>2, <2>8
<1> HIDE DEF S
<1>3. S \in SUBSET Nat BY DEF S
<1>4. 0..m \subseteq S BY <1>1, <1>2, <1>3, Induction
<1>5. m \in S BY <1>4
<1> QED BY <1>5 DEF S

LEMMA CommandsAre ==
    ASSUME NEW prompt, NEW t, Len(t) \in Nat
    PROVE  \E f : CollectsTo(f, prompt, t, Len(t)) /\ Commands(prompt, t) = f[Len(t)]
<1> DEFINE g == CHOOSE f : CollectsTo(f, prompt, t, Len(t))
<1>1. \E f : CollectsTo(f, prompt, t, Len(t)) BY CollectsExist
<1>2. CollectsTo(g, prompt, t, Len(t)) BY <1>1
<1>3. Commands(prompt, t) = g[Len(t)] BY DEF Commands, CollectsTo
<1> QED BY <1>2, <1>3

LEMMA NoCommands ==
    ASSUME NEW prompt
    PROVE  Commands(prompt, << >>) = << >>
<1>1. Len(<< >>) = 0 OBVIOUS
<1>2. PICK f : CollectsTo(f, prompt, << >>, 0) /\ Commands(prompt, << >>) = f[0]
      BY <1>1, CommandsAre
<1> QED BY <1>2, CollectsValues

\* One byte more leaves the lines before it alone.
LEMMA LinesBefore ==
    ASSUME NEW S, NEW t \in Seq(S), NEW b \in S
    PROVE  /\ \A n \in 1..Len(t) : n \in LineEnds(Append(t, b)) <=> n \in LineEnds(t)
           /\ \A n \in 1..(Len(t) + 1) : LineStart(Append(t, b), n) = LineStart(t, n)
<1> DEFINE m == Len(t)
           u == Append(t, b)
<1>1. m \in Nat /\ Len(u) = m + 1 /\ \A n \in 1..m : u[n] = t[n] OBVIOUS
<1> HIDE DEF m, u
<1>2. ASSUME NEW n \in 1..m PROVE n \in LineEnds(u) <=> n \in LineEnds(t)
  <2>1. n = 1 \/ n - 1 \in 1..m BY <1>1
  <2>2. n \in 1..(m + 1) /\ n \in 1..m BY <1>1
  <2> QED BY <1>1, <2>1, <2>2 DEF LineEnds, m
<1>3. ASSUME NEW n \in 1..(m + 1) PROVE LineStart(u, n) = LineStart(t, n)
  <2>1. LineEnds(u) \subseteq 1..(m + 1) /\ LineEnds(t) \subseteq 1..m
        BY <1>1 DEF LineEnds, m
  <2>2. {i \in LineEnds(u) : i < n} = {i \in LineEnds(t) : i < n}
    <3>1. ASSUME NEW i, i < n, i \in LineEnds(u) PROVE i \in LineEnds(t)
      <4>1. i \in 1..m BY <1>1, <2>1, <3>1
      <4> QED BY <1>2, <3>1, <4>1
    <3>2. ASSUME NEW i, i < n, i \in LineEnds(t) PROVE i \in LineEnds(u)
      BY <1>2, <2>1, <3>2
    <3> QED BY <3>1, <3>2
  <2> QED BY <2>2 DEF LineStart
<1> QED BY <1>2, <1>3 DEF m, u

\* A line starts behind every line end before it.
LEMMA StartsWithin ==
    ASSUME NEW t, Len(t) \in Nat, NEW n \in 1..(Len(t) + 1)
    PROVE  LineStart(t, n) \in 1..n /\ \A i \in LineEnds(t) : i < n => i < LineStart(t, n)
<1> DEFINE S == {0} \cup {i \in LineEnds(t) : i < n}
<1>1. S \in SUBSET (0..(n - 1)) BY DEF LineEnds
<1>2. \E i \in S : \A j \in S : i >= j
  <2> DEFINE T == {i + 1 : i \in S}
  <2>1. T \in SUBSET (1..n) /\ T # {} BY <1>1
  <2> HIDE DEF T
  <2>2. \E i \in T : \A j \in T : i >= j
    <3>1. n \in Nat OBVIOUS
    <3> QED BY <2>1, <3>1, Extremes
  <2>3. PICK k \in T : \A j \in T : k >= j BY <2>2
  <2> HIDE DEF S
  <2>4. PICK i \in S : k = i + 1 BY DEF T
  <2>5. \A j \in S : j + 1 \in T BY DEF T
  <2>6. \A j \in S : i >= j BY <1>1, <2>3, <2>4, <2>5
  <2> QED BY <2>6
<1>3. Max(S) \in S /\ \A j \in S : Max(S) >= j BY <1>2 DEF Max
<1>4. LineStart(t, n) = Max(S) + 1 BY DEF LineStart
<1>5. \A i \in LineEnds(t) : i < n => i \in S OBVIOUS
<1> HIDE DEF S
<1>6. LineEnds(t) \subseteq Nat BY DEF LineEnds
<1>7. n \in Nat /\ Max(S) \in 0..(n - 1)
  <2>1. n \in Nat OBVIOUS
  <2>2. Max(S) \in 0..(n - 1) BY <1>1, <1>3, Zenon
  <2> QED BY <2>1, <2>2
<1>8. LineStart(t, n) \in 1..n BY <1>4, <1>7
<1>9. ASSUME NEW i \in LineEnds(t), i < n PROVE i < LineStart(t, n)
  <2>1. i \in S BY <1>5, <1>9, Zenon
  <2>2. Max(S) >= i BY <1>3, <2>1, Zenon
  <2>3. i \in Nat BY <1>6
  <2> QED BY <1>4, <1>7, <2>2, <2>3
<1> QED BY <1>8, <1>9

\* One byte more adds at most the command of the line it ends.
LEMMA CommandsOneMore ==
    ASSUME NEW prompt, NEW S, NEW t \in Seq(S), NEW b \in S
    PROVE  Commands(prompt, Append(t, b))
               = Collect(prompt, Append(t, b), Commands(prompt, t), Len(t) + 1)
<1> DEFINE u == Append(t, b)
           m == Len(t)
<1>1. m \in Nat /\ Len(u) = m + 1 OBVIOUS
<1>a. /\ \A n \in 1..m : n \in LineEnds(u) <=> n \in LineEnds(t)
      /\ \A n \in 1..(m + 1) : LineStart(u, n) = LineStart(t, n)
      BY LinesBefore
<1>2. ASSUME NEW n \in 1..m, NEW found
      PROVE  Collect(prompt, u, found, n) = Collect(prompt, t, found, n)
  <2>1. n \in LineEnds(u) <=> n \in LineEnds(t) BY <1>a
  <2>2. LineStart(u, n) = LineStart(t, n)
    <3>1. n \in 1..(m + 1) OBVIOUS
    <3> QED BY <1>a, <3>1
  <2>3. LineStart(t, n) \in 1..n
    <3>1. n \in 1..(Len(t) + 1) /\ Len(t) \in Nat OBVIOUS
    <3> QED BY <3>1, StartsWithin
  <2>4. SubSeq(u, LineStart(t, n), n) = SubSeq(t, LineStart(t, n), n)
    <3> DEFINE k == LineStart(t, n)
    <3>1. k \in 1..n BY <2>3
    <3> HIDE DEF k
    <3>2. SubSeq(u, k, n) = SubSeq(t, k, n) BY <3>1
    <3> QED BY <3>2 DEF k
  <2>5. LineAt(prompt, u, n) = LineAt(prompt, t, n) BY <2>2, <2>4 DEF LineAt
  <2> QED BY <2>1, <2>5 DEF Collect
<1> HIDE DEF u, m
<1>3. PICK f : CollectsTo(f, prompt, t, m) /\ Commands(prompt, t) = f[m]
      BY <1>1, CommandsAre DEF m
<1>4. PICK g : CollectsTo(g, prompt, u, m + 1) /\ Commands(prompt, u) = g[m + 1]
  <2>1. Len(u) \in Nat BY <1>1
  <2>2. \E g : CollectsTo(g, prompt, u, Len(u)) /\ Commands(prompt, u) = g[Len(u)]
        BY <2>1, CommandsAre
  <2> QED BY <1>1, <2>2
<1>5. f[0] = << >> /\ \A n \in 1..m : f[n] = Collect(prompt, t, f[n - 1], n)
      BY <1>1, <1>3, CollectsValues
<1>6. g[0] = << >> /\ \A n \in 1..(m + 1) : g[n] = Collect(prompt, u, g[n - 1], n)
  <2>1. m + 1 \in Nat BY <1>1
  <2> QED BY <1>4, <2>1, CollectsValues
<1> DEFINE T == {n \in Nat : f[n] = g[n]}
<1>7. 0 \in T BY <1>5, <1>6
<1>8. ASSUME NEW n \in 1..m, n - 1 \in T PROVE n \in T
  <2>1. n \in Nat /\ n \in 1..(m + 1) BY <1>1
  <2>2. f[n] = Collect(prompt, t, f[n - 1], n) /\ g[n] = Collect(prompt, u, g[n - 1], n)
        BY <1>5, <1>6, <2>1
  <2>3. f[n - 1] = g[n - 1] BY <1>8
  <2>4. Collect(prompt, u, g[n - 1], n) = Collect(prompt, t, g[n - 1], n) BY <1>2
  <2> QED BY <2>1, <2>2, <2>3, <2>4
<1> HIDE DEF T
<1>9. m \in T
  <2>1. T \in SUBSET Nat BY DEF T
  <2>2. 0..m \subseteq T BY <1>1, <1>7, <1>8, <2>1, Induction
  <2> QED BY <1>1, <2>2
<1>10. f[m] = g[m] BY <1>9 DEF T
<1>11. g[m + 1] = Collect(prompt, u, g[m], m + 1)
  <2>1. m + 1 \in 1..(m + 1) /\ (m + 1) - 1 = m BY <1>1
  <2> QED BY <1>6, <2>1
<1> QED BY <1>3, <1>4, <1>10, <1>11 DEF u, m

\* What has come since the last line end.
Open(t) == SubSeq(t, LineStart(t, Len(t) + 1), Len(t))

\* A byte that ends the line that is open.
EndsLine(t, b) == b = CR \/ (b = LF /\ (t = << >> \/ t[Len(t)] # CR))

\* A byte joins the open line, or ends it and leaves an empty one.
LEMMA OpenOneMore ==
    ASSUME NEW S, NEW t \in Seq(S), NEW b \in S
    PROVE  /\ Open(t) \in Seq(S)
           /\ Len(t) + 1 \in LineEnds(Append(t, b)) <=> EndsLine(t, b)
           /\ SubSeq(Append(t, b), LineStart(t, Len(t) + 1), Len(t) + 1) = Append(Open(t), b)
           /\ ~EndsLine(t, b) => Open(Append(t, b)) = Append(Open(t), b)
           /\ EndsLine(t, b) => Open(Append(t, b)) = << >>
<1> DEFINE u == Append(t, b)
           n == Len(t) + 1
           k == LineStart(t, n)
<1>1. /\ Len(t) \in Nat /\ n \in Nat /\ Len(u) = n /\ u[n] = b /\ u \in Seq(S)
      /\ \A i \in 1..Len(t) : u[i] = t[i]
      OBVIOUS
<1>2. k \in 1..n
  <2>1. n \in 1..(Len(t) + 1) /\ Len(t) \in Nat BY <1>1
  <2> QED BY <2>1, StartsWithin
<1>3. LineStart(u, n) = k
  <2>1. n \in 1..(Len(t) + 1) BY <1>1
  <2> QED BY <2>1, LinesBefore
<1>4. Open(t) \in Seq(S) /\ SubSeq(u, k, n) = Append(Open(t), b)
  <2>1. Open(t) = SubSeq(t, k, Len(t)) BY DEF Open
  <2> HIDE DEF k
  <2>2. SubSeq(t, k, Len(t)) \in Seq(S) BY <1>2
  <2>3. SubSeq(u, k, n) = Append(SubSeq(t, k, Len(t)), b) BY <1>2
  <2> QED BY <2>1, <2>2, <2>3
<1>5. n \in LineEnds(u) <=> EndsLine(t, b)
  <2>1. n \in LineEnds(u) <=> b = CR \/ (b = LF /\ (n = 1 \/ u[n - 1] # CR))
        BY <1>1 DEF LineEnds
  <2>2. n = 1 <=> t = << >> OBVIOUS
  <2>3. n # 1 => u[n - 1] = t[Len(t)] BY <1>1
  <2> QED BY <2>1, <2>2, <2>3 DEF EndsLine
<1> HIDE DEF u, n, k
<1>6. Open(u) = SubSeq(u, LineStart(u, n + 1), n) BY <1>1 DEF Open
<1>7. ASSUME n \notin LineEnds(u) PROVE Open(u) = Append(Open(t), b)
  <2>1. LineEnds(u) \subseteq 1..n BY <1>1 DEF LineEnds
  <2>2. {i \in LineEnds(u) : i < n + 1} = {i \in LineEnds(u) : i < n}
    <3>1. \A i \in LineEnds(u) : i < n + 1 <=> i < n BY <1>1, <1>7, <2>1
    <3> QED BY <3>1
  <2>3. LineStart(u, n + 1) = k BY <1>3, <2>2 DEF LineStart
  <2> QED BY <1>4, <1>6, <2>3
<1>8. ASSUME n \in LineEnds(u) PROVE Open(u) = << >>
  <2>1. n + 1 \in 1..(Len(u) + 1) /\ Len(u) \in Nat /\ n < n + 1 BY <1>1
  <2>2. LineStart(u, n + 1) \in 1..(n + 1) /\ n < LineStart(u, n + 1)
        BY <1>8, <2>1, StartsWithin
  <2>3. LineStart(u, n + 1) = n + 1 BY <1>1, <2>2
  <2>4. SubSeq(u, n + 1, n) = << >> BY <1>1
  <2> QED BY <1>6, <2>3, <2>4
<1> QED BY <1>4, <1>5, <1>7, <1>8 DEF u, n, k

\* The reference, byte by byte.
LEMMA DisciplineStep ==
    ASSUME NEW prompt, NEW S, NEW t \in Seq(S), NEW b \in S
    PROVE  LET now == Edited(prompt, Open(t))
               u == Append(t, b)
           IN  /\ ~EndsLine(t, b) =>
                      /\ Edited(prompt, Open(u)) = Edit(prompt, now, b)
                      /\ Commands(prompt, u) = Commands(prompt, t)
               /\ EndsLine(t, b) =>
                      /\ Edited(prompt, Open(u)) = << >>
                      /\ Commands(prompt, u) =
                             IF IsCommand(Trim(now)) THEN Append(Commands(prompt, t), Trim(now))
                             ELSE Commands(prompt, t)
<1> DEFINE now == Edited(prompt, Open(t))
           u == Append(t, b)
           n == Len(t) + 1
<1>1. /\ Open(t) \in Seq(S)
      /\ n \in LineEnds(u) <=> EndsLine(t, b)
      /\ SubSeq(u, LineStart(t, n), n) = Append(Open(t), b)
      /\ ~EndsLine(t, b) => Open(u) = Append(Open(t), b)
      /\ EndsLine(t, b) => Open(u) = << >>
      BY OpenOneMore
<1>2. Edited(prompt, Append(Open(t), b)) = Edit(prompt, now, b) BY <1>1, EditedOneMore
<1>3. Commands(prompt, u) = Collect(prompt, u, Commands(prompt, t), n) BY CommandsOneMore
<1>4. LineStart(u, n) = LineStart(t, n)
  <2>1. n \in 1..(Len(t) + 1) OBVIOUS
  <2> QED BY <2>1, LinesBefore
<1>5. LineAt(prompt, u, n) = Trim(Edit(prompt, now, b)) BY <1>1, <1>2, <1>4 DEF LineAt
<1> HIDE DEF now, u, n
<1>6. ASSUME ~EndsLine(t, b)
      PROVE  /\ Edited(prompt, Open(u)) = Edit(prompt, now, b)
             /\ Commands(prompt, u) = Commands(prompt, t)
  BY <1>1, <1>2, <1>3, <1>6 DEF Collect
<1>7. ASSUME EndsLine(t, b)
      PROVE  /\ Edited(prompt, Open(u)) = << >>
             /\ Commands(prompt, u) =
                    IF IsCommand(Trim(now)) THEN Append(Commands(prompt, t), Trim(now))
                    ELSE Commands(prompt, t)
  <2>1. Edit(prompt, now, b) = now BY <1>7 DEF EndsLine, Edit
  <2>2. Edited(prompt, Open(u)) = << >> BY <1>1, <1>7, EditedNothing
  <2> QED BY <1>1, <1>3, <1>5, <1>7, <2>1, <2>2 DEF Collect
<1> QED BY <1>6, <1>7 DEF now, u

-----------------------------------------------------------------------------
(* The buffer is what the discipline makes of the bytes since the last line *)
(* end                                                                     *)

\* Behind a CR the line is empty until a character comes, which is why an LF that
\* is swallowed, although a backspace came between, loses no command.
AsTyped ==
    ~refused => line = Edited(front, Open(typed)) /\ dispatched = Commands(front, typed)
EmptyBehindCR == previousWasCarriageReturn => line = << >>
SeesCR == typed # << >> /\ typed[Len(typed)] = CR => previousWasCarriageReturn
Discipline == AsTyped /\ EmptyBehindCR /\ SeesCR

\* It is enough that the prompt treats each byte as the reference does.
LEMMA DisciplineByte ==
    ASSUME Data, Discipline, NEW b \in Bytes, typed' = Append(typed, b), front' = front,
           previousWasCarriageReturn' => line' = << >>,
           b = CR => previousWasCarriageReturn',
           ~refused' => ~refused,
           ~refused' /\ ~EndsLine(typed, b) =>
               line' = Edit(front, line, b) /\ dispatched' = dispatched,
           ~refused' /\ EndsLine(typed, b) =>
               /\ line' = << >>
               /\ dispatched' = IF IsCommand(Trim(line)) THEN Append(dispatched, Trim(line))
                                ELSE dispatched
    PROVE  Discipline'
<1> DEFINE now == Edited(front, Open(typed))
           u == Append(typed, b)
<1>1. typed \in Seq(Bytes) BY DEF Data
<1>2. /\ ~EndsLine(typed, b) =>
             /\ Edited(front, Open(u)) = Edit(front, now, b)
             /\ Commands(front, u) = Commands(front, typed)
      /\ EndsLine(typed, b) =>
             /\ Edited(front, Open(u)) = << >>
             /\ Commands(front, u) =
                    IF IsCommand(Trim(now)) THEN Append(Commands(front, typed), Trim(now))
                    ELSE Commands(front, typed)
      BY <1>1, DisciplineStep
<1>3. u[Len(u)] = b BY <1>1
<1> HIDE DEF now, u
<1>4. ~refused => line = now /\ dispatched = Commands(front, typed)
      BY DEF Discipline, AsTyped, now
<1>5. typed' = u BY DEF u
<1>6. ~refused' => line' = Edited(front, Open(u)) /\ dispatched' = Commands(front, u)
  <2>1. CASE refused' BY <2>1, Zenon
  <2>2. CASE ~refused' /\ ~EndsLine(typed, b) BY <1>2, <1>4, <2>2, Zenon
  <2>3. CASE ~refused' /\ EndsLine(typed, b)
    <3>1. line = now /\ dispatched = Commands(front, typed) BY <1>4, <2>3, Zenon
    <3>2. line' = << >> BY <2>3, Zenon
    <3>3. dispatched' = IF IsCommand(Trim(line)) THEN Append(dispatched, Trim(line))
                        ELSE dispatched
          BY <2>3, Zenon
    <3>4. dispatched' = Commands(front, u) BY <1>2, <2>3, <3>1, <3>3, Zenon
    <3> QED BY <1>2, <2>3, <3>2, <3>4, Zenon
  <2> QED BY <2>1, <2>2, <2>3, Zenon
<1>7. AsTyped' BY <1>5, <1>6, Zenon DEF AsTyped
<1>8. SeesCR' BY <1>3, <1>5, Zenon DEF SeesCR
<1>9. EmptyBehindCR' BY Zenon DEF EmptyBehindCR
<1> QED BY <1>7, <1>8, <1>9, Zenon DEF Discipline

\* A step that handles no byte.
LEMMA DisciplineSame ==
    ASSUME Discipline, UNCHANGED <<front, line, previousWasCarriageReturn, typed, dispatched>>,
           refused' = refused
    PROVE  Discipline'
<1>1. AsTyped' BY Zenon DEF Discipline, AsTyped
<1>2. EmptyBehindCR' BY Zenon DEF Discipline, EmptyBehindCR
<1>3. SeesCR' BY Zenon DEF Discipline, SeesCR
<1> QED BY <1>1, <1>2, <1>3, Zenon DEF Discipline

LEMMA HandledByte ==
    ASSUME Data, NEW b, Handle(b)
    PROVE  b \in Bytes /\ typed' = Append(typed, b) /\ front' = front
BY Byte DEF Handle

\* Control characters are no characters.
LEMMA Apart ==
    ASSUME NEW c \in Chars
    PROVE  c # CR /\ c # LF /\ c # BS
BY SessionAssumption

LEMMA InsertedAsTyped ==
    ASSUME Data, Discipline, NEW c, Insert(c)
    PROVE  Discipline'
<1>1. /\ c \in Plain /\ Handle(c) /\ previousWasCarriageReturn' = FALSE
      /\ line' = Append(line, c) /\ dispatched' = dispatched /\ refused' = refused
      BY DEF Insert
<1>2. c \in Bytes /\ typed' = Append(typed, c) /\ front' = front BY <1>1, HandledByte
<1>3. c # CR /\ c # LF /\ (c # BS \/ front = "serial") /\ front \in {"session", "serial"}
      BY <1>1, Apart, SessionAssumption DEF Plain, Data
<1>4. ~EndsLine(typed, c) BY <1>3 DEF EndsLine
<1>5. Edit(front, line, c) = Append(line, c) BY <1>3 DEF Edit
<1>6. ~previousWasCarriageReturn' BY <1>1, Zenon
<1>7. ~refused' => ~refused BY <1>1, Zenon
<1> QED BY <1>1, <1>2, <1>3, <1>4, <1>5, <1>6, <1>7, DisciplineByte

LEMMA ErasedAsTyped ==
    ASSUME Data, Discipline, Backspace
    PROVE  Discipline'
<1>1. /\ front = "session" /\ Handle(BS) /\ dispatched' = dispatched /\ refused' = refused
      /\ previousWasCarriageReturn' = previousWasCarriageReturn
      /\ line' = IF line = << >> THEN line ELSE Front(line)
      BY DEF Backspace
<1>2. BS \in Bytes /\ typed' = Append(typed, BS) /\ front' = front BY <1>1, HandledByte
<1>3. BS # CR /\ BS # LF BY SessionAssumption
<1>4. ~EndsLine(typed, BS) BY <1>3 DEF EndsLine
<1>5. Edit(front, line, BS) = line' BY <1>1, <1>3 DEF Edit
<1>6. previousWasCarriageReturn' => line' = << >>
  <2>1. previousWasCarriageReturn' => line = << >>
        BY <1>1, Zenon DEF Discipline, EmptyBehindCR
  <2> QED BY <1>1, <2>1, Zenon
<1>7. ~refused' => ~refused BY <1>1, Zenon
<1> QED BY <1>1, <1>2, <1>3, <1>4, <1>5, <1>6, <1>7, DisciplineByte

\* A line that does not fit ends what is said of the input.
LEMMA RefusedAsTyped ==
    ASSUME Data, Discipline, NEW c, Overflow(c) \/ Drop(c)
    PROVE  Discipline'
<1>1. /\ c \in Plain /\ Handle(c) /\ refused' = TRUE
      /\ \/ previousWasCarriageReturn' = FALSE
         \/ previousWasCarriageReturn' = previousWasCarriageReturn /\ line' = line
      BY DEF Overflow, Drop, Plain, buffer
<1>2. c \in Bytes /\ typed' = Append(typed, c) /\ front' = front BY <1>1, HandledByte
<1>3. c # CR BY <1>1, Apart, SessionAssumption DEF Plain
<1>4. previousWasCarriageReturn' => line' = << >>
      BY <1>1, Zenon DEF Discipline, EmptyBehindCR
<1>5. refused' BY <1>1, Zenon
<1> QED BY <1>2, <1>3, <1>4, <1>5, DisciplineByte

LEMMA SwallowedAsTyped ==
    ASSUME Data, Discipline, NEW b, Swallow(b)
    PROVE  Discipline'
<1>1. /\ b \in {CR, LF} /\ Handle(b) /\ UNCHANGED <<line, dispatched>> /\ refused' = refused
      /\ previousWasCarriageReturn' = (b = CR)
      BY DEF Swallow
<1>2. line = << >>
  <2>1. previousWasCarriageReturn BY DEF Swallow, SecondLineEnd
  <2> QED BY <2>1, Zenon DEF Discipline, EmptyBehindCR
<1>3. b \in Bytes /\ typed' = Append(typed, b) /\ front' = front BY <1>1, HandledByte
<1>4. Edit(front, line, b) = line BY <1>1 DEF Edit
<1>5. Trim(line) = << >>
  <2>1. Len(<< >>) = 0 /\ 1..0 = {} OBVIOUS
  <2> QED BY <1>2, <2>1 DEF Trim
<1>6. ~IsCommand(Trim(line)) BY <1>5 DEF IsCommand
<1>7. b = CR => previousWasCarriageReturn' BY <1>1, Zenon
<1>8. ~refused' => ~refused BY <1>1, Zenon
<1> QED BY <1>1, <1>2, <1>3, <1>4, <1>6, <1>7, <1>8, DisciplineByte

LEMMA EndedAsTyped ==
    ASSUME Data, Discipline, NEW b, EndLine(b)
    PROVE  Discipline'
<1>1. /\ b \in {CR, LF} /\ ~SecondLineEnd(b) /\ Handle(b) /\ Dispatch(line)
      /\ line' = << >> /\ refused' = refused
      /\ previousWasCarriageReturn' = (b = CR)
      BY DEF EndLine
<1>2. b \in Bytes /\ typed' = Append(typed, b) /\ front' = front BY <1>1, HandledByte
<1>3. EndsLine(typed, b)
  <2>1. CASE b = CR BY <2>1 DEF EndsLine
  <2>2. CASE b = LF
    <3>1. ~previousWasCarriageReturn BY <1>1, <2>2, Zenon DEF SecondLineEnd
    <3>2. typed = << >> \/ typed[Len(typed)] # CR
          BY <3>1, Zenon DEF Discipline, SeesCR
    <3> QED BY <2>2, <3>2 DEF EndsLine
  <2> QED BY <1>1, <2>1, <2>2
<1>4. dispatched' = IF IsCommand(Trim(line)) THEN Append(dispatched, Trim(line))
                    ELSE dispatched
      BY <1>1 DEF Dispatch, Runs, IsCommand
<1>5. b = CR => previousWasCarriageReturn' BY <1>1, Zenon
<1>6. ~refused' => ~refused BY <1>1, Zenon
<1> QED BY <1>1, <1>2, <1>3, <1>4, <1>5, <1>6, DisciplineByte

-----------------------------------------------------------------------------
(* The theorems                                                            *)

\* The invariant holds at the first prompt and no step of either prompt breaks it.
THEOREM Inductive == Spec => []IInv
<1>1. ASSUME Init PROVE IInv
  <2>1. << >> \in Seq(Plain) /\ << >> \in Seq(Bytes) /\ << >> \in Seq(Seq(Plain))
        /\ Len(<< >>) = 0
        OBVIOUS
  <2>2. Data BY <1>1, <2>1, SessionAssumption DEF Init, Data, Room
  <2>3. Flags BY <1>1, Zenon DEF Init, Flags
  <2>4. WithinInput BY <1>1, <2>1, SessionAssumption DEF Init, WithinInput
  <2>5. ShownIsDispatched BY <1>1, Zenon DEF Init, ShownIsDispatched
  <2>6. ExitIsLast BY <1>1, <2>1 DEF Init, ExitIsLast
  <2> QED BY <2>2, <2>3, <2>4, <2>5, <2>6 DEF IInv
<1>2. ASSUME IInv, [Next]_vars PROVE IInv'
  <2>1. CASE Start BY <1>2, <2>1, Started
  <2>2. CASE Read BY <1>2, <2>2, ReadSome
  <2>3. CASE ReadEnds BY <1>2, <2>3, Ended
  <2>4. CASE Backspace BY <1>2, <2>4, Erased
  <2>5. CASE \E b \in {CR, LF} : EndLine(b) BY <1>2, <2>5, LineEnded
  <2>6. CASE \E b \in {CR, LF} : Swallow(b) BY <1>2, <2>6, Swallowed
  <2>7. CASE \E c \in Plain : Insert(c) BY <1>2, <2>7, Inserted
  <2>8. CASE \E c \in Plain : Overflow(c) BY <1>2, <2>8, Overflowed
  <2>9. CASE \E c \in Plain : Drop(c) BY <1>2, <2>9, Dropped
  <2>10. CASE UNCHANGED vars
    <3>1. /\ UNCHANGED <<front, result, line, chunk, typed, dispatched, screen>>
          /\ UNCHANGED <<previousWasCarriageReturn, lost, refused>>
          BY <2>10 DEF vars, buffer, history
    <3>2. Data' BY <1>2, <3>1, SamePrompt DEF IInv, Data
    <3>3. Flags' BY <1>2, <3>1, Zenon DEF IInv, Flags
    <3>4. WithinInput' BY <1>2, <3>1 DEF IInv, WithinInput
    <3>5. ShownIsDispatched' BY <1>2, <3>1, Zenon DEF IInv, ShownIsDispatched
    <3>6. ExitIsLast' BY <1>2, <3>1 DEF IInv, ExitIsLast
    <3> QED BY <3>2, <3>3, <3>4, <3>5, <3>6 DEF IInv
  <2> QED BY <1>2, <2>1, <2>2, <2>3, <2>4, <2>5, <2>6, <2>7, <2>8, <2>9, <2>10, Zenon DEF Next
<1> QED BY <1>1, <1>2, PTL DEF Spec

\* A line never outgrows its buffer at either prompt: MaxLine over SSH, one
\* character more on the serial line, whatever is typed and however it is cut.
THEOREM TypeCorrect == Spec => []TypeOK
<1> QED BY Inductive, TypeParts, PTL

\* What stands on the client's line is what the prompt will dispatch, unless the
\* transport lost a write: backspaces, a line that did not fit and a line end
\* leave no character on the screen that the buffer does not hold.
THEOREM ShowsWhatRuns == Spec => []ShownIsDispatched
<1>1. IInv => ShownIsDispatched BY DEF IInv
<1> QED BY <1>1, Inductive, PTL

\* No command runs in an SSH session once exit was dispatched, not even one that
\* came in the same read.
THEOREM StopsAtExit == Spec => []ExitIsLast
<1>1. IInv => ExitIsLast BY DEF IInv
<1> QED BY <1>1, Inductive, PTL

\* The commands that ran are those that the line discipline finds in the bytes
\* that were handled, at either prompt and however the bytes came, unless a line
\* did not fit.
THEOREM RunsWhatWasTyped == Spec => []DispatchesLines
<1>1. ASSUME Init PROVE Discipline
  <2>1. Len(<< >>) = 0 /\ << >> \in Seq(Bytes) OBVIOUS
  <2>2. Open(<< >>) = << >>
    <3>1. LineEnds(<< >>) = {} BY <2>1 DEF LineEnds
    <3>2. Open(<< >>) = SubSeq(<< >>, LineStart(<< >>, 1), 0)
      <4>1. Len(<< >>) + 1 = 1 BY <2>1
      <4> QED BY <2>1, <4>1, Zenon DEF Open
    <3>3. LineStart(<< >>, 1) \in 1..1
      <4>1. 1 \in 1..(Len(<< >>) + 1) /\ Len(<< >>) \in Nat BY <2>1
      <4> QED BY <4>1, StartsWithin
    <3>4. SubSeq(<< >>, 1, 0) = << >> BY <2>1
    <3>5. LineStart(<< >>, 1) = 1 BY <3>3
    <3> QED BY <3>2, <3>4, <3>5
  <2>3. AsTyped BY <1>1, <2>2, EditedNothing, NoCommands, Zenon DEF Init, AsTyped
  <2>4. EmptyBehindCR BY <1>1, Zenon DEF Init, EmptyBehindCR
  <2>5. SeesCR BY <1>1, Zenon DEF Init, SeesCR
  <2> QED BY <2>3, <2>4, <2>5 DEF Discipline
<1>2. ASSUME IInv, Discipline, [Next]_vars PROVE Discipline'
  <2>1. Data BY <1>2 DEF IInv
  <2>2. CASE Start \/ Read \/ ReadEnds \/ UNCHANGED vars
    <3>1. /\ UNCHANGED <<front, line, previousWasCarriageReturn, typed, dispatched>>
          /\ refused' = refused
          BY <2>2 DEF Start, Read, ReadEnds, vars, buffer, history
    <3> QED BY <1>2, <3>1, DisciplineSame
  <2>3. CASE Backspace BY <1>2, <2>1, <2>3, ErasedAsTyped
  <2>4. CASE \E b \in {CR, LF} : EndLine(b) BY <1>2, <2>1, <2>4, EndedAsTyped
  <2>5. CASE \E b \in {CR, LF} : Swallow(b) BY <1>2, <2>1, <2>5, SwallowedAsTyped
  <2>6. CASE \E c \in Plain : Insert(c) BY <1>2, <2>1, <2>6, InsertedAsTyped
  <2>7. CASE \E c \in Plain : Overflow(c) \/ Drop(c) BY <1>2, <2>1, <2>7, RefusedAsTyped
  <2> QED BY <1>2, <2>2, <2>3, <2>4, <2>5, <2>6, <2>7, Zenon DEF Next
<1>3. Discipline => DispatchesLines BY Zenon DEF Discipline, AsTyped, DispatchesLines
<1> QED BY <1>1, <1>2, <1>3, Inductive, PTL DEF Spec
=============================================================================
