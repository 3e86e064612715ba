---------------------------- MODULE ShellSession ----------------------------
(***************************************************************************)
(* The two prompts of the device: ShellSession::run()                      *)
(* (src/firmware/common/shell_session.h) over an SSH transport, and loop() *)
(* of the Arduino image (esp32shell.ino) over the serial line.  Bytes      *)
(* arrive in chunks and are handled one by one, and every finished line    *)
(* goes to CommandCore::dispatch().  A character is a value; a write that  *)
(* the SSH peer's window does not take is lost.                            *)
(***************************************************************************)
EXTENDS Naturals, Sequences, SequencesExt

CONSTANTS
    Chars,      \* characters that are not control characters
    Space,      \* the blank among them
    CR, LF, BS, \* line ends; backspace or delete
    Exit,       \* the trimmed line that closes the session
    MaxLine,    \* CommandCore::kMaxCommandLength
    MaxChunk,   \* bytes of one read: 64, or what the serial driver holds
    MaxInput    \* bound on the bytes of a session

Bytes == Chars \cup {CR, LF, BS}

ASSUME SessionAssumption ==
    /\ Space \in Chars /\ {CR, LF, BS} \cap Chars = {}
    /\ CR # LF /\ CR # BS /\ LF # BS
    /\ Exit \in Seq(Chars)
    /\ MaxLine \in Nat \ {0} /\ MaxChunk \in Nat \ {0} /\ MaxInput \in Nat

VARIABLES
    front,                     \* the prompt: "session" or "serial"
    result,                    \* "starting", "running", or why run() returned
    line,                      \* the buffer up to `used`
    previousWasCarriageReturn, \* lineEndingSeen on the serial line
    chunk,                     \* read and not yet handled
    typed,                     \* history: the bytes handled
    dispatched,                \* history: the commands that were not blank
    screen,                    \* what the client sees on its line, prompt apart
    lost,                      \* history: a write was lost
    refused                    \* history: some line was too long

buffer == <<line, previousWasCarriageReturn>>
history == <<typed, dispatched, refused>>
vars == <<front, result, buffer, chunk, history, screen, lost>>

Init ==
    /\ front \in {"session", "serial"}
    /\ result = "starting"
    /\ line = << >> /\ previousWasCarriageReturn = FALSE
    /\ chunk = << >>
    /\ typed = << >> /\ dispatched = << >> /\ refused = FALSE
    /\ screen = << >> /\ lost = FALSE

-----------------------------------------------------------------------------
(* SshTransport and Serial                                                 *)

\* write(): the SSH peer's window takes the text at one of five tries, or the
\* text is lost; the session ignores the answer.
Write(shown) ==
    \/ screen' = shown /\ UNCHANGED lost
    \/ front = "session" /\ lost' = TRUE /\ UNCHANGED screen

\* A session needs memory for its line; the serial line is a String that grows.
Start ==
    /\ result = "starting"
    /\ \/ result' = "running"
       \/ front = "session" /\ result' = "error"
    /\ UNCHANGED <<front, buffer, chunk, history, screen, lost>>

\* read(): a chunk, or nothing yet, or the end.
Read ==
    /\ result = "running" /\ chunk = << >>
    /\ \E n \in 1..MaxChunk :
           /\ Len(typed) + n <= MaxInput
           /\ chunk' \in [1..n -> Bytes]
    /\ UNCHANGED <<front, result, buffer, history, screen, lost>>

ReadEnds ==
    /\ front = "session" /\ result = "running" /\ chunk = << >>
    /\ result' = "closed"
    /\ UNCHANGED <<front, buffer, chunk, history, screen, lost>>

-----------------------------------------------------------------------------
(* The loop over the bytes of a chunk                                      *)

Handle(b) ==
    /\ result = "running" /\ chunk # << >> /\ Head(chunk) = b
    /\ chunk' = Tail(chunk)
    /\ typed' = Append(typed, b)
    /\ UNCHANGED front

\* CommandCore::dispatch() looks at the line without the blanks around it.
Blank(c) == c = Space
Trim(s) ==
    LET solid == {i \in 1..Len(s) : ~Blank(s[i])}
    IN  IF solid = {} THEN << >>
        ELSE SubSeq(s, CHOOSE i \in solid : \A j \in solid : i <= j,
                       CHOOSE i \in solid : \A j \in solid : i >= j)

\* It runs neither a blank line nor, which only the serial prompt can hand it,
\* one that is too long.
Runs(s) == Trim(s) # << >> /\ Len(Trim(s)) <= MaxLine

\* loop() does not look at the status that closes a session.
Dispatch(s) ==
    /\ dispatched' = IF Runs(s) THEN Append(dispatched, Trim(s)) ELSE dispatched
    /\ result' = IF front = "session" /\ Trim(s) = Exit
                 THEN "command requested close" ELSE "running"

\* On the serial line a second CR is swallowed as well.
SecondLineEnd(b) == previousWasCarriageReturn /\ (b = LF \/ front = "serial")

Swallow(b) ==
    /\ b \in {CR, LF} /\ SecondLineEnd(b)
    /\ Handle(b)
    /\ previousWasCarriageReturn' = (b = CR)
    /\ UNCHANGED <<result, line, dispatched, refused, screen, lost>>

\* Variant: the next line starts behind the old one.
EndLine_KeepsLine(b) ==
    /\ b \in {CR, LF} /\ ~SecondLineEnd(b)
    /\ Handle(b)
    /\ previousWasCarriageReturn' = (b = CR)
    /\ Dispatch(line)
    /\ line' = line
    /\ UNCHANGED refused
    /\ Write(<< >>)

\* Variant: the session goes on after exit.
EndLine_GoesOn(b) ==
    /\ b \in {CR, LF} /\ ~SecondLineEnd(b)
    /\ Handle(b)
    /\ previousWasCarriageReturn' = (b = CR)
    /\ dispatched' = IF Runs(line) THEN Append(dispatched, Trim(line)) ELSE dispatched
    /\ UNCHANGED result
    /\ line' = << >>
    /\ UNCHANGED refused
    /\ Write(<< >>)

EndLine(b) ==
    /\ b \in {CR, LF} /\ ~SecondLineEnd(b)
    /\ Handle(b)
    /\ previousWasCarriageReturn' = (b = CR)
    /\ Dispatch(line)
    /\ line' = << >>
    /\ UNCHANGED refused
    /\ Write(<< >>)

\* Variant: the character stays on the screen.
Backspace_Unseen ==
    /\ front = "session" /\ Handle(BS)
    /\ line' = IF line = << >> THEN line ELSE Front(line)
    /\ UNCHANGED <<result, previousWasCarriageReturn, dispatched, refused, screen, lost>>

Backspace ==
    /\ front = "session" /\ Handle(BS)
    /\ IF line = << >>
       THEN UNCHANGED <<line, screen, lost>>
       ELSE line' = Front(line) /\ Write(IF screen = << >> THEN screen ELSE Front(screen))
    /\ UNCHANGED <<result, previousWasCarriageReturn, dispatched, refused>>

\* The serial prompt holds one character more, and edits nothing: a backspace is
\* a character like any other.
Plain == IF front = "session" THEN Chars ELSE Chars \cup {BS}
Room == IF front = "session" THEN MaxLine ELSE MaxLine + 1

\* Variant: the terminating NUL is not counted.
Insert_OneMore(c) ==
    /\ c \in Plain /\ Len(line) <= Room
    /\ Handle(c)
    /\ previousWasCarriageReturn' = FALSE
    /\ line' = Append(line, c)
    /\ Write(Append(screen, c))
    /\ UNCHANGED <<result, dispatched, refused>>

Insert(c) ==
    /\ c \in Plain /\ Len(line) < Room
    /\ Handle(c)
    /\ previousWasCarriageReturn' = FALSE
    /\ line' = Append(line, c)
    /\ Write(Append(screen, c))
    /\ UNCHANGED <<result, dispatched, refused>>

\* "error: command is too long" on a line of its own, without a new prompt; the
\* characters that follow make up a new line.
Overflow(c) ==
    /\ front = "session" /\ c \in Chars /\ Len(line) = Room
    /\ Handle(c)
    /\ previousWasCarriageReturn' = FALSE
    /\ line' = << >>
    /\ refused' = TRUE
    /\ Write(<< >>)
    /\ UNCHANGED <<result, dispatched>>

\* On the serial line they are dropped, without a word or an echo.
Drop(c) ==
    /\ front = "serial" /\ c \in Plain /\ Len(line) = Room
    /\ Handle(c)
    /\ refused' = TRUE
    /\ UNCHANGED <<result, buffer, dispatched, screen, lost>>

-----------------------------------------------------------------------------
Next ==
    \/ Start \/ Read \/ ReadEnds \/ Backspace
    \/ \E b \in {CR, LF} : EndLine(b) \/ Swallow(b)
    \/ \E c \in Plain : Insert(c) \/ Overflow(c) \/ Drop(c)

Spec == Init /\ [][Next]_vars

-----------------------------------------------------------------------------
(* What a line discipline means by the bytes of a session                  *)

LineEnds(t) ==
    {i \in 1..Len(t) : t[i] = CR \/ (t[i] = LF /\ (i = 1 \/ t[i - 1] # CR))}

\* The characters of a piece of the input; over SSH each backspace takes back the
\* last character before it that is still there.
Edit(prompt, s, b) ==
    IF b \in {CR, LF} THEN s
    ELSE IF prompt = "serial" \/ b # BS THEN Append(s, b)
    ELSE IF s = << >> THEN s ELSE Front(s)
Edited(prompt, piece) ==
    LET upTo[n \in 0..Len(piece)] ==
            IF n = 0 THEN << >> ELSE Edit(prompt, upTo[n - 1], piece[n])
    IN  upTo[Len(piece)]

\* The line that ends at n begins behind the line end before n.
LineStart(t, n) == Max({0} \cup {i \in LineEnds(t) : i < n}) + 1
LineAt(prompt, t, n) == Trim(Edited(prompt, SubSeq(t, LineStart(t, n), n)))

\* The commands of t: one for every line end whose line is neither blank nor too
\* long.
IsCommand(s) == s # << >> /\ Len(s) <= MaxLine
Collect(prompt, t, found, n) ==
    IF n \in LineEnds(t) /\ IsCommand(LineAt(prompt, t, n))
    THEN Append(found, LineAt(prompt, t, n))
    ELSE found
Commands(prompt, t) ==
    LET upTo[n \in 0..Len(t)] ==
            IF n = 0 THEN << >> ELSE Collect(prompt, t, upTo[n - 1], n)
    IN  upTo[Len(t)]

-----------------------------------------------------------------------------
(* Properties                                                              *)

TypeOK ==
    /\ front \in {"session", "serial"}
    /\ result \in {"starting", "running", "closed", "error", "command requested close"}
    /\ line \in Seq(Plain) /\ Len(line) <= Room
    /\ previousWasCarriageReturn \in BOOLEAN
    /\ chunk \in Seq(Bytes) /\ Len(chunk) <= MaxChunk
    /\ typed \in Seq(Bytes) /\ Len(typed) <= MaxInput
    /\ dispatched \in Seq(Seq(Plain))
    /\ screen \in Seq(Plain) /\ lost \in BOOLEAN /\ refused \in BOOLEAN

\* However the bytes are cut into chunks and whatever line ends are used, at
\* either prompt, the commands that run are the ones a line discipline finds in
\* the input, unless a line did not fit.
DispatchesLines == ~refused => dispatched = Commands(front, typed)

\* What was echoed on the prompt's line is what will be dispatched, a line that
\* did not fit included, unless output was lost.
ShownIsDispatched == lost \/ screen = line

\* Nothing runs after exit in an SSH session, not even what came in the same
\* chunk.
ExitIsLast ==
    front = "session" =>
        \A i \in 1..Len(dispatched) :
            dispatched[i] = Exit => i = Len(dispatched) /\ result = "command requested close"
=============================================================================
