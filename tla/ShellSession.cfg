\* Every input of six bytes in chunks of one or two.
CONSTANTS
    letter = letter
    blank = blank
    CR = CR
    LF = LF
    BS = BS
    Chars <- TwoChars
    Space = blank
    Exit <- ExitWord
    MaxLine = 2
    MaxChunk = 2
    MaxInput = 6
SPECIFICATION Spec
INVARIANTS
    TypeOK
    DispatchesLines
    ShownIsDispatched
    ExitIsLast
\* A session that returned has no next step, nor an input of full length.
CHECK_DEADLOCK FALSE
