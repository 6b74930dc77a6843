-------------------------- MODULE SourceValidation --------------------------
(***************************************************************************)
(* What the preprocessor adapter refuses before mcpp sees a source         *)
(* (validateSourceInto in preprocessor/Preprocessor.cpp): bytes that are   *)
(* not UTF-8, and a # outside comments, literals and directives.  The      *)
(* first is done on bytes, in one pass over the file; the second line by   *)
(* line, with one bit that says whether a block comment is open.           *)
(***************************************************************************)
EXTENDS Integers, Sequences

CONSTANT Texts   \* sequences of bytes

VARIABLES
    text,      \* the source, fixed at the start
    phase,     \* "bytes", "lines" or "done"
    index,     \* the next byte
    line,      \* the line that it is on
    column,    \* the character of the line
    inBlockComment,
    invalid,   \* where the bytes are not UTF-8: {} or one [line, column]
    hashes     \* where a bare # was reported: [line, column]

vars == <<text, phase, index, line, column, inBlockComment, invalid, hashes>>

Newline == 10
Quotes == {34, 39}
Hash == 35
Dollar == 36
Star == 42
Slash == 47
Backslash == 92
Blanks == {9, 32}
End == 0   \* what the code reads behind the last byte of a line

Init ==
    /\ text \in Texts
    /\ phase = "bytes"
    /\ index = 1 /\ line = 1 /\ column = 1
    /\ inBlockComment = FALSE
    /\ invalid = {} /\ hashes = {}

-----------------------------------------------------------------------------
(* validateUtf8 *)

utf8SequenceLength(lead) ==
    CASE lead <= 127 -> 1
      [] lead \in 194 .. 223 -> 2
      [] lead \in 224 .. 239 -> 3
      [] lead \in 240 .. 244 -> 4
      [] OTHER -> 0

isContinuationByte(byte) == byte \in 128 .. 191

\* Mutant: surrogates pass.
SecondByte_Surrogates(lead, second) ==
    /\ lead = 224 => second >= 160
    /\ lead = 240 => second >= 144
    /\ lead = 244 => second <= 143

\* Overlong forms, surrogates and what lies above the last code point.
SecondByte(lead, second) ==
    /\ lead = 224 => second >= 160
    /\ lead = 237 => second < 160
    /\ lead = 240 => second >= 144
    /\ lead = 244 => second <= 143

isValidUtf8Sequence(i, length) ==
    /\ i + length - 1 <= Len(text)
    /\ \A k \in 1 .. (length - 1) : isContinuationByte(text[i + k])
    /\ length >= 3 => SecondByte(text[i], text[i + 1])

\* Mutant: the lines are not counted from the start again.
Restart_Lines ==
    /\ phase' = "lines"
    /\ index' = 1 /\ UNCHANGED <<line, column>>

Restart ==
    /\ phase' = "lines"
    /\ index' = 1 /\ line' = 1 /\ column' = 1

ValidateByte ==
    /\ phase = "bytes" /\ index <= Len(text)
    /\ LET length == utf8SequenceLength(text[index])
       IN  IF text[index] = Newline
           THEN /\ line' = line + 1 /\ column' = 1 /\ index' = index + 1
                /\ UNCHANGED <<phase, invalid>>
           ELSE IF length = 0 \/ ~isValidUtf8Sequence(index, length)
           THEN invalid' = {[line |-> line, column |-> column]} /\ Restart
           ELSE /\ index' = index + length /\ column' = column + 1
                /\ UNCHANGED <<phase, line, invalid>>
    /\ UNCHANGED <<text, inBlockComment, hashes>>

ValidateEnd ==
    /\ phase = "bytes" /\ index > Len(text)
    /\ Restart
    /\ UNCHANGED <<text, inBlockComment, invalid, hashes>>

-----------------------------------------------------------------------------
(* validateBareHashInLine *)

\* The line that starts at the next byte, without its line break.
LineEnd ==
    LET ends == {j \in index .. (Len(text) + 1) : j > Len(text) \/ text[j] = Newline}
    IN  CHOOSE j \in ends : \A k \in ends : j <= k

Row == SubSeq(text, index, LineEnd - 1)

\* The first byte that is no white space is a dollar sign.
parseDollarDirective(row) ==
    \E i \in DOMAIN row : row[i] = Dollar /\ \A j \in 1 .. (i - 1) : row[j] \in Blanks

At(row, i) == IF i \in DOMAIN row THEN row[i] ELSE End

\* Mutant: an escaped quotation mark ends the literal.
InQuote_Escaped(row, i, quote) == IF row[i] = quote THEN [next |-> i + 1, quote |-> End]
                                  ELSE [next |-> i + 1, quote |-> quote]

InQuote(row, i, quote) ==
    IF row[i] = Backslash /\ At(row, i + 1) # End THEN [next |-> i + 2, quote |-> quote]
    ELSE IF row[i] = quote THEN [next |-> i + 1, quote |-> End]
    ELSE [next |-> i + 1, quote |-> quote]

\* The loop over the bytes of a line: what it reports and the comment bit
\* that it leaves.
Scan(row, comment) ==
    LET from[i \in 1 .. (Len(row) + 2), inside \in BOOLEAN, quote \in Quotes \cup {End}] ==
            IF i > Len(row) THEN [comment |-> inside, found |-> 0]
            ELSE IF inside
            THEN IF row[i] = Star /\ At(row, i + 1) = Slash THEN from[i + 2, FALSE, quote]
                 ELSE from[i + 1, TRUE, quote]
            ELSE IF quote # End
            THEN LET step == InQuote(row, i, quote) IN from[step.next, FALSE, step.quote]
            ELSE IF row[i] = Slash /\ At(row, i + 1) = Slash THEN [comment |-> FALSE, found |-> 0]
            ELSE IF row[i] = Slash /\ At(row, i + 1) = Star THEN from[i + 2, TRUE, End]
            ELSE IF row[i] \in Quotes THEN from[i + 1, FALSE, row[i]]
            ELSE IF row[i] = Hash THEN [comment |-> FALSE, found |-> i]
            ELSE from[i + 1, FALSE, End]
    IN  from[1, comment, End]

\* A directive is left to mcpp.
validateBareHashInLine(row) ==
    IF parseDollarDirective(row) THEN [comment |-> inBlockComment, found |-> 0]
    ELSE Scan(row, inBlockComment)

ValidateLine ==
    /\ phase = "lines" /\ index <= Len(text)
    /\ LET scanned == validateBareHashInLine(Row)
       IN  /\ inBlockComment' = scanned.comment
           /\ hashes' = IF scanned.found = 0 THEN hashes
                        ELSE hashes \cup {[line |-> line, column |-> scanned.found]}
    /\ index' = LineEnd + 1
    /\ line' = line + 1
    /\ UNCHANGED <<text, phase, column, invalid>>

LinesEnd ==
    /\ phase = "lines" /\ index > Len(text)
    /\ phase' = "done"
    /\ UNCHANGED <<text, index, line, column, inBlockComment, invalid, hashes>>

Done == phase = "done" /\ UNCHANGED vars

Next == ValidateByte \/ ValidateEnd \/ ValidateLine \/ LinesEnd \/ Done

Spec == Init /\ [][Next]_vars

-----------------------------------------------------------------------------
(* UTF-8 by the scalar values it encodes *)

Payload(i) == text[i] % 64

\* The scalar value that the n bytes at i encode, were the lead byte right.
Scalar(i, n) ==
    CASE n = 1 -> text[i]
      [] n = 2 -> (text[i] - 192) * 64 + Payload(i + 1)
      [] n = 3 -> (text[i] - 224) * 4096 + Payload(i + 1) * 64 + Payload(i + 2)
      [] n = 4 -> (text[i] - 240) * 262144 + Payload(i + 1) * 4096 + Payload(i + 2) * 64 + Payload(i + 3)

Shortest(n) ==
    CASE n = 1 -> 0 .. 127 [] n = 2 -> 128 .. 2047 [] n = 3 -> 2048 .. 65535 [] n = 4 -> 65536 .. 1114111

Encodes(i, n) ==
    /\ i + n - 1 <= Len(text)
    /\ \A k \in (i + 1) .. (i + n - 1) : text[k] \in 128 .. 191
    /\ Scalar(i, n) \in Shortest(n)
    /\ Scalar(i, n) \notin 55296 .. 57343

\* Where the characters begin, and the first place where none does.
Begins ==
    LET at[i \in 1 .. (Len(text) + 1)] ==
            i = 1 \/ \E n \in 1 .. 4 : i > n /\ at[i - n] /\ Encodes(i - n, n)
    IN  {i \in 1 .. (Len(text) + 1) : at[i]}

FirstInvalid == {i \in Begins : i <= Len(text) /\ \A n \in 1 .. 4 : ~Encodes(i, n)}

\* Line breaks before a place, and where its line starts.
LineOf(i) ==
    LET breaks == {j \in 1 .. (i - 1) : text[j] = Newline}
        count[n \in 0 .. (i - 1)] == IF n = 0 THEN 1 ELSE count[n - 1] + (IF n \in breaks THEN 1 ELSE 0)
    IN  count[i - 1]

CharactersBefore(i) ==
    LET count[n \in 0 .. (i - 1)] ==
            IF n = 0 THEN 0
            ELSE IF text[n] = Newline THEN 0 ELSE count[n - 1] + (IF n \in Begins THEN 1 ELSE 0)
    IN  count[i - 1]

\* The bytes are refused exactly when they are not the UTF-8 encoding of
\* Unicode scalar values, at the line and the character where that begins
\* (validateUtf8).
RefusesInvalidUtf8 ==
    phase = "done" => invalid = {[line |-> LineOf(i), column |-> CharactersBefore(i) + 1] : i \in FirstInvalid}

-----------------------------------------------------------------------------
(* Comments and literals of the whole text *)

\* What each byte belongs to, for the text as a whole: "code", "line" or
\* "block" comment, or a literal; marks of two bytes belong together.
Belongs ==
    LET mode[i \in 1 .. (Len(text) + 2)] ==
            IF i = 1 THEN "code"
            ELSE LET before == mode[i - 1]
                     b == text[i - 1]
                     after == IF i <= Len(text) THEN text[i] ELSE End
                 IN  CASE b = Newline -> IF before \in {"block", "closing", "opening"} THEN "block" ELSE "code"
                       [] OTHER ->
                          CASE before = "code" /\ b = Slash /\ after = Slash -> "line"
                            [] before = "code" /\ b = Slash /\ after = Star -> "opening"
                            [] before = "code" /\ b = 34 -> "string"
                            [] before = "code" /\ b = 39 -> "character"
                            [] before = "opening" -> "block"
                            [] before = "block" /\ b = Star /\ after = Slash -> "closing"
                            [] before = "closing" -> "code"
                            [] before = "string" /\ b = Backslash -> "escapedString"
                            [] before = "character" /\ b = Backslash -> "escapedCharacter"
                            [] before = "escapedString" -> "string"
                            [] before = "escapedCharacter" -> "character"
                            [] before = "string" /\ b = 34 -> "code"
                            [] before = "character" /\ b = 39 -> "code"
                            [] OTHER -> before
    IN  [i \in 1 .. Len(text) |-> mode[i]]

\* A directive starts in code.
StartOf(i) ==
    LET starts == {j \in 1 .. i : j = 1 \/ text[j - 1] = Newline}
    IN  CHOOSE j \in starts : \A k \in starts : k <= j

OnDirective(i) ==
    \E d \in StartOf(i) .. i :
        /\ text[d] = Dollar /\ Belongs[d] = "code"
        /\ \A j \in StartOf(i) .. (d - 1) : text[j] \in Blanks

BareHashes == {i \in DOMAIN text : text[i] = Hash /\ Belongs[i] = "code" /\ ~OnDirective(i)}

\* A source is refused exactly when it has a # outside comments, literals and
\* directives, and the first report is of the first one; the lines after a
\* report may be misjudged (validateBareHashInLine).
ReportsBareHash ==
    phase = "done" =>
        {h \in hashes : \A k \in hashes : h.line <= k.line}
          = {[line |-> LineOf(i), column |-> i - StartOf(i) + 1] :
                i \in {h \in BareHashes : \A k \in BareHashes : h <= k}}

\* The scans stay inside the text and its lines.
TypeOK ==
    /\ phase \in {"bytes", "lines", "done"}
    /\ index \in 1 .. (Len(text) + 2)
    /\ line \in 1 .. (Len(text) + 1)
    /\ inBlockComment \in BOOLEAN
    /\ \A h \in hashes : h.column <= Len(text)
=============================================================================
