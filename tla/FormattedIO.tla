----------------------------- MODULE FormattedIO -----------------------------
(***************************************************************************)
(* Formatted output and input: printf and scanf as the analyzer accepts    *)
(* them (sema/SemaCalls.cpp), the argument and target descriptors that the *)
(* emitted code builds (codegen/LLVMCodegenStatements.cpp) and the loops   *)
(* of hs_format_output and hs_scan_input (runtime/hitsimple_runtime.c).    *)
(* A program prints a list of arguments to a file and scans the file with  *)
(* the same format, or scans a file it finds.  A character is a string of  *)
(* length one; a format is given in pieces, so that what it means is known *)
(* independently of the three loops that take it apart.  A floating value  *)
(* is the token that denotes it.                                           *)
(***************************************************************************)
EXTENDS Integers, SequencesExt

CONSTANTS
    Prints,        \* programs that print, then scan: [pieces, arguments, targets]
    Scans,         \* programs that scan: [pieces, targets, literal, input]
    ByteBits,      \* bits of a byte (8)
    PointerLength, \* bytes of an address (8)
    WidthMax,      \* the largest width that a u64 holds
    TokenSize      \* the buffer for a floating token (192)

FormatAssumption ==
    {ByteBits, PointerLength, WidthMax, TokenSize} \subseteq Nat \ {0}

VARIABLES
    program,      \* the program and its input, fixed at the start
    phase,        \* "compile", "print", "validate", "scan", "refused", "stopped",
                  \* "unwritten" or "done"
    input,        \* the characters of the file that are not read yet
    output,       \* the characters printed
    position,     \* the format character that comes next
    taken,        \* the arguments, or targets, used so far
    contents,     \* what the targets hold
    converted,    \* the conversions made
    result        \* what the call returned

vars == <<program, phase, input, output, position, taken, contents, converted, result>>

EOF == -1
Space == {" "}
Numerals == <<"0", "1", "2", "3", "4", "5", "6", "7", "8", "9", "a", "b", "c", "d", "e", "f">>
Untouched == << >>   \* a target holds Untouched or <<value>>

LargestU64 == 2 ^ (8 * ByteBits) - 1

Flatten(pieces) ==
    LET upTo[n \in 0 .. Len(pieces)] == IF n = 0 THEN << >> ELSE upTo[n - 1] \o pieces[n].text
    IN  upTo[Len(pieces)]

format == program.format

Init ==
    /\ \/ \E p \in Prints :
             /\ program = [pieces |-> p.pieces, format |-> Flatten(p.pieces), arguments |-> p.arguments,
                           targets |-> p.targets, literal |-> TRUE, prints |-> TRUE, input |-> << >>]
             /\ phase = "print"
       \/ \E s \in Scans :
             /\ program = [pieces |-> s.pieces, format |-> Flatten(s.pieces), arguments |-> << >>,
                           targets |-> s.targets, literal |-> s.literal, prints |-> FALSE, input |-> s.input]
             /\ phase = "compile"
    /\ input = program.input
    /\ output = << >>
    /\ position = 1
    /\ taken = 0
    /\ contents = [i \in DOMAIN program.targets |-> Untouched]
    /\ converted = 0
    /\ result = 0

-----------------------------------------------------------------------------
(* Numbers and their text *)

hs_digit_value(ch) == CHOOSE d \in 0 .. 15 : Numerals[d + 1] = ch

IsDigit(ch, base) == \E d \in 0 .. (base - 1) : Numerals[d + 1] = ch

\* How many digits the number has.
NumberLength(value, base) == CHOOSE n \in 1 .. 32 : base ^ n > value /\ (n = 1 \/ base ^ (n - 1) <= value)

Text(value, base) ==
    LET n == NumberLength(value, base)
    IN  [i \in 1 .. n |-> Numerals[((value \div base ^ (n - i)) % base) + 1]]

ValueOf(digits, base) ==
    LET upTo[n \in 0 .. Len(digits)] ==
            IF n = 0 THEN 0 ELSE upTo[n - 1] * base + hs_digit_value(digits[n])
    IN  upTo[Len(digits)]

Prefixed(s, Test(_)) ==
    LET ends == {i \in 0 .. Len(s) : \A j \in 1 .. i : Test(s[j])}
    IN  CHOOSE i \in ends : \A j \in ends : j <= i

\* The leading characters that pass the test, and what follows them.
Leading(s, Test(_)) == SubSeq(s, 1, Prefixed(s, Test))
Following(s, Test(_)) == SubSeq(s, Prefixed(s, Test) + 1, Len(s))

-----------------------------------------------------------------------------
(* The format *)

FloatLengths == {2, 4, 8, 16}
IntegerSpecifiers == {"d", "u", "x", "o", "b"}
Specifiers == IntegerSpecifiers \cup {"c", "s", "p"}

AtDigit(ch) == IsDigit(ch, 10)

\* The conversion that begins after the % at position i - 1.
Conversion(i) ==
    LET rest == SubSeq(format, i, Len(format))
        digits == Leading(rest, AtDigit)
        after == Following(rest, AtDigit)
    IN  [digits |-> digits, next |-> i + Len(digits) + 1,
         specifier |-> IF after = << >> THEN "end" ELSE after[1]]

\* The conversions of the format from a position on; the loops of the analyzer
\* and of the runtime take the same steps.
Conversions ==
    LET from[i \in 1 .. (Len(format) + 2)] ==
            IF i > Len(format) THEN << >>
            ELSE IF format[i] # "%" THEN from[i + 1]
            ELSE IF i < Len(format) /\ format[i + 1] = "%" THEN from[i + 2]
            ELSE LET c == Conversion(i + 1) IN <<c>> \o (IF c.specifier = "end" THEN << >> ELSE from[c.next])
    IN  from[1]

Overflows(c) == ValueOf(c.digits, 10) > WidthMax

\* parseByteLength answers 0 for a width that does not fit.
ParsedLength(c) == IF Overflows(c) THEN 0 ELSE ValueOf(c.digits, 10)

FloatLength(length) == IF length = 0 THEN 8 ELSE length

parseLiteralFormat(c) ==
    IF c.specifier = "f" THEN FloatLength(ParsedLength(c)) \in FloatLengths
    ELSE ParsedLength(c) = 0 /\ c.specifier \in Specifiers

\* Mutant: a string target without room for the terminating byte is accepted.
validateInputTarget_NoRoom(c, target) ==
    CASE c.specifier \in {"c", "s"} -> target.capacity >= 1
      [] c.specifier = "p" -> target.capacity = PointerLength
      [] c.specifier = "f" -> target.capacity = FloatLength(ParsedLength(c))
      [] OTHER -> target.capacity \in {1, 2, 4, 8}

validateInputTarget(c, target) ==
    CASE c.specifier = "c" -> target.capacity >= 1
      [] c.specifier = "s" -> target.capacity >= 2
      [] c.specifier = "p" -> target.capacity = PointerLength
      [] c.specifier = "f" -> target.capacity = FloatLength(ParsedLength(c))
      [] OTHER -> target.capacity \in {1, 2, 4, 8}

\* The analyzer takes a literal format apart; of any other it knows nothing.
lowerInputLeftContext ==
    /\ phase = "compile"
    /\ phase' =
          IF \/ program.targets = << >>
             \/ /\ program.literal
                /\ \/ \E i \in DOMAIN Conversions : ~parseLiteralFormat(Conversions[i])
                   \/ Len(Conversions) # Len(program.targets)
                   \/ \E i \in DOMAIN Conversions :
                         ~validateInputTarget(Conversions[i], program.targets[i])
          THEN "refused" ELSE "validate"
    /\ UNCHANGED <<program, input, output, position, taken, contents, converted, result>>

-----------------------------------------------------------------------------
(* hs_format_output *)

FormatKind(template) ==
    CASE template \in {"f16", "f32", "f64", "f128"} -> "float"
      [] template = "cstr" -> "string"
      [] OTHER -> "bytes"

\* The width of an integer argument in bits.
Bits(argument) == argument.length * ByteBits

hs_read_signed(argument) ==
    IF argument.value < 2 ^ (Bits(argument) - 1) THEN argument.value
    ELSE argument.value - 2 ^ Bits(argument)

Signed(value) == IF value < 0 THEN <<"-">> \o Text(-value, 10) ELSE Text(value, 10)

\* What the C library prints for an address.
Pointer(value) == IF value = 0 THEN <<"(", "n", "i", "l", ")">> ELSE <<"0", "x">> \o Text(value, 16)

Printed(specifier, argument) ==
    CASE specifier = "d" -> Signed(hs_read_signed(argument))
      [] specifier = "u" -> Text(argument.value, 10)
      [] specifier = "x" -> Text(argument.value, 16)
      [] specifier = "o" -> Text(argument.value, 8)
      [] specifier = "b" -> Text(argument.value, 2)
      [] specifier = "p" -> Pointer(argument.value)
      [] OTHER -> argument.value

\* The checks of one conversion of the output loop, in checked mode.
OutputStops(c, n) ==
    \/ c.specifier = "end" \/ Overflows(c)
    \/ c.specifier # "f" /\ ValueOf(c.digits, 10) # 0
    \/ n > Len(program.arguments)
    \/ c.specifier \notin Specifiers \cup {"f"}
    \/ LET argument == program.arguments[n]
           kind == FormatKind(argument.template)
       IN  \/ c.specifier \in {"d", "u", "s"} /\ kind = "float"
           \/ c.specifier \in Specifiers \ {"s"} /\ argument.length \notin 1 .. 8
           \/ c.specifier = "f" /\ (\/ FloatLength(ValueOf(c.digits, 10)) \notin FloatLengths
                                    \/ kind # "float"
                                    \/ argument.length # FloatLength(ValueOf(c.digits, 10)))

Stop ==
    /\ phase' = "stopped"
    /\ UNCHANGED <<input, output, position, taken, contents, converted, result>>

\* hs_write: a short count ends the call with -1.
Write(text, next, n) ==
    \/ /\ output' = output \o text
       /\ position' = next
       /\ taken' = n
       /\ UNCHANGED <<phase, input, contents, converted, result>>
    \/ /\ \E k \in 0 .. (Len(text) - 1) : output' = output \o SubSeq(text, 1, k)
       /\ result' = -1
       /\ phase' = "unwritten"
       /\ UNCHANGED <<input, position, taken, contents, converted>>

PrintText ==
    /\ phase = "print" /\ position <= Len(format)
    /\ \/ format[position] # "%" /\ Write(<<format[position]>>, position + 1, taken)
       \/ /\ position < Len(format) /\ format[position] = "%" /\ format[position + 1] = "%"
          /\ Write(<<"%">>, position + 2, taken)
    /\ UNCHANGED program

PrintConversion ==
    /\ phase = "print" /\ position <= Len(format) /\ format[position] = "%"
    /\ position = Len(format) \/ format[position + 1] # "%"
    /\ LET c == Conversion(position + 1)
       IN  IF OutputStops(c, taken + 1) THEN Stop
           ELSE Write(Printed(c.specifier, program.arguments[taken + 1]), c.next, taken + 1)
    /\ UNCHANGED program

\* The end of the output; the program then scans what it printed.
PrintEnd ==
    /\ phase = "print" /\ position > Len(format)
    /\ IF taken # Len(program.arguments) THEN Stop
       ELSE /\ phase' = "compile"
            /\ input' = output
            /\ result' = Len(output)
            /\ position' = 1
            /\ taken' = 0
            /\ UNCHANGED <<output, contents, converted>>
    /\ UNCHANGED program

-----------------------------------------------------------------------------
(* hs_scan_input *)

ScanKind(template) ==
    CASE template \in {"f16", "f32", "f64", "f128"} -> "float"
      [] template \in {"addr", "handle"} -> "pointer"
      [] template = "cstr" -> "string"
      [] OTHER -> "any"

\* Mutant: only the capacity of the target is tested.
hs_validate_scan_target_Capacity(c, target) ==
    CASE c.specifier = "c" -> target.capacity >= 1
      [] c.specifier = "s" -> target.capacity >= 2
      [] c.specifier = "p" -> target.capacity = PointerLength
      [] c.specifier = "f" -> target.capacity = FloatLength(ValueOf(c.digits, 10))
      [] OTHER -> target.capacity \in {1, 2, 4, 8}

hs_validate_scan_target(c, target) ==
    LET kind == ScanKind(target.template)
    IN  CASE c.specifier = "c" -> target.capacity >= 1 /\ kind = "any"
          [] c.specifier = "s" -> target.capacity >= 2 /\ kind \in {"any", "string"}
          [] c.specifier = "p" -> target.capacity = PointerLength /\ kind \in {"any", "pointer"}
          [] c.specifier = "f" -> /\ target.capacity = FloatLength(ValueOf(c.digits, 10))
                                  /\ kind \in {"any", "float"}
          [] OTHER -> target.capacity \in {1, 2, 4, 8} /\ kind = "any"

ScanStops(c, n) ==
    \/ c.specifier = "end" \/ Overflows(c)
    \/ c.specifier = "f" /\ FloatLength(ValueOf(c.digits, 10)) \notin FloatLengths
    \/ c.specifier # "f" /\ (ValueOf(c.digits, 10) # 0 \/ c.specifier \notin Specifiers)
    \/ n > Len(program.targets)
    \/ ~hs_validate_scan_target(c, program.targets[n])

hs_validate_scan_format ==
    /\ \A i \in DOMAIN Conversions : ~ScanStops(Conversions[i], i)
    /\ Len(Conversions) = Len(program.targets)

Validate ==
    /\ phase = "validate"
    /\ IF hs_validate_scan_format
       THEN phase' = "scan" /\ UNCHANGED <<input, output, position, taken, contents, converted, result>>
       ELSE Stop
    /\ UNCHANGED program

Return(value) ==
    /\ phase' = "done"
    /\ result' = value
    /\ UNCHANGED <<program, output, position, taken, contents, converted>>

Goes(next, rest) ==
    /\ position' = next
    /\ input' = rest
    /\ UNCHANGED <<program, phase, output, taken, contents, converted, result>>

IsSpace(ch) == ch \in Space

\* Mutant: the loop's own step is counted twice.
ScanSpace_Twice ==
    /\ phase = "scan" /\ position <= Len(format) /\ format[position] \in Space
    /\ Goes(position + 1 + Len(Leading(SubSeq(format, position, Len(format)), IsSpace)),
            Following(input, IsSpace))

\* White space of the format skips any white space of the input.
ScanSpace ==
    /\ phase = "scan" /\ position <= Len(format) /\ format[position] \in Space
    /\ Goes(position + Len(Leading(SubSeq(format, position, Len(format)), IsSpace)),
            Following(input, IsSpace))

\* An ordinary character, or %%, must be the next character of the input.
MatchCharacter(ch, next) ==
    IF input # << >> /\ Head(input) = ch THEN Goes(next, Tail(input))
    ELSE Return(IF converted = 0 /\ input = << >> THEN EOF ELSE converted) /\ UNCHANGED input

ScanText ==
    /\ phase = "scan" /\ position <= Len(format)
    /\ \/ format[position] \notin Space \cup {"%"} /\ MatchCharacter(format[position], position + 1)
       \/ /\ format[position] = "%" /\ format[position + 1] = "%"
          /\ MatchCharacter("%", position + 2)

\* The conversion at the current position, and its target.
Here == Conversion(position + 1)

AtConversion(specifiers) ==
    /\ phase = "scan" /\ position < Len(format)
    /\ format[position] = "%" /\ format[position + 1] # "%"
    /\ Here.specifier \in specifiers

Store(value, rest) ==
    /\ contents' = [contents EXCEPT ![taken + 1] = <<value>>]
    /\ taken' = taken + 1
    /\ converted' = converted + 1
    /\ position' = Here.next
    /\ input' = rest
    /\ UNCHANGED <<program, phase, output, result>>

Fail(value, rest) == Return(value) /\ input' = rest

ScanCharacter ==
    /\ AtConversion({"c"})
    /\ IF input = << >> THEN Fail(IF converted = 0 THEN EOF ELSE converted, input)
       ELSE Store(Head(input), Tail(input))

NotSpace(ch) == ch \notin Space

\* Mutant: the terminating byte is not counted.
ReadString_Full(text, capacity) ==
    LET word == Leading(text, NotSpace)
    IN  IF Len(word) <= capacity THEN word ELSE SubSeq(word, 1, capacity)

\* The characters up to white space that leave room for the terminating byte.
ReadString(text, capacity) ==
    LET word == Leading(text, NotSpace)
    IN  IF Len(word) < capacity THEN word ELSE SubSeq(word, 1, capacity - 1)

ScanString ==
    /\ AtConversion({"s"})
    /\ LET text == Following(input, IsSpace)
           word == ReadString(text, program.targets[taken + 1].capacity)
       IN  IF text = << >> THEN Fail(IF converted = 0 THEN EOF ELSE converted, text)
           ELSE Store(word, SubSeq(text, Len(word) + 1, Len(text)))

FloatCharacter(ch) == ch \in {Numerals[d] : d \in 1 .. 16} \cup {"x", "+", "-", "."}

\* What the C library takes for a number: a sign, digits, at most one point.
IsFloat(token) ==
    LET body == IF Head(token) \in {"+", "-"} THEN Tail(token) ELSE token
    IN  /\ \E i \in DOMAIN body : IsDigit(body[i], 10)
        /\ \A i \in DOMAIN body : IsDigit(body[i], 10) \/ body[i] = "."
        /\ \A i, j \in DOMAIN body : body[i] = "." /\ body[j] = "." => i = j

ScanFloat ==
    /\ AtConversion({"f"})
    /\ LET text == Following(input, IsSpace)
           token == Leading(text, FloatCharacter)
           rest == Following(text, FloatCharacter)
       IN  IF Len(token) >= TokenSize THEN Stop /\ UNCHANGED program
           ELSE IF token = << >> \/ ~IsFloat(token) THEN Fail(converted, rest)
           ELSE Store(token, rest)

BaseOf(specifier) ==
    CASE specifier \in {"x", "p"} -> 16
      [] specifier = "o" -> 8
      [] specifier = "b" -> 2
      [] OTHER -> 10

\* Mutant: the bits of a negative number are not those of its complement.
hs_store_unsigned_Magnitude(negative, value, capacity) == value % 2 ^ (capacity * ByteBits)

\* The value in the bytes of the target; a negative one is complemented.
hs_store_unsigned(negative, value, capacity) ==
    (IF negative THEN LargestU64 + 1 - value ELSE value) % 2 ^ (capacity * ByteBits)

ScanInteger ==
    /\ AtConversion(IntegerSpecifiers \cup {"p"})
    /\ LET base == BaseOf(Here.specifier)
           text == Following(input, IsSpace)
           signed == text # << >> /\ Head(text) \in {"+", "-"}
           unsigned == IF signed THEN Tail(text) ELSE text
           prefixed == base = 16 /\ Len(unsigned) >= 2 /\ unsigned[1] = "0" /\ unsigned[2] = "x"
           body == IF prefixed THEN SubSeq(unsigned, 3, Len(unsigned)) ELSE unsigned
           digits == Leading(body, LAMBDA ch : IsDigit(ch, base))
           rest == Following(body, LAMBDA ch : IsDigit(ch, base))
           negative == signed /\ Head(text) = "-"
       IN  IF ValueOf(digits, base) > LargestU64 THEN Stop /\ UNCHANGED program
           ELSE IF digits = << >> \/ (negative /\ Here.specifier # "d") THEN Fail(converted, rest)
           ELSE Store(hs_store_unsigned(negative, ValueOf(digits, base),
                                        program.targets[taken + 1].capacity), rest)

ScanEnd ==
    /\ phase = "scan" /\ position > Len(format)
    /\ Return(converted) /\ UNCHANGED input

Over == phase \in {"refused", "stopped", "unwritten", "done"} /\ UNCHANGED vars

Next ==
    \/ lowerInputLeftContext
    \/ PrintText \/ PrintConversion \/ PrintEnd
    \/ Validate
    \/ ScanSpace \/ ScanText \/ ScanCharacter \/ ScanString \/ ScanFloat \/ ScanInteger
    \/ ScanEnd \/ Over

Spec == Init /\ [][Next]_vars

-----------------------------------------------------------------------------
(* What the Standard says, of the pieces of the format *)

IsConversion(piece) == piece.specifier # "text"

Wanted == SelectSeq(program.pieces, IsConversion)

\* Target templates and capacities that a conversion can be assigned to.
Fits(piece, target) ==
    LET kind == ScanKind(target.template)
    IN  CASE piece.specifier = "wrong" -> FALSE
          [] piece.specifier = "f" -> target.capacity = piece.width /\ kind \in {"any", "float"}
          [] piece.specifier = "s" -> target.capacity > 1 /\ kind \in {"any", "string"}
          [] piece.specifier = "c" -> kind = "any"
          [] piece.specifier = "p" -> target.capacity = PointerLength /\ kind \in {"any", "pointer"}
          [] OTHER -> target.capacity \in {1, 2, 4, 8} /\ kind = "any"

Consistent ==
    /\ Wanted # << >> /\ Len(Wanted) = Len(program.targets)
    /\ \A i \in DOMAIN Wanted : Fits(Wanted[i], program.targets[i])

\* No loop leaves its format or counts more conversions than targets.
TypeOK ==
    /\ phase \in {"compile", "print", "validate", "scan", "refused", "stopped",
                 "unwritten", "done"}
    /\ position \in 1 .. (Len(format) + 1)
    /\ taken \in 0 .. Len(format)
    /\ DOMAIN contents = DOMAIN program.targets
    /\ converted \in 0 .. Len(program.targets)
    /\ result \in Int

\* A scan is stopped before it reads a character or stores a target exactly
\* when its format and its targets do not agree, as to their number, their
\* templates and their capacities (hs_validate_scan_format).
FormatDecides == [][phase = "validate" => phase' = (IF Consistent THEN "scan" ELSE "stopped")]_vars

\* The room a stored text takes, with its terminating byte, is in the target.
Room(i) ==
    Wanted[i].specifier = "s" /\ contents[i] # Untouched =>
        Len(contents[i][1]) + 1 <= program.targets[i].capacity

\* The targets before the first failure are written, that one and all later
\* ones keep their values, and the count is the number of targets written;
\* -1 is only returned at the end of the input (hs_scan_input).
WrittenInOrder ==
    phase \in {"scan", "done"} =>
        /\ \A i \in DOMAIN contents : (contents[i] # Untouched) = (i <= converted) /\ Room(i)
        /\ phase = "done" => \/ result = converted
                             \/ result = EOF /\ converted = 0 /\ input = << >>

\* Scanning what was printed with the same format restores every argument,
\* bit for bit (hs_format_output, hs_scan_input).
RoundTrip ==
    program.prints /\ phase \in {"refused", "stopped", "done"} =>
        /\ phase = "done" /\ result = Len(program.arguments)
        /\ \A i \in DOMAIN contents : contents[i] = <<program.arguments[i].value>>

\* A literal format whose targets the analyzer accepts is not stopped at run
\* time: the conversions and the target templates are checked statically
\* (lowerInputLeftContext, parseLiteralFormat).
LiteralIsChecked == phase = "stopped" /\ program.literal => converted > 0 \/ Consistent

\* When the input ends before the first conversion the count is -1
\* (hs_scan_input).
EndOfInput ==
    phase = "done" /\ ~program.prints /\ converted = 0
        /\ (\A i \in DOMAIN program.input : program.input[i] \in Space) => result = EOF
=============================================================================
