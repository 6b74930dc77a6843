-------------------------- MODULE MCRuntimeLibrary --------------------------
(***************************************************************************)
(* The library of the runtime in one run: the file-handle registry, the    *)
(* memory and string functions, formatted input and output, and the f16    *)
(* conversions.  A behaviour is a behaviour of one of them (part); the     *)
(* variables of the others keep the value Idle.  The file handles idle in  *)
(* their initial state.                                                    *)
(***************************************************************************)
EXTENDS FileHandles

CONSTANTS
    Parts,                                                    \* the parts that are run
    MaxAddress, MaxByte, Objects, Views, StringCopies, Lengths, UINT64_MAX, Files,
    Prints, Scans, ByteBits, PointerLength, WidthMax, TokenSize,
    Halves

VARIABLES
    part,
    memory, freed, call, outcome,
    program, phase, input, output, position, taken, contents, converted, result,
    single, half, back, step

bytesVars == <<memory, freed, call, outcome>>
formatVars == <<program, phase, input, output, position, taken, contents, converted, result>>
halfVars == <<single, half, back, step>>
libraryVars == <<part, vars, bytesVars, formatVars, halfVars>>

Bytes == INSTANCE CheckedBytes
Format == INSTANCE FormattedIO
Half == INSTANCE HalfFloats WITH phase <- step

ASSUME LibraryAssumption ==
    /\ Parts \subseteq {"files", "bytes", "format", "half"}
    /\ Bytes!ByteAssumption /\ Bytes!ObjectAssumption
    /\ Format!FormatAssumption /\ Half!HalvesAssumption

-----------------------------------------------------------------------------

Idle == "idle"

BytesIdle == memory = Idle /\ freed = Idle /\ call = Idle /\ outcome = Idle
FormatIdle ==
    /\ program = Idle /\ phase = Idle /\ input = Idle /\ output = Idle /\ position = Idle
    /\ taken = Idle /\ contents = Idle /\ converted = Idle /\ result = Idle
HalfIdle == single = Idle /\ half = Idle /\ back = Idle /\ step = Idle

LibraryInit ==
    /\ part \in Parts
    /\ Init
    /\ IF part = "bytes" THEN Bytes!Init ELSE BytesIdle
    /\ IF part = "format" THEN Format!Init ELSE FormatIdle
    /\ IF part = "half" THEN Half!Init ELSE HalfIdle

FileStep == part = "files" /\ Next /\ UNCHANGED <<part, bytesVars, formatVars, halfVars>>
ByteStep == part = "bytes" /\ Bytes!Next /\ UNCHANGED <<part, vars, formatVars, halfVars>>
FormatStep == part = "format" /\ Format!Next /\ UNCHANGED <<part, vars, bytesVars, halfVars>>
HalfStep == part = "half" /\ Half!Next /\ UNCHANGED <<part, vars, bytesVars, formatVars>>

\* A call that stopped the program, and a number that was converted both ways.
Finished ==
    /\ \/ part = "bytes" /\ outcome.stopped
       \/ part = "half" /\ step = 2
    /\ UNCHANGED libraryVars

LibraryNext == FileStep \/ ByteStep \/ FormatStep \/ HalfStep \/ Finished

LibrarySpec == LibraryInit /\ [][LibraryNext]_libraryVars

\* Of the memory functions only the storage tells states apart: the last call
\* and what it returned are compared on the step itself.
Distinct ==
    IF part = "bytes" THEN <<part, Bytes!Storage>> ELSE <<part, vars, formatVars, halfVars>>

-----------------------------------------------------------------------------

\* The parts keep to their types: one table entry per handle, addresses and
\* bytes, positions inside the format, bits inside their width
\* (hitsimple_runtime.c).
LibraryTypeOK ==
    /\ TypeOK
    /\ part = "bytes" => Bytes!TypeOK
    /\ part = "format" => Format!TypeOK
    /\ part = "half" => Half!TypeOK

\* A memory or string call stops the program exactly where the Standard asks
\* for an error, and one that does not stop stores and yields what the Standard
\* says, on overlapping and released storage too; a scan is stopped before it
\* reads or stores anything exactly when its format and its targets disagree
\* (emitCallValue, hs_memcpy, hs_strcpy, hs_validate_scan_format).
CallsAsSpecified ==
    /\ [][part = "bytes" => Bytes!StopsIfRequired /\ Bytes!StoresIfReturned]_libraryVars
    /\ Format!FormatDecides

\* A scan that fails in the middle has written the targets before the failing
\* conversion and none after it, and its count says so (hs_scan_input); what
\* hs_format_output printed, hs_scan_input reads back unchanged; and a literal
\* format that the analyzer accepts does not stop the program
\* (lowerInputLeftContext against hs_validate_scan_format).
FormattedAsSpecified ==
    part = "format" => Format!WrittenInOrder /\ Format!RoundTrip /\ Format!LiteralIsChecked

\* The end of the input before the first conversion is told from a mismatch.
EndOfInput == part = "format" => Format!EndOfInput

\* A single goes to the nearest half, ties to the even one (hs_f32_to_f16), and
\* normal halves, infinities and NaNs are widened exactly (hs_f16_to_f32).
HalvesRound == part = "half" => Half!RoundsToNearest /\ Half!NormalsWidenExactly

\* Every half is widened exactly, the subnormals too (hs_f16_to_f32).
WidensExactly == part = "half" => Half!WidensExactly

-----------------------------------------------------------------------------
(* Memory: two objects with an unregistered byte between them.  The Views  *)
(* of each object lie at its start and inside it, are shorter, as long and *)
(* longer than what follows in the object; one lies outside of every       *)
(* object and one at the null address.                                     *)

View(data, length) == [data |-> data, length |-> length]

TwoObjects == {[base |-> 1, size |-> 3], [base |-> 5, size |-> 2]}
MixedViews ==
    {View(1, 2), View(1, 3), View(2, 2), View(3, 3), View(5, 1), View(5, 3), View(4, 1), View(0, 1)}

OneObject == {[base |-> 1, size |-> 4]}
OneObjectViews == {View(1, 4), View(2, 3)}

InDifferentObjects ==
    {p \in MixedViews \X MixedViews : (p[1].data < 4) # (p[2].data < 4)}

InOneObject == OneObjectViews \X OneObjectViews

SomeFiles == {<< >>, <<2>>, <<1, 0, 2>>}

-----------------------------------------------------------------------------
(* Formats: a byte of two bits, so that the widest integer has sixteen;    *)
(* every specifier; formats of up to two pieces and of two conversions     *)
(* with a space between them; widths that fit and one that does not.       *)

Piece(text, specifier, width) == [text |-> text, specifier |-> specifier, width |-> width]
Sp == Piece(<<" ">>, "text", 0)
Letter == Piece(<<"a">>, "text", 0)
Percent == Piece(<<"%", "%">>, "text", 0)
D == Piece(<<"%", "d">>, "d", 0)
X == Piece(<<"%", "x">>, "x", 0)
S == Piece(<<"%", "s">>, "s", 0)
C == Piece(<<"%", "c">>, "c", 0)
F2 == Piece(<<"%", "2", "f">>, "f", 2)
F == Piece(<<"%", "f">>, "f", 8)
Other(ch) == Piece(<<"%", ch>>, ch, 0)
Narrow == Piece(<<"%", "2", "d">>, "wrong", 0)
Huge == Piece(<<"%", "9", "9", "f">>, "wrong", 0)
Unknown == Piece(<<"%", "e">>, "wrong", 0)

TextPieces == {Sp, Letter, Percent}
GoodPieces == {D, X, S, C, F2}
WrongPieces == {Narrow, Unknown}
ScanFormats ==
    {<<a>> : a \in TextPieces \cup GoodPieces \cup WrongPieces}
        \cup {<<a, b>> : a, b \in TextPieces \cup GoodPieces \cup WrongPieces}
        \cup {<<a, Sp, b>> : a, b \in GoodPieces}

Target(template, capacity) == [template |-> template, capacity |-> capacity]
SomeTargets == {Target("none", 1), Target("cstr", 2), Target("f16", 2), Target("none", 3)}
SomeInputs ==
    {<< >>, <<" ">>, <<"1">>, <<"-", "2">>, <<"-">>, <<"a">>, <<"%", "1">>, <<" ", "1", " ", "a", "a">>,
     <<"0", "x", "3">>, <<"1", ".">>, <<"1", "2", "3">>, <<"a", " ", "1">>, <<"9", "9", "9", "9", "9">>}

ScanPrograms(formats, literals, targets, inputs) ==
    {[pieces |-> f, targets |-> t, literal |-> l, input |-> i] :
        f \in formats, l \in literals, i \in inputs,
        t \in {<< >>} \cup {<<x>> : x \in targets} \cup {<<x, y>> : x, y \in targets}}

\* Dynamic formats with every list of targets.
DynamicScans == ScanPrograms(ScanFormats, {FALSE}, SomeTargets, SomeInputs)

\* Literal formats, with targets of the templates they ask for.
LiteralScans ==
    {s \in ScanPrograms(ScanFormats, {TRUE}, SomeTargets, {<< >>, <<"1", " ", "a">>}) :
        \A i \in DOMAIN s.targets :
            \A j \in DOMAIN s.pieces :
                s.pieces[j].specifier = "text"
                    \/ s.targets[i].template \in
                         {"none"} \cup (CASE s.pieces[j].specifier = "s" -> {"cstr"}
                                          [] s.pieces[j].specifier = "f" -> {"f16"}
                                          [] OTHER -> {})}

AllScans == DynamicScans \cup LiteralScans

\* Integers at the edges of their width.
Edges(length) ==
    LET n == 2 ^ (length * ByteBits)
    IN  {0, 1, n \div 2 - 1, n \div 2, n - 1}

Argument(template, length, value) == [template |-> template, length |-> length, value |-> value]

IntegerPrints ==
    {[pieces |-> <<Other(s)>>, arguments |-> <<Argument("none", n, v)>>,
      targets |-> <<Target("none", n)>>] :
        s \in {"d", "u", "x", "o", "b"}, n \in {1, 2, 4, 8}, v \in UNION {Edges(k) : k \in {1, 2, 4, 8}}}

OtherPrints ==
    {[pieces |-> <<a[1], Sp, Percent, b[1]>>, arguments |-> <<a[2], b[2]>>, targets |-> <<a[3], b[3]>>] :
        a, b \in {<<S, Argument("cstr", 3, <<"a", "1">>), Target("cstr", 3)>>,
                  <<C, Argument("none", 1, " "), Target("none", 1)>>,
                  <<Other("p"), Argument("addr", 8, 19), Target("addr", 8)>>,
                  <<F, Argument("f64", 8, <<"-", "1", ".", "2">>), Target("f64", 8)>>,
                  <<D, Argument("i8", 1, 3), Target("none", 1)>>}}

AllPrints == {p \in IntegerPrints : p.arguments[1].value < 2 ^ (p.arguments[1].length * ByteBits)} \cup OtherPrints

None == {}
TypedScans == ScanPrograms({<<D>>}, {TRUE}, {Target("f16", 2)}, {<<"1">>})
WideScans == ScanPrograms({<<Huge>>}, {TRUE}, {Target("f64", 8)}, {<<"1">>})
EmptyScans == ScanPrograms({<<D>>, <<S>>, <<C>>, <<F2>>}, {TRUE},
                           {Target("none", 2)}, {<< >>, <<" ">>})

-----------------------------------------------------------------------------
(* Halves: every subnormal, the two smallest and the two largest fractions *)
(* of every exponent with a few between, and infinity.                     *)

Subnormals == 1 .. 1023
SomeHalves ==
    {0} \cup Subnormals
        \cup {e * 1024 + f : e \in 1 .. 30, f \in {0, 1, 2, 341, 511, 512, 682, 1022, 1023}}
        \cup {31 * 1024}
=============================================================================
