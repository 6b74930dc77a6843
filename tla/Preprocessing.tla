---------------------------- MODULE Preprocessing ----------------------------
(***************************************************************************)
(* The adapter around mcpp (preprocessor/Preprocessor.cpp): it translates  *)
(* the input and every file it may include into a mirror under a temporary *)
(* directory, lets mcpp expand the mirror, and maps mcpp's output and its  *)
(* errors back to the lines of the sources.  A line of a source is one of  *)
(* the kinds below; a name that is included is the file that it resolves   *)
(* to.  mcpp is modelled from what the adapter expects of it: it keeps the *)
(* line numbers of its output in step with blank lines or with markers, as *)
(* it likes, and it may be missing or die.                                 *)
(***************************************************************************)
EXTENDS Integers, Sequences, FiniteSets

CONSTANTS
    Programs,     \* the sources: functions from files to sequences of lines
    Main,         \* the input file
    Headers,      \* the standard headers of the registry
    IncludeDepth  \* mcpp's limit for nested inclusion

\* Lines: [kind, name].  The name is the text, the included file or the macro.
Kinds == {"text", "blank", "include", "system", "macro", "ifndef", "define", "else", "endif",
          "continued", "warning", "bad"}

ASSUME ProgramAssumption ==
    /\ \A p \in Programs : Main \in DOMAIN p
    /\ \A p \in Programs : \A f \in DOMAIN p : p[f] \in Seq([kind : Kinds, name : STRING])
    /\ IncludeDepth \in Nat \ {0}

VARIABLES
    sources,         \* the files and their lines, fixed at the start
    phase,           \* "prepare", "mcpp", "parse" or "done"
    preparing,       \* the files being translated: [file, place, line], innermost last
    mapped,          \* fileMap: the generated places that have an original
    mirror,          \* the generated files: place -> lines
    directives,      \* directiveLines: [file, line] of the directives
    standardHeaders, \* the headers imported, in order
    including,       \* mcpp's open files, innermost last
    macros,          \* the macros defined so far
    output,          \* what mcpp writes and the adapter has not read
    errors,          \* the diagnostics of mcpp: [severity, name, line, message]
    ran,             \* how mcpp ended: "no", "unlaunched", "died", "ended"
    read,            \* what the adapter has read: its current file and line
    result,          \* the preprocessed lines: [text, file, line]
    diagnostics,     \* the diagnostics of the adapter
    expanded         \* the texts mcpp expanded, with the lines they stand on

prepareVars == <<preparing, mapped, mirror, directives, standardHeaders>>
mcppVars == <<including, macros, output, errors, ran, expanded>>
parseVars == <<read, result, diagnostics>>
vars == <<sources, phase, prepareVars, mcppVars, parseVars>>

Place(area, file) == [area |-> area, file |-> file]
Original(file) == Place("original", file)
Line(kind, name) == [kind |-> kind, name |-> name]
Nothing == ""

\* parseDollarDirective; the line that continues a directive is not one.
IsDirective(line) == line.kind \notin {"text", "blank", "continued", "bad"}

Exists(file) == file \in DOMAIN sources

-----------------------------------------------------------------------------
(* The mirror *)

Diagnostic(severity, file, line, message) ==
    [severity |-> severity, file |-> file, line |-> line, message |-> message]

Innermost(s) == s[Len(s)]
Outer(s) == SubSeq(s, 1, Len(s) - 1)

\* What validateSourceInto says of a file before any of its lines is translated.
validateSourceInto(lines, file) ==
    LET bad == {i \in 1 .. Len(lines) : lines[i].kind = "bad"}
        Nth(k) == CHOOSE i \in bad : Cardinality({j \in bad : j <= i}) = k
    IN  [k \in 1 .. Cardinality(bad) |-> Diagnostic("error", file, Nth(k), "invalid_source")]

Init ==
    /\ sources \in Programs
    /\ phase = "prepare"
    /\ preparing = <<[file |-> Main, place |-> Place("files", Main), line |-> 1]>>
    /\ mapped = {Place("files", Main)}
    /\ mirror = << >>
    /\ directives = {}
    /\ standardHeaders = << >>
    /\ including = << >>
    /\ macros = {}
    /\ output = << >>
    /\ errors = << >>
    /\ ran = "no"
    /\ read = [file |-> Nothing, line |-> 1]
    /\ result = << >>
    /\ diagnostics = validateSourceInto(sources[Main], Main)
    /\ expanded = << >>

\* Where the copy of an included file goes: a system header beside the others,
\* any other file at its own path.
generatedPath(line) == Place(IF line.kind = "system" THEN "include" ELSE "files", line.name)

\* Mutant: only files that are already written are left out.
AlreadyMapped_Written(place) == place \in DOMAIN mirror

\* Mutant: a file is known by its name alone.
AlreadyMapped_Name(place) == \E p \in mapped : p.file = place.file

AlreadyMapped(place) == place \in mapped

Written(place, lines) ==
    mirror' = [p \in DOMAIN mirror \cup {place} |-> IF p = place THEN lines ELSE mirror[p]]

\* Mutant: a line is skipped.
Advance_Two(frames) == [frames EXCEPT ![Len(frames)].line = @ + 2]

\* The innermost file goes to its next line.
Advance(frames) == [frames EXCEPT ![Len(frames)].line = @ + 1]

prepareInclude(line, rest) ==
    IF line.kind = "system" /\ line.name = "core.hsh"
    THEN /\ diagnostics' = Append(diagnostics, Diagnostic("error", Nothing, 1, "removed_header"))
         /\ preparing' = rest
         /\ UNCHANGED <<mapped, mirror, standardHeaders>>
    ELSE IF line.kind = "system" /\ line.name \in Headers
    THEN /\ standardHeaders' =
               IF \E i \in DOMAIN standardHeaders : standardHeaders[i] = line.name
               THEN standardHeaders ELSE Append(standardHeaders, line.name)
         /\ mapped' = mapped \cup {generatedPath(line)}
         /\ Written(generatedPath(line), <<Line("define", line.name)>>)
         /\ preparing' = rest
         /\ UNCHANGED diagnostics
    ELSE /\ mapped' = mapped \cup {generatedPath(line)}
         /\ IF AlreadyMapped(generatedPath(line)) \/ ~Exists(line.name)
            THEN preparing' = rest /\ UNCHANGED diagnostics
            ELSE /\ preparing' =
                       Append(rest, [file |-> line.name, place |-> generatedPath(line), line |-> 1])
                 /\ diagnostics' = diagnostics \o validateSourceInto(sources[line.name], line.name)
         /\ UNCHANGED <<standardHeaders, mirror>>

\* One line of the innermost file: a directive is recorded, and an include
\* whose target is spelled out is followed at once, whatever conditional it
\* stands in.
PrepareLine ==
    /\ phase = "prepare" /\ preparing # << >>
    /\ LET frame == Innermost(preparing)
           rest == Advance(preparing)
       IN  /\ frame.line <= Len(sources[frame.file])
           /\ LET line == sources[frame.file][frame.line]
              IN  /\ directives' = directives \cup
                        (IF IsDirective(line) THEN {[file |-> frame.file, line |-> frame.line]} ELSE {})
                  /\ IF line.kind \in {"include", "system"} THEN prepareInclude(line, rest)
                     ELSE preparing' = rest /\ UNCHANGED <<mapped, mirror, standardHeaders, diagnostics>>
    /\ UNCHANGED <<sources, phase, mcppVars, read, result>>

\* Mutant: the first line of the copy does not say which line follows.
Translated_NoLine(file) == <<Line("blank", file)>> \o sources[file]

\* Mutant: a last line is taken for the empty rest of the file.
Translated_LastLineLost(file) ==
    <<Line("line", file)>> \o SubSeq(sources[file], 1, Len(sources[file]) - 1)

\* The copy begins with a line directive; the other lines follow one for one.
Translated(file) == <<Line("line", file)>> \o sources[file]

PrepareEnd ==
    /\ phase = "prepare" /\ preparing # << >>
    /\ LET frame == Innermost(preparing)
       IN  /\ frame.line > Len(sources[frame.file])
           /\ Written(frame.place, Translated(frame.file))
    /\ preparing' = Outer(preparing)
    /\ UNCHANGED <<sources, phase, mapped, directives, standardHeaders, mcppVars, parseVars>>

-----------------------------------------------------------------------------
(* mcpp *)

hasError == \E i \in DOMAIN diagnostics : diagnostics[i].severity = "error"

\* An open file: the name its lines go by, the number of its next line, the
\* next line of the copy and, for each open conditional, whether it is taken.
Open(place) == [place |-> place, name |-> place, number |-> 1, next |-> 1, taken |-> << >>]

Marker(number, name) == [kind |-> "marker", number |-> number, name |-> name]
Text(text) == [kind |-> "text", text |-> text]
Blank == [kind |-> "text", text |-> Nothing]

\* runMcpp: the process is started on the copy of the input, or cannot be.
RunMcpp ==
    /\ phase = "prepare" /\ preparing = << >> /\ ~hasError
    /\ \/ /\ phase' = "mcpp"
          /\ including' = <<Open(Place("files", Main))>>
          /\ output' = <<Marker(1, Place("files", Main))>>
          /\ UNCHANGED ran
       \/ /\ phase' = "parse"
          /\ ran' = "unlaunched"
          /\ UNCHANGED <<including, output>>
    /\ UNCHANGED <<sources, prepareVars, macros, errors, expanded, parseVars>>

\* A source that was refused is not preprocessed.
Refuse ==
    /\ phase = "prepare" /\ preparing = << >> /\ hasError
    /\ phase' = "done"
    /\ UNCHANGED <<sources, prepareVars, mcppVars, parseVars>>

Top == Innermost(including)
Copied == mirror[Top.place]
Active == \A i \in DOMAIN Top.taken : Top.taken[i]

\* The innermost file after a line that is not printed: the line is counted
\* with a blank line or with a marker.
Counted(changed) ==
    /\ including' = [including EXCEPT ![Len(including)] =
                       [changed EXCEPT !.number = @ + 1, !.next = @ + 1]]
    /\ output' \in {Append(output, Blank), Append(output, Marker(Top.number + 1, Top.name))}

AtLine(kinds) ==
    /\ phase = "mcpp" /\ Top.next <= Len(Copied)
    /\ Copied[Top.next].kind \in kinds

Current == Copied[Top.next]

McppUnchanged == UNCHANGED <<sources, phase, prepareVars, ran, parseVars>>

McppText ==
    /\ AtLine({"text"}) /\ Active
    /\ output' = Append(output, Text(Current.name))
    /\ expanded' = Append(expanded, [text |-> Current.name, file |-> Top.place.file, line |-> Top.next - 1])
    /\ including' = [including EXCEPT ![Len(including)].number = @ + 1, ![Len(including)].next = @ + 1]
    /\ McppUnchanged /\ UNCHANGED <<macros, errors>>

\* #line renames the file and restarts its numbers.
McppRename ==
    /\ AtLine({"line"})
    /\ including' = [including EXCEPT ![Len(including)].name = Original(Current.name),
                                      ![Len(including)].number = 1,
                                      ![Len(including)].next = @ + 1]
    /\ output' = Append(output, Marker(1, Original(Current.name)))
    /\ McppUnchanged /\ UNCHANGED <<macros, errors, expanded>>

Error(severity, message) ==
    Append(errors, [severity |-> severity, name |-> Top.name, line |-> Top.number, message |-> message])

McppSkip ==
    /\ \/ AtLine({"blank", "continued"})
       \/ AtLine({"text", "define", "warning", "include", "system", "macro"}) /\ ~Active
    /\ Counted(Top)
    /\ McppUnchanged /\ UNCHANGED <<macros, errors, expanded>>

McppDefine ==
    /\ AtLine({"define"}) /\ Active
    /\ macros' = macros \cup {Current.name}
    /\ Counted(Top)
    /\ McppUnchanged /\ UNCHANGED <<errors, expanded>>

McppWarning ==
    /\ AtLine({"warning"}) /\ Active
    /\ errors' = Error("warning", "warning")
    /\ Counted(Top)
    /\ McppUnchanged /\ UNCHANGED <<macros, expanded>>

McppConditional ==
    /\ AtLine({"ifndef", "else", "endif"})
    /\ LET open == Top.taken
       IN  IF Current.kind = "ifndef"
           THEN Counted([Top EXCEPT !.taken = Append(open, Active /\ Current.name \notin macros)])
                /\ UNCHANGED errors
           ELSE IF open = << >>
           THEN Counted(Top) /\ errors' = Error("error", "no_corresponding_if")
           ELSE /\ Counted([Top EXCEPT !.taken =
                              IF Current.kind = "endif" THEN Outer(open)
                              ELSE [open EXCEPT ![Len(open)] = ~@ /\ \A i \in 1 .. (Len(open) - 1) : open[i]]])
                /\ UNCHANGED errors
    /\ McppUnchanged /\ UNCHANGED <<macros, expanded>>

\* Where mcpp looks for a file: beside the including copy, or in the header
\* directory.
Sought(line) == Place(IF line.kind = "system" THEN "include" ELSE Top.place.area, line.name)

McppInclude ==
    /\ AtLine({"include", "system", "macro"}) /\ Active
    /\ IF Sought(Current) \notin DOMAIN mirror
       THEN Counted(Top) /\ errors' = Error("error", "cannot_open_include") /\ UNCHANGED <<phase, ran>>
       ELSE IF Len(including) >= IncludeDepth
       THEN /\ errors' = Error("error", "nested_too_deep")
            /\ phase' = "parse" /\ ran' = "died"
            /\ UNCHANGED <<including, output>>
       ELSE /\ including' = Append([including EXCEPT ![Len(including)].number = @ + 1,
                                                     ![Len(including)].next = @ + 1],
                                   Open(Sought(Current)))
            /\ output' = Append(output, Marker(1, Sought(Current)))
            /\ UNCHANGED <<errors, phase, ran>>
    /\ UNCHANGED <<sources, prepareVars, parseVars, macros, expanded>>

\* The end of a file: the including file goes on behind a marker.
McppEnd ==
    /\ phase = "mcpp" /\ Top.next > Len(Copied)
    /\ errors' = IF Top.taken = << >> THEN errors ELSE Error("error", "end_within_if")
    /\ including' = Outer(including)
    /\ IF Len(including) > 1
       THEN /\ output' = Append(output, Marker(including[Len(including) - 1].number,
                                               including[Len(including) - 1].name))
            /\ UNCHANGED <<phase, ran>>
       ELSE phase' = "parse" /\ ran' = "ended" /\ UNCHANGED output
    /\ UNCHANGED <<sources, prepareVars, parseVars, macros, expanded>>

\* What is in mcpp's buffer is lost with it.
McppDies ==
    /\ phase = "mcpp"
    /\ phase' = "parse" /\ ran' = "died"
    /\ output' \in {output, << >>}
    /\ UNCHANGED <<sources, prepareVars, parseVars, including, macros, errors, expanded>>

-----------------------------------------------------------------------------
(* Back to the sources *)

\* A generated place without an original would go by its own name.
mappedFileName(name) == IF name \in mapped \/ name.area = "original" THEN name.file ELSE name.area

isDirectiveLine(file, line) == [file |-> file, line |-> line] \in directives

\* Mutant: the line of a dropped blank line is not counted.
ParseOutput_Uncounted ==
    /\ phase = "parse" /\ output # << >>
    /\ LET line == Head(output)
       IN  IF line.kind = "marker"
           THEN read' = [file |-> mappedFileName(line.name), line |-> line.number] /\ UNCHANGED result
           ELSE IF line.text = Nothing /\ isDirectiveLine(read.file, read.line)
           THEN UNCHANGED <<read, result>>
           ELSE /\ read' = [read EXCEPT !.line = @ + 1]
                /\ result' = Append(result, [text |-> line.text, file |-> read.file, line |-> read.line])
    /\ output' = Tail(output)
    /\ UNCHANGED <<sources, phase, prepareVars, including, macros, errors, ran, expanded, diagnostics>>

ParseOutput ==
    /\ phase = "parse" /\ output # << >>
    /\ LET line == Head(output)
       IN  IF line.kind = "marker"
           THEN read' = [file |-> mappedFileName(line.name), line |-> line.number] /\ UNCHANGED result
           ELSE /\ read' = [read EXCEPT !.line = @ + 1]
                /\ result' = IF line.text = Nothing /\ isDirectiveLine(read.file, read.line) THEN result
                             ELSE Append(result, [text |-> line.text, file |-> read.file, line |-> read.line])
    /\ output' = Tail(output)
    /\ UNCHANGED <<sources, phase, prepareVars, including, macros, errors, ran, expanded, diagnostics>>

\* An unbalanced directive is reported in the words of the language.
Reworded(file, line, message) ==
    IF /\ message = "no_corresponding_if" /\ isDirectiveLine(file, line)
       /\ sources[file][line].kind \in {"else", "endif"}
    THEN "without_if"
    ELSE IF message = "end_within_if" THEN "unterminated_conditional"
    ELSE message

ParseDiagnostic ==
    /\ phase = "parse" /\ output = << >> /\ errors # << >>
    /\ LET error == Head(errors)
           file == mappedFileName(error.name)
       IN  diagnostics' = Append(diagnostics,
               Diagnostic(error.severity, file, error.line, Reworded(file, error.line, error.message)))
    /\ errors' = Tail(errors)
    /\ UNCHANGED <<sources, phase, prepareVars, including, macros, output, ran, expanded, read, result>>

\* Mutant: only a process that could not be started is reported.
Failed_Unlaunched == ran = "unlaunched"

Failed == ran \in {"unlaunched", "died"}

ParseEnd ==
    /\ phase = "parse" /\ output = << >> /\ errors = << >>
    /\ phase' = "done"
    /\ diagnostics' =
          IF Failed /\ diagnostics = << >>
          THEN Append(diagnostics, Diagnostic("error", Nothing, 1, "mcpp_failed")) ELSE diagnostics
    /\ UNCHANGED <<sources, prepareVars, mcppVars, read, result>>

Done == phase = "done" /\ UNCHANGED vars

Next ==
    \/ PrepareLine \/ PrepareEnd \/ RunMcpp \/ Refuse
    \/ McppText \/ McppRename \/ McppSkip \/ McppDefine \/ McppWarning \/ McppConditional
    \/ McppInclude \/ McppEnd \/ McppDies
    \/ ParseOutput \/ ParseDiagnostic \/ ParseEnd \/ Done

Spec == Init /\ [][Next]_vars

-----------------------------------------------------------------------------

\* Every step keeps to the lines of its file, and the mirror to mapped places.
TypeOK ==
    /\ phase \in {"prepare", "mcpp", "parse", "done"}
    /\ ran \in {"no", "unlaunched", "died", "ended"}
    /\ \A i \in DOMAIN preparing : preparing[i].line \in 1 .. (Len(sources[preparing[i].file]) + 1)
    /\ \A i \in DOMAIN including : including[i].place \in DOMAIN mirror
    /\ DOMAIN mirror \subseteq mapped
    /\ \A d \in directives : d.line \in DOMAIN sources[d.file]

\* Files that include each other do not keep the adapter busy for ever: no
\* file is translated while it is being translated (prepareInclude).
NotTwice == \A i, j \in DOMAIN preparing : preparing[i].place = preparing[j].place => i = j

\* Whatever mcpp includes and the program or, in angle brackets, the registry has
\* is in the mirror, where mcpp looks for it (prepareInclude, mirrorPathFor).
IncludesFound ==
    /\ AtLine({"include", "system", "macro"}) /\ Active
    /\ Current.name \in DOMAIN sources \cup (IF Current.kind = "system" THEN Headers ELSE {})
    => Sought(Current) \in DOMAIN mirror

HasText(line) == line.text # Nothing

\* The preprocessed lines are the ones that mcpp expanded, each with the file
\* and the line it stands on in the sources; a blank line is left for every
\* line that is not a directive (parseMcppOutput).
LinesKeepOrigin ==
    phase = "done" /\ ran = "ended" =>
        /\ SelectSeq(result, HasText) = expanded
        /\ \A i \in DOMAIN result :
              \/ result[i].file \in Headers
              \/ /\ result[i].file \in DOMAIN sources
                 /\ result[i].line \in DOMAIN sources[result[i].file]
                 /\ ~IsDirective(sources[result[i].file][result[i].line])

\* A message stands on the directive that it is about (parseMcppDiagnostics).
MessagesKeepLine ==
    \A i \in DOMAIN diagnostics :
        LET d == diagnostics[i]
            about == sources[d.file][d.line].kind
        IN  /\ d.message = "without_if" => about \in {"else", "endif"}
            /\ d.message = "cannot_open_include" => about \in {"include", "system", "macro"}
            /\ d.message = "warning" => about = "warning"
            /\ d.message # "no_corresponding_if"

-----------------------------------------------------------------------------
(* What the sources say, read directly: no mirror, no process, no messages. *)

\* A reading of a file has macros, open conditionals and texts.  An included file
\* goes on with the macros and adds to both; its conditionals are its own.
Nested(so, whole, d, line) ==
    IF line.kind = "system" /\ line.name \in Headers
    THEN [so EXCEPT !.macros = @ \cup {line.name}]
    ELSE IF d > 1 /\ Exists(line.name)
    THEN LET inner == whole[d - 1, line.name, so.macros]
         IN  [so EXCEPT !.macros = inner.macros, !.texts = @ \o inner.texts]
    ELSE so

\* One line more of a file, in which at most d - 1 files may still be nested.
LineRead(so, whole, d, file, number) ==
    LET line == sources[file][number]
        open == so.taken
        active == \A i \in DOMAIN open : open[i]
        outside == \A i \in DOMAIN open : i < Len(open) => open[i]
    IN  CASE line.kind = "ifndef" ->
               [so EXCEPT !.taken = Append(open, active /\ line.name \notin so.macros)]
          [] line.kind = "else" /\ open # << >> ->
               [so EXCEPT !.taken = Append(Outer(open), outside /\ ~Innermost(open))]
          [] line.kind = "endif" /\ open # << >> -> [so EXCEPT !.taken = Outer(open)]
          [] line.kind = "text" /\ active ->
               [so EXCEPT !.texts = Append(@, [text |-> line.name, file |-> file, line |-> number])]
          [] line.kind = "define" /\ active -> [so EXCEPT !.macros = @ \cup {line.name}]
          [] line.kind \in {"include", "system", "macro"} /\ active -> Nested(so, whole, d, line)
          [] OTHER -> so

Whole[d \in 1 .. IncludeDepth, file \in DOMAIN sources, known \in SUBSET STRING] ==
    LET Through[n \in 0 .. Len(sources[file])] ==
            IF n = 0 THEN [macros |-> known, taken |-> << >>, texts |-> << >>]
            ELSE LineRead(Through[n - 1], Whole, d, file, n)
    IN  Through[Len(sources[file])]

WholeText == Whole[IncludeDepth, Main, {}].texts

\* A program that is not refused is handed on whole (prepareSource, runMcpp).
SourceIsWhole == phase = "done" /\ ~hasError => SelectSeq(result, HasText) = WholeText

\* The one failure that is not told: mcpp has warned before it dies, and its exit
\* code is reported only where there is no other message (runMcpp).
FailureUntold == ran = "died" /\ \E i \in DOMAIN diagnostics : diagnostics[i].severity = "warning"

\* Every text of the input and of what it includes reaches the parser, in order and
\* with its place, or the program is refused: whatever mcpp printed before it ended,
\* and whether it ended at all (prepareSource, runMcpp, parseMcppOutput).
AcceptedSourceIsWhole == FailureUntold \/ SourceIsWhole
=============================================================================
