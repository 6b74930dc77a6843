------------------------- MODULE PreprocessingProofs -------------------------
(***************************************************************************)
(* Proofs about the adapter around mcpp, for every program and every depth *)
(* of inclusion: what mcpp includes has been translated to where it looks, *)
(* and no file is translated twice at once.                                *)
(***************************************************************************)
EXTENDS MCPreprocessing, SequenceTheorems, FiniteSetTheorems, TLAPS

\* Names of files; places of their copies.
Names == STRING \cup DOMAIN sources
Copies == [area : {"files", "include"}, file : Names]
Places == [area : {"files", "include", "original"}, file : Names]

\* A file that is being translated, an open file of mcpp.
Frame == [file : DOMAIN sources, place : Copies, line : Nat \ {0}]
Conditionals == Seq(BOOLEAN)
OpenFile == [place : Copies, name : Places, number : Nat, next : Nat \ {0}, taken : Conditionals]

\* A list whose elements need not be known.
List(s) == \E S : s \in Seq(S)

Severities == {"error", "warning"}

Shapes ==
    /\ sources \in Programs
    /\ phase \in {"prepare", "mcpp", "parse", "done"}
    /\ ran \in {"no", "unlaunched", "died", "ended"}
    /\ preparing \in Seq(Frame)
    /\ including \in Seq(OpenFile)
    /\ mapped \subseteq Copies
    /\ DOMAIN mirror \subseteq mapped

\* The stages follow each other; mcpp runs on a source that was not refused.
Stages ==
    /\ phase # "prepare" => preparing = << >>
    /\ phase = "mcpp" => ~hasError /\ including # << >>
    /\ phase \in {"prepare", "mcpp"} => ran = "no"
    /\ Place("files", Main) \in mapped

\* Every message is an error or a warning.
Messages ==
    /\ List(diagnostics) /\ \A i \in DOMAIN diagnostics : diagnostics[i].severity \in Severities
    /\ List(errors) /\ \A i \in DOMAIN errors : errors[i].severity \in Severities

Translating == {preparing[i].place : i \in DOMAIN preparing}

\* A file of the program and a header of the registry can be copied.
HasContent(place) ==
    place.file \in DOMAIN sources \/ (place.area = "include" /\ place.file \in Headers)

\* The includes of the first lines of a file have a place.
Followed(lines, last, places) ==
    \A i \in 1 .. last :
        lines[i].kind \in {"include", "system"} => generatedPath(lines[i]) \in places

\* The files that are being translated are different ones; the lines before
\* the current one have been followed, unless the source is refused.
FramesInOrder ==
    /\ \A i \in DOMAIN preparing :
          LET frame == preparing[i] IN
          /\ frame.place.file = frame.file /\ frame.place \in mapped
          /\ frame.line <= Len(sources[frame.file]) + 1
          /\ hasError \/ Followed(sources[frame.file], frame.line - 1, mapped)
    /\ NotTwice

\* Every mapped place that can have a copy has one or is getting it; a copy is
\* the marker of a header or the whole translation of a file.
MirrorComplete ==
    /\ \A place \in mapped : HasContent(place) => place \in DOMAIN mirror \cup Translating
    /\ \A place \in DOMAIN mirror :
          \/ mirror[place] = <<Line("define", place.file)>>
          \/ /\ place.file \in DOMAIN sources
             /\ mirror[place] = Translated(place.file)
             /\ hasError \/ Followed(sources[place.file], Len(sources[place.file]), mapped)

\* What stands in the header directory was included in angle brackets, and a
\* header of the registry is never translated.
HeadersApart ==
    /\ \A place \in mapped : place.area = "include" =>
          \E f \in DOMAIN sources : \E i \in DOMAIN sources[f] :
             sources[f][i].kind = "system" /\ sources[f][i].name = place.file
    /\ \A i \in DOMAIN preparing :
          preparing[i].place.area = "include" => preparing[i].file \notin Headers
    /\ \A place \in DOMAIN mirror : place.area = "include" /\ place.file \in Headers =>
          mirror[place] = <<Line("define", place.file)>>

\* mcpp reads copies only.
ReadsCopies == \A i \in DOMAIN including : including[i].place \in DOMAIN mirror

\* A recorded directive stands on a line of its file.
DirectivesOnLines == \A d \in directives : d.line \in DOMAIN sources[d.file]

AdapterInv ==
    /\ Shapes /\ Stages /\ Messages
    /\ FramesInOrder /\ MirrorComplete /\ HeadersApart /\ ReadsCopies /\ DirectivesOnLines

-----------------------------------------------------------------------------
(* Lists.                                                                  *)

\* Diagnostics are added at the end (addDiagnostic).
LEMMA AppendList ==
    ASSUME NEW s, List(s), NEW x
    PROVE  /\ List(Append(s, x)) /\ Append(s, x) # << >>
           /\ DOMAIN Append(s, x) = DOMAIN s \cup {Len(s) + 1}
           /\ \A i \in DOMAIN s : Append(s, x)[i] = s[i]
           /\ Append(s, x)[Len(s) + 1] = x
<1>1. PICK S : s \in Seq(S)
  BY DEF List
<1>2. s \in Seq(S \cup {x})
  BY <1>1, SeqMonotonic
<1>3. Append(s, x) \in Seq(S \cup {x})
  BY <1>2
<1>4. /\ Append(s, x) # << >>
      /\ \A i \in DOMAIN s : Append(s, x)[i] = s[i]
      /\ Append(s, x)[Len(s) + 1] = x
      /\ DOMAIN Append(s, x) = DOMAIN s \cup {Len(s) + 1}
  BY <1>2
<1>. QED
  BY <1>3, <1>4 DEF List

\* The reports on one file follow those on the others (validateSourceInto).
LEMMA ConcatList ==
    ASSUME NEW s, List(s), NEW t, List(t)
    PROVE  /\ List(s \o t)
           /\ \A i \in DOMAIN s : i \in DOMAIN (s \o t) /\ (s \o t)[i] = s[i]
           /\ \A i \in DOMAIN (s \o t) :
                 i \in DOMAIN s \/ \E j \in DOMAIN t : (s \o t)[i] = t[j]
<1>1. PICK S : s \in Seq(S)
  BY DEF List
<1>2. PICK R : t \in Seq(R)
  BY DEF List
<1>3. s \in Seq(S \cup R) /\ t \in Seq(S \cup R)
  BY <1>1, <1>2, SeqMonotonic
<1>4. s \o t \in Seq(S \cup R)
  BY <1>3
<1>5. /\ Len(s \o t) = Len(s) + Len(t)
      /\ \A i \in 1 .. Len(s) + Len(t) :
            (s \o t)[i] = IF i <= Len(s) THEN s[i] ELSE t[i - Len(s)]
      /\ DOMAIN s = 1 .. Len(s) /\ DOMAIN t = 1 .. Len(t)
      /\ DOMAIN (s \o t) = 1 .. Len(s \o t)
      /\ Len(s) \in Nat /\ Len(t) \in Nat
  BY <1>3, <1>4, ConcatProperties, LenProperties
<1>6. \A i \in DOMAIN s : i \in DOMAIN (s \o t) /\ (s \o t)[i] = s[i]
  BY <1>5
<1>7. ASSUME NEW i \in DOMAIN (s \o t), i \notin DOMAIN s
      PROVE  \E j \in DOMAIN t : (s \o t)[i] = t[j]
  <2>1. i \in 1 .. Len(s) + Len(t) /\ i > Len(s)
    BY <1>5, <1>7
  <2>2. i - Len(s) \in DOMAIN t /\ (s \o t)[i] = t[i - Len(s)]
    BY <1>5, <2>1
  <2>. QED
    BY <2>2
<1>. QED
  BY <1>4, <1>6, <1>7 DEF List

\* The messages of mcpp are taken from the front (parseMcppDiagnostics).
LEMMA TailList ==
    ASSUME NEW s, List(s), s # << >>
    PROVE  /\ List(Tail(s))
           /\ 1 \in DOMAIN s /\ Head(s) = s[1]
           /\ \A i \in DOMAIN Tail(s) : i + 1 \in DOMAIN s /\ Tail(s)[i] = s[i + 1]
<1>1. PICK S : s \in Seq(S)
  BY DEF List
<1>2. Tail(s) \in Seq(S)
  BY <1>1
<1>. QED
  BY <1>1, <1>2 DEF List

\* A file that is done gives way to the one that includes it.
LEMMA OuterOfSeq ==
    ASSUME NEW S, NEW s \in Seq(S), s # << >>
    PROVE  /\ Outer(s) \in Seq(S) /\ Len(Outer(s)) = Len(s) - 1
           /\ \A i \in 1 .. (Len(s) - 1) : Outer(s)[i] = s[i]
           /\ Len(s) \in DOMAIN s /\ Innermost(s) \in S
<1>1. Len(s) \in Nat \ {0} /\ DOMAIN s = 1 .. Len(s) /\ s[Len(s)] \in S
  BY EmptySeq, LenProperties, ElementOfSeq
<1>2. Outer(s) \in Seq(S)
  BY <1>1, SubSeqProperties DEF Outer
<1>3. Len(Outer(s)) = Len(s) - 1 /\ \A i \in 1 .. (Len(s) - 1) : Outer(s)[i] = s[i]
  BY <1>1, SubSeqProperties DEF Outer
<1>. QED
  BY <1>1, <1>2, <1>3 DEF Innermost

\* Only the innermost conditional or file changes.
LEMMA LastReplaced ==
    ASSUME NEW S, NEW s \in Seq(S), s # << >>, NEW x \in S
    PROVE  [s EXCEPT ![Len(s)] = x] \in Seq(S)
<1>1. Len(s) \in DOMAIN s
  BY OuterOfSeq
<1>. QED
  BY <1>1

\* The reports on a file are errors (validateUtf8, validateBareHashInLine).
LEMMA ReportsAreErrors ==
    ASSUME NEW S, NEW lines \in Seq(S), NEW file
    PROVE  /\ List(validateSourceInto(lines, file))
           /\ \A i \in DOMAIN validateSourceInto(lines, file) :
                 validateSourceInto(lines, file)[i].severity = "error"
<1>. DEFINE bad == {i \in 1 .. Len(lines) : lines[i].kind = "bad"}
            Nth(k) == CHOOSE i \in bad : Cardinality({j \in bad : j <= i}) = k
            f == [k \in 1 .. Cardinality(bad) |-> Diagnostic("error", file, Nth(k), "invalid_source")]
<1>1. Cardinality(bad) \in Nat
  <2>1. IsFiniteSet(1 .. Len(lines))
    BY FS_Interval
  <2>2. IsFiniteSet(bad)
    BY <2>1, FS_Subset
  <2>. QED
    BY <2>2, FS_CardinalityType
<1>2. f = validateSourceInto(lines, file)
  BY DEF validateSourceInto
<1>. HIDE DEF bad, Nth
<1>3. \A i \in DOMAIN f : f[i].severity = "error"
  BY DEF Diagnostic
<1>4. f \in Seq({f[i] : i \in 1 .. Cardinality(bad)})
  BY <1>1
<1>. QED
  BY <1>2, <1>3, <1>4 DEF List

-----------------------------------------------------------------------------
(* The first state, and what only grows.                                   *)

\* The lines of a file of the program.
LEMMA LinesOfFile ==
    ASSUME sources \in Programs, NEW f \in DOMAIN sources
    PROVE  /\ sources[f] \in Seq([kind : Kinds, name : STRING])
           /\ Len(sources[f]) \in Nat /\ DOMAIN sources[f] = 1 .. Len(sources[f])
           /\ \A i \in 1 .. Len(sources[f]) :
                 sources[f][i] \in [kind : Kinds, name : STRING]
<1>1. sources[f] \in Seq([kind : Kinds, name : STRING])
  BY ProgramAssumption
<1>. QED
  BY <1>1, LenProperties, ElementOfSeq

\* The input is mapped and waits for its translation (prepareInput).
LEMMA AdapterInit == Init => AdapterInv
<1>. SUFFICES ASSUME Init PROVE AdapterInv
  OBVIOUS
<1>. DEFINE frame == [file |-> Main, place |-> Place("files", Main), line |-> 1]
<1>1. sources \in Programs /\ Main \in DOMAIN sources
  BY ProgramAssumption DEF Init
<1>2. Place("files", Main) \in Copies
  BY <1>1 DEF Place, Copies, Names
<1>3. /\ preparing = <<frame>> /\ frame \in Frame /\ preparing \in Seq(Frame)
      /\ DOMAIN preparing = {1} /\ preparing[1] = frame
  <2>1. frame \in Frame
    BY <1>1, <1>2 DEF Frame
  <2>2. preparing = <<frame>>
    BY DEF Init
  <2>. HIDE DEF frame
  <2>. QED
    BY <2>1, <2>2
<1>4. Len(sources[Main]) \in Nat
  BY <1>1, LinesOfFile
<1>5. Shapes
  BY <1>1, <1>2, <1>3 DEF Init, Shapes
<1>6. Stages
  BY DEF Init, Stages
<1>7. Messages
  <2>1. List(errors) /\ DOMAIN errors = {}
    BY DEF Init, List
  <2>2. /\ List(diagnostics)
        /\ \A i \in DOMAIN diagnostics : diagnostics[i].severity = "error"
    <3>1. sources[Main] \in Seq([kind : Kinds, name : STRING])
      BY <1>1, LinesOfFile
    <3>. QED
      BY <3>1, ReportsAreErrors DEF Init
  <2>. QED
    BY <2>1, <2>2 DEF Messages, Severities
<1>8. FramesInOrder
  <2>1. Followed(sources[Main], 0, mapped)
    BY DEF Followed
  <2>. QED
    BY <1>3, <1>4, <2>1 DEF FramesInOrder, NotTwice, Init, Place
<1>9. DOMAIN mirror = {} /\ DOMAIN including = {} /\ directives = {}
  BY DEF Init
<1>10. MirrorComplete
  <2>1. Place("files", Main) \in Translating
    BY <1>3 DEF Translating
  <2>2. mapped = {Place("files", Main)}
    BY DEF Init
  <2>. QED
    BY <1>9, <2>1, <2>2 DEF MirrorComplete
<1>11. HeadersApart
  <2>1. mapped = {Place("files", Main)} /\ Place("files", Main).area = "files"
    BY DEF Init, Place
  <2>. QED
    BY <1>3, <1>9, <2>1 DEF HeadersApart
<1>12. ReadsCopies /\ DirectivesOnLines
  BY <1>9 DEF ReadsCopies, DirectivesOnLines
<1>. QED
  BY <1>5, <1>6, <1>7, <1>8, <1>10, <1>11, <1>12 DEF AdapterInv

\* A diagnostic is never taken back.
Kept == \A i \in DOMAIN diagnostics : i \in DOMAIN diagnostics' /\ diagnostics'[i] = diagnostics[i]

\* A refused source stays refused (addDiagnostic only adds).
LEMMA RefusedForGood == Kept /\ hasError => hasError'
BY DEF Kept, hasError

\* What has been followed stays followed: no place is unmapped (fileMap only grows).
LEMMA FollowedForGood ==
    ASSUME NEW lines, NEW n, NEW P, NEW Q, P \subseteq Q, Followed(lines, n, P)
    PROVE  Followed(lines, n, Q)
BY DEF Followed

\* One more line has been followed (prepareSource).
LEMMA FollowedOneMore ==
    ASSUME NEW lines, NEW n \in Nat \ {0}, NEW P, Followed(lines, n - 1, P),
           lines[n].kind \in {"include", "system"} => generatedPath(lines[n]) \in P
    PROVE  Followed(lines, n, P)
<1>1. ASSUME NEW i \in 1 .. n PROVE i = n \/ i \in 1 .. (n - 1)
  OBVIOUS
<1>. QED
  BY <1>1 DEF Followed

\* An added diagnostic keeps the others (addDiagnostic).
LEMMA MessageAdded ==
    ASSUME Messages, NEW d, d.severity \in Severities, diagnostics' = Append(diagnostics, d),
           UNCHANGED errors
    PROVE  Kept /\ Messages' /\ (d.severity = "error" => hasError')
<1>1. List(diagnostics)
  BY DEF Messages
<1>2. /\ List(diagnostics') /\ DOMAIN diagnostics' = DOMAIN diagnostics \cup {Len(diagnostics) + 1}
      /\ \A i \in DOMAIN diagnostics : diagnostics'[i] = diagnostics[i]
      /\ diagnostics'[Len(diagnostics) + 1] = d
  BY <1>1, AppendList
<1>. QED
  BY <1>2 DEF Kept, Messages, hasError

-----------------------------------------------------------------------------
(* Translating the files.                                                  *)

\* The next line of the innermost file: nothing else changes (prepareSource).
LEMMA Advanced ==
    ASSUME preparing \in Seq(Frame), preparing # << >>
    PROVE  /\ Advance(preparing) \in Seq(Frame)
           /\ Len(Advance(preparing)) = Len(preparing)
           /\ DOMAIN Advance(preparing) = DOMAIN preparing
           /\ \A i \in DOMAIN preparing :
                 /\ Advance(preparing)[i].file = preparing[i].file
                 /\ Advance(preparing)[i].place = preparing[i].place
                 /\ Advance(preparing)[i].line =
                       preparing[i].line + (IF i = Len(preparing) THEN 1 ELSE 0)
<1>1. /\ DOMAIN preparing = 1 .. Len(preparing) /\ Len(preparing) \in DOMAIN preparing
      /\ \A i \in DOMAIN preparing : preparing[i] \in Frame
  BY OuterOfSeq, LenProperties, ElementOfSeq
<1>2. /\ DOMAIN Advance(preparing) = DOMAIN preparing
      /\ Advance(preparing) = [i \in DOMAIN preparing |-> Advance(preparing)[i]]
  BY DEF Advance
<1>3. ASSUME NEW i \in DOMAIN preparing
      PROVE  /\ Advance(preparing)[i] \in Frame
             /\ Advance(preparing)[i].file = preparing[i].file
             /\ Advance(preparing)[i].place = preparing[i].place
             /\ Advance(preparing)[i].line =
                   preparing[i].line + (IF i = Len(preparing) THEN 1 ELSE 0)
  <2>1. preparing[i] \in Frame
    BY <1>1
  <2>2. Advance(preparing)[i] =
           IF i = Len(preparing) THEN [preparing[i] EXCEPT !.line = @ + 1] ELSE preparing[i]
    BY <1>1 DEF Advance
  <2>. QED
    BY <2>1, <2>2 DEF Frame
<1>4. Advance(preparing) \in Seq(Frame) /\ Len(Advance(preparing)) = Len(preparing)
  <2>1. Len(preparing) \in Nat
    BY LenProperties
  <2>. QED
    BY <1>1, <1>2, <1>3, <2>1
<1>. QED
  BY <1>2, <1>3, <1>4

\* What a step of the translation leaves alone.
PrepareUnchanged == UNCHANGED <<sources, phase, mcppVars>>

\* Every line leaves the files that are being translated as they are, the
\* innermost one at its next line (prepareSource).
LEMMA LineTranslated ==
    ASSUME AdapterInv, preparing # << >>, PrepareUnchanged, Kept, mapped \subseteq mapped',
           NEW rest, rest = Advance(preparing),
           Innermost(preparing).line <= Len(sources[Innermost(preparing).file]),
           NEW line, line = sources[Innermost(preparing).file][Innermost(preparing).line],
           line.kind \in {"include", "system"} => generatedPath(line) \in mapped' \/ hasError'
    PROVE  /\ rest \in Seq(Frame)
           /\ \A i \in DOMAIN rest :
                 /\ rest[i].place.file = rest[i].file /\ rest[i].place \in mapped
                 /\ rest[i].line <= Len(sources[rest[i].file]) + 1
                 /\ hasError' \/ Followed(sources[rest[i].file], rest[i].line - 1, mapped')
           /\ \A i, j \in DOMAIN rest : rest[i].place = rest[j].place => i = j
<1>. DEFINE n == Len(preparing)
<1>1. preparing \in Seq(Frame) /\ sources \in Programs
  BY DEF AdapterInv, Shapes
<1>2. n \in DOMAIN preparing /\ \A i \in DOMAIN preparing : preparing[i] \in Frame
  BY <1>1, OuterOfSeq, ElementOfSeq, LenProperties
<1>3. /\ rest \in Seq(Frame) /\ DOMAIN rest = DOMAIN preparing
      /\ \A i \in DOMAIN preparing :
            /\ rest[i].file = preparing[i].file
            /\ rest[i].place = preparing[i].place
            /\ rest[i].line = preparing[i].line + (IF i = n THEN 1 ELSE 0)
  BY <1>1, Advanced
<1>4. ASSUME NEW i \in DOMAIN preparing
      PROVE  /\ rest[i].place.file = rest[i].file /\ rest[i].place \in mapped
             /\ rest[i].line <= Len(sources[rest[i].file]) + 1
             /\ hasError' \/ Followed(sources[rest[i].file], rest[i].line - 1, mapped')
  <2>. DEFINE old == preparing[i]
  <2>1. /\ old.place.file = old.file /\ old.place \in mapped
        /\ old.line <= Len(sources[old.file]) + 1
        /\ hasError \/ Followed(sources[old.file], old.line - 1, mapped)
    BY DEF AdapterInv, FramesInOrder
  <2>2. old.file \in DOMAIN sources /\ old.line \in Nat \ {0}
    BY <1>2 DEF Frame
  <2>3. Len(sources[old.file]) \in Nat
    BY <1>1, <2>2, LinesOfFile
  <2>4. hasError' \/ Followed(sources[old.file], old.line - 1, mapped')
    BY <2>1, FollowedForGood, RefusedForGood
  <2>5. CASE i # n
    BY <1>3, <2>1, <2>2, <2>4, <2>5
  <2>6. CASE i = n
    <3>1. /\ rest[i].file = old.file /\ rest[i].place = old.place
          /\ rest[i].line = old.line + 1 /\ old.line <= Len(sources[old.file])
          /\ line = sources[old.file][old.line]
      BY <1>3, <2>6 DEF Innermost
    <3>2. hasError' \/ Followed(sources[old.file], old.line, mapped')
      BY <2>2, <2>4, <3>1, FollowedOneMore
    <3>3. (old.line + 1) - 1 = old.line /\ old.line + 1 <= Len(sources[old.file]) + 1
      BY <2>2, <2>3, <3>1
    <3>. QED
      BY <2>1, <3>1, <3>2, <3>3
  <2>. QED
    BY <2>5, <2>6
<1>5. \A i, j \in DOMAIN preparing : preparing[i].place = preparing[j].place => i = j
  BY DEF AdapterInv, FramesInOrder, NotTwice
<1>. QED
  BY <1>3, <1>4, <1>5

\* What the line of the innermost file can do: it leaves the mirror alone, adds
\* the marker of a header of the registry, or opens a file that has no place yet.
Passed(line, rest) ==
    /\ preparing' = rest /\ UNCHANGED mirror
    /\ mapped' = mapped \/ /\ mapped' = mapped \cup {generatedPath(line)}
                           /\ line.kind \in {"include", "system"} /\ line.name \notin DOMAIN sources
                           /\ ~(line.kind = "system" /\ line.name \in Headers)
Registered(line, rest) ==
    /\ preparing' = rest /\ line.kind = "system" /\ line.name \in Headers
    /\ mapped' = mapped \cup {generatedPath(line)}
    /\ Written(generatedPath(line), <<Line("define", line.name)>>)
Opened(line, rest) ==
    /\ line.kind \in {"include", "system"} /\ line.name \in DOMAIN sources
    /\ ~(line.kind = "system" /\ line.name \in Headers)
    /\ generatedPath(line) \notin mapped /\ mapped' = mapped \cup {generatedPath(line)}
    /\ preparing' = Append(rest, [file |-> line.name, place |-> generatedPath(line), line |-> 1])
    /\ UNCHANGED mirror

\* An include is followed, has been followed or is refused (prepareInclude).
LEMMA IncludeFollowed ==
    ASSUME AdapterInv, UNCHANGED <<sources, errors>>, NEW line \in [kind : Kinds, name : STRING],
           line.kind \in {"include", "system"}, NEW rest, prepareInclude(line, rest)
    PROVE  /\ Passed(line, rest) \/ Registered(line, rest) \/ Opened(line, rest)
           /\ Kept /\ Messages'
           /\ generatedPath(line) \in mapped' \/ hasError'
<1>. DEFINE g == generatedPath(line)
            removed == Diagnostic("error", Nothing, 1, "removed_header")
<1>1. Messages /\ sources \in Programs
  BY DEF AdapterInv, Shapes
<1>2. ASSUME UNCHANGED diagnostics PROVE Kept /\ Messages'
  BY <1>1, <1>2 DEF Kept, Messages
<1>3. CASE line.kind = "system" /\ line.name = "core.hsh"
  <2>1. diagnostics' = Append(diagnostics, removed) /\ Passed(line, rest)
    BY <1>3 DEF prepareInclude, Passed
  <2>2. removed.severity = "error"
    BY DEF Diagnostic
  <2>. HIDE DEF removed
  <2>3. Kept /\ Messages' /\ hasError'
    BY <1>1, <2>1, <2>2, MessageAdded DEF Severities
  <2>. QED
    BY <2>1, <2>3
<1>4. CASE ~(line.kind = "system" /\ line.name = "core.hsh") /\ line.kind = "system" /\ line.name \in Headers
  <2>1. UNCHANGED diagnostics /\ Registered(line, rest)
    BY <1>4 DEF prepareInclude, Registered
  <2>. QED
    BY <1>2, <2>1 DEF Registered
<1>5. CASE ~(line.kind = "system" /\ line.name = "core.hsh") /\ ~(line.kind = "system" /\ line.name \in Headers)
  <2>1. /\ mapped' = mapped \cup {g} /\ UNCHANGED mirror
        /\ IF AlreadyMapped(g) \/ ~Exists(line.name)
           THEN preparing' = rest /\ UNCHANGED diagnostics
           ELSE /\ preparing' = Append(rest, [file |-> line.name, place |-> g, line |-> 1])
                /\ diagnostics' = diagnostics \o validateSourceInto(sources[line.name], line.name)
    BY <1>5 DEF prepareInclude
  <2>2. CASE AlreadyMapped(g) \/ ~Exists(line.name)
    <3>1. Passed(line, rest)
      BY <1>5, <2>1, <2>2 DEF Passed, AlreadyMapped, Exists
    <3>. QED
      BY <1>2, <2>1, <2>2, <3>1
  <2>3. CASE ~(AlreadyMapped(g) \/ ~Exists(line.name))
    <3>1. Opened(line, rest)
      BY <1>5, <2>1, <2>3 DEF Opened, AlreadyMapped, Exists
    <3>. DEFINE reports == validateSourceInto(sources[line.name], line.name)
    <3>2. List(reports) /\ \A i \in DOMAIN reports : reports[i].severity = "error"
      <4>1. sources[line.name] \in Seq([kind : Kinds, name : STRING])
        BY <1>1, <2>3, LinesOfFile DEF Exists
      <4>. QED
        BY <4>1, ReportsAreErrors
    <3>3. diagnostics' = diagnostics \o reports
      BY <2>1, <2>3
    <3>. HIDE DEF reports
    <3>4. /\ List(diagnostics')
          /\ \A i \in DOMAIN diagnostics : i \in DOMAIN diagnostics' /\ diagnostics'[i] = diagnostics[i]
          /\ \A i \in DOMAIN diagnostics' :
                i \in DOMAIN diagnostics \/ \E j \in DOMAIN reports : diagnostics'[i] = reports[j]
      BY <1>1, <3>2, <3>3, ConcatList DEF Messages
    <3>5. Kept /\ Messages'
      BY <1>1, <3>2, <3>4 DEF Kept, Messages, Severities
    <3>. QED
      BY <2>1, <3>1, <3>5
  <2>. QED
    BY <2>2, <2>3
<1>. QED
  BY <1>3, <1>4, <1>5

\* A line of a file that is being translated keeps the adapter's promises
\* (prepareSource, prepareInclude).
LEMMA PrepareLineKeeps == AdapterInv /\ PrepareLine => AdapterInv'
<1>. SUFFICES ASSUME AdapterInv, PrepareLine PROVE AdapterInv'
  OBVIOUS
<1>. DEFINE frame == Innermost(preparing)
            line == sources[frame.file][frame.line]
            rest == Advance(preparing)
            g == generatedPath(line)
<1>1. /\ Shapes /\ Stages /\ Messages /\ FramesInOrder /\ MirrorComplete /\ HeadersApart
      /\ ReadsCopies /\ DirectivesOnLines
  BY DEF AdapterInv
<1>2. /\ phase = "prepare" /\ phase' = "prepare" /\ preparing # << >>
      /\ PrepareUnchanged /\ UNCHANGED <<sources, phase, including, errors, ran>>
      /\ frame.line <= Len(sources[frame.file])
      /\ directives' = directives \cup
            (IF IsDirective(line) THEN {[file |-> frame.file, line |-> frame.line]} ELSE {})
      /\ IF line.kind \in {"include", "system"} THEN prepareInclude(line, rest)
         ELSE preparing' = rest /\ UNCHANGED <<mapped, mirror, standardHeaders, diagnostics>>
  BY DEF PrepareLine, PrepareUnchanged, mcppVars
<1>3. frame \in Frame
  BY <1>1, <1>2, OuterOfSeq DEF Shapes
<1>4. frame.file \in DOMAIN sources /\ frame.line \in Nat \ {0}
  BY <1>3 DEF Frame
<1>5. line \in [kind : Kinds, name : STRING] /\ frame.line \in DOMAIN sources[frame.file]
  BY <1>1, <1>2, <1>4, LinesOfFile DEF Shapes
<1>6. g \in Copies /\ g.file = line.name /\ (g.area = "include" => line.kind = "system")
  BY <1>5 DEF generatedPath, Place, Copies, Names
<1>7. /\ Passed(line, rest) \/ Registered(line, rest) \/ Opened(line, rest)
      /\ Kept /\ Messages'
      /\ line.kind \in {"include", "system"} => g \in mapped' \/ hasError'
  <2>1. CASE line.kind \in {"include", "system"}
    <3>1. prepareInclude(line, rest)
      BY <1>2, <2>1
    <3>. HIDE DEF line, rest
    <3>. QED
      BY <1>2, <1>5, <2>1, <3>1, IncludeFollowed
  <2>2. CASE line.kind \notin {"include", "system"}
    <3>1. preparing' = rest /\ UNCHANGED <<mapped, mirror, diagnostics>>
      BY <1>2, <2>2
    <3>. QED
      BY <1>1, <1>2, <2>2, <3>1 DEF Passed, Kept, Messages
  <2>. QED
    BY <2>1, <2>2
<1>8. mapped \subseteq mapped' /\ mapped' \subseteq mapped \cup {g}
  BY <1>7 DEF Passed, Registered, Opened
<1>9. /\ rest \in Seq(Frame)
      /\ \A i \in DOMAIN rest :
            /\ rest[i].place.file = rest[i].file /\ rest[i].place \in mapped
            /\ rest[i].line <= Len(sources[rest[i].file]) + 1
            /\ hasError' \/ Followed(sources[rest[i].file], rest[i].line - 1, mapped')
      /\ \A i, j \in DOMAIN rest : rest[i].place = rest[j].place => i = j
  <2>. HIDE DEF line, rest
  <2>1. rest = Advance(preparing) /\ line = sources[Innermost(preparing).file][Innermost(preparing).line]
    BY DEF rest, line
  <2>. QED
    BY <1>2, <1>7, <1>8, <2>1, LineTranslated
<1>10. /\ DOMAIN rest = DOMAIN preparing
       /\ \A i \in DOMAIN preparing :
             rest[i].place = preparing[i].place /\ rest[i].file = preparing[i].file
  BY <1>1, <1>2, Advanced DEF Shapes
<1>. HIDE DEF rest
<1>11. hasError => hasError'
  BY <1>7, RefusedForGood
<1>12. Frame' = Frame /\ Copies' = Copies /\ OpenFile' = OpenFile
  BY <1>2 DEF Frame, Copies, OpenFile, Places, Names
<1>13. \A i \in DOMAIN rest : rest[i].place.area = "include" => rest[i].file \notin Headers
  BY <1>1, <1>10 DEF HeadersApart
<1>14. \A place \in mapped' : place.area = "include" =>
          \E f \in DOMAIN sources : \E i \in DOMAIN sources[f] :
             sources[f][i].kind = "system" /\ sources[f][i].name = place.file
  <2>1. \A place \in mapped : place.area = "include" =>
          \E f \in DOMAIN sources : \E i \in DOMAIN sources[f] :
             sources[f][i].kind = "system" /\ sources[f][i].name = place.file
    BY <1>1 DEF HeadersApart
  <2>2. g.area = "include" => \E f \in DOMAIN sources : \E i \in DOMAIN sources[f] :
             sources[f][i].kind = "system" /\ sources[f][i].name = g.file
    BY <1>4, <1>5, <1>6
  <2>. QED
    BY <1>8, <2>1, <2>2
<1>15. Stages'
  BY <1>1, <1>2, <1>8 DEF Stages, Place
<1>17. DirectivesOnLines'
  BY <1>1, <1>2, <1>5 DEF DirectivesOnLines
<1>18. /\ \A place \in DOMAIN mirror :
            \/ mirror[place] = <<Line("define", place.file)>>
            \/ /\ place.file \in DOMAIN sources
               /\ mirror[place] = Translated(place.file)
               /\ hasError' \/ Followed(sources[place.file], Len(sources[place.file]), mapped')
       /\ \A f : Translated(f)' = Translated(f)
  <2>1. \A f : Translated(f)' = Translated(f)
    BY <1>2 DEF Translated
  <2>. QED
    BY <1>1, <1>8, <1>11, <2>1, FollowedForGood DEF MirrorComplete
<1>19. CASE Passed(line, rest)
  <2>1. preparing' = rest /\ mirror' = mirror
    BY <1>19 DEF Passed
  <2>2. Shapes'
    BY <1>1, <1>2, <1>6, <1>8, <1>9, <1>12, <2>1 DEF Shapes
  <2>3. FramesInOrder'
    BY <1>2, <1>8, <1>9, <2>1 DEF FramesInOrder, NotTwice
  <2>4. Translating' = Translating
    BY <1>10, <2>1 DEF Translating
  <2>5. \A place \in mapped' : place \in mapped \/ ~HasContent(place)
    BY <1>6, <1>19 DEF Passed, HasContent
  <2>6. MirrorComplete'
    BY <1>1, <1>2, <1>18, <2>1, <2>4, <2>5 DEF MirrorComplete, HasContent
  <2>7. HeadersApart' /\ ReadsCopies'
    BY <1>1, <1>2, <1>13, <1>14, <2>1 DEF HeadersApart, ReadsCopies
  <2>. QED
    BY <1>7, <1>15, <1>17, <2>2, <2>3, <2>6, <2>7 DEF AdapterInv
<1>20. CASE Registered(line, rest)
  <2>1. preparing' = rest
    BY <1>20 DEF Registered
  <2>2. /\ DOMAIN mirror' = DOMAIN mirror \cup {g} /\ mirror'[g] = <<Line("define", g.file)>>
        /\ \A place \in DOMAIN mirror : place # g => mirror'[place] = mirror[place]
        /\ g \in mapped'
    BY <1>6, <1>20 DEF Registered, Written
  <2>. HIDE DEF g
  <2>3. Shapes'
    BY <1>1, <1>2, <1>6, <1>8, <1>9, <1>12, <2>1, <2>2 DEF Shapes
  <2>4. FramesInOrder'
    BY <1>2, <1>8, <1>9, <2>1 DEF FramesInOrder, NotTwice
  <2>5. Translating' = Translating
    BY <1>10, <2>1 DEF Translating
  <2>6. MirrorComplete'
    <3>1. \A place \in mapped' : HasContent(place)' => place \in (DOMAIN mirror \cup Translating)'
      BY <1>1, <1>2, <1>8, <2>2, <2>5 DEF MirrorComplete, HasContent
    <3>. QED
      BY <1>2, <1>18, <2>2, <3>1 DEF MirrorComplete
  <2>7. HeadersApart' /\ ReadsCopies'
    BY <1>1, <1>2, <1>13, <1>14, <2>1, <2>2 DEF HeadersApart, ReadsCopies
  <2>. QED
    BY <1>7, <1>15, <1>17, <2>3, <2>4, <2>6, <2>7 DEF AdapterInv
<1>21. CASE Opened(line, rest)
  <2>. DEFINE new == [file |-> line.name, place |-> g, line |-> 1]
  <2>1. /\ preparing' = Append(rest, new) /\ mirror' = mirror /\ mapped' = mapped \cup {g}
        /\ g \notin mapped /\ g.file \in DOMAIN sources /\ g.file = line.name
        /\ g.area = "include" => g.file \notin Headers
    BY <1>6, <1>21 DEF Opened
  <2>2. new \in Frame /\ new.place = g /\ new.file = g.file /\ new.line = 1
    BY <1>6, <2>1 DEF Frame
  <2>. HIDE DEF g, line, new
  <2>3. /\ preparing' \in Seq(Frame) /\ DOMAIN preparing' = DOMAIN rest \cup {Len(rest) + 1}
        /\ preparing'[Len(rest) + 1] = new /\ \A i \in DOMAIN rest : preparing'[i] = rest[i]
    BY <1>9, <2>1, <2>2
  <2>4. Shapes'
    BY <1>1, <1>2, <1>6, <1>12, <2>1, <2>3 DEF Shapes
  <2>5. FramesInOrder'
    <3>1. /\ g.file = new.file /\ new.line <= Len(sources[new.file]) + 1
          /\ Followed(sources[new.file], new.line - 1, mapped')
      <4>1. Len(sources[g.file]) \in Nat
        BY <1>1, <2>1, LinesOfFile DEF Shapes
      <4>2. Followed(sources[g.file], 0, mapped')
        BY DEF Followed
      <4>. QED
        BY <2>2, <4>1, <4>2
    <3>2. \A i \in DOMAIN preparing' :
             /\ preparing'[i].place.file = preparing'[i].file /\ preparing'[i].place \in mapped'
             /\ preparing'[i].line <= Len(sources[preparing'[i].file]) + 1
             /\ hasError' \/ Followed(sources[preparing'[i].file], preparing'[i].line - 1, mapped')
      BY <1>8, <1>9, <2>1, <2>2, <2>3, <3>1
    <3>3. \A i, j \in DOMAIN preparing' : preparing'[i].place = preparing'[j].place => i = j
      BY <1>9, <2>1, <2>2, <2>3
    <3>. QED
      BY <1>2, <3>2, <3>3 DEF FramesInOrder, NotTwice
  <2>6. Translating \cup {g} \subseteq Translating'
    BY <1>10, <2>2, <2>3 DEF Translating
  <2>7. MirrorComplete'
    <3>1. \A place \in mapped' : HasContent(place)' => place \in (DOMAIN mirror \cup Translating)'
      BY <1>1, <1>2, <2>1, <2>6 DEF MirrorComplete, HasContent
    <3>. QED
      BY <1>2, <1>18, <2>1, <3>1 DEF MirrorComplete
  <2>8. HeadersApart' /\ ReadsCopies'
    BY <1>1, <1>2, <1>13, <1>14, <2>1, <2>2, <2>3 DEF HeadersApart, ReadsCopies
  <2>. QED
    BY <1>7, <1>15, <1>17, <2>4, <2>5, <2>7, <2>8 DEF AdapterInv
<1>. QED
  BY <1>7, <1>19, <1>20, <1>21

\* A copy is written when the file's last line has been followed (prepareSource).
LEMMA PrepareEndKeeps == AdapterInv /\ PrepareEnd => AdapterInv'
<1>. SUFFICES ASSUME AdapterInv, PrepareEnd PROVE AdapterInv'
  OBVIOUS
<1>. DEFINE frame == Innermost(preparing)
            g == frame.place
<1>1. /\ Shapes /\ Stages /\ Messages /\ FramesInOrder /\ MirrorComplete /\ HeadersApart
      /\ ReadsCopies /\ DirectivesOnLines
  BY DEF AdapterInv
<1>2. /\ phase = "prepare" /\ preparing # << >> /\ frame.line > Len(sources[frame.file])
      /\ mirror' = [p \in DOMAIN mirror \cup {g} |->
                      IF p = g THEN Translated(frame.file) ELSE mirror[p]]
      /\ preparing' = Outer(preparing)
      /\ UNCHANGED <<sources, phase, mapped, directives, including, errors, ran, diagnostics>>
  BY DEF PrepareEnd, Written, mcppVars, parseVars
<1>3. /\ frame \in Frame /\ Len(preparing) \in DOMAIN preparing /\ frame = preparing[Len(preparing)]
      /\ preparing' \in Seq(Frame) /\ Len(preparing') = Len(preparing) - 1
      /\ \A i \in 1 .. (Len(preparing) - 1) : preparing'[i] = preparing[i]
  BY <1>1, <1>2, OuterOfSeq DEF Shapes, Innermost
<1>4. /\ DOMAIN preparing = 1 .. Len(preparing) /\ DOMAIN preparing' = 1 .. Len(preparing) - 1
      /\ Len(preparing) \in Nat
  BY <1>1, <1>3, LenProperties DEF Shapes
<1>5. \A i \in DOMAIN preparing' : i \in DOMAIN preparing /\ preparing'[i] = preparing[i]
  BY <1>3, <1>4
<1>6. /\ frame.place.file = frame.file /\ frame.place \in mapped
      /\ frame.line <= Len(sources[frame.file]) + 1
      /\ hasError \/ Followed(sources[frame.file], frame.line - 1, mapped)
  BY <1>1, <1>3 DEF FramesInOrder
<1>7. frame.file \in DOMAIN sources /\ frame.line \in Nat \ {0} /\ Len(sources[frame.file]) \in Nat
  BY <1>1, <1>3, LinesOfFile DEF Frame, Shapes
<1>8. hasError \/ Followed(sources[frame.file], Len(sources[frame.file]), mapped)
  <2>1. frame.line - 1 = Len(sources[frame.file])
    BY <1>2, <1>6, <1>7
  <2>. QED
    BY <1>6, <2>1
<1>9. g.area = "include" => g.file \notin Headers
  BY <1>1, <1>3, <1>6 DEF HeadersApart
<1>10. hasError' = hasError
  BY <1>2 DEF hasError
<1>11. \A f : Translated(f)' = Translated(f)
  BY <1>2 DEF Translated
<1>. HIDE DEF frame
<1>12. /\ DOMAIN mirror' = DOMAIN mirror \cup {g} /\ mirror'[g] = Translated(g.file)
       /\ \A place \in DOMAIN mirror : place # g => mirror'[place] = mirror[place]
  BY <1>2, <1>6
<1>13. Frame' = Frame /\ Copies' = Copies /\ OpenFile' = OpenFile
  BY <1>2 DEF Frame, Copies, OpenFile, Places, Names
<1>14. Shapes'
  BY <1>1, <1>2, <1>3, <1>6, <1>12, <1>13 DEF Shapes
<1>15. Stages' /\ Messages'
  BY <1>1, <1>2, <1>10 DEF Stages, Messages, Place
<1>16. FramesInOrder'
  BY <1>1, <1>2, <1>5, <1>10 DEF FramesInOrder, NotTwice
<1>17. MirrorComplete'
  <2>1. Translating \subseteq Translating' \cup {g}
    <3>1. ASSUME NEW i \in DOMAIN preparing
          PROVE  i \in DOMAIN preparing' \/ preparing[i].place = g
      BY <1>3, <1>4 DEF frame
    <3>. QED
      BY <1>5, <3>1 DEF Translating
  <2>2. \A place \in mapped' : HasContent(place)' => place \in (DOMAIN mirror \cup Translating)'
    BY <1>1, <1>2, <1>12, <2>1 DEF MirrorComplete, HasContent
  <2>3. \A place \in DOMAIN mirror' :
          \/ mirror'[place] = <<Line("define", place.file)>>
          \/ /\ place.file \in DOMAIN sources
             /\ mirror'[place] = Translated(place.file)
             /\ hasError \/ Followed(sources[place.file], Len(sources[place.file]), mapped)
    BY <1>1, <1>6, <1>7, <1>8, <1>12 DEF MirrorComplete
  <2>. QED
    BY <1>2, <1>10, <1>11, <2>2, <2>3 DEF MirrorComplete
<1>18. HeadersApart' /\ ReadsCopies' /\ DirectivesOnLines'
  BY <1>1, <1>2, <1>5, <1>9, <1>12 DEF HeadersApart, ReadsCopies, DirectivesOnLines
<1>. QED
  BY <1>14, <1>15, <1>16, <1>17, <1>18 DEF AdapterInv

\* The adapter's own state is untouched while mcpp runs: it is enough that mcpp
\* keeps to copies and complains in errors and warnings.
LEMMA McppKeeps ==
    ASSUME AdapterInv, UNCHANGED <<sources, prepareVars, parseVars>>,
           including' \in Seq(OpenFile), ReadsCopies',
           List(errors'), \A i \in DOMAIN errors' : errors'[i].severity \in Severities,
           \/ phase' = "mcpp" /\ ~hasError /\ preparing = << >> /\ including' # << >> /\ ran' = "no"
           \/ phase' = "parse" /\ preparing = << >> /\ ran' \in {"unlaunched", "died", "ended"}
    PROVE  AdapterInv'
<1>1. UNCHANGED <<sources, preparing, mapped, mirror, directives, diagnostics>>
  BY DEF prepareVars, parseVars
<1>2. Frame' = Frame /\ Copies' = Copies /\ OpenFile' = OpenFile /\ Translating' = Translating
      /\ hasError' = hasError
  BY <1>1 DEF Frame, Copies, OpenFile, Places, Names, Translating, hasError
<1>3. Shapes'
  BY <1>1, <1>2 DEF AdapterInv, Shapes
<1>4. Stages'
  BY <1>1, <1>2 DEF AdapterInv, Stages, Place
<1>5. Messages'
  BY <1>1 DEF AdapterInv, Messages
<1>6. FramesInOrder'
  BY <1>1, <1>2 DEF AdapterInv, FramesInOrder, NotTwice
<1>7. MirrorComplete'
  BY <1>1, <1>2 DEF AdapterInv, MirrorComplete, HasContent, Translated
<1>8. HeadersApart' /\ DirectivesOnLines'
  BY <1>1 DEF AdapterInv, HeadersApart, DirectivesOnLines
<1>. QED
  BY <1>3, <1>4, <1>5, <1>6, <1>7, <1>8 DEF AdapterInv

\* mcpp starts on the copy of the input, which is complete (runMcpp).
LEMMA RunMcppKeeps == AdapterInv /\ RunMcpp => AdapterInv'
<1>. SUFFICES ASSUME AdapterInv, RunMcpp PROVE AdapterInv'
  OBVIOUS
<1>. DEFINE main == Place("files", Main)
<1>1. /\ preparing = << >> /\ ~hasError /\ phase = "prepare" /\ UNCHANGED <<sources, prepareVars, parseVars>>
      /\ UNCHANGED errors /\ UNCHANGED mirror
  BY DEF RunMcpp, prepareVars
<1>2. List(errors') /\ \A i \in DOMAIN errors' : errors'[i].severity \in Severities
  BY <1>1 DEF AdapterInv, Messages
<1>3. CASE phase' = "mcpp" /\ including' = <<Open(main)>> /\ UNCHANGED ran
  <2>1. main \in mapped /\ main \in Copies /\ Main \in DOMAIN sources /\ ran = "no"
    BY <1>1, ProgramAssumption DEF AdapterInv, Stages, Shapes
  <2>2. main \in DOMAIN mirror
    <3>1. Translating = {}
      BY <1>1 DEF Translating
    <3>2. HasContent(main)
      BY <2>1 DEF HasContent, Place
    <3>. QED
      BY <2>1, <3>1, <3>2 DEF AdapterInv, MirrorComplete
  <2>3. Open(main) \in OpenFile /\ Open(main).place = main
    <3>1. << >> \in Conditionals /\ main \in Places
      BY <2>1 DEF Copies, Places, Conditionals
    <3>. QED
      BY <2>1, <3>1 DEF Open, OpenFile
  <2>. HIDE DEF main
  <2>4. including' \in Seq(OpenFile) /\ including' # << >> /\ ReadsCopies'
    BY <1>1, <1>3, <2>2, <2>3 DEF ReadsCopies
  <2>. QED
    BY <1>1, <1>2, <1>3, <2>1, <2>4, McppKeeps
<1>4. CASE phase' = "parse" /\ ran' = "unlaunched" /\ UNCHANGED including
  <2>1. including' \in Seq(OpenFile) /\ ReadsCopies'
    BY <1>1, <1>4 DEF AdapterInv, Shapes, ReadsCopies
  <2>. QED
    BY <1>1, <1>2, <1>4, <2>1, McppKeeps
<1>. QED
  BY <1>3, <1>4 DEF RunMcpp

-----------------------------------------------------------------------------
(* Expanding the copies.                                                   *)

\* While mcpp runs, it reads a copy.
LEMMA Reading ==
    ASSUME AdapterInv, phase = "mcpp"
    PROVE  /\ including \in Seq(OpenFile) /\ including # << >> /\ Top \in OpenFile
           /\ Len(including) \in DOMAIN including /\ Top = including[Len(including)]
           /\ Top.place \in DOMAIN mirror /\ Top.place \in Copies
           /\ preparing = << >> /\ ~hasError /\ ran = "no"
<1>1. including \in Seq(OpenFile) /\ including # << >> /\ preparing = << >> /\ ~hasError /\ ran = "no"
  BY DEF AdapterInv, Shapes, Stages
<1>2. Top \in OpenFile /\ Len(including) \in DOMAIN including /\ Top = including[Len(including)]
  BY <1>1, OuterOfSeq DEF Top, Innermost
<1>3. Top.place \in DOMAIN mirror
  BY <1>2 DEF AdapterInv, ReadsCopies
<1>. QED
  BY <1>1, <1>2, <1>3 DEF OpenFile

\* The innermost file of mcpp changes, its copy does not.
LEMMA TopChanged ==
    ASSUME AdapterInv, phase = "mcpp", NEW f \in OpenFile, f.place = Top.place, UNCHANGED mirror,
           including' = [including EXCEPT ![Len(including)] = f]
    PROVE  including' \in Seq(OpenFile) /\ including' # << >> /\ ReadsCopies'
<1>1. /\ including \in Seq(OpenFile) /\ including # << >> /\ Len(including) \in DOMAIN including
      /\ Top.place \in DOMAIN mirror
  BY Reading
<1>2. including' \in Seq(OpenFile) /\ including' # << >>
  BY <1>1
<1>3. DOMAIN including' = DOMAIN including
  OBVIOUS
<1>4. \A i \in DOMAIN including' : including'[i].place \in DOMAIN mirror
  BY <1>1, <1>3 DEF AdapterInv, ReadsCopies
<1>. QED
  BY <1>2, <1>4 DEF ReadsCopies

\* An error of mcpp is one more message (mcpp.err).
LEMMA ErrorAdded ==
    ASSUME AdapterInv, NEW severity \in Severities, NEW message
    PROVE  /\ List(Error(severity, message))
           /\ \A i \in DOMAIN Error(severity, message) : Error(severity, message)[i].severity \in Severities
<1>. DEFINE e == [severity |-> severity, name |-> Top.name, line |-> Top.number, message |-> message]
<1>1. e.severity \in Severities /\ List(errors) /\ \A i \in DOMAIN errors : errors[i].severity \in Severities
  BY DEF AdapterInv, Messages
<1>2. Error(severity, message) = Append(errors, e)
  BY DEF Error
<1>. HIDE DEF e
<1>3. /\ List(Append(errors, e)) /\ DOMAIN Append(errors, e) = DOMAIN errors \cup {Len(errors) + 1}
      /\ \A i \in DOMAIN errors : Append(errors, e)[i] = errors[i]
      /\ Append(errors, e)[Len(errors) + 1] = e
  BY <1>1, AppendList
<1>. QED
  BY <1>1, <1>2, <1>3

\* A line that is not printed counts in the innermost file.
LEMMA CountedKeeps ==
    ASSUME AdapterInv, phase = "mcpp", NEW f \in OpenFile, f.place = Top.place, UNCHANGED mirror,
           including' = [including EXCEPT ![Len(including)] = [f EXCEPT !.number = @ + 1, !.next = @ + 1]]
    PROVE  including' \in Seq(OpenFile) /\ including' # << >> /\ ReadsCopies'
<1>. DEFINE h == [f EXCEPT !.number = @ + 1, !.next = @ + 1]
<1>1. f.number + 1 \in Nat /\ f.next + 1 \in Nat \ {0}
  BY DEF OpenFile
<1>2. h \in OpenFile /\ h.place = f.place
  <2>. DEFINE a == f.number + 1
              b == f.next + 1
  <2>1. a \in Nat /\ b \in Nat \ {0} /\ h = [f EXCEPT !.number = a, !.next = b]
    BY <1>1
  <2>. HIDE DEF a, b, h
  <2>. QED
    BY <2>1 DEF OpenFile
<1>. HIDE DEF h
<1>3. including' = [including EXCEPT ![Len(including)] = h]
  BY DEF h
<1>. QED
  BY <1>2, <1>3, TopChanged

\* Every step of mcpp that stays in its file keeps the adapter's promises.
LEMMA McppLineKeeps ==
    ASSUME AdapterInv, McppText \/ McppSkip \/ McppDefine \/ McppWarning \/ McppRename \/ McppConditional
    PROVE  AdapterInv'
<1>1. /\ phase = "mcpp" /\ phase' = "mcpp" /\ ran' = ran
      /\ UNCHANGED <<sources, prepareVars, parseVars>> /\ UNCHANGED mirror
  BY DEF McppText, McppSkip, McppDefine, McppWarning, McppRename, McppConditional, McppUnchanged,
         AtLine, prepareVars
<1>2. /\ including \in Seq(OpenFile) /\ including # << >> /\ Top \in OpenFile
      /\ Len(including) \in DOMAIN including /\ Top = including[Len(including)]
      /\ Top.place \in DOMAIN mirror /\ preparing = << >> /\ ~hasError /\ ran = "no"
  BY <1>1, Reading
<1>3. List(errors') /\ \A i \in DOMAIN errors' : errors'[i].severity \in Severities
  <2>1. CASE UNCHANGED errors
    BY <2>1 DEF AdapterInv, Messages
  <2>2. CASE \E severity \in Severities : \E message : errors' = Error(severity, message)
    BY <2>2, ErrorAdded
  <2>3. UNCHANGED errors \/ \E severity \in Severities : \E message : errors' = Error(severity, message)
    BY DEF McppText, McppSkip, McppDefine, McppWarning, McppRename, McppConditional, Severities
  <2>. QED
    BY <2>1, <2>2, <2>3
<1>4. including' \in Seq(OpenFile) /\ including' # << >> /\ ReadsCopies'
  <2>1. CASE McppText
    <3>1. including' = [including EXCEPT ![Len(including)] = [Top EXCEPT !.number = @ + 1, !.next = @ + 1]]
      BY <1>2, <2>1 DEF McppText
    <3>. QED
      BY <1>1, <1>2, <3>1, CountedKeeps
  <2>2. CASE McppSkip \/ McppDefine \/ McppWarning
    <3>1. including' = [including EXCEPT ![Len(including)] = [Top EXCEPT !.number = @ + 1, !.next = @ + 1]]
      BY <2>2 DEF McppSkip, McppDefine, McppWarning, Counted
    <3>. QED
      BY <1>1, <1>2, <3>1, CountedKeeps
  <2>3. CASE McppRename
    <3>. DEFINE h == [Top EXCEPT !.name = Original(Current.name), !.number = 1, !.next = @ + 1]
    <3>1. Current.kind = "line" /\ Top.next <= Len(Copied)
      BY <2>3 DEF McppRename, AtLine, Current
    <3>2. Current.name \in Names
      <4>1. CASE Copied = <<Line("define", Top.place.file)>>
        <5>1. Top.next = 1
          BY <1>2, <3>1, <4>1 DEF OpenFile
        <5>. QED
          BY <3>1, <4>1, <5>1 DEF Current, Line
      <4>2. CASE Top.place.file \in DOMAIN sources /\ Copied = Translated(Top.place.file)
        <5>. DEFINE lines == sources[Top.place.file]
        <5>1. lines \in Seq([kind : Kinds, name : STRING]) /\ \A i \in 1 .. Len(lines) : lines[i].kind \in Kinds
          BY <4>2, LinesOfFile DEF AdapterInv, Shapes
        <5>2. Copied = <<Line("line", Top.place.file)>> \o lines
          BY <4>2 DEF Translated
        <5>. HIDE DEF lines
        <5>3. Copied[Top.next].kind = "line" => Top.next = 1
          <6>1. ASSUME Top.next # 1 PROVE Copied[Top.next] = lines[Top.next - 1] /\ Top.next - 1 \in 1 .. Len(lines)
            BY <1>2, <3>1, <5>1, <5>2, <6>1 DEF OpenFile
          <6>. QED
            BY <5>1, <6>1 DEF Kinds
        <5>4. Copied[1] = Line("line", Top.place.file)
          BY <5>1, <5>2
        <5>. QED
          BY <3>1, <4>2, <5>3, <5>4 DEF Current, Line, Names
      <4>. QED
        BY <1>2, <4>1, <4>2 DEF AdapterInv, MirrorComplete, Copied
    <3>3. h \in OpenFile /\ h.place = Top.place
      <4>1. Original(Current.name) \in Places
        BY <3>2 DEF Original, Place, Places
      <4>. DEFINE a == Original(Current.name)
                  b == Top.next + 1
      <4>2. a \in Places /\ b \in Nat \ {0} /\ h = [Top EXCEPT !.name = a, !.number = 1, !.next = b]
        BY <1>2, <4>1 DEF OpenFile
      <4>. HIDE DEF a, b, h
      <4>. QED
        BY <1>2, <4>2 DEF OpenFile
    <3>4. including' = [including EXCEPT ![Len(including)] = h]
      BY <1>2, <2>3 DEF McppRename
    <3>. HIDE DEF h
    <3>. QED
      BY <1>1, <3>3, <3>4, TopChanged
  <2>4. CASE McppConditional
    <3>1. PICK taken \in Conditionals :
             including' = [including EXCEPT ![Len(including)] =
                             [[Top EXCEPT !.taken = taken] EXCEPT !.number = @ + 1, !.next = @ + 1]]
      <4>1. Top.taken \in Conditionals /\ Top.taken \in Seq(BOOLEAN)
        BY <1>2 DEF OpenFile, Conditionals
      <4>2. Top = [Top EXCEPT !.taken = Top.taken]
        BY <1>2 DEF OpenFile
      <4>3. CASE Current.kind = "ifndef"
        <5>1. Append(Top.taken, Active /\ Current.name \notin macros) \in Conditionals
          BY <4>1 DEF Conditionals
        <5>. QED
          BY <2>4, <4>3, <5>1 DEF McppConditional, Counted
      <4>4. CASE Current.kind # "ifndef" /\ Top.taken = << >>
        BY <2>4, <4>1, <4>2, <4>4 DEF McppConditional, Counted
      <4>5. CASE Current.kind # "ifndef" /\ Top.taken # << >> /\ Current.kind = "endif"
        <5>1. Outer(Top.taken) \in Conditionals
          BY <4>1, <4>5, OuterOfSeq DEF Conditionals
        <5>. QED
          BY <2>4, <4>5, <5>1 DEF McppConditional, Counted
      <4>6. CASE Current.kind # "ifndef" /\ Top.taken # << >> /\ Current.kind # "endif"
        <5>. DEFINE open == Top.taken
                    b == ~open[Len(open)] /\ \A i \in 1 .. (Len(open) - 1) : open[i]
        <5>1. [open EXCEPT ![Len(open)] = b] \in Conditionals
          <6>1. b \in BOOLEAN
            OBVIOUS
          <6>. HIDE DEF b
          <6>. QED
            BY <4>1, <4>6, <6>1, LastReplaced DEF Conditionals
        <5>. QED
          BY <2>4, <4>6, <5>1 DEF McppConditional, Counted
      <4>. QED
        BY <4>3, <4>4, <4>5, <4>6
    <3>2. [Top EXCEPT !.taken = taken] \in OpenFile /\ [Top EXCEPT !.taken = taken].place = Top.place
      BY <1>2 DEF OpenFile
    <3>. QED
      BY <1>1, <3>1, <3>2, CountedKeeps
  <2>. QED
    BY <2>1, <2>2, <2>3, <2>4
<1>. QED
  BY <1>1, <1>2, <1>3, <1>4, McppKeeps

\* mcpp opens a copy only where there is one, and dies when they are nested too
\* deeply.
LEMMA McppIncludeKeeps == AdapterInv /\ McppInclude => AdapterInv'
<1>. SUFFICES ASSUME AdapterInv, McppInclude PROVE AdapterInv'
  OBVIOUS
<1>1. phase = "mcpp" /\ UNCHANGED <<sources, prepareVars, parseVars>> /\ UNCHANGED mirror
  BY DEF McppInclude, AtLine, prepareVars
<1>2. /\ including \in Seq(OpenFile) /\ including # << >> /\ Top \in OpenFile
      /\ Len(including) \in DOMAIN including /\ Top = including[Len(including)]
      /\ Top.place \in DOMAIN mirror /\ preparing = << >> /\ ~hasError /\ ran = "no"
  BY <1>1, Reading
<1>3. CASE Sought(Current) \notin DOMAIN mirror
  <2>1. /\ including' = [including EXCEPT ![Len(including)] = [Top EXCEPT !.number = @ + 1, !.next = @ + 1]]
        /\ errors' = Error("error", "cannot_open_include") /\ UNCHANGED <<phase, ran>>
    BY <1>3 DEF McppInclude, Counted
  <2>2. including' \in Seq(OpenFile) /\ including' # << >> /\ ReadsCopies'
    BY <1>1, <1>2, <2>1, CountedKeeps
  <2>3. List(errors') /\ \A i \in DOMAIN errors' : errors'[i].severity \in Severities
    BY <2>1, ErrorAdded DEF Severities
  <2>. QED
    BY <1>1, <1>2, <2>1, <2>2, <2>3, McppKeeps
<1>4. CASE Sought(Current) \in DOMAIN mirror /\ Len(including) >= IncludeDepth
  <2>1. /\ UNCHANGED including /\ errors' = Error("error", "nested_too_deep")
        /\ phase' = "parse" /\ ran' = "died"
    BY <1>4 DEF McppInclude
  <2>2. including' \in Seq(OpenFile) /\ ReadsCopies'
    BY <1>1, <1>2, <2>1 DEF AdapterInv, ReadsCopies
  <2>3. List(errors') /\ \A i \in DOMAIN errors' : errors'[i].severity \in Severities
    BY <2>1, ErrorAdded DEF Severities
  <2>. QED
    BY <1>1, <1>2, <2>1, <2>2, <2>3, McppKeeps
<1>5. CASE Sought(Current) \in DOMAIN mirror /\ ~(Len(including) >= IncludeDepth)
  <2>. DEFINE back == [including EXCEPT ![Len(including)].number = @ + 1, ![Len(including)].next = @ + 1]
              h == [Top EXCEPT !.number = @ + 1, !.next = @ + 1]
              new == Open(Sought(Current))
  <2>1. including' = Append(back, new) /\ UNCHANGED <<errors, phase, ran>>
    BY <1>5 DEF McppInclude
  <2>2. h \in OpenFile /\ h.place = Top.place
    <3>. DEFINE a == Top.number + 1
                b == Top.next + 1
    <3>1. a \in Nat /\ b \in Nat \ {0} /\ h = [Top EXCEPT !.number = a, !.next = b]
      BY <1>2 DEF OpenFile
    <3>. HIDE DEF a, b, h
    <3>. QED
      BY <1>2, <3>1 DEF OpenFile
  <2>3. back = [including EXCEPT ![Len(including)] = h]
    BY <1>2
  <2>4. new \in OpenFile /\ new.place \in DOMAIN mirror
    <3>1. Sought(Current) \in Copies
      BY <1>5 DEF AdapterInv, Shapes
    <3>2. Sought(Current) \in Places /\ << >> \in Conditionals
      BY <3>1 DEF Copies, Places, Conditionals
    <3>. QED
      BY <1>5, <3>1, <3>2 DEF Open, OpenFile
  <2>. HIDE DEF back, h, new
  <2>5. /\ back \in Seq(OpenFile) /\ DOMAIN back = DOMAIN including
        /\ \A i \in DOMAIN back : back[i].place \in DOMAIN mirror
    BY <1>2, <2>2, <2>3 DEF AdapterInv, ReadsCopies
  <2>6. including' \in Seq(OpenFile) /\ including' # << >> /\ ReadsCopies'
    BY <1>1, <2>1, <2>4, <2>5 DEF ReadsCopies
  <2>7. List(errors') /\ \A i \in DOMAIN errors' : errors'[i].severity \in Severities
    BY <2>1 DEF AdapterInv, Messages
  <2>. QED
    BY <1>1, <1>2, <2>1, <2>6, <2>7, McppKeeps
<1>. QED
  BY <1>3, <1>4, <1>5

\* The end of a file, and of mcpp.
LEMMA McppEndKeeps == AdapterInv /\ (McppEnd \/ McppDies) => AdapterInv'
<1>. SUFFICES ASSUME AdapterInv, McppEnd \/ McppDies PROVE AdapterInv'
  OBVIOUS
<1>1. phase = "mcpp" /\ UNCHANGED <<sources, prepareVars, parseVars>> /\ UNCHANGED mirror
  BY DEF McppEnd, McppDies, prepareVars
<1>2. /\ including \in Seq(OpenFile) /\ including # << >> /\ preparing = << >> /\ ~hasError /\ ran = "no"
      /\ DOMAIN including = 1 .. Len(including) /\ Len(including) \in Nat \ {0}
  BY <1>1, Reading, LenProperties, EmptySeq
<1>3. CASE McppDies
  <2>1. UNCHANGED <<including, errors>> /\ phase' = "parse" /\ ran' = "died"
    BY <1>3 DEF McppDies
  <2>2. including' \in Seq(OpenFile) /\ ReadsCopies'
    BY <1>1, <1>2, <2>1 DEF AdapterInv, ReadsCopies
  <2>3. List(errors') /\ \A i \in DOMAIN errors' : errors'[i].severity \in Severities
    BY <2>1 DEF AdapterInv, Messages
  <2>. QED
    BY <1>1, <1>2, <2>1, <2>2, <2>3, McppKeeps
<1>4. CASE McppEnd
  <2>1. List(errors') /\ \A i \in DOMAIN errors' : errors'[i].severity \in Severities
    <3>1. CASE Top.taken = << >>
      BY <1>4, <3>1 DEF McppEnd, AdapterInv, Messages
    <3>2. CASE Top.taken # << >>
      <4>1. errors' = Error("error", "end_within_if")
        BY <1>4, <3>2 DEF McppEnd
      <4>. QED
        BY <4>1, ErrorAdded DEF Severities
    <3>. QED
      BY <3>1, <3>2
  <2>2. /\ including' = Outer(including)
        /\ \/ Len(including) > 1 /\ UNCHANGED <<phase, ran>>
           \/ phase' = "parse" /\ ran' = "ended"
    BY <1>4 DEF McppEnd
  <2>3. /\ including' \in Seq(OpenFile) /\ Len(including') = Len(including) - 1
        /\ \A i \in 1 .. (Len(including) - 1) : including'[i] = including[i]
    BY <1>2, <2>2, OuterOfSeq
  <2>4. ReadsCopies'
    <3>1. DOMAIN including' = 1 .. Len(including) - 1
      BY <2>3, LenProperties
    <3>. QED
      BY <1>1, <1>2, <2>3, <3>1 DEF AdapterInv, ReadsCopies
  <2>5. Len(including) > 1 => including' # << >>
    BY <1>2, <2>3
  <2>. QED
    BY <1>1, <1>2, <2>1, <2>2, <2>3, <2>4, <2>5, McppKeeps
<1>. QED
  BY <1>3, <1>4

-----------------------------------------------------------------------------
(* Back to the sources.                                                    *)

\* Once mcpp is over, only messages and the phase change: the adapter's promises
\* are kept if the messages are errors and warnings.
LEMMA ParseKeeps ==
    ASSUME AdapterInv, UNCHANGED <<sources, prepareVars, including, ran>>, preparing = << >>,
           Kept, Messages', phase' \in {"parse", "done"}
    PROVE  AdapterInv'
<1>1. UNCHANGED <<sources, preparing, mapped, mirror, directives>>
  BY DEF prepareVars
<1>2. /\ Frame' = Frame /\ Copies' = Copies /\ OpenFile' = OpenFile /\ Translating' = Translating
      /\ DOMAIN preparing = {}
  BY <1>1 DEF Frame, Copies, OpenFile, Places, Names, Translating
<1>3. hasError => hasError'
  BY RefusedForGood
<1>4. Shapes'
  BY <1>1, <1>2 DEF AdapterInv, Shapes
<1>5. Stages'
  BY <1>1 DEF AdapterInv, Stages, Place
<1>6. FramesInOrder'
  BY <1>1, <1>2 DEF FramesInOrder, NotTwice
<1>7. MirrorComplete'
  BY <1>1, <1>2, <1>3 DEF AdapterInv, MirrorComplete, HasContent, Translated
<1>8. HeadersApart' /\ DirectivesOnLines' /\ ReadsCopies'
  BY <1>1 DEF AdapterInv, HeadersApart, DirectivesOnLines, ReadsCopies
<1>. QED
  BY <1>4, <1>5, <1>6, <1>7, <1>8 DEF AdapterInv

\* A refused source, the lines and the messages of mcpp (parseMcppOutput,
\* parseMcppDiagnostics) and the end, where a silent failure becomes an error.
LEMMA ParseStepKeeps ==
    ASSUME AdapterInv, Refuse \/ ParseOutput \/ ParseDiagnostic \/ ParseEnd
    PROVE  AdapterInv'
<1>1. Messages /\ Stages
  BY DEF AdapterInv
<1>2. CASE Refuse
  <2>1. /\ preparing = << >> /\ phase' = "done" /\ ran = "no"
        /\ UNCHANGED <<sources, prepareVars, including, ran>> /\ UNCHANGED <<errors, diagnostics>>
    BY <1>1, <1>2 DEF Refuse, mcppVars, parseVars, Stages
  <2>2. Kept /\ Messages'
    BY <1>1, <2>1 DEF Kept, Messages
  <2>. QED
    BY <2>1, <2>2, ParseKeeps
<1>3. CASE ParseOutput
  <2>1. /\ preparing = << >> /\ phase' = "parse"
        /\ UNCHANGED <<sources, prepareVars, including, ran>> /\ UNCHANGED <<errors, diagnostics>>
    BY <1>1, <1>3 DEF ParseOutput, Stages
  <2>2. Kept /\ Messages'
    BY <1>1, <2>1 DEF Kept, Messages
  <2>. QED
    BY <2>1, <2>2, ParseKeeps
<1>4. CASE ParseDiagnostic
  <2>. DEFINE error == Head(errors)
              file == mappedFileName(error.name)
              d == Diagnostic(error.severity, file, error.line, Reworded(file, error.line, error.message))
  <2>1. /\ preparing = << >> /\ phase' = "parse" /\ errors # << >>
        /\ UNCHANGED <<sources, prepareVars, including, ran>>
        /\ diagnostics' = Append(diagnostics, d) /\ errors' = Tail(errors)
    BY <1>1, <1>4 DEF ParseDiagnostic, Stages
  <2>2. /\ List(Tail(errors)) /\ 1 \in DOMAIN errors /\ error = errors[1]
        /\ \A i \in DOMAIN Tail(errors) : i + 1 \in DOMAIN errors /\ Tail(errors)[i] = errors[i + 1]
    BY <1>1, <2>1, TailList DEF Messages
  <2>3. d.severity \in Severities
    BY <1>1, <2>2 DEF Diagnostic, Messages
  <2>. HIDE DEF d
  <2>4. /\ List(Append(diagnostics, d))
        /\ DOMAIN Append(diagnostics, d) = DOMAIN diagnostics \cup {Len(diagnostics) + 1}
        /\ \A i \in DOMAIN diagnostics : Append(diagnostics, d)[i] = diagnostics[i]
        /\ Append(diagnostics, d)[Len(diagnostics) + 1] = d
    BY <1>1, AppendList DEF Messages
  <2>5. Kept
    BY <2>1, <2>4 DEF Kept
  <2>6. Messages'
    BY <1>1, <2>1, <2>2, <2>3, <2>4 DEF Messages
  <2>. QED
    BY <2>1, <2>5, <2>6, ParseKeeps
<1>5. CASE ParseEnd
  <2>. DEFINE d == Diagnostic("error", Nothing, 1, "mcpp_failed")
  <2>1. /\ preparing = << >> /\ phase' = "done" /\ UNCHANGED errors
        /\ UNCHANGED <<sources, prepareVars, including, ran>>
        /\ diagnostics' = IF Failed /\ diagnostics = << >> THEN Append(diagnostics, d) ELSE diagnostics
    BY <1>1, <1>5 DEF ParseEnd, Stages, mcppVars
  <2>2. d.severity = "error"
    BY DEF Diagnostic
  <2>. HIDE DEF d
  <2>3. CASE Failed /\ diagnostics = << >>
    <3>1. Kept /\ Messages'
      BY <1>1, <2>1, <2>2, <2>3, MessageAdded DEF Severities
    <3>. QED
      BY <2>1, <3>1, ParseKeeps
  <2>4. CASE ~(Failed /\ diagnostics = << >>)
    <3>1. UNCHANGED diagnostics /\ UNCHANGED errors
      BY <2>1, <2>4
    <3>2. Kept /\ Messages'
      BY <1>1, <3>1 DEF Kept, Messages
    <3>. QED
      BY <2>1, <3>2, ParseKeeps
  <2>. QED
    BY <2>3, <2>4
<1>. QED
  BY <1>2, <1>3, <1>4, <1>5

-----------------------------------------------------------------------------
(* The theorems.                                                           *)

\* Nothing happens when nothing changes, and a finished adapter stays finished.
LEMMA StutterKeeps == AdapterInv /\ UNCHANGED vars => AdapterInv'
<1>. SUFFICES ASSUME AdapterInv, UNCHANGED vars PROVE AdapterInv'
  OBVIOUS
<1>1. UNCHANGED <<sources, phase, preparing, mapped, mirror, directives, including, errors, ran, diagnostics>>
  BY DEF vars, prepareVars, mcppVars, parseVars
<1>2. /\ Frame' = Frame /\ Copies' = Copies /\ OpenFile' = OpenFile /\ Translating' = Translating
      /\ hasError' = hasError
  BY <1>1 DEF Frame, Copies, OpenFile, Places, Names, Translating, hasError
<1>3. Shapes' /\ Stages' /\ Messages'
  BY <1>1, <1>2 DEF AdapterInv, Shapes, Stages, Messages, Place
<1>4. FramesInOrder' /\ MirrorComplete'
  BY <1>1, <1>2 DEF AdapterInv, FramesInOrder, NotTwice, MirrorComplete, HasContent, Translated
<1>5. HeadersApart' /\ DirectivesOnLines' /\ ReadsCopies'
  BY <1>1, <1>2 DEF AdapterInv, HeadersApart, DirectivesOnLines, ReadsCopies
<1>. QED
  BY <1>3, <1>4, <1>5 DEF AdapterInv

\* Every step of the adapter and of mcpp keeps the adapter's promises.
LEMMA AdapterStep == AdapterInv /\ [Next]_vars => AdapterInv'
<1>. SUFFICES ASSUME AdapterInv, [Next]_vars PROVE AdapterInv'
  OBVIOUS
<1>1. CASE PrepareLine
  BY <1>1, PrepareLineKeeps
<1>2. CASE PrepareEnd
  BY <1>2, PrepareEndKeeps
<1>3. CASE RunMcpp
  BY <1>3, RunMcppKeeps
<1>4. CASE McppText \/ McppRename \/ McppSkip \/ McppDefine \/ McppWarning \/ McppConditional
  BY <1>4, McppLineKeeps
<1>5. CASE McppInclude
  BY <1>5, McppIncludeKeeps
<1>6. CASE McppEnd \/ McppDies
  BY <1>6, McppEndKeeps
<1>7. CASE Refuse \/ ParseOutput \/ ParseDiagnostic \/ ParseEnd
  BY <1>7, ParseStepKeeps
<1>8. CASE Done \/ UNCHANGED vars
  BY <1>8, StutterKeeps DEF Done
<1>. QED
  BY <1>1, <1>2, <1>3, <1>4, <1>5, <1>6, <1>7, <1>8 DEF Next

\* The adapter's invariant: the mirror is complete up to the files that are being
\* translated, whatever those include has a place, and mcpp runs on a source that
\* was not refused (prepareSource, prepareInclude, runMcpp).
THEOREM AdapterInvariance == Spec => []AdapterInv
BY AdapterInit, AdapterStep, PTL DEF Spec

\* Type correctness: the adapter keeps to the lines of its files, mcpp to copies
\* of the mirror, the mirror to mapped places (Preprocessor.cpp).
THEOREM AdapterTypeCorrect == Spec => []TypeOK
<1>1. AdapterInv => TypeOK
  <2>. SUFFICES ASSUME AdapterInv PROVE TypeOK
    OBVIOUS
  <2>1. ASSUME NEW i \in DOMAIN preparing
        PROVE  preparing[i].line \in 1 .. (Len(sources[preparing[i].file]) + 1)
    <3>1. preparing[i] \in Frame /\ sources \in Programs
      BY ElementOfSeq, LenProperties DEF AdapterInv, Shapes
    <3>2. preparing[i].file \in DOMAIN sources /\ preparing[i].line \in Nat \ {0}
      BY <3>1 DEF Frame
    <3>3. Len(sources[preparing[i].file]) \in Nat
      BY <3>1, <3>2, LinesOfFile
    <3>4. preparing[i].line <= Len(sources[preparing[i].file]) + 1
      BY DEF AdapterInv, FramesInOrder
    <3>. QED
      BY <3>2, <3>3, <3>4
  <2>. QED
    BY <2>1 DEF AdapterInv, Shapes, ReadsCopies, DirectivesOnLines, TypeOK
<1>. QED
  BY <1>1, AdapterInvariance, PTL

\* The program side of the run is the adapter, whatever text is checked beside it.
LEMMA RunIsAdapter == MCSpec => Spec
<1>1. MCInit => Init
  BY DEF MCInit
<1>2. [MCNext]_mcVars => [Next]_vars
  <2>1. UNCHANGED mcVars => UNCHANGED vars
    BY DEF mcVars
  <2>. QED
    BY <2>1 DEF MCNext, ProgramStep, TextStep
<1>. QED
  BY <1>1, <1>2, PTL DEF MCSpec, Spec

\* Programs whose includes are spelled out, and whose headers outside the
\* registry include nothing in quotes: mcpp looks for that beside the copy of the
\* header, while its copy is at the place of the standard library.
PlainIncludes ==
    \A p \in Programs : \A f \in DOMAIN p :
        \A i \in 1 .. Len(p[f]) :
            /\ p[f][i].kind # "macro"
            /\ p[f][i].kind = "system" /\ p[f][i].name \in DOMAIN p \ Headers =>
                  \A j \in 1 .. Len(p[p[f][i].name]) : p[p[f][i].name][j].kind # "include"

\* Whatever mcpp includes and the program or the registry has was translated to
\* where mcpp looks for it, and files that include each other were translated
\* once (prepareInclude, mirrorPathFor), in every program with plain includes.
THEOREM IncludesAreTranslated ==
    ASSUME PlainIncludes
    PROVE  MCSpec => []IncludesTranslated
<1>1. ASSUME AdapterInv PROVE NotTwice
  BY <1>1 DEF AdapterInv, FramesInOrder
<1>2. ASSUME AdapterInv, AtLine({"include", "system", "macro"}),
             Current.name \in DOMAIN sources \cup (IF Current.kind = "system" THEN Headers ELSE {})
      PROVE  Sought(Current) \in DOMAIN mirror
  <2>. DEFINE file == Top.place.file
              lines == sources[file]
              k == Top.next - 1
  <2>1. phase = "mcpp" /\ Top.next <= Len(Copied) /\ Current.kind \in {"include", "system", "macro"}
    BY <1>2 DEF AtLine, Current
  <2>2. /\ Top \in OpenFile /\ Top.place \in DOMAIN mirror /\ Top.place \in Copies
        /\ preparing = << >> /\ ~hasError
    BY <1>2, <2>1, Reading
  <2>3. Top.next \in Nat \ {0} /\ Top.place.area \in {"files", "include"}
    BY <2>2 DEF OpenFile, Copies
  <2>4. Copied # <<Line("define", file)>>
    <3>1. ASSUME Copied = <<Line("define", file)>> PROVE FALSE
      <4>1. Top.next = 1
        BY <2>1, <2>3, <3>1
      <4>. QED
        BY <2>1, <3>1, <4>1 DEF Current, Line
    <3>. QED
      BY <3>1
  <2>5. /\ file \in DOMAIN sources /\ Copied = Translated(file)
        /\ Followed(lines, Len(lines), mapped)
    BY <1>2, <2>2, <2>4 DEF AdapterInv, MirrorComplete, Copied
  <2>6. sources \in Programs /\ lines \in Seq([kind : Kinds, name : STRING])
    BY <1>2, <2>5, LinesOfFile DEF AdapterInv, Shapes
  <2>7. k \in 1 .. Len(lines) /\ Current = lines[k]
    <3>1. Copied = <<Line("line", file)>> \o lines
      BY <2>5 DEF Translated
    <3>. HIDE DEF lines
    <3>2. Top.next # 1
      <4>1. Copied[1] = Line("line", file)
        BY <2>6, <3>1
      <4>. QED
        BY <2>1, <4>1 DEF Current, Line
    <3>. QED
      BY <2>1, <2>3, <2>6, <3>1, <3>2 DEF Current
  <2>8. Current.kind \in {"include", "system"} /\ generatedPath(Current) \in mapped
    <3>1. Current.kind # "macro"
      BY <2>5, <2>6, <2>7 DEF PlainIncludes
    <3>. QED
      BY <2>1, <2>5, <2>7, <3>1 DEF Followed
  <2>9. Sought(Current) = generatedPath(Current)
    <3>1. CASE Current.kind = "system" \/ Top.place.area = "files"
      BY <3>1 DEF Sought, generatedPath
    <3>2. CASE Current.kind = "include" /\ Top.place.area = "include"
      <4>1. Top.place \in mapped
        BY <1>2, <2>2 DEF AdapterInv, Shapes
      <4>2. PICK f \in DOMAIN sources : \E i \in DOMAIN sources[f] :
               sources[f][i].kind = "system" /\ sources[f][i].name = file
        BY <1>2, <3>2, <4>1 DEF AdapterInv, HeadersApart
      <4>3. file \notin Headers
        BY <1>2, <2>2, <2>4, <3>2 DEF AdapterInv, HeadersApart, Copied
      <4>4. DOMAIN sources[f] = 1 .. Len(sources[f])
        BY <2>6, LinesOfFile
      <4>. QED
        BY <2>5, <2>6, <2>7, <3>2, <4>2, <4>3, <4>4 DEF PlainIncludes
    <3>. QED
      BY <2>3, <2>8, <3>1, <3>2
  <2>10. HasContent(generatedPath(Current))
    BY <1>2 DEF HasContent, generatedPath, Place
  <2>11. Translating = {}
    BY <2>2 DEF Translating
  <2>. QED
    BY <1>2, <2>8, <2>9, <2>10, <2>11 DEF AdapterInv, MirrorComplete
<1>3. AdapterInv => IncludesTranslated
  BY <1>1, <1>2 DEF IncludesTranslated, IncludesFound
<1>. QED
  BY <1>3, AdapterInvariance, RunIsAdapter, PTL

=============================================================================
