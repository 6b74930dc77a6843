------------------------- MODULE DriverPartsProofs -------------------------
(***************************************************************************)
(* Proofs about the parts beside the run of hsc, for every set of command  *)
(* lines, every output of cargo and all arguments of a started program.    *)
(*                                                                         *)
(* The command line: a line means the same in every order of its options,  *)
(* and the lines of the extension are read as they were meant, by          *)
(* induction over the arguments of the line.                               *)
(*                                                                         *)
(* Cargo: whatever the two processes do, a library that is returned is the *)
(* one of a build that ended well, read to its last message.               *)
(*                                                                         *)
(* The quoting: what the started program reads of the line written so far. *)
(***************************************************************************)
EXTENDS MCDriver, WellFoundedInduction, SequenceTheorems, FiniteSetTheorems, TLAPS


-----------------------------------------------------------------------------
(* Induction over the arguments of a line.                                 *)

\* A set of numbers that is not empty has a least element.
LEMMA Least == ASSUME NEW S, S \subseteq Nat, S # {} PROVE \E n \in S : \A m \in S : n <= m
<1>1. \E x \in S : \A y \in S : ~ (<<y, x>> \in OpToRel(<, Nat))
  BY WFMin, NatLessThanWellFounded, Zenon
<1>2. \A x, y \in Nat : <<y, x>> \in OpToRel(<, Nat) <=> y < x
  BY Zenon DEF OpToRel
<1>3. \E x \in S : \A y \in S : ~ (y < x)
  BY <1>1, <1>2, Zenon
<1>. QED
  BY <1>3

\* Induction over a set of numbers, up to a bound.
LEMMA Induct ==
  ASSUME NEW N \in Nat, NEW S, 0 \in S, \A n \in 1 .. N : n - 1 \in S => n \in S
  PROVE  0 .. N \subseteq S
<1> DEFINE R == (0 .. N) \ S
<1>. SUFFICES ASSUME R # {} PROVE FALSE
  OBVIOUS
<1>0. R \subseteq Nat
  OBVIOUS
<1> HIDE DEF R
<1>1. PICK n \in R : \A m \in R : n <= m
  BY <1>0, Least, Zenon
<1> USE DEF R
<1>2. n # 0 /\ n - 1 \in 0 .. N /\ n - 1 \in S
  BY <1>1
<1>. QED
  BY <1>1, <1>2

\* A loop of N turns: f[n] is its value in S after n of them.
LoopOf(f, N, S, x, g) ==
    /\ f \in [0 .. N -> S] /\ f[0] = x
    /\ \A n \in 1 .. N : f[n] = g[<<f[n - 1], n>>]

\* A loop that keeps its value in S is defined.
LEMMA LoopExists ==
  ASSUME NEW N \in Nat, NEW S, NEW x \in S, NEW g \in [S \X (1 .. N) -> S]
  PROVE  \E f : LoopOf(f, N, S, x, g)
<1> DEFINE upto(f, k) == /\ f \in [0 .. k -> S] /\ f[0] = x
                         /\ \A n \in 1 .. k : f[n] = g[<<f[n - 1], n>>]
           K == {k \in 0 .. N : \E f : upto(f, k)}
<1>1. 0 \in K
  <2> DEFINE r == [n \in 0 .. 0 |-> x]
  <2>1. r \in [0 .. 0 -> S] /\ r[0] = x /\ 1 .. 0 = {}
    OBVIOUS
  <2> HIDE DEF r
  <2>2. upto(r, 0)
    BY <2>1
  <2>. QED
    BY <2>2
<1>2. ASSUME NEW k \in 1 .. N, k - 1 \in K PROVE k \in K
  <2>1. PICK q : upto(q, k - 1)
    BY <1>2
  <2>2. q[k - 1] \in S /\ g[<<q[k - 1], k>>] \in S
    BY <2>1
  <2> DEFINE r == [n \in 0 .. k |-> IF n = k THEN g[<<q[k - 1], k>>] ELSE q[n]]
  <2>3. r \in [0 .. k -> S] /\ r[0] = x
    BY <2>1, <2>2
  <2>4. ASSUME NEW n \in 1 .. k PROVE r[n] = g[<<r[n - 1], n>>]
    <3>1. n - 1 # k /\ n - 1 \in 0 .. k /\ r[n - 1] = q[n - 1]
      OBVIOUS
    <3>2. CASE n = k
      BY <3>1, <3>2
    <3>3. CASE n # k
      <4>1. n \in 1 .. k - 1 /\ r[n] = q[n]
        BY <3>3
      <4>. QED
        BY <2>1, <3>1, <4>1
    <3>. QED
      BY <3>2, <3>3
  <2>5. upto(r, k)
    BY <2>3, <2>4, Zenon
  <2> HIDE DEF r
  <2>6. \E f : upto(f, k)
    BY <2>5, Zenon
  <2> HIDE DEF upto
  <2>. QED
    BY <2>6
<1> HIDE DEF K
<1>3. 0 .. N \subseteq K
  BY <1>1, <1>2, Induct, Zenon
<1>4. N \in K
  BY <1>3
<1>. QED
  BY <1>4 DEF K, LoopOf

\* The loop over a line is defined: read[n] is the parse of its first n arguments.
Parses(r, l) ==
    r = [n \in 0 .. Len(l) |-> IF n = 0 THEN StartParse ELSE ReadArgument(r[n - 1], l[n])]

\* There is such a function for every line, however long.
LEMMA ParseExists == ASSUME NEW l, Len(l) \in Nat PROVE \E r : Parses(r, l)
<1> DEFINE upto(r, k) == r = [n \in 0 .. k |-> IF n = 0 THEN StartParse ELSE ReadArgument(r[n - 1], l[n])]
           S == {k \in Nat : \E r : upto(r, k)}
<1>1. 0 \in S
  <2> DEFINE r == [n \in 0 .. 0 |-> StartParse]
  <2>1. upto(r, 0)
    OBVIOUS
  <2>. QED
    BY <2>1
<1>2. ASSUME NEW k \in 1 .. Len(l), k - 1 \in S PROVE k \in S
  <2>1. PICK q : upto(q, k - 1)
    BY <1>2
  <2> DEFINE r == [n \in 0 .. k |-> IF n <= k - 1 THEN q[n] ELSE ReadArgument(q[k - 1], l[k])]
  <2>2. \A n \in 0 .. k : r[n] = IF n = 0 THEN StartParse ELSE ReadArgument(r[n - 1], l[n])
    <3>1. q[0] = StartParse /\ \A n \in 1 .. k - 1 : q[n] = ReadArgument(q[n - 1], l[n])
      BY <2>1
    <3>2. \A n \in 0 .. k - 1 : r[n] = q[n]
      OBVIOUS
    <3>3. r[k] = ReadArgument(q[k - 1], l[k])
      OBVIOUS
    <3> HIDE DEF r
    <3>. QED
      BY <3>1, <3>2, <3>3
  <2>3. upto(r, k)
    BY <2>2, Zenon
  <2>4. \E g : upto(g, k)
    BY <2>3, Zenon
  <2>. QED
    BY <2>4
<1> HIDE DEF S
<1>3. 0 .. Len(l) \subseteq S
  BY <1>1, <1>2, Induct, Zenon
<1>4. Len(l) \in S
  BY <1>3
<1>. QED
  BY <1>4 DEF S, Parses

\* parseDriverOptions reads the arguments one after another, each from the parse
\* of those before it.
LEMMA ParseLoop ==
  ASSUME NEW l, Len(l) \in Nat
  PROVE  \E r : /\ r[0] = StartParse /\ \A n \in 1 .. Len(l) : r[n] = ReadArgument(r[n - 1], l[n])
                /\ parseDriverOptions(l) = r[Len(l)]
<1> DEFINE r == CHOOSE g : Parses(g, l)
<1>1. parseDriverOptions(l) = r[Len(l)]
  BY DEF parseDriverOptions, Parses
<1>2. Parses(r, l)
  BY ParseExists
<1> HIDE DEF r
<1>3. \A n \in 0 .. Len(l) : r[n] = IF n = 0 THEN StartParse ELSE ReadArgument(r[n - 1], l[n])
  BY <1>2, Zenon DEF Parses
<1>. QED
  BY <1>1, <1>3

\* The optimization levels that hsc reads, and the members of its Cargo options.
Levels == {"O0", "O1", "O2", "O3", "Os"}
CargoOptions == CargoValueOptions \cup {"--cargo-no-default-features"}

\* The values among the arguments in A.
Values(A) == {a.val : a \in A} \cup {None}

\* The options that can be read of the arguments in A.
OptionsRead(A) ==
    [show : {None, "-h", "--help", "--version"}, actions : SUBSET (ActionFlags \ {"-E"}),
     cCompat : BOOLEAN, timing : BOOLEAN, format : {"human", "json"},
     crateType : {"bin", "object", "staticlib"}, crateTypeSelected : BOOLEAN,
     provider : {"optimized", "reference"},
     safety : {"unchecked", "static-checked", "checked"},
     debug : BOOLEAN, optimization : Levels, pgo : {None, "use", "instrument"}, profile : Values(A),
     sanitizer : {None, "address", "undefined"}, remarks : Values(A),
     inputs : Seq(A), output : A \cup {Absent}, timingJson : Values(A),
     clang : A \cup {Absent}, clangxx : A \cup {Absent}, ext : SUBSET NativeValueOptions,
     linkerLanguage : {None, "c", "cxx"}, entry : {"hsc", "native"}, cargo : SUBSET CargoOptions]

\* The members that are set together are set together.
SetTogether(o) ==
    /\ o.crateType # "bin" => o.crateTypeSelected
    /\ o.pgo # None <=> o.profile # None

\* The options and the parses of a line whose arguments are in A.
LineOptions(A) == {o \in OptionsRead(A) : SetTogether(o)}

LineParses(A) == [options : LineOptions(A), pending : ValueOptions \cup {None},
                  state : {"reading", "shown", "error"}]

\* What can be written into the options.
LEMMA FieldsKept ==
  ASSUME NEW A, NEW o \in LineOptions(A), NEW a \in A
  PROVE  /\ \A s \in SUBSET (ActionFlags \ {"-E"}) : [o EXCEPT !.actions = s] \in LineOptions(A)
         /\ \A c \in {"bin", "object", "staticlib"} : [o EXCEPT !.crateType = c, !.crateTypeSelected = TRUE] \in LineOptions(A)
         /\ \A l \in Levels : [o EXCEPT !.optimization = l] \in LineOptions(A)
         /\ [o EXCEPT !.remarks = a.val] \in LineOptions(A)
         /\ [o EXCEPT !.timingJson = a.val] \in LineOptions(A)
         /\ \A s \in {"address", "undefined"} : [o EXCEPT !.sanitizer = s] \in LineOptions(A)
         /\ \A b \in BOOLEAN : [o EXCEPT !.debug = b] \in LineOptions(A)
         /\ \A m \in {"use", "instrument"} : a.val # None => [o EXCEPT !.pgo = m, !.profile = a.val] \in LineOptions(A)
         /\ \A b \in BOOLEAN : [o EXCEPT !.timing = b] \in LineOptions(A)
         /\ [o EXCEPT !.format = "json"] \in LineOptions(A)
         /\ \A b \in BOOLEAN : [o EXCEPT !.cCompat = b] \in LineOptions(A)
         /\ \A v \in {"optimized", "reference"} : [o EXCEPT !.provider = v] \in LineOptions(A)
         /\ \A m \in {"unchecked", "static-checked", "checked"} : [o EXCEPT !.safety = m] \in LineOptions(A)
         /\ \A v \in {"hsc", "native"} : [o EXCEPT !.entry = v] \in LineOptions(A)
         /\ \A v \in {"c", "cxx"} : [o EXCEPT !.linkerLanguage = v] \in LineOptions(A)
         /\ \A s \in SUBSET CargoOptions : [o EXCEPT !.cargo = s] \in LineOptions(A)
         /\ \A s \in SUBSET NativeValueOptions : [o EXCEPT !.ext = s] \in LineOptions(A)
         /\ \A s \in Seq(A) : [o EXCEPT !.inputs = s] \in LineOptions(A)
         /\ [o EXCEPT !.output = a] \in LineOptions(A)
         /\ [o EXCEPT !.clang = a] \in LineOptions(A)
         /\ [o EXCEPT !.clangxx = a] \in LineOptions(A)
         /\ \A v \in {"-h", "--help", "--version"} : [o EXCEPT !.show = v] \in LineOptions(A)
<1>0. a.val \in Values(A)
  BY DEF Values
<1> USE DEF LineOptions, OptionsRead, SetTogether, None
<1>1. \A s \in SUBSET (ActionFlags \ {"-E"}) : [o EXCEPT !.actions = s] \in LineOptions(A)
  BY <1>0
<1>2. \A c \in {"bin", "object", "staticlib"} : [o EXCEPT !.crateType = c, !.crateTypeSelected = TRUE] \in LineOptions(A)
  BY <1>0
<1>3. \A l \in Levels : [o EXCEPT !.optimization = l] \in LineOptions(A)
  BY <1>0
<1>4. [o EXCEPT !.remarks = a.val] \in LineOptions(A)
  BY <1>0
<1>5. [o EXCEPT !.timingJson = a.val] \in LineOptions(A)
  BY <1>0
<1>6. \A s \in {"address", "undefined"} : [o EXCEPT !.sanitizer = s] \in LineOptions(A)
  BY <1>0
<1>7. \A b \in BOOLEAN : [o EXCEPT !.debug = b] \in LineOptions(A)
  BY <1>0
<1>8. \A m \in {"use", "instrument"} : a.val # None => [o EXCEPT !.pgo = m, !.profile = a.val] \in LineOptions(A)
  BY <1>0
<1>9. \A b \in BOOLEAN : [o EXCEPT !.timing = b] \in LineOptions(A)
  BY <1>0
<1>10. [o EXCEPT !.format = "json"] \in LineOptions(A)
  BY <1>0
<1>11. \A b \in BOOLEAN : [o EXCEPT !.cCompat = b] \in LineOptions(A)
  BY <1>0
<1>12. \A v \in {"optimized", "reference"} : [o EXCEPT !.provider = v] \in LineOptions(A)
  BY <1>0
<1>13. \A m \in {"unchecked", "static-checked", "checked"} : [o EXCEPT !.safety = m] \in LineOptions(A)
  BY <1>0
<1>14. \A v \in {"hsc", "native"} : [o EXCEPT !.entry = v] \in LineOptions(A)
  BY <1>0
<1>15. \A v \in {"c", "cxx"} : [o EXCEPT !.linkerLanguage = v] \in LineOptions(A)
  BY <1>0
<1>16. \A s \in SUBSET CargoOptions : [o EXCEPT !.cargo = s] \in LineOptions(A)
  BY <1>0
<1>17. \A s \in SUBSET NativeValueOptions : [o EXCEPT !.ext = s] \in LineOptions(A)
  BY <1>0
<1>18. \A s \in Seq(A) : [o EXCEPT !.inputs = s] \in LineOptions(A)
  BY <1>0
<1>19. [o EXCEPT !.output = a] \in LineOptions(A)
  BY <1>0
<1>20. [o EXCEPT !.clang = a] \in LineOptions(A)
  BY <1>0
<1>21. [o EXCEPT !.clangxx = a] \in LineOptions(A)
  BY <1>0
<1>22. \A v \in {"-h", "--help", "--version"} : [o EXCEPT !.show = v] \in LineOptions(A)
  BY <1>0
<1> HIDE DEF LineOptions
<1>. QED
  BY <1>1, <1>2, <1>3, <1>4, <1>5, <1>6, <1>7, <1>8, <1>9, <1>10, <1>11, <1>12, <1>13, <1>14, <1>15,
     <1>16, <1>17, <1>18, <1>19, <1>20, <1>21, <1>22

\* An option keeps what was read of the kinds that the parse can set.
LEMMA OptionKept ==
  ASSUME NEW A, NEW p \in LineParses(A), NEW a \in A
  PROVE  ReadOption(p, a) \in LineParses(A)
<1> DEFINE o == p.options
           P == LineParses(A)
<1>1. o \in LineOptions(A)
  BY DEF LineParses
<1>2. /\ \A n \in LineOptions(A) : Set(p, n) \in P
      /\ Fails(p) \in P
      /\ \A x \in ValueOptions : Awaits(p, x) \in P
      /\ \A n \in LineOptions(A) : [p EXCEPT !.state = "shown", !.options = n] \in P
      /\ \A n \in LineOptions(A) : [p EXCEPT !.pending = None, !.options = n] \in P
  BY DEF Set, Fails, Awaits, LineParses
<1>3. CASE a.opt = "input"
  <2>1. Append(o.inputs, a) \in Seq(A)
    BY <1>1 DEF LineOptions, OptionsRead
  <2>2. [o EXCEPT !.inputs = Append(@, a)] \in LineOptions(A)
    BY <1>1, <2>1, FieldsKept
  <2>. QED
    BY <1>2, <1>3, <2>2 DEF ReadOption, ActionFlags, OptimizationFlags, SafetyFlags,
          ValueOptions, NativeValueOptions, CargoValueOptions
<1>4. CASE a.opt \in {"-h", "--help", "--version"}
  <2>1. [o EXCEPT !.show = a.opt] \in LineOptions(A)
    BY <1>1, <1>4, FieldsKept
  <2>2. [p EXCEPT !.state = "shown", !.options.show = a.opt]
        = [p EXCEPT !.state = "shown", !.options = [o EXCEPT !.show = a.opt]]
    OBVIOUS
  <2>. QED
    BY <1>2, <1>4, <2>1, <2>2 DEF ReadOption, ActionFlags, OptimizationFlags, SafetyFlags,
          ValueOptions, NativeValueOptions, CargoValueOptions
<1>5. CASE a.opt \in ActionFlags
  <2> DEFINE s == o.actions \cup {IF a.opt = "-E" THEN "--preprocess-only" ELSE a.opt}
  <2>1. s \in SUBSET (ActionFlags \ {"-E"})
    BY <1>1, <1>5 DEF LineOptions, OptionsRead, ActionFlags
  <2>2. [o EXCEPT !.actions = s] \in LineOptions(A)
    BY <1>1, <2>1, FieldsKept
  <2>. QED
    BY <1>2, <1>5, <2>2 DEF ReadOption, ActionFlags, OptimizationFlags, SafetyFlags,
          ValueOptions, NativeValueOptions, CargoValueOptions, actionOption
<1>6. CASE a.opt \in {"--emit-object", "--crate-type"}
  <2>1. \A c \in {"bin", "object", "staticlib"} :
          [o EXCEPT !.crateType = c, !.crateTypeSelected = TRUE] \in LineOptions(A)
    BY <1>1, FieldsKept
  <2> DEFINE selected == IF a.opt = "--emit-object" THEN "object" ELSE a.val
  <2>2. CASE selected \in {"bin", "object", "staticlib"}
    <3>1. crateTypeOption(p, a) \in {Fails(p), Set(p, [o EXCEPT !.crateType = selected, !.crateTypeSelected = TRUE])}
      BY DEF crateTypeOption
    <3>. QED
      BY <1>2, <1>6, <2>1, <2>2, <3>1 DEF ReadOption, ActionFlags, OptimizationFlags, SafetyFlags,
          ValueOptions, NativeValueOptions, CargoValueOptions
  <2>3. CASE selected \notin {"bin", "object", "staticlib"}
    <3>1. crateTypeOption(p, a) = Fails(p)
      BY <2>3 DEF crateTypeOption
    <3>. QED
      BY <1>2, <1>6, <3>1 DEF ReadOption, ActionFlags, OptimizationFlags, SafetyFlags,
          ValueOptions, NativeValueOptions, CargoValueOptions
  <2>. QED
    BY <2>2, <2>3
<1>7. CASE a.opt \in OptimizationFlags
  <2>1. optimizationLevel(a.opt) \in Levels
    BY <1>7 DEF optimizationLevel, OptimizationFlags, Levels
  <2>2. [o EXCEPT !.optimization = optimizationLevel(a.opt)] \in LineOptions(A)
    BY <1>1, <2>1, FieldsKept
  <2>. QED
    BY <1>2, <1>7, <2>2 DEF ReadOption, ActionFlags, OptimizationFlags, SafetyFlags,
          ValueOptions, NativeValueOptions, CargoValueOptions, optimizationOption
<1>8. CASE a.opt = "--optimization-remarks"
  <2>1. [o EXCEPT !.remarks = a.val] \in LineOptions(A)
    BY <1>1, FieldsKept
  <2>. QED
    BY <1>2, <1>8, <2>1 DEF ReadOption, ActionFlags, OptimizationFlags, SafetyFlags,
          ValueOptions, NativeValueOptions, CargoValueOptions, onceOption
<1>9. CASE a.opt = "--sanitize"
  <2>1. \A s \in {"address", "undefined"} : [o EXCEPT !.sanitizer = s] \in LineOptions(A)
    BY <1>1, FieldsKept
  <2>. QED
    BY <1>2, <1>9, <2>1 DEF ReadOption, ActionFlags, OptimizationFlags, SafetyFlags,
          ValueOptions, NativeValueOptions, CargoValueOptions, onceOption, OneOf
<1>10. CASE a.opt = "-g"
  <2>1. [o EXCEPT !.debug = TRUE] \in LineOptions(A)
    BY <1>1, FieldsKept
  <2>. QED
    BY <1>2, <1>10, <2>1 DEF ReadOption, ActionFlags, OptimizationFlags, SafetyFlags,
          ValueOptions, NativeValueOptions, CargoValueOptions
<1>11. CASE a.opt \in {"--pgo-instrument", "--pgo-use"}
  <2>1. \A m \in {"use", "instrument"} : a.val # None => [o EXCEPT !.pgo = m, !.profile = a.val] \in LineOptions(A)
    BY <1>1, FieldsKept
  <2>2. pgoOption(p, a) \in P
    BY <1>2, <2>1 DEF pgoOption
  <2>. QED
    BY <1>11, <2>2 DEF ReadOption, ActionFlags, OptimizationFlags, SafetyFlags,
          ValueOptions, NativeValueOptions, CargoValueOptions
<1>12. CASE a.opt \in {"--timing", "--timing-json", "--diagnostic-format", "--c-compat", "--stdlib-provider"}
  <2>1. /\ \A b \in BOOLEAN : [o EXCEPT !.timing = b] \in LineOptions(A) /\ [o EXCEPT !.cCompat = b] \in LineOptions(A)
        /\ [o EXCEPT !.timingJson = a.val] \in LineOptions(A)
        /\ [o EXCEPT !.format = "json"] \in LineOptions(A)
        /\ \A v \in {"optimized", "reference"} : [o EXCEPT !.provider = v] \in LineOptions(A)
    BY <1>1, FieldsKept
  <2>2. reportOption(p, a) \in P
    BY <1>2, <1>12, <2>1 DEF reportOption, OneOf
  <2>. QED
    BY <1>12, <2>2 DEF ReadOption, ActionFlags, OptimizationFlags, SafetyFlags,
          ValueOptions, NativeValueOptions, CargoValueOptions
<1>13. CASE a.opt \in SafetyFlags
  <2>1. \A m \in {"unchecked", "static-checked", "checked"} : [o EXCEPT !.safety = m] \in LineOptions(A)
    BY <1>1, FieldsKept
  <2>2. safetyOption(p, a) \in P
    BY <1>2, <1>13, <2>1 DEF safetyOption, SafetyFlags
  <2>. QED
    BY <1>13, <2>2 DEF ReadOption, ActionFlags, OptimizationFlags, SafetyFlags,
          ValueOptions, NativeValueOptions, CargoValueOptions
<1>14. CASE a.opt \in ValueOptions
  BY <1>2, <1>14 DEF ReadOption, ActionFlags, OptimizationFlags, SafetyFlags,
          ValueOptions, NativeValueOptions, CargoValueOptions
<1>15. CASE a.opt \in {"--entry", "--linker-language"}
  <2>1. /\ \A v \in {"hsc", "native"} : [o EXCEPT !.entry = v] \in LineOptions(A)
        /\ \A v \in {"c", "cxx"} : [o EXCEPT !.linkerLanguage = v] \in LineOptions(A)
    BY <1>1, FieldsKept
  <2>2. linkOption(p, a) \in P
    BY <1>2, <1>15, <2>1 DEF linkOption, OneOf
  <2>. QED
    BY <1>15, <2>2 DEF ReadOption, ActionFlags, OptimizationFlags, SafetyFlags,
          ValueOptions, NativeValueOptions, CargoValueOptions
<1>16. CASE a.opt = "--cargo-no-default-features"
  <2>1. o.cargo \cup {a.opt} \in SUBSET CargoOptions
    BY <1>1, <1>16 DEF LineOptions, OptionsRead, CargoOptions
  <2>2. cargoValue(o, a.opt) \in LineOptions(A)
    BY <1>1, <2>1, FieldsKept DEF cargoValue
  <2>. QED
    BY <1>2, <1>16, <2>2 DEF ReadOption, ActionFlags, OptimizationFlags, SafetyFlags,
          ValueOptions, NativeValueOptions, CargoValueOptions
<1>17. CASE /\ a.opt \notin {"input", "-h", "--help", "--version", "--emit-object", "--crate-type",
                             "--optimization-remarks", "--sanitize", "-g", "--pgo-instrument", "--pgo-use",
                             "--timing", "--timing-json", "--diagnostic-format", "--c-compat",
                             "--stdlib-provider", "--entry", "--linker-language", "--cargo-no-default-features"}
            /\ a.opt \notin ActionFlags \cup OptimizationFlags \cup SafetyFlags \cup ValueOptions
  BY <1>2, <1>17 DEF ReadOption, ActionFlags, OptimizationFlags, SafetyFlags,
          ValueOptions, NativeValueOptions, CargoValueOptions
<1>. QED
  BY <1>3, <1>4, <1>5, <1>6, <1>7, <1>8, <1>9, <1>10, <1>11, <1>12, <1>13, <1>14, <1>15, <1>16, <1>17

\* So does any argument, the value of an option included.
LEMMA ArgumentKept ==
  ASSUME NEW A, NEW p \in LineParses(A), NEW a \in A
  PROVE  ReadArgument(p, a) \in LineParses(A)
<1> DEFINE o == p.options
           P == LineParses(A)
<1>1. o \in LineOptions(A)
  BY DEF LineParses
<1>2. /\ Fails(p) \in P
      /\ \A n \in LineOptions(A) : [p EXCEPT !.pending = None, !.options = n] \in P
  BY DEF Fails, LineParses
<1>3. ASSUME p.pending \in ValueOptions PROVE TakeValue(p, a) \in P
  <2>1. CASE p.pending = "-o"
    <3>1. [o EXCEPT !.output = a] \in LineOptions(A)
      BY <1>1, FieldsKept
    <3>. QED
      BY <1>2, <2>1, <3>1 DEF TakeValue, NativeValueOptions, CargoValueOptions
  <2>2. CASE p.pending \in CargoValueOptions
    <3>1. o.cargo \cup {p.pending} \in SUBSET CargoOptions
      BY <1>1, <2>2 DEF LineOptions, OptionsRead, CargoOptions
    <3>2. cargoValue(o, p.pending) \in LineOptions(A)
      BY <1>1, <3>1, FieldsKept DEF cargoValue
    <3>. QED
      BY <1>2, <2>2, <3>2 DEF TakeValue, NativeValueOptions, CargoValueOptions
  <2>3. CASE p.pending \in NativeValueOptions
    <3>1. o.ext \cup {p.pending} \in SUBSET NativeValueOptions
      BY <1>1, <2>3 DEF LineOptions, OptionsRead
    <3>2. /\ [o EXCEPT !.ext = @ \cup {p.pending}] \in LineOptions(A)
          /\ [o EXCEPT !.clang = a] \in LineOptions(A) /\ [o EXCEPT !.clangxx = a] \in LineOptions(A)
      BY <1>1, <3>1, FieldsKept
    <3>3. nativeValue(o, p.pending, a) \in LineOptions(A)
      BY <3>2 DEF nativeValue
    <3>. QED
      BY <1>2, <2>3, <3>3 DEF TakeValue, NativeValueOptions, CargoValueOptions
  <2>. QED
    BY <1>3, <2>1, <2>2, <2>3 DEF ValueOptions
<1>4. p \in P /\ p.pending \in ValueOptions \cup {None} /\ p.state \in {"reading", "shown", "error"}
  BY DEF LineParses
<1>. QED
  BY <1>2, <1>3, <1>4, OptionKept DEF ReadArgument

\* Before the first argument nothing is read.
LEMMA StartRead == ASSUME NEW A PROVE StartParse \in LineParses(A)
<1>1. << >> \in Seq(A)
  OBVIOUS
<1>. QED
  BY <1>1 DEF StartParse, DefaultOptions, LineParses, LineOptions, OptionsRead, SetTogether, Levels,
     Values, None

\* The parses of the first arguments of a line.
LEMMA PrefixRead ==
  ASSUME NEW A, NEW l, Len(l) \in Nat, \A j \in 1 .. Len(l) : l[j] \in A,
         NEW r, r[0] = StartParse, \A n \in 1 .. Len(l) : r[n] = ReadArgument(r[n - 1], l[n])
  PROVE  \A n \in 0 .. Len(l) : r[n] \in LineParses(A)
<1> DEFINE S == {n \in 0 .. Len(l) : r[n] \in LineParses(A)}
<1>2. StartParse \in LineParses(A)
  BY StartRead
<1>5. 0 \in S
  BY <1>2
<1>3. ASSUME NEW n \in 1 .. Len(l), n - 1 \in S PROVE n \in S
  <2>1. r[n - 1] \in LineParses(A) /\ l[n] \in A /\ r[n] = ReadArgument(r[n - 1], l[n])
    BY <1>3
  <2>2. r[n] \in LineParses(A)
    BY <2>1, ArgumentKept
  <2>. QED
    BY <2>2
<1> HIDE DEF S
<1>4. 0 .. Len(l) \subseteq S
  BY <1>3, <1>5, Induct, Zenon
<1>. QED
  BY <1>4 DEF S

\* What is read of a line is of the kinds that the parse can set, whatever the
\* line is.
LEMMA LineRead ==
  ASSUME NEW W, NEW l \in Seq(W) PROVE parseDriverOptions(l) \in LineParses(ToSet(l))
<1> DEFINE A == ToSet(l)
<1>1. Len(l) \in Nat /\ \A i \in 1 .. Len(l) : l[i] \in A
  BY DEF ToSet
<1> HIDE DEF A
<1>2. PICK r : /\ r[0] = StartParse /\ \A n \in 1 .. Len(l) : r[n] = ReadArgument(r[n - 1], l[n])
               /\ parseDriverOptions(l) = r[Len(l)]
  BY <1>1, ParseLoop
<1>3. \A n \in 0 .. Len(l) : r[n] \in LineParses(A)
  BY <1>1, <1>2, PrefixRead
<1>. QED
  BY <1>1, <1>2, <1>3 DEF A

-----------------------------------------------------------------------------
(* What an option reads and writes.                                       *)

\* The members of the options that an option may set.
Fields(opt) ==
    CASE opt = "input" -> {"inputs"}
      [] opt \in {"-h", "--help", "--version"} -> {"show"}
      [] opt \in ActionFlags -> {"actions"}
      [] opt \in {"--emit-object", "--crate-type"} -> {"crateType", "crateTypeSelected"}
      [] opt \in OptimizationFlags -> {"optimization"}
      [] opt = "--optimization-remarks" -> {"remarks"}
      [] opt = "--sanitize" -> {"sanitizer"}
      [] opt = "-g" -> {"debug"}
      [] opt \in {"--pgo-instrument", "--pgo-use"} -> {"pgo", "profile"}
      [] opt = "--timing" -> {"timing"}
      [] opt = "--timing-json" -> {"timingJson"}
      [] opt = "--diagnostic-format" -> {"format"}
      [] opt = "--c-compat" -> {"cCompat"}
      [] opt = "--stdlib-provider" -> {"provider"}
      [] opt \in SafetyFlags -> {"safety"}
      [] opt = "--entry" -> {"entry"}
      [] opt = "--linker-language" -> {"linkerLanguage"}
      [] opt = "--cargo-no-default-features" -> {"cargo"}
      [] OTHER -> {}

\* The members of the options that hsc parses into.
Members == DOMAIN DefaultOptions

\* Reading an option changes nothing else, and what it reads next is its value.
Frame(p, a, q) ==
    /\ q.state \in {"reading", "error"} \/ a.opt \in {"-h", "--help", "--version"}
    /\ q.state = "reading" =>
         /\ DOMAIN q.options = Members
         /\ q.pending = IF a.opt \in ValueOptions THEN a.opt ELSE None
         /\ \A f \in Members \ Fields(a.opt) : q.options[f] = p.options[f]

\* The options of every line have the same members.
LEMMA OptionMembers == ASSUME NEW A, NEW o \in LineOptions(A) PROVE DOMAIN o = Members
BY DEF Members, DefaultOptions, LineOptions, OptionsRead

\* An option that is read sets its own members only.
LEMMA OptionFrame ==
  ASSUME NEW A, NEW p \in LineParses(A), NEW a, p.pending = None, p.state = "reading"
  PROVE  Frame(p, a, ReadOption(p, a))
<1>1. /\ DOMAIN p.options = Members
      /\ p = [options |-> p.options, pending |-> None, state |-> "reading"]
  BY OptionMembers DEF LineParses
<1>2. CASE a.opt = "input"
  BY <1>1, <1>2 DEF Frame, Set, Fails, ReadOption, Fields, ActionFlags, OptimizationFlags, SafetyFlags,
          ValueOptions, NativeValueOptions, CargoValueOptions
<1>3. CASE a.opt \in {"-h", "--help", "--version"}
  BY <1>1, <1>3 DEF Frame, Set, Fails, ReadOption, Fields, ActionFlags, OptimizationFlags, SafetyFlags,
          ValueOptions, NativeValueOptions, CargoValueOptions
<1>4. CASE a.opt \in ActionFlags
  BY <1>1, <1>4 DEF Frame, Set, Fails, actionOption, ReadOption, Fields, ActionFlags,
     OptimizationFlags, SafetyFlags,
          ValueOptions, NativeValueOptions, CargoValueOptions
<1>5. CASE a.opt \in {"--emit-object", "--crate-type"}
  BY <1>1, <1>5 DEF Frame, Set, Fails, crateTypeOption, ReadOption, Fields, ActionFlags,
     OptimizationFlags, SafetyFlags,
          ValueOptions, NativeValueOptions, CargoValueOptions
<1>6. CASE a.opt \in OptimizationFlags
  BY <1>1, <1>6 DEF Frame, Set, Fails, optimizationOption, ReadOption, Fields, ActionFlags,
     OptimizationFlags, SafetyFlags,
          ValueOptions, NativeValueOptions, CargoValueOptions
<1>7. CASE a.opt \in {"--optimization-remarks", "--sanitize"}
  BY <1>1, <1>7 DEF Frame, Set, Fails, onceOption, OneOf, ReadOption, Fields, ActionFlags,
     OptimizationFlags, SafetyFlags,
          ValueOptions, NativeValueOptions, CargoValueOptions
<1>8. CASE a.opt = "-g"
  BY <1>1, <1>8 DEF Frame, Set, Fails, ReadOption, Fields, ActionFlags, OptimizationFlags, SafetyFlags,
          ValueOptions, NativeValueOptions, CargoValueOptions
<1>9. CASE a.opt \in {"--pgo-instrument", "--pgo-use"}
  BY <1>1, <1>9 DEF Frame, Set, Fails, pgoOption, ReadOption, Fields, ActionFlags,
     OptimizationFlags, SafetyFlags,
          ValueOptions, NativeValueOptions, CargoValueOptions
<1>10. CASE a.opt \in {"--timing", "--timing-json", "--diagnostic-format", "--c-compat", "--stdlib-provider"}
  BY <1>1, <1>10 DEF Frame, Set, Fails, reportOption, OneOf, ReadOption, Fields, ActionFlags,
     OptimizationFlags, SafetyFlags,
          ValueOptions, NativeValueOptions, CargoValueOptions
<1>11. CASE a.opt \in SafetyFlags
  BY <1>1, <1>11 DEF Frame, Set, Fails, safetyOption, ReadOption, Fields, ActionFlags,
     OptimizationFlags, SafetyFlags,
          ValueOptions, NativeValueOptions, CargoValueOptions
<1>12. CASE a.opt \in ValueOptions
  BY <1>1, <1>12 DEF Frame, Set, Fails, Awaits, ReadOption, Fields, ActionFlags, OptimizationFlags,
     SafetyFlags,
          ValueOptions, NativeValueOptions, CargoValueOptions
<1>13. CASE a.opt \in {"--entry", "--linker-language"}
  BY <1>1, <1>13 DEF Frame, Set, Fails, linkOption, OneOf, ReadOption, Fields, ActionFlags,
     OptimizationFlags, SafetyFlags,
          ValueOptions, NativeValueOptions, CargoValueOptions
<1>14. CASE a.opt = "--cargo-no-default-features"
  BY <1>1, <1>14 DEF Frame, Set, Fails, cargoValue, ReadOption, Fields, ActionFlags,
     OptimizationFlags, SafetyFlags,
          ValueOptions, NativeValueOptions, CargoValueOptions
<1>15. CASE /\ a.opt \notin {"input", "-h", "--help", "--version", "--emit-object", "--crate-type",
                             "--optimization-remarks", "--sanitize", "-g", "--pgo-instrument", "--pgo-use",
                             "--timing", "--timing-json", "--diagnostic-format", "--c-compat",
                             "--stdlib-provider", "--entry", "--linker-language", "--cargo-no-default-features"}
             /\ a.opt \notin ActionFlags \cup OptimizationFlags \cup SafetyFlags \cup ValueOptions
  BY <1>1, <1>15 DEF Frame, Fails, ReadOption
<1>. QED
  BY <1>2, <1>3, <1>4, <1>5, <1>6, <1>7, <1>8, <1>9, <1>10, <1>11, <1>12, <1>13, <1>14, <1>15

\* hsc reads on, and the next argument is not a value.
Reading(p) == p.pending = None /\ p.state = "reading"
Agree(p, q, F) == \A f \in F : p.options[f] = q.options[f]

\* Parses that agree before an option that sets the members in F agree after it.
Local(p, q, p1, q1, F) ==
    Agree(p, q, F) => /\ p1.state = q1.state
                      /\ p1.state = "reading" => Agree(p1, q1, F)

\* What an option writes does not depend on what it leaves alone.
LEMMA SetLocal ==
  ASSUME NEW A, NEW p \in LineParses(A), NEW q \in LineParses(A), Reading(p), Reading(q)
  PROVE  /\ \A v : Local(p, q, Set(p, [p.options EXCEPT !.debug = v]), Set(q, [q.options EXCEPT !.debug = v]), {"debug"})
         /\ \A v : Local(p, q, Set(p, [p.options EXCEPT !.timing = v]), Set(q, [q.options EXCEPT !.timing = v]), {"timing"})
         /\ \A v : Local(p, q, Set(p, [p.options EXCEPT !.cCompat = v]), Set(q, [q.options EXCEPT !.cCompat = v]), {"cCompat"})
         /\ \A v, w : Local(p, q, Set(p, [p.options EXCEPT !.crateType = v, !.crateTypeSelected = w]),
                           Set(q, [q.options EXCEPT !.crateType = v, !.crateTypeSelected = w]), {"crateType", "crateTypeSelected"})
<1>1. /\ DOMAIN p.options = Members /\ DOMAIN q.options = Members
      /\ p = [options |-> p.options, pending |-> None, state |-> "reading"]
      /\ q = [options |-> q.options, pending |-> None, state |-> "reading"]
  BY OptionMembers DEF LineParses, Reading
<1> USE DEF Members, DefaultOptions, Agree, Set, Local
<1>2. \A v : Local(p, q, Set(p, [p.options EXCEPT !.debug = v]), Set(q, [q.options EXCEPT !.debug = v]), {"debug"})
  BY <1>1
<1>3. \A v : Local(p, q, Set(p, [p.options EXCEPT !.timing = v]), Set(q, [q.options EXCEPT !.timing = v]), {"timing"})
  BY <1>1
<1>4. \A v : Local(p, q, Set(p, [p.options EXCEPT !.cCompat = v]), Set(q, [q.options EXCEPT !.cCompat = v]), {"cCompat"})
  BY <1>1
<1>5. ASSUME NEW v, NEW w
      PROVE  Local(p, q, Set(p, [p.options EXCEPT !.crateType = v, !.crateTypeSelected = w]),
                   Set(q, [q.options EXCEPT !.crateType = v, !.crateTypeSelected = w]), {"crateType", "crateTypeSelected"})
  <2> DEFINE n(o) == [o EXCEPT !.crateType = v, !.crateTypeSelected = w]
  <2>1. \A o : DOMAIN o = Members => n(o).crateType = v /\ n(o).crateTypeSelected = w
    OBVIOUS
  <2>2. \A m : /\ Set(p, m).state = "reading" /\ Set(p, m).options = m
               /\ Set(q, m).state = "reading" /\ Set(q, m).options = m
    BY <1>1
  <2> HIDE DEF Members, DefaultOptions, Set, n
  <2>3. Local(p, q, Set(p, n(p.options)), Set(q, n(q.options)), {"crateType", "crateTypeSelected"})
    BY <1>1, <2>1, <2>2
  <2>. QED
    BY <2>3 DEF n
<1> HIDE DEF Members, DefaultOptions, Agree, Set, Local
<1>. QED
  BY <1>2, <1>3, <1>4, <1>5, Zenon

\* What an option sets depends on what it sets only.
LEMMA OptionLocal ==
  ASSUME NEW A, NEW p \in LineParses(A), NEW q \in LineParses(A), NEW a, ~Positional(a),
         Reading(p), Reading(q)
  PROVE  Local(p, q, ReadOption(p, a), ReadOption(q, a), Fields(a.opt))
<1>1. /\ DOMAIN p.options = Members /\ DOMAIN q.options = Members
      /\ p = [options |-> p.options, pending |-> None, state |-> "reading"]
      /\ q = [options |-> q.options, pending |-> None, state |-> "reading"]
  BY OptionMembers DEF LineParses, Reading
<1>0. \A n : /\ Set(p, n).state = "reading" /\ Set(p, n).options = n /\ Fails(p).state = "error"
             /\ Set(q, n).state = "reading" /\ Set(q, n).options = n /\ Fails(q).state = "error"
  BY <1>1 DEF Set, Fails
<1>2. a.opt \notin ValueOptions \cup {"-h", "--help", "--version", "input"}
  BY DEF Positional
<1>3. CASE a.opt \in ActionFlags
  <2>1. Fields(a.opt) = {"actions"} /\ {"actions"} \subseteq Members
    BY <1>3 DEF Members, DefaultOptions, Fields, ActionFlags, OptimizationFlags, SafetyFlags
  <2>2. ReadOption(p, a) = actionOption(p, a) /\ ReadOption(q, a) = actionOption(q, a)
    BY <1>3 DEF ReadOption, ActionFlags, OptimizationFlags, SafetyFlags,
          ValueOptions, NativeValueOptions, CargoValueOptions
  <2>3. SUFFICES ASSUME p.options.actions = q.options.actions
                 PROVE  /\ ReadOption(p, a).state = ReadOption(q, a).state
                        /\ ReadOption(p, a).state = "reading" =>
                             Agree(ReadOption(p, a), ReadOption(q, a), {"actions"})
    BY <2>1 DEF Local, Agree
  <2>4. Agree(ReadOption(p, a), ReadOption(q, a), {"actions"}) <=> (ReadOption(p, a).options.actions = ReadOption(q, a).options.actions)
    BY DEF Agree
  <2>. QED
    BY <1>1, <1>3, <2>1, <2>2, <2>3, <2>4 DEF Set, Fails, actionOption
<1>4. CASE a.opt \in {"--emit-object", "--crate-type"}
  <2> DEFINE F == {"crateType", "crateTypeSelected"}
             selected == IF a.opt = "--emit-object" THEN "object" ELSE a.val
  <2>1. Fields(a.opt) = F
    BY <1>4 DEF Fields, ActionFlags, OptimizationFlags, SafetyFlags
  <2>2. \A r : ReadOption(r, a) = crateTypeOption(r, a)
    BY <1>4 DEF ReadOption, ActionFlags, OptimizationFlags, SafetyFlags,
          ValueOptions, NativeValueOptions, CargoValueOptions
  <2>3. SUFFICES ASSUME Agree(p, q, F)
                 PROVE  Local(p, q, crateTypeOption(p, a), crateTypeOption(q, a), F)
    BY <2>1, <2>2 DEF Local
  <2>4. p.options.crateType = q.options.crateType /\ p.options.crateTypeSelected = q.options.crateTypeSelected
    BY <2>3 DEF Agree
  <2>5. \/ /\ crateTypeOption(p, a) = Fails(p) /\ crateTypeOption(q, a) = Fails(q)
        \/ /\ crateTypeOption(p, a) = Set(p, [p.options EXCEPT !.crateType = selected, !.crateTypeSelected = TRUE])
           /\ crateTypeOption(q, a) = Set(q, [q.options EXCEPT !.crateType = selected, !.crateTypeSelected = TRUE])
    BY <2>4 DEF crateTypeOption
  <2>6. Local(p, q, Set(p, [p.options EXCEPT !.crateType = selected, !.crateTypeSelected = TRUE]),
              Set(q, [q.options EXCEPT !.crateType = selected, !.crateTypeSelected = TRUE]), F)
    BY SetLocal, Zenon
  <2>7. Local(p, q, Fails(p), Fails(q), F)
    BY <1>1 DEF Local, Agree, Fails
  <2>. QED
    BY <2>5, <2>6, <2>7
<1>5. CASE a.opt \in OptimizationFlags
  <2>1. Fields(a.opt) = {"optimization"} /\ {"optimization"} \subseteq Members
    BY <1>5 DEF Members, DefaultOptions, Fields, ActionFlags, OptimizationFlags, SafetyFlags
  <2>2. ReadOption(p, a) = optimizationOption(p, a) /\ ReadOption(q, a) = optimizationOption(q, a)
    BY <1>5 DEF ReadOption, ActionFlags, OptimizationFlags, SafetyFlags,
          ValueOptions, NativeValueOptions, CargoValueOptions
  <2>3. SUFFICES ASSUME p.options.optimization = q.options.optimization
                 PROVE  /\ ReadOption(p, a).state = ReadOption(q, a).state
                        /\ ReadOption(p, a).state = "reading" =>
                             Agree(ReadOption(p, a), ReadOption(q, a), {"optimization"})
    BY <2>1 DEF Local, Agree
  <2>4. Agree(ReadOption(p, a), ReadOption(q, a), {"optimization"}) <=> (ReadOption(p, a).options.optimization = ReadOption(q, a).options.optimization)
    BY DEF Agree
  <2>. QED
    BY <1>1, <1>5, <2>1, <2>2, <2>3, <2>4 DEF Set, Fails, optimizationOption
<1>6. CASE a.opt = "--optimization-remarks"
  <2> DEFINE F == {"remarks"}
             bad == a.val \in {None, ""} \/ p.options.remarks # None
             n(o) == [o EXCEPT !.remarks = a.val]
  <2>1. Fields(a.opt) = F /\ F \subseteq Members
    BY <1>6 DEF Members, DefaultOptions, Fields, ActionFlags, OptimizationFlags, SafetyFlags
  <2>2. ReadOption(p, a) = onceOption(p, a) /\ ReadOption(q, a) = onceOption(q, a)
    BY <1>6 DEF ReadOption, ActionFlags, OptimizationFlags, SafetyFlags,
          ValueOptions, NativeValueOptions, CargoValueOptions
  <2>3. SUFFICES ASSUME Agree(p, q, F) PROVE Local(p, q, ReadOption(p, a), ReadOption(q, a), F)
    BY <2>1 DEF Local
  <2>4. p.options.remarks = q.options.remarks
    BY <2>3 DEF Agree
  <2>5. IF bad THEN ReadOption(p, a) = Fails(p) /\ ReadOption(q, a) = Fails(q)
        ELSE ReadOption(p, a) = Set(p, n(p.options)) /\ ReadOption(q, a) = Set(q, n(q.options))
    BY <1>6, <2>2, <2>4 DEF onceOption
  <2>6. n(p.options).remarks = n(q.options).remarks
    BY <1>1, <2>1
  <2> HIDE DEF n, bad
  <2>. QED
    BY <1>0, <2>5, <2>6 DEF Local, Agree
<1>7. CASE a.opt = "--sanitize"
  <2>1. Fields(a.opt) = {"sanitizer"} /\ {"sanitizer"} \subseteq Members
    BY <1>7 DEF Members, DefaultOptions, Fields, ActionFlags, OptimizationFlags, SafetyFlags
  <2>2. ReadOption(p, a) = onceOption(p, a) /\ ReadOption(q, a) = onceOption(q, a)
    BY <1>7 DEF ReadOption, ActionFlags, OptimizationFlags, SafetyFlags,
          ValueOptions, NativeValueOptions, CargoValueOptions
  <2>3. SUFFICES ASSUME p.options.sanitizer = q.options.sanitizer
                 PROVE  /\ ReadOption(p, a).state = ReadOption(q, a).state
                        /\ ReadOption(p, a).state = "reading" =>
                             Agree(ReadOption(p, a), ReadOption(q, a), {"sanitizer"})
    BY <2>1 DEF Local, Agree
  <2>4. Agree(ReadOption(p, a), ReadOption(q, a), {"sanitizer"}) <=> (ReadOption(p, a).options.sanitizer = ReadOption(q, a).options.sanitizer)
    BY DEF Agree
  <2>. QED
    BY <1>1, <1>7, <2>1, <2>2, <2>3, <2>4 DEF Set, Fails, onceOption, OneOf
<1>8. CASE a.opt = "-g"
  <2>1. Fields(a.opt) = {"debug"}
    BY <1>8 DEF Fields, ActionFlags, OptimizationFlags, SafetyFlags
  <2>2. \A r : ReadOption(r, a) = Set(r, [r.options EXCEPT !.debug = TRUE])
    BY <1>8 DEF reportOption, ReadOption, ActionFlags, OptimizationFlags, SafetyFlags,
          ValueOptions, NativeValueOptions, CargoValueOptions
  <2>3. Local(p, q, Set(p, [p.options EXCEPT !.debug = TRUE]), Set(q, [q.options EXCEPT !.debug = TRUE]), {"debug"})
    BY SetLocal, Zenon
  <2>. QED
    BY <2>1, <2>2, <2>3
<1>9. CASE a.opt \in {"--pgo-instrument", "--pgo-use"}
  <2> DEFINE F == {"pgo", "profile"}
             bad == a.val \in {None, ""} \/ p.options.pgo # None
             n(o) == [o EXCEPT !.pgo = IF a.opt = "--pgo-use" THEN "use" ELSE "instrument", !.profile = a.val]
  <2>1. Fields(a.opt) = F /\ F \subseteq Members
    BY <1>9 DEF Members, DefaultOptions, Fields, ActionFlags, OptimizationFlags, SafetyFlags
  <2>2. ReadOption(p, a) = pgoOption(p, a) /\ ReadOption(q, a) = pgoOption(q, a)
    BY <1>9 DEF ReadOption, ActionFlags, OptimizationFlags, SafetyFlags,
          ValueOptions, NativeValueOptions, CargoValueOptions
  <2>3. SUFFICES ASSUME Agree(p, q, F) PROVE Local(p, q, ReadOption(p, a), ReadOption(q, a), F)
    BY <2>1 DEF Local
  <2>4. p.options.pgo = q.options.pgo /\ p.options.profile = q.options.profile
    BY <2>3 DEF Agree
  <2>5. IF bad THEN ReadOption(p, a) = Fails(p) /\ ReadOption(q, a) = Fails(q)
        ELSE ReadOption(p, a) = Set(p, n(p.options)) /\ ReadOption(q, a) = Set(q, n(q.options))
    BY <1>9, <2>2, <2>4 DEF pgoOption
  <2>6. n(p.options).pgo = n(q.options).pgo /\ n(p.options).profile = n(q.options).profile
    BY <1>1, <2>1
  <2> HIDE DEF n, bad
  <2>. QED
    BY <1>0, <2>5, <2>6 DEF Local, Agree
<1>10. CASE a.opt = "--timing"
  <2>1. Fields(a.opt) = {"timing"}
    BY <1>10 DEF Fields, ActionFlags, OptimizationFlags, SafetyFlags
  <2>2. \A r : ReadOption(r, a) = Set(r, [r.options EXCEPT !.timing = TRUE])
    BY <1>10 DEF reportOption, ReadOption, ActionFlags, OptimizationFlags, SafetyFlags,
          ValueOptions, NativeValueOptions, CargoValueOptions
  <2>3. Local(p, q, Set(p, [p.options EXCEPT !.timing = TRUE]), Set(q, [q.options EXCEPT !.timing = TRUE]), {"timing"})
    BY SetLocal, Zenon
  <2>. QED
    BY <2>1, <2>2, <2>3
<1>11. CASE a.opt = "--timing-json"
  <2> DEFINE F == {"timingJson"}
             bad == a.val \in {None, ""}
             n(o) == [o EXCEPT !.timingJson = a.val]
  <2>1. Fields(a.opt) = F /\ F \subseteq Members
    BY <1>11 DEF Members, DefaultOptions, Fields, ActionFlags, OptimizationFlags, SafetyFlags
  <2>2. ReadOption(p, a) = reportOption(p, a) /\ ReadOption(q, a) = reportOption(q, a)
    BY <1>11 DEF ReadOption, ActionFlags, OptimizationFlags, SafetyFlags,
          ValueOptions, NativeValueOptions, CargoValueOptions
  <2>3. SUFFICES ASSUME Agree(p, q, F) PROVE Local(p, q, ReadOption(p, a), ReadOption(q, a), F)
    BY <2>1 DEF Local
  <2>4. p.options.timingJson = q.options.timingJson
    BY <2>3 DEF Agree
  <2>5. IF bad THEN ReadOption(p, a) = Fails(p) /\ ReadOption(q, a) = Fails(q)
        ELSE ReadOption(p, a) = Set(p, n(p.options)) /\ ReadOption(q, a) = Set(q, n(q.options))
    BY <1>11, <2>2, <2>4 DEF reportOption
  <2>6. n(p.options).timingJson = n(q.options).timingJson
    BY <1>1, <2>1
  <2> HIDE DEF n, bad
  <2>. QED
    BY <1>0, <2>5, <2>6 DEF Local, Agree
<1>12. CASE a.opt = "--diagnostic-format"
  <2>1. Fields(a.opt) = {"format"} /\ {"format"} \subseteq Members
    BY <1>12 DEF Members, DefaultOptions, Fields, ActionFlags, OptimizationFlags, SafetyFlags
  <2>2. ReadOption(p, a) = reportOption(p, a) /\ ReadOption(q, a) = reportOption(q, a)
    BY <1>12 DEF ReadOption, ActionFlags, OptimizationFlags, SafetyFlags,
          ValueOptions, NativeValueOptions, CargoValueOptions
  <2>3. SUFFICES ASSUME p.options.format = q.options.format
                 PROVE  /\ ReadOption(p, a).state = ReadOption(q, a).state
                        /\ ReadOption(p, a).state = "reading" =>
                             Agree(ReadOption(p, a), ReadOption(q, a), {"format"})
    BY <2>1 DEF Local, Agree
  <2>4. Agree(ReadOption(p, a), ReadOption(q, a), {"format"}) <=> (ReadOption(p, a).options.format = ReadOption(q, a).options.format)
    BY DEF Agree
  <2>. QED
    BY <1>1, <1>12, <2>1, <2>2, <2>3, <2>4 DEF Set, Fails, reportOption, OneOf
<1>13. CASE a.opt = "--c-compat"
  <2>1. Fields(a.opt) = {"cCompat"}
    BY <1>13 DEF Fields, ActionFlags, OptimizationFlags, SafetyFlags
  <2>2. \A r : ReadOption(r, a) = Set(r, [r.options EXCEPT !.cCompat = TRUE])
    BY <1>13 DEF reportOption, ReadOption, ActionFlags, OptimizationFlags, SafetyFlags,
          ValueOptions, NativeValueOptions, CargoValueOptions
  <2>3. Local(p, q, Set(p, [p.options EXCEPT !.cCompat = TRUE]), Set(q, [q.options EXCEPT !.cCompat = TRUE]), {"cCompat"})
    BY SetLocal, Zenon
  <2>. QED
    BY <2>1, <2>2, <2>3
<1>14. CASE a.opt = "--stdlib-provider"
  <2>1. Fields(a.opt) = {"provider"} /\ {"provider"} \subseteq Members
    BY <1>14 DEF Members, DefaultOptions, Fields, ActionFlags, OptimizationFlags, SafetyFlags
  <2>2. ReadOption(p, a) = reportOption(p, a) /\ ReadOption(q, a) = reportOption(q, a)
    BY <1>14 DEF ReadOption, ActionFlags, OptimizationFlags, SafetyFlags,
          ValueOptions, NativeValueOptions, CargoValueOptions
  <2>3. SUFFICES ASSUME p.options.provider = q.options.provider
                 PROVE  /\ ReadOption(p, a).state = ReadOption(q, a).state
                        /\ ReadOption(p, a).state = "reading" =>
                             Agree(ReadOption(p, a), ReadOption(q, a), {"provider"})
    BY <2>1 DEF Local, Agree
  <2>4. Agree(ReadOption(p, a), ReadOption(q, a), {"provider"}) <=> (ReadOption(p, a).options.provider = ReadOption(q, a).options.provider)
    BY DEF Agree
  <2>. QED
    BY <1>1, <1>14, <2>1, <2>2, <2>3, <2>4 DEF Set, Fails, reportOption, OneOf
<1>15. CASE a.opt \in SafetyFlags
  <2>1. Fields(a.opt) = {"safety"} /\ {"safety"} \subseteq Members
    BY <1>15 DEF Members, DefaultOptions, Fields, ActionFlags, OptimizationFlags, SafetyFlags
  <2>2. ReadOption(p, a) = safetyOption(p, a) /\ ReadOption(q, a) = safetyOption(q, a)
    BY <1>15 DEF ReadOption, ActionFlags, OptimizationFlags, SafetyFlags,
          ValueOptions, NativeValueOptions, CargoValueOptions
  <2>3. SUFFICES ASSUME p.options.safety = q.options.safety
                 PROVE  /\ ReadOption(p, a).state = ReadOption(q, a).state
                        /\ ReadOption(p, a).state = "reading" =>
                             Agree(ReadOption(p, a), ReadOption(q, a), {"safety"})
    BY <2>1 DEF Local, Agree
  <2>4. Agree(ReadOption(p, a), ReadOption(q, a), {"safety"}) <=> (ReadOption(p, a).options.safety = ReadOption(q, a).options.safety)
    BY DEF Agree
  <2>. QED
    BY <1>1, <1>15, <2>1, <2>2, <2>3, <2>4 DEF Set, Fails, safetyOption, SafetyFlags
<1>16. CASE a.opt = "--entry"
  <2>1. Fields(a.opt) = {"entry"} /\ {"entry"} \subseteq Members
    BY <1>16 DEF Members, DefaultOptions, Fields, ActionFlags, OptimizationFlags, SafetyFlags
  <2>2. ReadOption(p, a) = linkOption(p, a) /\ ReadOption(q, a) = linkOption(q, a)
    BY <1>16 DEF ReadOption, ActionFlags, OptimizationFlags, SafetyFlags,
          ValueOptions, NativeValueOptions, CargoValueOptions
  <2>3. SUFFICES ASSUME p.options.entry = q.options.entry
                 PROVE  /\ ReadOption(p, a).state = ReadOption(q, a).state
                        /\ ReadOption(p, a).state = "reading" =>
                             Agree(ReadOption(p, a), ReadOption(q, a), {"entry"})
    BY <2>1 DEF Local, Agree
  <2>4. Agree(ReadOption(p, a), ReadOption(q, a), {"entry"}) <=> (ReadOption(p, a).options.entry = ReadOption(q, a).options.entry)
    BY DEF Agree
  <2>. QED
    BY <1>1, <1>16, <2>1, <2>2, <2>3, <2>4 DEF Set, Fails, linkOption, OneOf
<1>17. CASE a.opt = "--linker-language"
  <2>1. Fields(a.opt) = {"linkerLanguage"} /\ {"linkerLanguage"} \subseteq Members
    BY <1>17 DEF Members, DefaultOptions, Fields, ActionFlags, OptimizationFlags, SafetyFlags
  <2>2. ReadOption(p, a) = linkOption(p, a) /\ ReadOption(q, a) = linkOption(q, a)
    BY <1>17 DEF ReadOption, ActionFlags, OptimizationFlags, SafetyFlags,
          ValueOptions, NativeValueOptions, CargoValueOptions
  <2>3. SUFFICES ASSUME p.options.linkerLanguage = q.options.linkerLanguage
                 PROVE  /\ ReadOption(p, a).state = ReadOption(q, a).state
                        /\ ReadOption(p, a).state = "reading" =>
                             Agree(ReadOption(p, a), ReadOption(q, a), {"linkerLanguage"})
    BY <2>1 DEF Local, Agree
  <2>4. Agree(ReadOption(p, a), ReadOption(q, a), {"linkerLanguage"}) <=> (ReadOption(p, a).options.linkerLanguage = ReadOption(q, a).options.linkerLanguage)
    BY DEF Agree
  <2>. QED
    BY <1>1, <1>17, <2>1, <2>2, <2>3, <2>4 DEF Set, Fails, linkOption, OneOf
<1>18. CASE a.opt = "--cargo-no-default-features"
  <2>1. Fields(a.opt) = {"cargo"} /\ {"cargo"} \subseteq Members
    BY <1>18 DEF Members, DefaultOptions, Fields, ActionFlags, OptimizationFlags, SafetyFlags
  <2>2. /\ ReadOption(p, a) = Set(p, [p.options EXCEPT !.cargo = @ \cup {a.opt}])
        /\ ReadOption(q, a) = Set(q, [q.options EXCEPT !.cargo = @ \cup {a.opt}])
    BY <1>18 DEF cargoValue, ReadOption, ActionFlags, OptimizationFlags, SafetyFlags,
          ValueOptions, NativeValueOptions, CargoValueOptions
  <2>3. SUFFICES ASSUME p.options.cargo = q.options.cargo
                 PROVE  /\ ReadOption(p, a).state = ReadOption(q, a).state
                        /\ ReadOption(p, a).state = "reading" =>
                             Agree(ReadOption(p, a), ReadOption(q, a), {"cargo"})
    BY <2>1 DEF Local, Agree
  <2>4. Agree(ReadOption(p, a), ReadOption(q, a), {"cargo"}) <=> (ReadOption(p, a).options.cargo = ReadOption(q, a).options.cargo)
    BY DEF Agree
  <2>. QED
    BY <1>1, <1>18, <2>1, <2>2, <2>3, <2>4 DEF Set, Fails
<1>19. CASE /\ a.opt \notin {"--emit-object", "--crate-type", "--optimization-remarks", "--sanitize", "-g",
                             "--pgo-instrument", "--pgo-use", "--timing", "--timing-json",
                             "--diagnostic-format", "--c-compat", "--stdlib-provider", "--entry",
                             "--linker-language", "--cargo-no-default-features"}
            /\ a.opt \notin ActionFlags \cup OptimizationFlags \cup SafetyFlags
  BY <1>1, <1>2, <1>19 DEF Local, Agree, Fails, ReadOption
<1>. QED
  BY <1>3, <1>4, <1>5, <1>6, <1>7, <1>8, <1>9, <1>10, <1>11, <1>12, <1>13, <1>14, <1>15, <1>16,
     <1>17, <1>18, <1>19

\* Two options set the same members or have none in common.
LEMMA FieldsApart ==
  ASSUME NEW x, NEW y, Fields(x) # Fields(y) PROVE Fields(x) \cap Fields(y) = {}
BY DEF Fields, ActionFlags, OptimizationFlags, SafetyFlags

-----------------------------------------------------------------------------
(* The order of the options.                                              *)

\* After a the option b is an error, unless a was one.
Excludes(p, a, b) ==
    ReadOption(p, a).state = "error" \/ ReadOption(ReadOption(p, a), b).state = "error"

\* Two options for the same members mean the same, exclude each other, or ask
\* for two actions; the last of them wins only where the code says so.
LEMMA SameMembers ==
  ASSUME NEW A, NEW p \in LineParses(A), Reading(p), NEW a, NEW b, Independent(a, b), Fields(a.opt) = Fields(b.opt)
  PROVE  \/ \A q : ReadOption(q, a) = ReadOption(q, b)
         \/ Excludes(p, a, b) /\ Excludes(p, b, a)
         \/ a.opt \in ActionFlags /\ b.opt \in ActionFlags
<1>1. /\ DOMAIN p.options = Members
      /\ p = [options |-> p.options, pending |-> None, state |-> "reading"]
  BY OptionMembers DEF LineParses, Reading
<1>2. \A n : Set(p, n).state = "reading" /\ Set(p, n).options = n /\ Fails(p).state = "error"
  BY <1>1 DEF Set, Fails
<1>3. \A q : DOMAIN q = DOMAIN p => Fails(q).state = "error"
  BY <1>1 DEF Fails
<1>4. \A n : DOMAIN Set(p, n) = DOMAIN p /\ DOMAIN Fails(p) = DOMAIN p
  BY DEF Set, Fails
<1>5. /\ ~Positional(a) /\ ~Positional(b)
      /\ \A group \in LastWins : ~{a.opt, b.opt} \subseteq group
  BY DEF Independent
<1>6. CASE a.opt = "-g"
  <2>1. b.opt = a.opt
    BY <1>6, <1>5 DEF Positional, Fields, ActionFlags, OptimizationFlags, SafetyFlags
  <2>2. ASSUME NEW q PROVE ReadOption(q, a) = ReadOption(q, b)
    BY <1>6, <2>1 DEF reportOption, ReadOption, ActionFlags, OptimizationFlags, SafetyFlags,
          ValueOptions, NativeValueOptions, CargoValueOptions
  <2>. QED
    BY <2>2
<1>7. CASE a.opt = "--timing"
  <2>1. b.opt = a.opt
    BY <1>7, <1>5 DEF Positional, Fields, ActionFlags, OptimizationFlags, SafetyFlags
  <2>2. ASSUME NEW q PROVE ReadOption(q, a) = ReadOption(q, b)
    BY <1>7, <2>1 DEF reportOption, ReadOption, ActionFlags, OptimizationFlags, SafetyFlags,
          ValueOptions, NativeValueOptions, CargoValueOptions
  <2>. QED
    BY <2>2
<1>8. CASE a.opt = "--c-compat"
  <2>1. b.opt = a.opt
    BY <1>8, <1>5 DEF Positional, Fields, ActionFlags, OptimizationFlags, SafetyFlags
  <2>2. ASSUME NEW q PROVE ReadOption(q, a) = ReadOption(q, b)
    BY <1>8, <2>1 DEF reportOption, ReadOption, ActionFlags, OptimizationFlags, SafetyFlags,
          ValueOptions, NativeValueOptions, CargoValueOptions
  <2>. QED
    BY <2>2
<1>9. CASE a.opt = "--cargo-no-default-features"
  <2>1. b.opt = a.opt
    BY <1>9, <1>5 DEF Positional, Fields, ActionFlags, OptimizationFlags, SafetyFlags
  <2>2. ASSUME NEW q PROVE ReadOption(q, a) = ReadOption(q, b)
    BY <1>9, <2>1 DEF reportOption, ReadOption, ActionFlags, OptimizationFlags, SafetyFlags,
          ValueOptions, NativeValueOptions, CargoValueOptions
  <2>. QED
    BY <2>2
<1>10. CASE a.opt = "--optimization-remarks"
  <2>1. b.opt = "--optimization-remarks" /\ "remarks" \in Members
    BY <1>10, <1>5 DEF Members, DefaultOptions, Positional, Fields, ActionFlags, OptimizationFlags,
       SafetyFlags
  <2>2. ASSUME NEW c, c.opt = "--optimization-remarks"
        PROVE  /\ \A q : ReadOption(q, c) = onceOption(q, c)
               /\ \A q : q.options.remarks # None => onceOption(q, c) = Fails(q)
               /\ onceOption(p, c) = Fails(p) \/ \E n : onceOption(p, c) = Set(p, n) /\ n.remarks # None
    <3>1. \A q : ReadOption(q, c) = onceOption(q, c)
      BY <2>2 DEF ReadOption, ActionFlags, OptimizationFlags, SafetyFlags,
          ValueOptions, NativeValueOptions, CargoValueOptions
    <3>2. \A q : q.options.remarks # None => onceOption(q, c) = Fails(q)
      BY <2>2 DEF onceOption
    <3>3. onceOption(p, c) = Fails(p) \/ \E n : onceOption(p, c) = Set(p, n) /\ n.remarks # None
      <4> DEFINE n == [p.options EXCEPT !.remarks = c.val]
      <4>1. onceOption(p, c) = Fails(p) \/ (onceOption(p, c) = Set(p, n) /\ c.val # None)
        BY <2>2 DEF onceOption, OneOf, None
      <4>2. c.val # None => n.remarks # None
        BY <1>1, <2>1 DEF Members, DefaultOptions, None
      <4> HIDE DEF n
      <4>. QED
        BY <4>1, <4>2
    <3>. QED
      BY <3>1, <3>2, <3>3
  <2>3. ASSUME NEW c, c.opt = "--optimization-remarks", NEW d, d.opt = "--optimization-remarks"
        PROVE  Excludes(p, c, d)
    BY <1>2, <1>3, <1>4, <2>2, <2>3 DEF Excludes
  <2>. QED
    BY <1>10, <2>1, <2>3
<1>11. CASE a.opt = "--sanitize"
  <2>1. b.opt = "--sanitize" /\ "sanitizer" \in Members
    BY <1>11, <1>5 DEF Members, DefaultOptions, Positional, Fields, ActionFlags, OptimizationFlags,
       SafetyFlags
  <2>2. ASSUME NEW c, c.opt = "--sanitize"
        PROVE  /\ \A q : ReadOption(q, c) = onceOption(q, c)
               /\ \A q : q.options.sanitizer # None => onceOption(q, c) = Fails(q)
               /\ onceOption(p, c) = Fails(p) \/ \E n : onceOption(p, c) = Set(p, n) /\ n.sanitizer # None
    <3>1. \A q : ReadOption(q, c) = onceOption(q, c)
      BY <2>2 DEF ReadOption, ActionFlags, OptimizationFlags, SafetyFlags,
          ValueOptions, NativeValueOptions, CargoValueOptions
    <3>2. \A q : q.options.sanitizer # None => onceOption(q, c) = Fails(q)
      BY <2>2 DEF onceOption
    <3>3. onceOption(p, c) = Fails(p) \/ \E n : onceOption(p, c) = Set(p, n) /\ n.sanitizer # None
      <4> DEFINE n == [p.options EXCEPT !.sanitizer = c.val]
      <4>1. onceOption(p, c) = Fails(p) \/ (onceOption(p, c) = Set(p, n) /\ c.val # None)
        BY <2>2 DEF onceOption, OneOf, None
      <4>2. c.val # None => n.sanitizer # None
        BY <1>1, <2>1 DEF Members, DefaultOptions, None
      <4> HIDE DEF n
      <4>. QED
        BY <4>1, <4>2
    <3>. QED
      BY <3>1, <3>2, <3>3
  <2>3. ASSUME NEW c, c.opt = "--sanitize", NEW d, d.opt = "--sanitize"
        PROVE  Excludes(p, c, d)
    BY <1>2, <1>3, <1>4, <2>2, <2>3 DEF Excludes
  <2>. QED
    BY <1>11, <2>1, <2>3
<1>12. CASE a.opt \in {"--pgo-instrument", "--pgo-use"}
  <2>1. b.opt \in {"--pgo-instrument", "--pgo-use"} /\ "pgo" \in Members
    BY <1>12, <1>5 DEF Members, DefaultOptions, Positional, Fields, ActionFlags, OptimizationFlags,
       SafetyFlags
  <2>2. ASSUME NEW c, c.opt \in {"--pgo-instrument", "--pgo-use"}
        PROVE  /\ \A q : ReadOption(q, c) = pgoOption(q, c)
               /\ \A q : q.options.pgo # None => pgoOption(q, c) = Fails(q)
               /\ pgoOption(p, c) = Fails(p) \/ \E n : pgoOption(p, c) = Set(p, n) /\ n.pgo # None
    <3>1. \A q : ReadOption(q, c) = pgoOption(q, c)
      BY <2>2 DEF ReadOption, ActionFlags, OptimizationFlags, SafetyFlags,
          ValueOptions, NativeValueOptions, CargoValueOptions
    <3>2. \A q : q.options.pgo # None => pgoOption(q, c) = Fails(q)
      BY <2>2 DEF pgoOption
    <3>3. pgoOption(p, c) = Fails(p) \/ \E n : pgoOption(p, c) = Set(p, n) /\ n.pgo # None
      <4> DEFINE n == [p.options EXCEPT !.pgo = IF c.opt = "--pgo-use" THEN "use" ELSE "instrument", !.profile = c.val]
      <4>1. pgoOption(p, c) = Fails(p) \/ (pgoOption(p, c) = Set(p, n) /\ c.val # None)
        BY <2>2 DEF pgoOption, OneOf, None
      <4>2. c.val # None => n.pgo # None
        BY <1>1, <2>1 DEF Members, DefaultOptions, None
      <4> HIDE DEF n
      <4>. QED
        BY <4>1, <4>2
    <3>. QED
      BY <3>1, <3>2, <3>3
  <2>3. ASSUME NEW c, c.opt \in {"--pgo-instrument", "--pgo-use"}, NEW d, d.opt \in {"--pgo-instrument", "--pgo-use"}
        PROVE  Excludes(p, c, d)
    BY <1>2, <1>3, <1>4, <2>2, <2>3 DEF Excludes
  <2>. QED
    BY <1>12, <2>1, <2>3
<1>13. CASE a.opt = "--diagnostic-format"
  <2>1. b.opt = a.opt
    BY <1>13, <1>5 DEF Positional, Fields, ActionFlags, OptimizationFlags, SafetyFlags
  <2>2. \A q : /\ ReadOption(q, a) = IF a.val = "json" THEN Set(q, [q.options EXCEPT !.format = "json"]) ELSE Fails(q)
             /\ ReadOption(q, b) = IF b.val = "json" THEN Set(q, [q.options EXCEPT !.format = "json"]) ELSE Fails(q)
    BY <1>13, <2>1 DEF reportOption, OneOf, ReadOption, ActionFlags, OptimizationFlags, SafetyFlags,
          ValueOptions, NativeValueOptions, CargoValueOptions
  <2>3. CASE a.val = "json" /\ b.val = "json"
    <3>1. ASSUME NEW q PROVE ReadOption(q, a) = ReadOption(q, b)
      BY <2>2, <2>3
    <3>. QED
      BY <3>1
  <2>4. ASSUME NEW c, NEW d, c.val # "json" \/ d.val # "json",
               \A x \in {c, d} : \A q :
                 ReadOption(q, x) = IF x.val = "json" THEN Set(q, [q.options EXCEPT !.format = "json"]) ELSE Fails(q)
        PROVE  Excludes(p, c, d)
    <3>1. CASE c.val # "json"
      BY <1>2, <2>4, <3>1 DEF Excludes
    <3>2. CASE c.val = "json" /\ d.val # "json"
      <4> DEFINE x == Set(p, [p.options EXCEPT !.format = "json"])
      <4>1. ReadOption(p, c) = x /\ DOMAIN x = DOMAIN p /\ ReadOption(x, d) = Fails(x)
        BY <1>4, <2>4, <3>2
      <4> HIDE DEF x
      <4>. QED
        BY <1>3, <4>1 DEF Excludes
    <3>. QED
      BY <2>4, <3>1, <3>2
  <2>5. \A x \in {a, b} : \A q :
          ReadOption(q, x) = IF x.val = "json" THEN Set(q, [q.options EXCEPT !.format = "json"]) ELSE Fails(q)
    BY <2>2
  <2>6. {a, b} = {b, a}
    OBVIOUS
  <2>7. CASE a.val # "json" \/ b.val # "json"
    BY <2>4, <2>5, <2>6, <2>7, Zenon
  <2>. QED
    BY <2>3, <2>7
<1>14. CASE a.opt \in {"--emit-object", "--crate-type"}
  <2> DEFINE selected(c) == IF c.opt = "--emit-object" THEN "object" ELSE c.val
             valid == {"bin", "object", "staticlib"}
             set(q, s) == Set(q, [q.options EXCEPT !.crateType = s, !.crateTypeSelected = TRUE])
             crate(q, s) == IF \/ s \notin valid
                               \/ q.options.crateTypeSelected /\ q.options.crateType # s
                            THEN Fails(q) ELSE set(q, s)
  <2>1. b.opt \in {"--emit-object", "--crate-type"} /\ {"crateType", "crateTypeSelected"} \subseteq Members
    BY <1>14, <1>5 DEF Members, DefaultOptions, Positional, Fields, ActionFlags, OptimizationFlags,
       SafetyFlags
  <2>2. ASSUME NEW c, c.opt \in {"--emit-object", "--crate-type"}, NEW q
        PROVE  ReadOption(q, c) = crate(q, selected(c))
    BY <2>2 DEF crateTypeOption, ReadOption, ActionFlags, OptimizationFlags, SafetyFlags,
          ValueOptions, NativeValueOptions, CargoValueOptions
  <2>3. CASE selected(a) = selected(b)
    <3> HIDE DEF selected, crate
    <3>1. ASSUME NEW q PROVE ReadOption(q, a) = ReadOption(q, b)
      BY <1>14, <2>1, <2>2, <2>3
    <3>. QED
      BY <3>1
  <2>4. CASE selected(a) # selected(b)
    <3>1. ASSUME NEW s, NEW t, s # t
          PROVE  crate(p, s).state = "error" \/ crate(crate(p, s), t).state = "error"
      <4> DEFINE n == [p.options EXCEPT !.crateType = s, !.crateTypeSelected = TRUE]
      <4>1. n.crateType = s /\ n.crateTypeSelected
        BY <1>1, <2>1
      <4>2. crate(p, s) \in {Fails(p), Set(p, n)}
        OBVIOUS
      <4> HIDE DEF n
      <4>3. Set(p, n).options = n /\ DOMAIN Set(p, n) = DOMAIN p
        BY <1>2, <1>4
      <4>4. crate(Set(p, n), t) = Fails(Set(p, n))
        BY <3>1, <4>1, <4>3
      <4> HIDE DEF crate
      <4>. QED
        BY <1>2, <1>3, <4>2, <4>3, <4>4
    <3> HIDE DEF selected, crate
    <3>. QED
      BY <1>14, <2>1, <2>2, <2>4, <3>1 DEF Excludes
  <2>. QED
    BY <2>3, <2>4
<1>15. CASE a.opt \in ActionFlags
  BY <1>15, <1>5 DEF Positional, Fields, ActionFlags, OptimizationFlags, SafetyFlags
<1>16. CASE a.opt \in OptimizationFlags \cup SafetyFlags \cup
               {"--timing-json", "--entry", "--linker-language", "--stdlib-provider"}
  BY <1>16, <1>5 DEF LastWins, Positional, Fields, ActionFlags, OptimizationFlags, SafetyFlags
<1>17. CASE /\ a.opt \notin {"--emit-object", "--crate-type", "--optimization-remarks", "--sanitize", "-g",
                             "--pgo-instrument", "--pgo-use", "--timing", "--timing-json",
                             "--diagnostic-format", "--c-compat", "--stdlib-provider", "--entry",
                             "--linker-language", "--cargo-no-default-features"}
             /\ a.opt \notin ActionFlags \cup OptimizationFlags \cup SafetyFlags
  <2>1. ReadOption(p, a) = Fails(p)
    BY <1>17, <1>5 DEF ReadOption, Positional
  <2>2. Fields(b.opt) = {}
    BY <1>17, <1>5 DEF Fields, Positional
  <2>3. ReadOption(p, b) = Fails(p)
    BY <1>5, <2>2 DEF Positional, Fields, ActionFlags, OptimizationFlags, SafetyFlags, ReadOption
  <2>. QED
    BY <1>2, <2>1, <2>3 DEF Excludes
<1>. QED
  BY <1>6, <1>7, <1>8, <1>9, <1>10, <1>11, <1>12, <1>13, <1>14, <1>15, <1>16, <1>17

\* Two parses that are the same, or both errors.
Same(p, q) == p = q \/ (p.state = "error" /\ q.state = "error")

\* Two options that select actions, like --dump-ast and -E, may be given in either
\* order: hsc collects them in a set.
LEMMA ActionsSwap ==
  ASSUME NEW A, NEW p \in LineParses(A), Reading(p), NEW a, NEW b, a.opt \in ActionFlags, b.opt \in ActionFlags
  PROVE  ReadOption(ReadOption(p, a), b) = ReadOption(ReadOption(p, b), a)
<1> DEFINE x(c) == IF c.opt = "-E" THEN "--preprocess-only" ELSE c.opt
           n(s) == [p.options EXCEPT !.actions = s]
           S == p.options.actions
<1>1. /\ DOMAIN p.options = Members
      /\ p = [options |-> p.options, pending |-> None, state |-> "reading"]
  BY OptionMembers DEF LineParses, Reading
<1>2. ASSUME NEW c, c.opt \in ActionFlags, NEW q
      PROVE  ReadOption(q, c) = Set(q, [q.options EXCEPT !.actions = @ \cup {x(c)}])
  BY <1>2 DEF actionOption, ReadOption, ActionFlags, OptimizationFlags, SafetyFlags,
          ValueOptions, NativeValueOptions, CargoValueOptions
<1>3. ASSUME NEW s, NEW t PROVE n(s).actions = s /\ [n(s) EXCEPT !.actions = t] = n(t)
  <2>1. "actions" \in Members
    BY DEF Members, DefaultOptions
  <2>2. n(s).actions = s
    BY <1>1, <2>1
  <2>3. [n(s) EXCEPT !.actions = t] = n(t)
    BY <1>1, <2>1
  <2>. QED
    BY <2>2, <2>3
<1>4. \A m : Set(p, m).options = m /\ \A k : Set(Set(p, m), k) = Set(p, k)
  BY <1>1 DEF Set
<1>5. ASSUME NEW c, c.opt \in ActionFlags, NEW d, d.opt \in ActionFlags
      PROVE  ReadOption(ReadOption(p, c), d) = Set(p, n((S \cup {x(c)}) \cup {x(d)}))
  <2>1. ReadOption(p, c) = Set(p, n(S \cup {x(c)}))
    BY <1>2, <1>5
  <2>2. ASSUME NEW m
        PROVE  ReadOption(Set(p, m), d) = Set(p, [m EXCEPT !.actions = m.actions \cup {x(d)}])
    <3>1. ReadOption(Set(p, m), d)
          = Set(Set(p, m), [Set(p, m).options EXCEPT !.actions = Set(p, m).options.actions \cup {x(d)}])
      BY <1>2, <1>5
    <3> HIDE DEF x
    <3>. QED
      BY <1>4, <3>1
  <2> HIDE DEF n, x, S
  <2>. QED
    BY <1>3, <1>4, <2>1, <2>2
<1>6. (S \cup {x(a)}) \cup {x(b)} = (S \cup {x(b)}) \cup {x(a)}
  OBVIOUS
<1> HIDE DEF n, x, S
<1>. QED
  BY <1>5, <1>6

\* Two independent options may be exchanged.
LEMMA OptionsSwap ==
  ASSUME NEW A, NEW p \in LineParses(A), Reading(p), NEW a \in A, NEW b \in A, Independent(a, b)
  PROVE  Same(ReadArgument(ReadArgument(p, a), b), ReadArgument(ReadArgument(p, b), a))
<1>1. ASSUME NEW c \in A, ~Positional(c), NEW q \in LineParses(A), Reading(q), ~Unknown(c)
      PROVE  LET r == ReadOption(q, c) IN
             /\ r \in LineParses(A) /\ Frame(q, c, r) /\ r.state \in {"reading", "error"}
             /\ r.state = "reading" => Reading(r)
             /\ ReadArgument(q, c) = r
  <2>1. ReadOption(q, c) \in LineParses(A)
    BY OptionKept
  <2>2. Frame(q, c, ReadOption(q, c))
    BY <1>1, OptionFrame DEF Reading
  <2>3. c.opt \notin ValueOptions \cup {"-h", "--help", "--version", "input"}
    BY <1>1 DEF Positional
  <2>4. ReadArgument(q, c) = ReadOption(q, c)
    BY <1>1 DEF ReadArgument, Reading
  <2>. QED
    BY <2>1, <2>2, <2>3, <2>4 DEF Frame, Reading
<1>2. ~Positional(a) /\ ~Positional(b)
  BY DEF Independent
<1>3. \A q \in LineParses(A) : q.state = "error" => \A c : ReadArgument(q, c) = q
  BY DEF ReadArgument
<1>4. ASSUME NEW c \in A, NEW d \in A, ~Positional(c), ~Positional(d), Unknown(c)
      PROVE  /\ ReadArgument(ReadArgument(p, c), d).state = "error"
             /\ ReadArgument(ReadArgument(p, d), c).state = "error"
  <2>1. \A q \in LineParses(A) : Fails(q) \in LineParses(A) /\ Fails(q).state = "error"
    BY DEF Fails, LineParses
  <2>2. ReadArgument(p, c) = Fails(p)
    BY <1>4 DEF ReadArgument, Reading
  <2>3. ReadArgument(p, d) = IF Unknown(d) THEN Fails(p) ELSE ReadOption(p, d)
    BY DEF ReadArgument, Reading
  <2>4. \A q : Reading(q) => ReadArgument(q, c) = Fails(q)
    BY <1>4 DEF ReadArgument, Reading
  <2>5. CASE Unknown(d)
    BY <1>3, <2>1, <2>2, <2>3, <2>5
  <2>6. CASE ~Unknown(d)
    BY <1>1, <1>3, <1>4, <2>1, <2>2, <2>3, <2>4, <2>6
  <2>. QED
    BY <2>5, <2>6
<1>5. CASE Unknown(a) \/ Unknown(b)
  BY <1>2, <1>4, <1>5 DEF Same
<1>6. CASE ~Unknown(a) /\ ~Unknown(b)
  <2> DEFINE pa == ReadOption(p, a)
             pb == ReadOption(p, b)
  <2>1. /\ ReadArgument(p, a) = pa /\ ReadArgument(p, b) = pb
        /\ pa \in LineParses(A) /\ pb \in LineParses(A)
        /\ Frame(p, a, pa) /\ Frame(p, b, pb)
        /\ pa.state \in {"reading", "error"} /\ pb.state \in {"reading", "error"}
        /\ (pa.state = "reading" => Reading(pa)) /\ (pb.state = "reading" => Reading(pb))
    BY <1>1, <1>2, <1>6
  <2>2. ReadArgument(pa, b) = IF pa.state = "reading" THEN ReadOption(pa, b) ELSE pa
    BY <1>1, <1>2, <1>3, <1>6, <2>1
  <2>3. ReadArgument(pb, a) = IF pb.state = "reading" THEN ReadOption(pb, a) ELSE pb
    BY <1>1, <1>2, <1>3, <1>6, <2>1
  <2>4. CASE Fields(a.opt) = Fields(b.opt)
    <3>1. \/ \A q : ReadOption(q, a) = ReadOption(q, b)
          \/ Excludes(p, a, b) /\ Excludes(p, b, a)
          \/ a.opt \in ActionFlags /\ b.opt \in ActionFlags
      BY <2>4, SameMembers
    <3>2. CASE \A q : ReadOption(q, a) = ReadOption(q, b)
      BY <2>1, <2>2, <2>3, <3>2 DEF Same
    <3>3. CASE Excludes(p, a, b) /\ Excludes(p, b, a)
      BY <2>1, <2>2, <2>3, <3>3 DEF Same, Excludes
    <3>4. CASE a.opt \in ActionFlags /\ b.opt \in ActionFlags
      <4>1. ReadOption(pa, b) = ReadOption(pb, a)
        BY <3>4, ActionsSwap
      <4>2. \A c : c.opt \in ActionFlags => ReadOption(p, c).state = "reading"
        BY DEF actionOption, Set, Reading, LineParses, ReadOption, ActionFlags, OptimizationFlags,
           SafetyFlags,
               ValueOptions, NativeValueOptions, CargoValueOptions
      <4>. QED
        BY <2>1, <2>2, <2>3, <3>4, <4>1, <4>2 DEF Same
    <3>. QED
      BY <3>1, <3>2, <3>3, <3>4
  <2>5. CASE Fields(a.opt) # Fields(b.opt)
    <3>1. Fields(a.opt) \cap Fields(b.opt) = {}
      BY <2>5, FieldsApart
    <3>2. pa.state = "reading" => Local(p, pa, pb, ReadOption(pa, b), Fields(b.opt))
      BY <1>2, <2>1, OptionLocal
    <3>3. pb.state = "reading" => Local(p, pb, pa, ReadOption(pb, a), Fields(a.opt))
      BY <1>2, <2>1, OptionLocal
    <3>4. Fields(a.opt) \subseteq Members /\ Fields(b.opt) \subseteq Members
      BY DEF Fields, Members, DefaultOptions, ActionFlags, OptimizationFlags, SafetyFlags
    <3>5. pa.state = "reading" => Agree(p, pa, Fields(b.opt))
      BY <2>1, <3>1, <3>4 DEF Frame, Agree
    <3>6. pb.state = "reading" => Agree(p, pb, Fields(a.opt))
      BY <2>1, <3>1, <3>4 DEF Frame, Agree
    <3>7. CASE pa.state = "error" \/ pb.state = "error"
      BY <2>1, <2>2, <2>3, <3>2, <3>3, <3>5, <3>6, <3>7 DEF Local, Same
    <3>8. CASE pa.state = "reading" /\ pb.state = "reading"
      <4> DEFINE q == ReadOption(pa, b)
                 r == ReadOption(pb, a)
      <4>1. /\ q \in LineParses(A) /\ Frame(pa, b, q) /\ r \in LineParses(A) /\ Frame(pb, a, r)
            /\ q.state = "reading" /\ r.state = "reading" /\ Reading(q) /\ Reading(r)
        <5>1. q.state = pb.state /\ r.state = pa.state
          BY <3>2, <3>3, <3>5, <3>6, <3>8 DEF Local
        <5>. QED
          BY <1>1, <1>2, <1>6, <2>1, <3>8, <5>1
      <4>2. ASSUME NEW f \in Members PROVE q.options[f] = r.options[f]
        <5>1. CASE f \in Fields(a.opt)
          BY <2>1, <3>1, <3>3, <3>6, <3>8, <4>1, <5>1 DEF Local, Agree, Frame
        <5>2. CASE f \in Fields(b.opt)
          BY <2>1, <3>1, <3>2, <3>5, <3>8, <4>1, <5>2 DEF Local, Agree, Frame
        <5>3. CASE f \notin Fields(a.opt) \cup Fields(b.opt)
          BY <2>1, <3>8, <4>1, <5>3 DEF Frame
        <5>. QED
          BY <5>1, <5>2, <5>3
      <4>3. /\ q = [options |-> q.options, pending |-> None, state |-> "reading"]
            /\ r = [options |-> r.options, pending |-> None, state |-> "reading"]
            /\ q.options \in LineOptions(A) /\ r.options \in LineOptions(A)
        BY <4>1 DEF LineParses, Reading
      <4> HIDE DEF q, r
      <4>4. DOMAIN q.options = Members /\ DOMAIN r.options = Members
        BY <4>3, OptionMembers
      <4>5. q.options = [f \in Members |-> q.options[f]] /\ r.options = [f \in Members |-> r.options[f]]
        BY <4>3, <4>4 DEF LineOptions, OptionsRead, Members, DefaultOptions
      <4>6. q.options = r.options
        BY <4>2, <4>5
      <4>. QED
        BY <2>1, <2>2, <2>3, <3>8, <4>3, <4>6 DEF Same, q, r
    <3>. QED
      BY <2>1, <3>7, <3>8
  <2>. QED
    BY <2>4, <2>5
<1>. QED
  BY <1>5, <1>6

\* A parse goes on to wait for a value only after an option that takes one.
LEMMA NotPending ==
  ASSUME NEW A, NEW q \in LineParses(A), NEW a \in A, a.opt \notin ValueOptions,
         ReadArgument(q, a).state = "reading"
  PROVE  ReadArgument(q, a).pending = None
<1>1. q.state = "reading"
  BY DEF ReadArgument
<1>2. CASE q.pending # None
  BY <1>1, <1>2 DEF ReadArgument, TakeValue, LineParses
<1>3. CASE q.pending = None /\ Unknown(a)
  BY <1>1, <1>3 DEF ReadArgument, Fails, LineParses
<1>4. CASE q.pending = None /\ ~Unknown(a)
  BY <1>1, <1>4, OptionFrame DEF ReadArgument, Frame
<1>. QED
  BY <1>2, <1>3, <1>4

\* Two neighbouring flags that are independent may be exchanged.
LEMMA FlagsSwap ==
  ASSUME NEW W, NEW l \in Seq(W), NEW i \in 1 .. (Len(l) - 1), Independent(l[i], l[i + 1]),
         i = 1 \/ l[i - 1].opt \notin ValueOptions
  PROVE  LET swapped == [l EXCEPT ![i] = l[i + 1], ![i + 1] = l[i]]
             one == parseDriverOptions(l)
             two == parseDriverOptions(swapped) IN
         /\ Outcome(one) = Outcome(two)
         /\ Outcome(one) = "ok" => one.options = two.options
<1> DEFINE A == ToSet(l)
           w == [l EXCEPT ![i] = l[i + 1], ![i + 1] = l[i]]
<1>1. Len(l) \in Nat /\ \A j \in 1 .. Len(l) : l[j] \in A
  BY DEF ToSet
<1>2. /\ w \in Seq(W) /\ Len(w) = Len(l) /\ w[i] = l[i + 1] /\ w[i + 1] = l[i]
      /\ \A j \in 1 .. Len(l) : j \notin {i, i + 1} => w[j] = l[j]
  OBVIOUS
<1> HIDE DEF A, w
<1>3. \A j \in 1 .. Len(l) : w[j] \in A
  BY <1>1, <1>2
<1>4. PICK r : /\ r[0] = StartParse /\ \A n \in 1 .. Len(l) : r[n] = ReadArgument(r[n - 1], l[n])
               /\ parseDriverOptions(l) = r[Len(l)]
  BY <1>1, ParseLoop
<1>5. PICK s : /\ s[0] = StartParse /\ \A n \in 1 .. Len(w) : s[n] = ReadArgument(s[n - 1], w[n])
               /\ parseDriverOptions(w) = s[Len(w)]
  BY <1>1, <1>2, ParseLoop
<1>6. \A n \in 0 .. Len(l) : r[n] \in LineParses(A)
  BY <1>1, <1>4, PrefixRead
<1>7. r[i - 1] = s[i - 1]
  <2> DEFINE S == {n \in 0 .. i - 1 : r[n] = s[n]}
  <2>1. 0 \in S
    BY <1>4, <1>5
  <2>2. ASSUME NEW n \in 1 .. i - 1, n - 1 \in S PROVE n \in S
    <3>1. n \in 1 .. Len(l) /\ n \notin {i, i + 1}
      BY <1>1
    <3>. QED
      BY <1>2, <1>4, <1>5, <2>2, <3>1
  <2> HIDE DEF S
  <2>4. i - 1 \in Nat
    BY <1>1
  <2>3. 0 .. i - 1 \subseteq S
    BY <2>1, <2>2, <2>4, Induct, Zenon
  <2>. QED
    BY <2>3 DEF S
<1> DEFINE p == r[i - 1]
<1>8. /\ p \in LineParses(A) /\ l[i] \in A /\ l[i + 1] \in A
      /\ r[i + 1] = ReadArgument(ReadArgument(p, l[i]), l[i + 1])
      /\ s[i + 1] = ReadArgument(ReadArgument(p, l[i + 1]), l[i])
  <2>1. i \in 1 .. Len(l) /\ i + 1 \in 1 .. Len(l) /\ i - 1 \in 0 .. Len(l) /\ (i + 1) - 1 = i
    BY <1>1
  <2>2. r[i] = ReadArgument(r[i - 1], l[i]) /\ s[i] = ReadArgument(s[i - 1], w[i])
    BY <1>2, <1>4, <1>5, <2>1
  <2>3. r[i + 1] = ReadArgument(r[i], l[i + 1]) /\ s[i + 1] = ReadArgument(s[i], w[i + 1])
    BY <1>2, <1>4, <1>5, <2>1
  <2>. QED
    BY <1>1, <1>2, <1>6, <1>7, <2>1, <2>2, <2>3
<1>9. p.state = "reading" => p.pending = None
  <2>1. CASE i = 1
    BY <1>4, <2>1 DEF StartParse
  <2>2. CASE i # 1
    <3>1. i - 1 \in 1 .. Len(l) /\ (i - 1) - 1 \in 0 .. Len(l)
      BY <1>1, <2>2
    <3>2. p = ReadArgument(r[(i - 1) - 1], l[i - 1])
      BY <1>4, <3>1
    <3>3. l[i - 1] \in A /\ r[(i - 1) - 1] \in LineParses(A) /\ l[i - 1].opt \notin ValueOptions
      BY <1>1, <1>6, <2>2, <3>1
    <3> HIDE DEF p
    <3>. QED
      BY <1>1, <3>2, <3>3, NotPending
  <2>. QED
    BY <2>1, <2>2
<1> HIDE DEF p
<1>10. Same(r[i + 1], s[i + 1])
  <2>1. CASE p.state # "reading"
    BY <1>8, <2>1 DEF ReadArgument, Same
  <2>2. CASE p.state = "reading"
    BY <1>1, <1>8, <1>9, <2>2, OptionsSwap DEF Reading
  <2>. QED
    BY <2>1, <2>2
<1>11. Same(r[Len(l)], s[Len(l)])
  <2> DEFINE S == {n \in 0 .. Len(l) : n >= i + 1 => Same(r[n], s[n])}
  <2>1. 0 \in S
    BY <1>1
  <2>2. ASSUME NEW n \in 1 .. Len(l), n - 1 \in S PROVE n \in S
    <3>1. CASE n < i + 1
      BY <3>1
    <3>2. CASE n = i + 1
      BY <1>10, <3>2
    <3>3. CASE n > i + 1
      <4>1. Same(r[n - 1], s[n - 1])
        BY <2>2, <3>3
      <4>2. r[n] = ReadArgument(r[n - 1], l[n]) /\ s[n] = ReadArgument(s[n - 1], l[n])
        BY <1>2, <1>4, <1>5, <3>3
      <4>3. Same(r[n], s[n])
        BY <4>1, <4>2 DEF Same, ReadArgument
      <4>. QED
        BY <4>3
    <3>. QED
      BY <3>1, <3>2, <3>3
  <2> HIDE DEF S
  <2>3. 0 .. Len(l) \subseteq S
    BY <1>1, <2>1, <2>2, Induct, Zenon
  <2>4. Len(l) \in 0 .. Len(l) /\ Len(l) >= i + 1
    BY <1>1
  <2>. QED
    BY <2>3, <2>4 DEF S
<1>12. ASSUME NEW one, NEW two, Same(one, two)
       PROVE  Outcome(one) = Outcome(two) /\ (Outcome(one) = "ok" => one.options = two.options)
  BY <1>12 DEF Same, Outcome
<1>. QED
  BY <1>2, <1>4, <1>5, <1>11, <1>12 DEF w

\* The order of flags does not matter, and an accepted line asks for one thing.
LEMMA MeansOneThing ==
  ASSUME NEW W, args \in Seq(W) PROVE OrderIrrelevant /\ AcceptedIsConsistent
<1>1. OrderIrrelevant
  BY FlagsSwap DEF OrderIrrelevant
<1>2. AcceptedIsConsistent
  BY DEF AcceptedIsConsistent, Outcome, CombinationOK
<1>. QED
  BY <1>1, <1>2

-----------------------------------------------------------------------------
(* The command lines of the extension.                                    *)

\* The arguments that a debug build leaves out.
Dropped(a) == a = Flag("-g") \/ (a.opt \in OptimizationFlags /\ a.val = None)

\* The filter of a debug build is defined: f[n] is what is kept of the first n arguments.
KeptOf(f, plan) ==
    f = [n \in 0 .. Len(plan) |->
           IF n = 0 THEN << >>
           ELSE IF Dropped(plan[n]) THEN f[n - 1] ELSE Append(f[n - 1], plan[n])]

\* There is such a function for every plan, however long.
LEMMA KeptExists == ASSUME NEW plan, Len(plan) \in Nat PROVE \E f : KeptOf(f, plan)
<1> DEFINE step(s, n) == IF Dropped(plan[n]) THEN s ELSE Append(s, plan[n])
           upto(f, k) == f = [n \in 0 .. k |-> IF n = 0 THEN << >> ELSE step(f[n - 1], n)]
           S == {k \in Nat : \E f : upto(f, k)}
<1> HIDE DEF step
<1>1. 0 \in S
  <2> DEFINE r == [n \in 0 .. 0 |-> << >>]
  <2>1. upto(r, 0)
    OBVIOUS
  <2>. QED
    BY <2>1
<1>2. ASSUME NEW k \in 1 .. Len(plan), k - 1 \in S PROVE k \in S
  <2>1. PICK q : upto(q, k - 1)
    BY <1>2
  <2> DEFINE r == [n \in 0 .. k |-> IF n <= k - 1 THEN q[n] ELSE step(q[k - 1], k)]
  <2>2. \A n \in 0 .. k : r[n] = IF n = 0 THEN << >> ELSE step(r[n - 1], n)
    <3>1. q[0] = << >> /\ \A n \in 1 .. k - 1 : q[n] = step(q[n - 1], n)
      BY <2>1
    <3>2. \A n \in 0 .. k - 1 : r[n] = q[n]
      OBVIOUS
    <3>3. r[k] = step(q[k - 1], k)
      OBVIOUS
    <3> HIDE DEF r
    <3>. QED
      BY <3>1, <3>2, <3>3
  <2>3. upto(r, k)
    BY <2>2, Zenon
  <2>4. \E g : upto(g, k)
    BY <2>3, Zenon
  <2>. QED
    BY <2>4
<1> HIDE DEF S
<1>3. 0 .. Len(plan) \subseteq S
  BY <1>1, <1>2, Induct, Zenon
<1>4. Len(plan) \in S
  BY <1>3
<1>. QED
  BY <1>4 DEF S, KeptOf, step

\* normalizeDebugBuildArgs filters the arguments one after another and puts -g -O0
\* in front of what it keeps.
LEMMA DebugLoop ==
  ASSUME NEW plan, Len(plan) \in Nat
  PROVE  \E f : /\ f[0] = << >>
                /\ \A n \in 1 .. Len(plan) :
                      f[n] = IF Dropped(plan[n]) THEN f[n - 1] ELSE Append(f[n - 1], plan[n])
                /\ normalizeDebugBuildArgs(plan) = <<Flag("-g"), Flag("-O0")>> \o f[Len(plan)]
<1> DEFINE f == CHOOSE g : KeptOf(g, plan)
<1>1. normalizeDebugBuildArgs(plan) = <<Flag("-g"), Flag("-O0")>> \o f[Len(plan)]
  BY DEF normalizeDebugBuildArgs, KeptOf, Dropped
<1>2. KeptOf(f, plan)
  BY KeptExists
<1> HIDE DEF f
<1>3. \A n \in 0 .. Len(plan) : f[n] = IF n = 0 THEN << >>
                                      ELSE IF Dropped(plan[n]) THEN f[n - 1] ELSE Append(f[n - 1], plan[n])
  BY <1>2, Zenon DEF KeptOf
<1>4. f[0] = << >>
  BY <1>3
<1>5. ASSUME NEW n \in 1 .. Len(plan)
      PROVE  f[n] = IF Dropped(plan[n]) THEN f[n - 1] ELSE Append(f[n - 1], plan[n])
  <2>1. n # 0 /\ n \in 0 .. Len(plan)
    OBVIOUS
  <2>. QED
    BY <1>3, <2>1, Zenon
<1>. QED
  BY <1>1, <1>4, <1>5, Zenon

\* An additional argument that the extension lets through.
Allowed(a) ==
    /\ ~(a.opt \in CONTROLLED_ARGUMENTS /\ a.val = None)
    /\ a.opt \notin {"--output", "-o"}

\* A line of the extension: the mode in place k, the additional arguments, and
\* the source with its output path.
Planned(l, m, k) ==
    /\ \E W : l \in Seq(W)
    /\ k \in Nat /\ Len(l) >= k + 3
    /\ l[k] = modeFlag(m)
    /\ l[Len(l) - 2] = Source /\ l[Len(l) - 1] = Flag("-o") /\ l[Len(l)] = OutputPath
    /\ \A j \in (k + 1) .. (Len(l) - 3) : Allowed(l[j])

\* One of a debug build.
Debugged(l) ==
    /\ l[1] = Flag("-g") /\ l[2] = Flag("-O0")
    /\ \A j \in 3 .. Len(l) : ~Dropped(l[j])

\* createBuildPlan keeps the order: the mode, the additional arguments that were
\* let through, and the source with its output.
LEMMA PlainLine ==
  ASSUME NEW m, NEW extra \in Seq(Arguments), validateAdditionalArgs(extra)
  PROVE  Planned(createBuildPlan(m, extra), m, 1)
<1> DEFINE W == Arguments \cup {modeFlag(m), Source, Flag("-o"), OutputPath}
           l == createBuildPlan(m, extra)
<1>1. extra \in Seq(W) /\ <<modeFlag(m)>> \in Seq(W) /\ <<Source, Flag("-o"), OutputPath>> \in Seq(W)
  OBVIOUS
<1> DEFINE a1 == modeFlag(m)
           a2 == Source
           a3 == Flag("-o")
           a4 == OutputPath
<1>2. l = <<a1>> \o extra \o <<a2, a3, a4>>
  BY DEF createBuildPlan
<1>3. \A j \in 1 .. Len(extra) : Allowed(extra[j])
  <2>1. DOMAIN extra = 1 .. Len(extra)
    OBVIOUS
  <2>. QED
    BY <2>1, Zenon DEF validateAdditionalArgs, Allowed
<1> HIDE DEF a1, a2, a3, a4, l, W
<1>4. /\ l \in Seq(W) /\ Len(l) = Len(extra) + 4 /\ l[1] = a1
      /\ l[Len(l) - 2] = a2 /\ l[Len(l) - 1] = a3 /\ l[Len(l)] = a4
      /\ \A j \in 2 .. (Len(l) - 3) : l[j] = extra[j - 1]
  <2> DEFINE u == <<a1>> \o extra
             v == <<a2, a3, a4>>
  <2>1. u \in Seq(W) /\ Len(u) = Len(extra) + 1 /\ u[1] = a1 /\ \A j \in 2 .. Len(u) : u[j] = extra[j - 1]
    BY <1>1 DEF a1
  <2>2. v \in Seq(W) /\ Len(v) = 3 /\ v[1] = a2 /\ v[2] = a3 /\ v[3] = a4
    BY <1>1 DEF a2, a3, a4
  <2> HIDE DEF u, v
  <2>3. l = u \o v
    BY <1>2 DEF u, v
  <2>4. /\ l \in Seq(W) /\ Len(l) = Len(u) + 3
        /\ \A j \in 1 .. Len(u) : l[j] = u[j]
        /\ \A j \in 1 .. 3 : l[Len(u) + j] = v[j]
    <3>1. /\ u \o v \in Seq(W) /\ Len(u \o v) = Len(u) + Len(v)
          /\ \A j \in 1 .. Len(u) + Len(v) : (u \o v)[j] = IF j <= Len(u) THEN u[j] ELSE v[j - Len(u)]
      BY <2>1, <2>2, ConcatProperties, Zenon
    <3>2. Len(u) \in Nat
      BY <2>1
    <3>. QED
      BY <2>2, <2>3, <3>1, <3>2
  <2>5. Len(extra) \in Nat
    OBVIOUS
  <2>6. l[Len(l) - 2] = v[1] /\ l[Len(l) - 1] = v[2] /\ l[Len(l)] = v[3]
    <3>1. Len(l) - 2 = Len(u) + 1 /\ Len(l) - 1 = Len(u) + 2 /\ Len(l) = Len(u) + 3
      BY <2>1, <2>4, <2>5
    <3>. QED
      BY <2>4, <3>1
  <2>7. /\ l[1] = a1 /\ Len(l) = Len(extra) + 4
        /\ \A j \in 2 .. (Len(l) - 3) : l[j] = extra[j - 1]
    BY <2>1, <2>4, <2>5
  <2>. QED
    BY <2>2, <2>4, <2>6, <2>7
<1>5. \A j \in 2 .. (Len(l) - 3) : Allowed(l[j])
  BY <1>3, <1>4
<1>6. \E V : l \in Seq(V)
  BY <1>4
<1>7. Len(l) >= 1 + 3
  BY <1>4
<1>. QED
  BY <1>4, <1>5, <1>6, <1>7 DEF Planned, l, a1, a2, a3, a4

\* What the filter has kept of the first n arguments of a plan.
Filtered(plan, W, n, s) ==
    /\ s \in Seq(W)
    /\ n = 0 => s = << >>
    /\ n >= 1 => Len(s) >= 1 /\ s[1] = plan[1]
    /\ \A j \in 1 .. Len(s) : ~Dropped(s[j])
    /\ \A j \in 2 .. Len(s) : \E i \in 2 .. n : s[j] = plan[i]

\* The filter keeps the mode, the source and the output path, and nothing else
\* than additional arguments in between.
LEMMA DebugLine ==
  ASSUME NEW m \in {"unchecked", "static-checked", "checked"}, NEW plan, Planned(plan, m, 1)
  PROVE  Planned(normalizeDebugBuildArgs(plan), m, 3) /\ Debugged(normalizeDebugBuildArgs(plan))
<1> DEFINE N == Len(plan)
           l == normalizeDebugBuildArgs(plan)
<1>1. PICK W : plan \in Seq(W)
  BY DEF Planned
<1>0. Len(plan) \in Nat
  BY <1>1
<1>2. PICK f : /\ f[0] = << >>
               /\ \A n \in 1 .. N : f[n] = IF Dropped(plan[n]) THEN f[n - 1] ELSE Append(f[n - 1], plan[n])
               /\ l = <<Flag("-g"), Flag("-O0")>> \o f[N]
  BY <1>0, DebugLoop, Zenon
<1>3. /\ N \in Nat /\ N >= 4 /\ plan[1] = modeFlag(m) /\ \A j \in 1 .. N : plan[j] \in W
      /\ plan[N - 2] = Source /\ plan[N - 1] = Flag("-o") /\ plan[N] = OutputPath
      /\ \A j \in 2 .. N - 3 : Allowed(plan[j])
  BY <1>1 DEF Planned
<1>4. /\ ~Dropped(modeFlag(m)) /\ ~Dropped(Source) /\ ~Dropped(Flag("-o")) /\ ~Dropped(OutputPath)
  BY DEF Dropped, modeFlag, Source, OutputPath, Flag, Input, OptimizationFlags
<1> HIDE DEF N, l
<1> DEFINE S == {n \in 0 .. N : Filtered(plan, W, n, f[n])}
<1>5. 0 \in S
  <2>1. << >> \in Seq(W) /\ Len(<< >>) = 0
    OBVIOUS
  <2>2. Filtered(plan, W, 0, << >>)
    BY <2>1 DEF Filtered
  <2>. QED
    BY <1>2, <1>3, <2>2
<1>6. ASSUME NEW n \in 1 .. N, n - 1 \in S PROVE n \in S
  <2> DEFINE s == f[n - 1]
  <2>1. Filtered(plan, W, n - 1, s) /\ n \in Nat /\ plan[n] \in W
    BY <1>3, <1>6
  <2>2. f[n] = IF Dropped(plan[n]) THEN s ELSE Append(s, plan[n])
    BY <1>2
  <2> HIDE DEF s
  <2>3. Len(s) \in Nat /\ (n = 1 => Len(s) = 0)
    <3>1. Len(s) \in Nat
      BY <2>1 DEF Filtered
    <3>2. n = 1 => s = << >>
      BY <2>1 DEF Filtered
    <3>. QED
      BY <3>1, <3>2
  <2>4. CASE Dropped(plan[n])
    <3>1. n # 1
      BY <1>3, <1>4, <2>4
    <3>2. Filtered(plan, W, n, s)
      BY <2>1, <3>1 DEF Filtered
    <3>. QED
      BY <2>2, <2>4, <3>2
  <2>5. CASE ~Dropped(plan[n])
    <3> DEFINE t == Append(s, plan[n])
    <3>1. /\ t \in Seq(W) /\ Len(t) = Len(s) + 1 /\ t[Len(s) + 1] = plan[n]
          /\ \A i \in 1 .. Len(s) : t[i] = s[i]
      <4>1. s \in Seq(W) /\ plan[n] \in W
        BY <2>1 DEF Filtered
      <4>. QED
        BY <4>1, AppendProperties
    <3>2. f[n] = t
      BY <2>2, <2>5
    <3> HIDE DEF t
    <3>3. Len(t) >= 1 /\ t[1] = plan[1]
      BY <2>1, <2>3, <3>1 DEF Filtered
    <3>4. \A j \in 1 .. Len(t) : ~Dropped(t[j])
      BY <2>1, <2>3, <2>5, <3>1 DEF Filtered
    <3>5. \A j \in 2 .. Len(t) : \E i \in 2 .. n : t[j] = plan[i]
      BY <2>1, <2>3, <3>1 DEF Filtered
    <3>6. Filtered(plan, W, n, t)
      BY <2>1, <3>1, <3>3, <3>4, <3>5 DEF Filtered
    <3>. QED
      BY <3>2, <3>6
  <2>. QED
    BY <2>4, <2>5
<1> HIDE DEF S
<1>7. 0 .. N \subseteq S
  BY <1>3, <1>5, <1>6, Induct, Zenon
<1>8. PICK g : /\ g = f[N - 3] /\ Filtered(plan, W, N - 3, g)
  <2>1. N - 3 \in 0 .. N
    BY <1>3
  <2>. QED
    BY <1>7, <2>1 DEF S
<1> DEFINE s1 == Append(g, Source)
           s2 == Append(s1, Flag("-o"))
           s3 == Append(s2, OutputPath)
<1>9. f[N] = s3
  <2>1. N - 2 \in 1 .. N /\ N - 1 \in 1 .. N /\ N \in 1 .. N /\ (N - 2) - 1 = N - 3 /\ (N - 1) - 1 = N - 2
    BY <1>3
  <2>2. f[N - 2] = Append(f[N - 3], Source)
    BY <1>2, <1>3, <1>4, <2>1
  <2>3. f[N - 1] = Append(f[N - 2], Flag("-o"))
    BY <1>2, <1>3, <1>4, <2>1
  <2>4. f[N] = Append(f[N - 1], OutputPath)
    BY <1>2, <1>3, <1>4, <2>1
  <2>. QED
    BY <1>8, <2>2, <2>3, <2>4
<1>10. Filtered(plan, W, N, s3)
  <2>1. N \in S
    BY <1>3, <1>7
  <2>2. Filtered(plan, W, N, f[N])
    BY <2>1 DEF S
  <2>. QED
    BY <1>9, <2>2
<1>11. /\ Len(g) \in Nat /\ Len(g) >= 1 /\ Len(s3) = Len(g) + 3
       /\ \A i \in 1 .. Len(g) : s3[i] = g[i]
       /\ s3[Len(g) + 1] = Source /\ s3[Len(g) + 2] = Flag("-o") /\ s3[Len(g) + 3] = OutputPath
  <2>0. {Source, Flag("-o"), OutputPath} \subseteq W
    <3>1. N - 2 \in 1 .. N /\ N - 1 \in 1 .. N /\ N \in 1 .. N
      BY <1>3
    <3>. QED
      BY <1>3, <3>1
  <2>1. g \in Seq(W) /\ Len(g) \in Nat /\ Len(g) >= 1
    <3>1. N - 3 >= 1
      BY <1>3
    <3>. QED
      BY <1>8, <3>1 DEF Filtered
  <2>2. /\ s1 \in Seq(W) /\ Len(s1) = Len(g) + 1 /\ s1[Len(g) + 1] = Source /\ \A i \in 1 .. Len(g) : s1[i] = g[i]
    BY <2>0, <2>1, AppendProperties
  <2> HIDE DEF s1
  <2>3. /\ s2 \in Seq(W) /\ Len(s2) = Len(s1) + 1 /\ s2[Len(s1) + 1] = Flag("-o") /\ \A i \in 1 .. Len(s1) : s2[i] = s1[i]
    BY <2>0, <2>2, AppendProperties
  <2> HIDE DEF s2
  <2>4. /\ s3 \in Seq(W) /\ Len(s3) = Len(s2) + 1 /\ s3[Len(s2) + 1] = OutputPath /\ \A i \in 1 .. Len(s2) : s3[i] = s2[i]
    BY <2>0, <2>3, AppendProperties
  <2> HIDE DEF s3
  <2>. QED
    BY <2>1, <2>2, <2>3, <2>4
<1> DEFINE a1 == Flag("-g")
           a2 == Flag("-O0")
           V == W \cup {a1, a2}
<1> HIDE DEF s1, s2, s3
<1>12. /\ l \in Seq(V) /\ Len(l) = Len(s3) + 2 /\ l[1] = a1 /\ l[2] = a2
       /\ \A j \in 1 .. Len(s3) : l[j + 2] = s3[j]
  <2> DEFINE v == <<a1, a2>>
  <2> HIDE DEF a1, a2
  <2>1. v \in Seq(V) /\ Len(v) = 2 /\ v[1] = a1 /\ v[2] = a2
    OBVIOUS
  <2>2. s3 \in Seq(V) /\ Len(s3) \in Nat
    BY <1>10 DEF Filtered
  <2>3. l = v \o s3
    BY <1>2, <1>9 DEF a1, a2
  <2> HIDE DEF v, V
  <2>4. /\ v \o s3 \in Seq(V) /\ Len(v \o s3) = Len(v) + Len(s3)
        /\ \A i \in 1 .. Len(v) + Len(s3) : (v \o s3)[i] = IF i <= Len(v) THEN v[i] ELSE s3[i - Len(v)]
    BY <2>1, <2>2, ConcatProperties, Zenon
  <2>. QED
    BY <2>1, <2>2, <2>3, <2>4
<1> HIDE DEF V, a1, a2
<1>13. \A j \in 4 .. (Len(l) - 3) : Allowed(l[j])
  <2>. SUFFICES ASSUME NEW j \in 4 .. (Len(l) - 3) PROVE Allowed(l[j])
    OBVIOUS
  <2>1. j - 2 \in 2 .. Len(g) /\ l[j] = s3[j - 2] /\ s3[j - 2] = g[j - 2]
    BY <1>11, <1>12
  <2>2. PICK i \in 2 .. N - 3 : g[j - 2] = plan[i]
    BY <1>8, <2>1 DEF Filtered
  <2>. QED
    BY <1>3, <2>1, <2>2
<1>14. \A j \in 3 .. Len(l) : ~Dropped(l[j])
  <2>. SUFFICES ASSUME NEW j \in 3 .. Len(l) PROVE ~Dropped(l[j])
    OBVIOUS
  <2>1. j - 2 \in 1 .. Len(s3) /\ l[j] = s3[j - 2]
    BY <1>11, <1>12
  <2>. QED
    BY <1>10, <2>1 DEF Filtered
<1>15. /\ Len(l) >= 3 + 3 /\ l[3] = modeFlag(m) /\ l[Len(l) - 2] = Source
       /\ l[Len(l) - 1] = Flag("-o") /\ l[Len(l)] = OutputPath
  <2>1. s3[1] = plan[1]
    BY <1>3, <1>10 DEF Filtered
  <2>2. l[Len(l) - 2] = s3[Len(g) + 1] /\ l[Len(l) - 1] = s3[Len(g) + 2] /\ l[Len(l)] = s3[Len(g) + 3]
    BY <1>11, <1>12
  <2>. QED
    BY <1>3, <1>11, <1>12, <2>1, <2>2
<1>. QED
  BY <1>12, <1>13, <1>14, <1>15 DEF Planned, Debugged, l, a1, a2

\* A value that is read sets the member of its option only.
LEMMA ValueFrame ==
  ASSUME NEW A, NEW p \in LineParses(A), p.state = "reading", p.pending # None, NEW a
  PROVE  LET q == ReadArgument(p, a) IN
         /\ q.state = "reading" /\ q.pending = None
         /\ p.pending = "-o" => q.options.output = a
         /\ \A f \in Members \ {"output", "clang", "clangxx", "ext", "cargo"} : q.options[f] = p.options[f]
<1> DEFINE o == p.options
           q == ReadArgument(p, a)
<1>1. /\ DOMAIN o = Members /\ p = [options |-> o, pending |-> p.pending, state |-> "reading"]
      /\ p.pending \in ValueOptions
  BY OptionMembers DEF LineParses
<1>2. q = TakeValue(p, a)
  BY DEF ReadArgument
<1> DEFINE taken == CASE p.pending = "-o" -> [o EXCEPT !.output = a]
                      [] p.pending \in NativeValueOptions -> nativeValue(o, p.pending, a)
                      [] p.pending \in CargoValueOptions -> cargoValue(o, p.pending)
<1>7. q.options = taken
  <2>1. q = [p EXCEPT !.pending = None, !.options = taken]
    BY <1>2 DEF TakeValue
  <2> HIDE DEF taken, q
  <2>. QED
    BY <1>1, <2>1
<1>3. q.state = "reading" /\ q.pending = None
  BY <1>1, <1>2 DEF TakeValue
<1> DEFINE free == {"output", "clang", "clangxx", "ext", "cargo"}
<1>4. CASE p.pending = "-o"
  <2>1. q.options = [o EXCEPT !.output = a]
    BY <1>4, <1>7 DEF NativeValueOptions, CargoValueOptions
  <2>2. "output" \in Members
    BY DEF Members, DefaultOptions
  <2>. QED
    BY <1>1, <1>3, <2>1, <2>2
<1>5. CASE p.pending \in NativeValueOptions
  <2>1. q.options = nativeValue(o, p.pending, a)
    BY <1>5, <1>7 DEF NativeValueOptions, CargoValueOptions
  <2>2. \A f \in Members \ free : nativeValue(o, p.pending, a)[f] = o[f]
    BY <1>1 DEF nativeValue
  <2>. QED
    BY <1>3, <1>5, <2>1, <2>2 DEF NativeValueOptions
<1>6. CASE p.pending \in CargoValueOptions
  <2>1. q.options = cargoValue(o, p.pending)
    BY <1>6, <1>7 DEF NativeValueOptions, CargoValueOptions
  <2>2. \A f \in Members \ free : cargoValue(o, p.pending)[f] = o[f]
    BY <1>1 DEF cargoValue
  <2>. QED
    BY <1>3, <1>6, <2>1, <2>2 DEF CargoValueOptions
<1>. QED
  BY <1>1, <1>4, <1>5, <1>6 DEF ValueOptions

\* The mode that a flag selects.
ModeOf(opt) == CASE opt = "--checked" -> "checked"
                 [] opt = "--static-checked" -> "static-checked"
                 [] opt = "--unchecked" -> "unchecked"

\* What -g, a level and a mode write.
LEMMA Written ==
  ASSUME NEW A, NEW p \in LineParses(A), Reading(p), NEW a
  PROVE  LET q == ReadOption(p, a) IN
         /\ a.opt = "-g" => q.state = "reading" /\ q.options.debug
         /\ a.opt = "-O0" => q.state = "reading" /\ q.options.optimization = "O0"
         /\ a.opt \in SafetyFlags =>
              q.state = "reading" /\ q.options.safety = ModeOf(a.opt)
<1>1. /\ DOMAIN p.options = Members
      /\ p = [options |-> p.options, pending |-> None, state |-> "reading"]
  BY OptionMembers DEF LineParses, Reading
<1>2. \A n : Set(p, n).state = "reading" /\ Set(p, n).options = n
  BY <1>1 DEF Set
<1>3. {"debug", "optimization", "safety"} \subseteq Members
  BY DEF Members, DefaultOptions
<1>4. CASE a.opt = "-g"
  <2>1. ReadOption(p, a) = Set(p, [p.options EXCEPT !.debug = TRUE])
    BY <1>4 DEF ReadOption, ActionFlags, OptimizationFlags, SafetyFlags,
          ValueOptions, NativeValueOptions, CargoValueOptions
  <2>2. \A v : [p.options EXCEPT !.debug = v].debug = v
    BY <1>1, <1>3
  <2>3. [p.options EXCEPT !.debug = TRUE].debug
    BY <2>2, Zenon
  <2> DEFINE n == [p.options EXCEPT !.debug = TRUE]
  <2> HIDE DEF n
  <2>4. ReadOption(p, a) = Set(p, n) /\ n.debug
    BY <2>1, <2>3 DEF n
  <2>. QED
    BY <1>2, <1>4, <2>4 DEF SafetyFlags
<1>5. CASE a.opt = "-O0"
  <2>1. ReadOption(p, a) = optimizationOption(p, a)
    BY <1>5 DEF ReadOption, ActionFlags, OptimizationFlags, SafetyFlags,
          ValueOptions, NativeValueOptions, CargoValueOptions
  <2>2. optimizationLevel(a.opt) = "O0"
    BY <1>5 DEF optimizationLevel, OptimizationFlags
  <2>. QED
    BY <1>1, <1>2, <1>3, <1>5, <2>1, <2>2 DEF SafetyFlags, optimizationOption
<1>6. CASE a.opt \in SafetyFlags
  <2>1. ReadOption(p, a) = safetyOption(p, a)
    BY <1>6 DEF ReadOption, ActionFlags, OptimizationFlags, SafetyFlags,
          ValueOptions, NativeValueOptions, CargoValueOptions
  <2>. QED
    BY <1>1, <1>2, <1>3, <1>6, <2>1 DEF SafetyFlags, safetyOption, ModeOf
<1>. QED
  BY <1>4, <1>5, <1>6

\* What holds of the parse after n arguments of a line of the extension.
AsPlanned(p, l, m, k, debug, n) ==
    /\ p.state # "shown"
    /\ p.state = "reading" =>
         /\ p.options.actions = {} /\ p.options.show = None
         /\ n < k => p.pending = None
         /\ n < Len(l) - 1 => p.pending # "-o"
         /\ n = Len(l) - 2 => p.pending = None
         /\ n = Len(l) - 1 => p.pending = "-o"
         /\ n = Len(l) => p.options.output = OutputPath
         /\ n >= k => p.options.safety = m
         /\ debug /\ n >= 1 => p.options.debug
         /\ debug /\ n >= 2 => p.options.optimization = "O0"

\* Whichever argument of a line of the extension hsc reads next, what the extension
\* meant with those read so far still holds.
LEMMA PlannedStep ==
  ASSUME NEW A, NEW p \in LineParses(A), NEW m \in {"unchecked", "static-checked", "checked"}, NEW l,
         NEW debug \in BOOLEAN, NEW k \in {1, 3}, Planned(l, m, k), debug => k = 3 /\ Debugged(l), ~debug => k = 1,
         NEW n \in 1 .. Len(l), AsPlanned(p, l, m, k, debug, n - 1)
  PROVE  AsPlanned(ReadArgument(p, l[n]), l, m, k, debug, n)
<1> DEFINE a == l[n]
           q == ReadArgument(p, a)
<1>0. Len(l) \in Nat /\ n \in Nat /\ n <= Len(l) /\ k + 3 <= Len(l) /\ n >= 1
  BY DEF Planned
<1>1. {"actions", "show", "safety", "debug", "optimization"} \subseteq Members
  BY DEF Members, DefaultOptions
<1>2. CASE p.state # "reading"
  BY <1>2 DEF ReadArgument, AsPlanned
<1>3. CASE p.state = "reading" /\ p.pending # None
  <2>1. /\ q.state = "reading" /\ q.pending = None
        /\ p.pending = "-o" => q.options.output = a
        /\ \A f \in Members \ {"output", "clang", "clangxx", "ext", "cargo"} : q.options[f] = p.options[f]
    BY <1>3, ValueFrame
  <2> HIDE DEF q
  <2>2. /\ p.options.actions = {} /\ p.options.show = None
        /\ n - 1 >= k /\ n # Len(l) - 1 /\ (n = Len(l) => p.pending = "-o")
        /\ p.options.safety = m
        /\ debug => p.options.debug
        /\ debug => p.options.optimization = "O0"
    BY <1>0, <1>3 DEF AsPlanned, None
  <2>3. n = Len(l) => q.options.output = OutputPath
    BY <2>1, <2>2 DEF Planned
  <2>4. /\ q.options.actions = {} /\ q.options.show = None /\ q.options.safety = m
        /\ debug => q.options.debug /\ q.options.optimization = "O0"
    BY <1>1, <2>1, <2>2
  <2>. QED
    BY <2>1, <2>2, <2>3, <2>4 DEF AsPlanned, None, q
<1>4. CASE p.state = "reading" /\ p.pending = None /\ Unknown(a)
  <2>1. q.state = "error"
    BY <1>4 DEF ReadArgument, Fails, LineParses
  <2> HIDE DEF q
  <2>. QED
    BY <2>1 DEF AsPlanned, q
<1>5. CASE p.state = "reading" /\ p.pending = None /\ ~Unknown(a)
  <2>1. q = ReadOption(p, a)
    BY <1>5 DEF ReadArgument
  <2>2. Frame(p, a, q)
    BY <1>5, <2>1, OptionFrame
  <2>3. /\ p.options.actions = {} /\ p.options.show = None /\ n # Len(l)
        /\ n - 1 >= k => p.options.safety = m
        /\ debug /\ n - 1 >= 1 => p.options.debug
        /\ debug /\ n - 1 >= 2 => p.options.optimization = "O0"
    BY <1>0, <1>5 DEF AsPlanned, None
  <2>4. /\ DOMAIN p.options = Members
        /\ p = [options |-> p.options, pending |-> None, state |-> "reading"]
    BY <1>5, OptionMembers DEF LineParses
  <2> HIDE DEF q
  <2>5. ASSUME a.opt \notin ActionFlags \cup SafetyFlags \cup {"-h", "--help", "--version"},
               n >= k, n = k => FALSE
        PROVE  /\ q.state \in {"reading", "error"}
               /\ q.state = "reading" => /\ q.options.actions = {} /\ q.options.show = None /\ q.options.safety = m
                                         /\ q.pending = IF a.opt \in ValueOptions THEN a.opt ELSE None
    <3>1. {"actions", "show", "safety"} \cap Fields(a.opt) = {}
      BY <2>5 DEF Fields
    <3>2. p.options.safety = m
      BY <1>0, <2>3, <2>5
    <3>. QED
      BY <1>1, <2>2, <2>3, <2>5, <3>1, <3>2 DEF Frame
  <2>6. CASE n < k
    <3>1. debug /\ k = 3 /\ n \in {1, 2} /\ a = IF n = 1 THEN Flag("-g") ELSE Flag("-O0")
      BY <1>0, <2>6 DEF Debugged
    <3>2. a.opt = (IF n = 1 THEN "-g" ELSE "-O0")
      BY <3>1 DEF Flag
    <3>3. /\ q.state = "reading"
          /\ n = 1 => q.options.debug
          /\ n = 2 => q.options.optimization = "O0"
      BY <1>5, <2>1, <3>1, <3>2, Written DEF Reading, q
    <3>4. /\ {"actions", "show"} \cap Fields(a.opt) = {}
          /\ n = 2 => "debug" \notin Fields(a.opt)
          /\ a.opt \notin ValueOptions
      BY <3>1, <3>2 DEF Fields, ActionFlags, SafetyFlags, OptimizationFlags,
                       ValueOptions, NativeValueOptions, CargoValueOptions
    <3>5. /\ q.pending = None /\ q.options.actions = {} /\ q.options.show = None
          /\ n = 2 => q.options.debug
      BY <1>1, <2>2, <2>3, <3>1, <3>3, <3>4 DEF Frame
    <3>6. n < Len(l) - 2 /\ n < 3
      BY <1>0, <3>1
    <3>. QED
      BY <1>0, <3>1, <3>3, <3>5, <3>6 DEF AsPlanned, None, q
  <2>7. CASE n = k
    <3>1. a = modeFlag(m)
      BY <2>7 DEF Planned
    <3>2. a.opt \in SafetyFlags /\ m = ModeOf(a.opt)
      BY <3>1 DEF modeFlag, Flag, SafetyFlags, ModeOf
    <3>3. q.state = "reading" /\ q.options.safety = m
      BY <1>5, <2>1, <3>2, Written DEF Reading
    <3>4. {"actions", "show", "debug", "optimization"} \cap Fields(a.opt) = {} /\ a.opt \notin ValueOptions
      BY <3>2 DEF Fields, ActionFlags, SafetyFlags, OptimizationFlags,
                  ValueOptions, NativeValueOptions, CargoValueOptions
    <3>5. /\ q.pending = None /\ q.options.actions = {} /\ q.options.show = None
          /\ q.options.debug = p.options.debug /\ q.options.optimization = p.options.optimization
      BY <1>1, <2>2, <2>3, <3>3, <3>4 DEF Frame
    <3>6. debug => p.options.debug /\ p.options.optimization = "O0"
      BY <1>0, <2>3, <2>7
    <3>. QED
      BY <1>0, <2>7, <3>3, <3>5, <3>6 DEF AsPlanned, None, q
  <2>8. CASE n > k /\ n <= Len(l) - 3
    <3>1. Allowed(a)
      BY <1>0, <2>8 DEF Planned
    <3>2. a.opt \notin CONTROLLED_ARGUMENTS
      BY <1>5, <3>1 DEF Allowed, Unknown, CONTROLLED_ARGUMENTS, EqualsOptions
    <3>3. /\ a.opt \notin ActionFlags \cup SafetyFlags \cup {"-h", "--help", "--version"}
          /\ a.opt # "-o"
      BY <3>2 DEF CONTROLLED_ARGUMENTS, ActionFlags, SafetyFlags
    <3>4. /\ q.state \in {"reading", "error"}
          /\ q.state = "reading" => /\ q.options.actions = {} /\ q.options.show = None /\ q.options.safety = m
                                    /\ q.pending = IF a.opt \in ValueOptions THEN a.opt ELSE None
      BY <1>0, <2>5, <2>8, <3>3
    <3>5. ASSUME debug, q.state = "reading" PROVE q.options.debug /\ q.options.optimization = "O0"
      <4>1. p.options.debug /\ p.options.optimization = "O0"
        BY <1>0, <2>3, <2>8, <3>5
      <4>2. a.opt \notin OptimizationFlags
        <5>1. ~Dropped(a)
          BY <1>0, <2>8, <3>5 DEF Debugged
        <5>2. a.val # None => a.opt \in EqualsOptions \cup {"input"}
          BY <1>5 DEF Unknown
        <5>. QED
          BY <5>1, <5>2 DEF Dropped, EqualsOptions, OptimizationFlags
      <4>3. CASE a.opt = "-g"
        <5>1. q.options.debug
          BY <1>5, <2>1, <4>3, Written DEF Reading
        <5>2. "optimization" \notin Fields(a.opt)
          BY <4>2, <4>3 DEF Fields, ActionFlags, SafetyFlags
        <5>. QED
          BY <1>1, <2>2, <3>5, <4>1, <5>1, <5>2 DEF Frame
      <4>4. CASE a.opt # "-g"
        <5>1. {"debug", "optimization"} \cap Fields(a.opt) = {}
          BY <4>2, <4>4 DEF Fields
        <5>. QED
          BY <1>1, <2>2, <3>5, <4>1, <5>1 DEF Frame
      <4>. QED
        BY <4>3, <4>4
    <3>. QED
      BY <1>0, <2>8, <3>3, <3>4, <3>5 DEF AsPlanned, None, q
  <2>9. CASE n = Len(l) - 2 \/ n = Len(l) - 1
    <3>1. a.opt = IF n = Len(l) - 2 THEN "input" ELSE "-o"
      BY <1>0, <2>9 DEF Planned, Source, Flag, Input
    <3>2. n > k
      BY <1>0, <2>9
    <3>3. /\ q.state \in {"reading", "error"}
          /\ q.state = "reading" => /\ q.options.actions = {} /\ q.options.show = None /\ q.options.safety = m
                                    /\ q.pending = IF n = Len(l) - 2 THEN None ELSE "-o"
      BY <1>0, <2>5, <2>9, <3>1, <3>2 DEF ActionFlags, SafetyFlags, ValueOptions,
         NativeValueOptions, CargoValueOptions
    <3>4. ASSUME debug, q.state = "reading" PROVE q.options.debug /\ q.options.optimization = "O0"
      <4>1. p.options.debug /\ p.options.optimization = "O0"
        BY <1>0, <2>3, <3>2, <3>4
      <4>2. {"debug", "optimization"} \cap Fields(a.opt) = {}
        BY <3>1 DEF Fields, ActionFlags, SafetyFlags, OptimizationFlags
      <4>. QED
        BY <1>1, <2>2, <3>4, <4>1, <4>2 DEF Frame
    <3>. QED
      BY <1>0, <2>9, <3>2, <3>3, <3>4 DEF AsPlanned, None, q
  <2>. QED
    BY <1>0, <2>3, <2>6, <2>7, <2>8, <2>9
<1>6. p.state \in {"reading", "shown", "error"}
  BY DEF LineParses
<1>. QED
  BY <1>2, <1>3, <1>4, <1>5

-----------------------------------------------------------------------------
(* buildCargoStaticLibrary, for every set of projects and every set of     *)
(* outputs that cargo may print, of any length.                            *)

CargoPhases == {"begin", "fork_metadata", "wait_metadata", "check_metadata", "fork_build",
                "wait_build", "check_build", "parse", "returned"}
CargoEndedWell == [launched |-> TRUE, code |-> 0]
CargoOutputs == Seq(Cargo!Messages \cup {"metadata"})

\* The values of the variables, and what is gone when the call has returned.
CargoShape ==
    /\ phase \in CargoPhases /\ cargoTemp \in {"none", "there", "removed"}
    /\ \/ cargoChild = Cargo!NoChild
       \/ /\ cargoChild \in [task : Cargo!Tasks, state : {"forked", "redirected", "running", "ended"}, code : Int]
          /\ phase = Cargo!Waiting[cargoChild.task]
    /\ file \in [Cargo!Tasks -> CargoOutputs] /\ waited \in [launched : BOOLEAN, code : Int]
    /\ cargoNext \in Nat \ {0} /\ linked \in Nat /\ archive \in {Cargo!None, "archive1", "archive2"}
    /\ result \in {Cargo!None, "error", "archive1", "archive2"}
    /\ phase # "returned" => result = Cargo!None
    /\ phase = "returned" => cargoTemp # "there"

\* What is known of the two processes at each point of the call: cargo build
\* is started after cargo metadata ended well, and a cargo build that ended
\* with code 0 has printed one whole output.
CargoProgress ==
    /\ phase = "fork_build" => file["metadata"] # << >> /\ waited = CargoEndedWell
    /\ cargoChild.task = "build" /\ cargoChild.state = "ended" /\ cargoChild.code = 0
         => file["build"] \in Outputs
    /\ phase = "check_build" /\ waited = CargoEndedWell => file["build"] \in Outputs
    /\ phase = "parse" => waited = CargoEndedWell /\ file["build"] \in Outputs
    /\ phase \notin {"parse", "returned"} => cargoNext = 1 /\ archive = Cargo!None /\ linked = 0

\* What the first n messages m have left behind: one archive or none, two
\* requirements for each build script, and nothing that stops the reading.
ReadUpTo(m, n, a, l) ==
    /\ \A i \in 1 .. n : /\ m[i] \notin {"nofile", "badscript"}
                         /\ m[i] \in {"archive1", "archive2"} => a = m[i]
    /\ a # Cargo!None => \E i \in 1 .. n : m[i] = a
    /\ l = 2 * Cardinality({i \in 1 .. n : m[i] = "script"})

CargoMessagesRead ==
    phase = "parse" => /\ cargoNext <= Len(file["build"]) + 1
                       /\ ReadUpTo(file["build"], cargoNext - 1, archive, linked)

\* The inductive invariant: LibraryIsTheBuilds is about a call that has
\* returned, the rest follows the call up to there.
CargoInv == CargoShape /\ CargoProgress /\ CargoMessagesRead /\ Cargo!LibraryIsTheBuilds

\* Before the first message nothing has been found.
LEMMA NothingRead == ASSUME NEW m PROVE ReadUpTo(m, 0, Cargo!None, 0)
<1>1. {i \in 1 .. 0 : m[i] = "script"} = {}
  OBVIOUS
<1>. QED
  BY <1>1, FS_EmptySet DEF ReadUpTo

\* One message more: what parseCargoOutput adds for it.
LEMMA ReadOneMore ==
    ASSUME NEW m, NEW n \in Nat \ {0}, NEW a, NEW l \in Nat, ReadUpTo(m, n - 1, a, l),
           NEW b, NEW k,
           \/ /\ m[n] \in {"archive1", "archive2"} /\ a \in {Cargo!None, m[n]} /\ b = m[n] /\ k = l
           \/ m[n] = "script" /\ b = a /\ k = l + 2
           \/ m[n] \in {"text", "diagnostic", "rlib"} /\ b = a /\ k = l
    PROVE  ReadUpTo(m, n, b, k)
<1> DEFINE Scripts(j) == {i \in 1 .. j : m[i] = "script"}
<1>1. IsFiniteSet(Scripts(n - 1)) /\ Cardinality(Scripts(n - 1)) \in Nat
  <2>1. IsFiniteSet(1 .. (n - 1))
    BY FS_Interval
  <2>. QED
    BY <2>1, FS_Subset, FS_CardinalityType
<1>2. m[n] = "script" => Scripts(n) = Scripts(n - 1) \cup {n}
  OBVIOUS
<1>3. m[n] # "script" => Scripts(n) = Scripts(n - 1)
  OBVIOUS
<1>4. n \notin Scripts(n - 1)
  OBVIOUS
<1>5. m[n] = "script" => Cardinality(Scripts(n)) = Cardinality(Scripts(n - 1)) + 1
  BY <1>1, <1>2, <1>4, FS_AddElement
<1>6. l = 2 * Cardinality(Scripts(n - 1))
  BY DEF ReadUpTo
<1>7. k = 2 * Cardinality(Scripts(n))
  <2> HIDE DEF Scripts
  <2>. QED
    BY <1>1, <1>3, <1>5, <1>6
<1>8. \A i \in 1 .. n : i = n \/ i \in 1 .. (n - 1)
  OBVIOUS
<1>9. \A i \in 1 .. n : /\ m[i] \notin {"nofile", "badscript"}
                        /\ m[i] \in {"archive1", "archive2"} => b = m[i]
  BY <1>8 DEF ReadUpTo, Cargo!None
<1>10. b # Cargo!None => \E i \in 1 .. n : m[i] = b
  <2>1. \A i \in 1 .. (n - 1) : i \in 1 .. n
    OBVIOUS
  <2>. QED
    BY <2>1 DEF ReadUpTo, Cargo!None
<1>. QED
  BY <1>7, <1>9, <1>10 DEF ReadUpTo

\* The names of the points at which a task is forked, waited for and checked.
LEMMA PointNames ==
    /\ Cargo!Forking["metadata"] = "fork_metadata" /\ Cargo!Forking["build"] = "fork_build"
    /\ Cargo!Waiting["metadata"] = "wait_metadata" /\ Cargo!Waiting["build"] = "wait_build"
    /\ Cargo!Checking["metadata"] = "check_metadata" /\ Cargo!Checking["build"] = "check_build"
BY DEF Cargo!Forking, Cargo!Waiting, Cargo!Checking

\* What runProcess returns is a result.
LEMMA WaitResults ==
    /\ Cargo!NoWait \in [launched : BOOLEAN, code : Int]
    /\ \A c \in Int : [launched |-> TRUE, code |-> c] \in [launched : BOOLEAN, code : Int]
BY DEF Cargo!NoWait

\* The call begins with no process and no output.
LEMMA CargoInvInit == Cargo!Init => CargoInv
BY DEF Cargo!Init, CargoInv, CargoShape, CargoProgress, CargoMessagesRead, Cargo!LibraryIsTheBuilds,
   CargoPhases, Cargo!Tasks, CargoOutputs,
       Cargo!None, Cargo!NoChild, Cargo!NoWait

\* resolveCargo, the manifest and the temporary directory.
LEMMA BeginKeeps == CargoInv /\ Cargo!Begin => CargoInv'
<1> SUFFICES ASSUME CargoInv, Cargo!Begin PROVE CargoInv'
  OBVIOUS
<1>1. CargoShape' /\ result' \in {Cargo!None, "error"}
  BY PointNames DEF CargoInv, CargoShape, Cargo!Begin, Cargo!Return, CargoPhases, Cargo!Tasks,
     Cargo!reading, Cargo!None, Cargo!NoChild
<1>2. CargoProgress' /\ CargoMessagesRead'
  BY PointNames DEF CargoInv, CargoShape, CargoProgress, CargoMessagesRead, Cargo!Begin,
     Cargo!Return, Cargo!reading, Cargo!NoChild, Cargo!None,
                    Cargo!Tasks
<1>. QED
  BY <1>1, <1>2 DEF CargoInv, Cargo!LibraryIsTheBuilds

\* fork, which may fail.
LEMMA ForkKeeps == ASSUME CargoInv, NEW t \in Cargo!Tasks, Cargo!Fork(t) PROVE CargoInv'
<1>1. phase = Cargo!Forking[t] /\ phase \notin {"parse", "returned"} /\ cargoChild = Cargo!NoChild
  BY PointNames DEF CargoInv, CargoShape, Cargo!Fork, Cargo!Tasks
<1>2. CargoShape' /\ result' = Cargo!None
  BY <1>1, PointNames, WaitResults DEF CargoInv, CargoShape, Cargo!Fork, Cargo!Continue,
     CargoPhases, Cargo!Tasks, Cargo!reading, Cargo!None
<1>3. CargoProgress' /\ CargoMessagesRead'
  BY <1>1, PointNames DEF CargoInv, CargoShape, CargoProgress, CargoMessagesRead, Cargo!Fork,
     Cargo!Continue, Cargo!reading, Cargo!NoChild,
                          Cargo!None, Cargo!Tasks, CargoEndedWell, Cargo!NoWait
<1>. QED
  BY <1>2, <1>3 DEF CargoInv, Cargo!LibraryIsTheBuilds

\* A step of the child process: the call waits for it.
LEMMA ChildKeeps ==
    ASSUME Cargo!CargoAssumption, CargoInv, Cargo!Redirect \/ Cargo!Execute \/ Cargo!RunCargo PROVE CargoInv'
<1>1. /\ cargoChild \in [task : Cargo!Tasks, state : {"forked", "redirected", "running", "ended"}, code : Int]
      /\ phase = Cargo!Waiting[cargoChild.task] /\ phase \notin {"check_build", "fork_build", "parse", "returned"}
      /\ result = Cargo!None
  BY PointNames DEF CargoInv, CargoShape, Cargo!Redirect, Cargo!Execute, Cargo!RunCargo,
     Cargo!NoChild, Cargo!Tasks
<1> DEFINE Live == [task : Cargo!Tasks, state : {"forked", "redirected", "running", "ended"}, code : Int]
<1>2. /\ cargoChild' \in Live /\ cargoChild'.task = cargoChild.task
      /\ UNCHANGED cargoChild \/ cargoChild'.state # "ended" \/ cargoChild'.code # 0 \/ (Cargo!RunCargo /\ UNCHANGED file)
  <2>1. /\ [cargoChild EXCEPT !.state = "redirected"] \in Live
        /\ [cargoChild EXCEPT !.state = "redirected"].task = cargoChild.task
        /\ [cargoChild EXCEPT !.state = "redirected"].state = "redirected"
        /\ [cargoChild EXCEPT !.state = "running"] \in Live
        /\ [cargoChild EXCEPT !.state = "running"].task = cargoChild.task
        /\ [cargoChild EXCEPT !.state = "running"].state = "running"
    BY <1>1
  <2>2. ASSUME NEW code \in {126, 127, 0, 101, 137}, Cargo!Exits(code)
        PROVE  cargoChild' \in Live /\ cargoChild'.task = cargoChild.task /\ cargoChild'.code = code
    BY <1>1, <2>2 DEF Cargo!Exits
  <2>3. CASE Cargo!Redirect
    BY <2>1, <2>2, <2>3 DEF Cargo!Redirect
  <2>4. CASE Cargo!Execute
    BY <2>1, <2>2, <2>4 DEF Cargo!Execute
  <2>5. CASE Cargo!RunCargo
    BY <2>2, <2>5, <1>1 DEF Cargo!RunCargo
  <2>. QED
    BY <2>3, <2>4, <2>5
<1>3. UNCHANGED <<project, phase, cargoTemp, waited, forwarded, cargoNext, archive, linked, result>>
  BY DEF Cargo!Redirect, Cargo!Execute, Cargo!RunCargo, Cargo!reading
<1>4. /\ file' \in [Cargo!Tasks -> CargoOutputs]
      /\ cargoChild'.task = "build" /\ cargoChild'.state = "ended" /\ cargoChild'.code = 0 => file'["build"] \in Outputs
  <2>1. CASE Cargo!Redirect \/ Cargo!Execute
    <3>1. UNCHANGED file /\ (cargoChild'.state = "ended" => cargoChild'.code # 0)
      BY <2>1, <1>1 DEF Cargo!Redirect, Cargo!Execute, Cargo!Exits
    <3>. QED
      BY <3>1 DEF CargoInv, CargoShape
  <2>2. CASE Cargo!RunCargo
    <3>1. CASE UNCHANGED file /\ cargoChild'.code = 137
      BY <3>1, <1>1 DEF CargoInv, CargoShape
    <3>2. ASSUME NEW o \in IF cargoChild.task = "build" THEN Outputs ELSE {<<"metadata">>},
                 file' = [file EXCEPT ![cargoChild.task] = SubSeq(o, 1, Len(@) + 1)], UNCHANGED cargoChild,
                 Cargo!IsPrefix(file[cargoChild.task], o), file[cargoChild.task] # o
          PROVE  /\ file' \in [Cargo!Tasks -> CargoOutputs]
                 /\ cargoChild'.state # "ended"
      <4>1. o \in CargoOutputs
        <5>1. <<"metadata">> \in CargoOutputs
          BY DEF CargoOutputs
        <5>2. \A q \in Seq(Cargo!Messages) : q \in CargoOutputs
          BY DEF CargoOutputs
        <5>. QED
          BY <5>1, <5>2 DEF Cargo!CargoAssumption
      <4>2. file[cargoChild.task] \in CargoOutputs
        BY <1>1 DEF CargoInv, CargoShape
      <4>3. SubSeq(o, 1, Len(file[cargoChild.task]) + 1) \in CargoOutputs
        BY <4>1, <4>2, <3>2 DEF CargoOutputs, Cargo!IsPrefix
      <4>. QED
        BY <1>1, <2>2, <3>2, <4>3 DEF CargoInv, CargoShape, Cargo!RunCargo
    <3>3. ASSUME NEW o \in IF cargoChild.task = "build" THEN Outputs ELSE {<<"metadata">>},
                 file[cargoChild.task] = o, UNCHANGED file
          PROVE  /\ file' \in [Cargo!Tasks -> CargoOutputs]
                 /\ cargoChild.task = "build" => file'["build"] \in Outputs
      BY <3>3 DEF CargoInv, CargoShape
    <3>4. Cargo!Exits(128 + 9) => cargoChild'.code = 137
      BY <1>1 DEF Cargo!Exits
    <3>. QED
      BY <1>1, <1>2, <2>2, <3>1, <3>2, <3>3, <3>4 DEF Cargo!RunCargo
  <2>. QED
    BY <2>1, <2>2
<1>5. CargoShape'
  BY <1>1, <1>2, <1>3, <1>4 DEF CargoInv, CargoShape
<1>6. CargoProgress'
  <2>1. phase' = phase /\ phase \notin {"check_build", "fork_build", "parse", "returned"}
    BY <1>1, <1>3
  <2>. QED
    BY <2>1, <1>3, <1>4 DEF CargoInv, CargoProgress
<1>7. CargoMessagesRead'
  BY <1>1, <1>3 DEF CargoMessagesRead
<1>. QED
  BY <1>1, <1>3, <1>5, <1>6, <1>7 DEF CargoInv, Cargo!LibraryIsTheBuilds

\* waitpid takes the exit code of the child away with it.
LEMMA WaitKeeps == ASSUME CargoInv, NEW t \in Cargo!Tasks, Cargo!WaitPid(t) PROVE CargoInv'
<1>1. /\ cargoChild \in [task : Cargo!Tasks, state : {"forked", "redirected", "running", "ended"}, code : Int]
      /\ phase = Cargo!Waiting[cargoChild.task] /\ cargoChild.task = t /\ result = Cargo!None
  BY PointNames DEF CargoInv, CargoShape, Cargo!WaitPid, Cargo!NoChild, Cargo!Tasks
<1>2. CargoShape' /\ result' = Cargo!None
  BY <1>1, PointNames, WaitResults DEF CargoInv, CargoShape, Cargo!WaitPid, Cargo!Continue,
     CargoPhases, Cargo!Tasks, Cargo!reading
<1>3. CargoProgress' /\ CargoMessagesRead'
  BY <1>1, PointNames DEF CargoInv, CargoShape, CargoProgress, CargoMessagesRead, Cargo!WaitPid,
     Cargo!Continue, Cargo!reading, Cargo!NoChild,
                          Cargo!None, Cargo!Tasks, CargoEndedWell, Cargo!NoWait
<1>. QED
  BY <1>2, <1>3 DEF CargoInv, Cargo!LibraryIsTheBuilds

\* The results of the two processes are looked at.
LEMMA CheckKeeps == CargoInv /\ (Cargo!validateCargoManifest \/ Cargo!checkBuild) => CargoInv'
<1> SUFFICES ASSUME CargoInv, Cargo!validateCargoManifest \/ Cargo!checkBuild PROVE CargoInv'
  OBVIOUS
<1>1. phase \in {"check_metadata", "check_build"} /\ cargoChild = Cargo!NoChild /\ result = Cargo!None
  BY PointNames DEF CargoInv, CargoShape, Cargo!validateCargoManifest, Cargo!checkBuild, Cargo!Tasks
<1>2. /\ phase' \in {"fork_build", "parse", "returned"} /\ result' \in {Cargo!None, "error"}
      /\ phase' # "returned" => result' = Cargo!None
      /\ phase' = "returned" => cargoTemp' # "there"
      /\ cargoTemp' \in {"none", "there", "removed"}
      /\ UNCHANGED <<cargoChild, file, waited, cargoNext, archive, linked>>
  BY <1>1 DEF CargoInv, CargoShape, Cargo!validateCargoManifest, Cargo!checkBuild, Cargo!Return,
     Cargo!Continue, Cargo!reading, Cargo!None
<1>3. CargoShape'
  BY <1>1, <1>2 DEF CargoInv, CargoShape, CargoPhases
<1>4. phase' = "fork_build" => file["metadata"] # << >> /\ waited = CargoEndedWell
  BY <1>1 DEF CargoInv, CargoShape, Cargo!validateCargoManifest, Cargo!checkBuild, Cargo!Return,
     Cargo!Continue, CargoEndedWell
<1>5. phase' = "parse" => phase = "check_build" /\ waited = CargoEndedWell
  BY <1>1 DEF Cargo!validateCargoManifest, Cargo!checkBuild, Cargo!Return, Cargo!Continue, CargoEndedWell
<1>6. CargoProgress'
  BY <1>1, <1>2, <1>4, <1>5 DEF CargoInv, CargoProgress, Cargo!NoChild, Cargo!None
<1>7. CargoMessagesRead'
  <2>1. phase' = "parse" => file["build"] \in CargoOutputs /\ cargoNext' - 1 = 0 /\ archive' = Cargo!None /\ linked' = 0
    BY <1>1, <1>2 DEF CargoInv, CargoShape, CargoProgress, Cargo!Tasks
  <2>2. phase' = "parse" => cargoNext' <= Len(file["build"]) + 1
    BY <2>1, <1>1, <1>2 DEF CargoOutputs, CargoInv, CargoProgress
  <2>. QED
    BY <1>2, <2>1, <2>2, NothingRead DEF CargoMessagesRead
<1>. QED
  BY <1>2, <1>3, <1>6, <1>7 DEF CargoInv, Cargo!LibraryIsTheBuilds

\* One message of the output is read.
LEMMA MessageKeeps == ASSUME Cargo!CargoAssumption, CargoInv, Cargo!parseMessage PROVE CargoInv'
<1> DEFINE m == file["build"]
<1>1. /\ phase = "parse" /\ cargoChild = Cargo!NoChild /\ result = Cargo!None /\ cargoNext \in Nat \ {0} /\ linked \in Nat
      /\ cargoNext <= Len(m) /\ m \in Outputs /\ m \in Seq(Cargo!Messages) /\ m[cargoNext] \in Cargo!Messages
      /\ waited = CargoEndedWell /\ archive \in {Cargo!None, "archive1", "archive2"}
      /\ ReadUpTo(m, cargoNext - 1, archive, linked)
  BY PointNames DEF CargoInv, CargoShape, CargoProgress, CargoMessagesRead, Cargo!parseMessage,
     Cargo!CargoAssumption, Cargo!Tasks
<1>2. UNCHANGED <<cargoChild, file, waited>>
  BY DEF Cargo!parseMessage
<1>3. CASE phase' = "returned"
  <2>1. /\ result' = "error" /\ cargoTemp' \in {"none", "there", "removed"} /\ cargoTemp' # "there"
        /\ UNCHANGED <<archive, linked, cargoNext>>
    BY <1>1, <1>3 DEF CargoInv, CargoShape, Cargo!parseMessage, Cargo!parseArtifact,
       Cargo!parseScript, Cargo!Return, Cargo!Continue
  <2>2. CargoShape'
    BY <1>1, <1>2, <1>3, <2>1 DEF CargoInv, CargoShape, CargoPhases
  <2>3. CargoProgress' /\ CargoMessagesRead'
    BY <1>1, <1>2, <1>3 DEF CargoProgress, CargoMessagesRead, Cargo!NoChild
  <2>. QED
    BY <2>1, <2>2, <2>3 DEF CargoInv, Cargo!LibraryIsTheBuilds
<1>4. CASE phase' # "returned"
  <2>1. /\ phase' = "parse" /\ UNCHANGED <<result, cargoTemp>> /\ cargoNext' = cargoNext + 1
        /\ \/ /\ m[cargoNext] \in {"archive1", "archive2"} /\ archive \in {Cargo!None, m[cargoNext]}
              /\ archive' = m[cargoNext] /\ linked' = linked
           \/ m[cargoNext] = "script" /\ archive' = archive /\ linked' = linked + 2
           \/ m[cargoNext] \in {"text", "diagnostic", "rlib"} /\ archive' = archive /\ linked' = linked
    BY <1>1, <1>4 DEF Cargo!parseMessage, Cargo!parseArtifact, Cargo!parseScript, Cargo!Return,
       Cargo!Continue
  <2>2. ReadUpTo(m, cargoNext, archive', linked')
    BY <1>1, <2>1, ReadOneMore
  <2>3. cargoNext' - 1 = cargoNext /\ cargoNext' <= Len(m) + 1 /\ cargoNext' \in Nat \ {0} /\ linked' \in Nat
    BY <1>1, <2>1
  <2>4. CargoShape'
    BY <1>1, <1>2, <2>1, <2>3 DEF CargoInv, CargoShape, CargoPhases
  <2>5. CargoProgress' /\ CargoMessagesRead'
    BY <1>1, <1>2, <2>1, <2>2, <2>3 DEF CargoProgress, CargoMessagesRead, Cargo!NoChild
  <2>. QED
    BY <1>1, <2>1, <2>4, <2>5 DEF CargoInv, Cargo!LibraryIsTheBuilds
<1>. QED
  BY <1>3, <1>4

\* The number of messages of a kind in the output is that of its positions.
LEMMA Counted ==
    ASSUME NEW S PROVE Cargo!Count(S) = Cardinality({i \in DOMAIN file["build"] : file["build"][i] \in S})
BY DEF Cargo!Count, Cargo!Cardinality, Cardinality

\* After the last message the archive is the only one of the output, and the
\* count of the scripts is that of the whole output.
LEMMA TakeKeeps == ASSUME Cargo!CargoAssumption, CargoInv, Cargo!takeArchive PROVE CargoInv'
<1> DEFINE m == file["build"]
<1>1. /\ phase = "parse" /\ cargoChild = Cargo!NoChild /\ cargoNext \in Nat \ {0}
      /\ cargoNext = Len(m) + 1 /\ m \in Outputs /\ m \in Seq(Cargo!Messages)
      /\ waited = CargoEndedWell /\ archive \in {Cargo!None, "archive1", "archive2"}
      /\ ReadUpTo(m, cargoNext - 1, archive, linked)
  BY PointNames DEF CargoInv, CargoShape, CargoProgress, CargoMessagesRead, Cargo!takeArchive,
     Cargo!CargoAssumption, Cargo!Tasks
<1>2. /\ phase' = "returned" /\ UNCHANGED <<cargoChild, file, waited, cargoNext, archive, linked>>
      /\ cargoTemp' \in {"none", "there", "removed"} /\ cargoTemp' # "there"
      /\ result' \in {"error", archive} /\ (result' = archive => archive # Cargo!None)
  BY <1>1 DEF CargoInv, CargoShape, Cargo!takeArchive, Cargo!Return, Cargo!reading, Cargo!None
<1>3. CargoShape' /\ CargoProgress' /\ CargoMessagesRead'
  BY <1>1, <1>2 DEF CargoInv, CargoShape, CargoPhases, CargoProgress, CargoMessagesRead, Cargo!NoChild
<1>4. Cargo!LibraryIsTheBuilds'
  <2> SUFFICES ASSUME result' \notin {Cargo!None, "error"}
               PROVE  /\ waited = CargoEndedWell /\ m \in Outputs
                      /\ {x \in ToSet(m) : x \in {"archive1", "archive2", "nofile"}} = {result'}
                      /\ linked = 2 * Cargo!Count({"script"}) /\ Cargo!Count({"badscript"}) = 0
    BY <1>2 DEF Cargo!LibraryIsTheBuilds, CargoEndedWell, Cargo!Count, Cargo!ToSet, ToSet
  <2>1. result' = archive /\ archive \in {"archive1", "archive2"} /\ DOMAIN m = 1 .. (cargoNext - 1)
    BY <1>1, <1>2 DEF Cargo!None
  <2>2. {x \in ToSet(m) : x \in {"archive1", "archive2", "nofile"}} = {archive}
    BY <1>1, <2>1 DEF ReadUpTo, ToSet, Cargo!None
  <2>3. {i \in DOMAIN m : m[i] \in {"badscript"}} = {}
    BY <1>1, <2>1 DEF ReadUpTo
  <2>4. {i \in DOMAIN m : m[i] \in {"script"}} = {i \in 1 .. (cargoNext - 1) : m[i] = "script"}
    BY <2>1
  <2>. QED
    BY <1>1, <2>1, <2>2, <2>3, <2>4, FS_EmptySet, Counted DEF ReadUpTo
<1>. QED
  BY <1>3, <1>4 DEF CargoInv

\* Every step of the call and of its processes.
LEMMA CargoInvStep == ASSUME Cargo!CargoAssumption, CargoInv, [Cargo!Next]_(Cargo!vars) PROVE CargoInv'
<1>1. CASE UNCHANGED Cargo!vars
  BY <1>1 DEF Cargo!vars, CargoInv, CargoShape, CargoProgress, CargoMessagesRead,
     Cargo!LibraryIsTheBuilds, Cargo!Count
<1>. QED
  BY <1>1, BeginKeeps, ForkKeeps, ChildKeeps, WaitKeeps, CheckKeeps, MessageKeeps,
     TakeKeeps DEF Cargo!Next

\* The invariant says where a child process can be.
LEMMA CargoInvType == CargoInv => Cargo!TypeOK
BY PointNames DEF CargoInv, CargoShape, Cargo!TypeOK, Cargo!NoChild, Cargo!Tasks

\* The step that starts cargo build is the fork after the check of cargo metadata.
LEMMA BuildStarted == ASSUME CargoInv, [Cargo!Next]_(Cargo!vars) PROVE Cargo!BuildsAfterMetadata
<1> SUFFICES ASSUME cargoChild.task # "build", cargoChild'.task = "build"
             PROVE  file["metadata"] # << >> /\ waited = [launched |-> TRUE, code |-> 0]
  BY DEF Cargo!BuildsAfterMetadata
<1>1. Cargo!Fork("build")
  <2>1. cargoChild' # cargoChild /\ cargoChild' # Cargo!NoChild
    BY DEF Cargo!NoChild, Cargo!None
  <2>2. ~(Cargo!Redirect \/ Cargo!Execute \/ Cargo!RunCargo)
    BY DEF Cargo!Redirect, Cargo!Execute, Cargo!RunCargo, Cargo!Exits, CargoInv, CargoShape, Cargo!NoChild
  <2>3. \A t \in Cargo!Tasks : Cargo!Fork(t) => t = "build"
    BY <2>1 DEF Cargo!Fork
  <2>. QED
    BY <2>1, <2>2, <2>3 DEF Cargo!Next, Cargo!vars, Cargo!Begin, Cargo!WaitPid,
       Cargo!validateCargoManifest, Cargo!checkBuild,
                            Cargo!parseMessage, Cargo!takeArchive
<1>. QED
  BY <1>1, PointNames DEF Cargo!Fork, CargoInv, CargoProgress, CargoEndedWell

\* Inside the driver's specification the other parts leave the call of Cargo alone.
CargoPart == IF part = "cargo" THEN CargoInv ELSE CargoIdle

\* A call of Cargo keeps its invariant, and the other parts do not touch it
\* (buildCargoStaticLibrary).
THEOREM CargoInvariance == Spec => []CargoPart
<1>0. Cargo!CargoAssumption
  BY PartsAssumption
<1>1. Init => CargoPart
  BY CargoInvInit DEF Init, CargoPart
<1>2. CargoPart /\ [Next]_mcVars => CargoPart'
  <2>. SUFFICES ASSUME CargoPart, [Next]_mcVars PROVE CargoPart'
    OBVIOUS
  <2>1. CASE part = "cargo"
    <3>1. CargoInv /\ [Cargo!Next]_(Cargo!vars) /\ part' = part
      BY <2>1 DEF CargoPart, Next, LineStep, PlanStep, BuildStep, CargoStep, QuoteStep, Finished,
                  mcVars, cargoVars, Cargo!vars
    <3>2. CargoInv'
      BY <1>0, <3>1, CargoInvStep
    <3>. QED
      BY <2>1, <3>1, <3>2 DEF CargoPart
  <2>2. CASE part # "cargo"
    <3>1. part' = part /\ UNCHANGED cargoVars
      BY <2>2 DEF Next, LineStep, PlanStep, BuildStep, CargoStep, QuoteStep, Finished, mcVars
    <3>. QED
      BY <2>2, <3>1 DEF CargoPart, CargoIdle, cargoVars, Cargo!NoChild, Cargo!NoWait
  <2>. QED
    BY <2>1, <2>2
<1>. QED
  BY <1>1, <1>2, PTL DEF Spec

\* While hsc is between two tasks there is no child, and a call that has
\* returned leaves neither a process nor a temporary directory (runProcess,
\* TemporaryDirectory).
THEOREM CargoTypeCorrect == Spec => []Cargo!TypeOK
<1>1. CargoPart => Cargo!TypeOK
  BY CargoInvType DEF CargoPart, CargoIdle, Cargo!TypeOK, Cargo!None, None, Cargo!NoChild
<1>. QED
  BY <1>1, CargoInvariance, PTL

\* A library that is returned comes from a cargo that ended with code 0, is the
\* only one of its output, and has with it what every build script asked for,
\* whatever messages cargo prints (parseCargoOutput): the first conjunct of
\* CargoDelivers.
THEOREM LibraryIsBuilt == Spec => []Cargo!LibraryIsTheBuilds
<1>1. CargoPart => Cargo!LibraryIsTheBuilds
  BY DEF CargoPart, CargoInv, CargoIdle, Cargo!LibraryIsTheBuilds, Cargo!None, None
<1>. QED
  BY <1>1, CargoInvariance, PTL

\* cargo build is only started after cargo metadata has ended well
\* (validateCargoManifest): the second conjunct of CargoDelivers.
THEOREM MetadataFirst == Spec => [][part = "cargo" => Cargo!BuildsAfterMetadata]_mcVars
<1>1. ASSUME CargoPart, [Next]_mcVars, part = "cargo" PROVE Cargo!BuildsAfterMetadata
  <2>1. CargoInv /\ [Cargo!Next]_(Cargo!vars)
    BY <1>1 DEF CargoPart, Next, LineStep, PlanStep, BuildStep, CargoStep, QuoteStep, Finished,
                mcVars, cargoVars, Cargo!vars
  <2>. QED
    BY <2>1, BuildStarted
<1>2. CargoPart /\ [Next]_mcVars => [part = "cargo" => Cargo!BuildsAfterMetadata]_mcVars
  BY <1>1
<1>. QED
  BY <1>2, CargoInvariance, PTL DEF Spec

-----------------------------------------------------------------------------
(* The command line of a started program: the text that is scanned is the  *)
(* line that quoteWindowsArgument has written so far, one character after  *)
(* another; what the scan has read is the arguments before and the written *)
(* part of the one that is quoted.                                         *)

\* The states of the scan.
ScanStates ==
    [args : Seq(Seq(Windows!Chars)), text : Seq(Windows!Chars),
     begun : BOOLEAN, quoted : BOOLEAN, slashes : Nat]

\* n times the same character.
LEMMA TimesOf ==
  ASSUME NEW S, NEW c \in S
  PROVE  /\ Windows!Times(c, 0) = << >>
         /\ \A n \in Nat : /\ Windows!Times(c, n) \in Seq(S)
                           /\ Windows!Times(c, n + 1) = Windows!Times(c, n) \o <<c>>
<1>1. Windows!Times(c, 0) = << >>
  BY DEF Windows!Times
<1>2. ASSUME NEW n \in Nat
      PROVE  /\ Windows!Times(c, n) \in Seq(S) /\ Len(Windows!Times(c, n)) = n
             /\ \A i \in 1 .. n : Windows!Times(c, n)[i] = c
  BY <1>2 DEF Windows!Times
<1>3. ASSUME NEW n \in Nat PROVE Windows!Times(c, n + 1) = Windows!Times(c, n) \o <<c>>
  <2> DEFINE s == Windows!Times(c, n + 1)
             t == Windows!Times(c, n)
  <2>1. /\ s \in Seq(S) /\ Len(s) = n + 1 /\ \A i \in 1 .. n + 1 : s[i] = c
        /\ t \in Seq(S) /\ Len(t) = n /\ \A i \in 1 .. n : t[i] = c
    BY <1>2
  <2> HIDE DEF s, t
  <2>2. <<c>> \in Seq(S) /\ Len(<<c>>) = 1 /\ <<c>>[1] = c
    OBVIOUS
  <2>3. /\ t \o <<c>> \in Seq(S) /\ Len(t \o <<c>>) = n + 1
        /\ \A i \in 1 .. n + 1 : (t \o <<c>>)[i] = c
    BY <2>1, <2>2, ConcatProperties
  <2>4. s = t \o <<c>>
    BY <2>1, <2>3, SeqEqual
  <2>. QED
    BY <2>4 DEF s, t
<1>. QED
  BY <1>1, <1>2, <1>3

\* Appending is concatenating.
LEMMA Appending ==
  ASSUME NEW S, NEW s \in Seq(S), NEW c \in S
  PROVE  /\ Append(s, c) = s \o <<c>> /\ Append(s, c) \in Seq(S)
         /\ Len(Append(s, c)) = Len(s) + 1 /\ Append(s, c)[Len(s) + 1] = c
         /\ \A i \in 1 .. Len(s) : Append(s, c)[i] = s[i]
<1>1. /\ Append(s, c) \in Seq(S) /\ Len(Append(s, c)) = Len(s) + 1 /\ Append(s, c)[Len(s) + 1] = c
      /\ \A i \in 1 .. Len(s) : Append(s, c)[i] = s[i]
  OBVIOUS
<1>2. <<c>> \in Seq(S) /\ Len(<<c>>) = 1 /\ <<c>>[1] = c /\ Len(s) \in Nat
  OBVIOUS
<1>3. /\ s \o <<c>> \in Seq(S) /\ Len(s \o <<c>>) = Len(s) + 1
      /\ \A i \in 1 .. Len(s) + 1 : (s \o <<c>>)[i] = Append(s, c)[i]
  BY <1>1, <1>2, ConcatProperties
<1>4. Append(s, c) = s \o <<c>>
  BY <1>1, <1>2, <1>3, SeqEqual
<1>. QED
  BY <1>1, <1>4

\* Every character leads from a state of the scan to another.
LEMMA ScanKept ==
  ASSUME NEW s \in ScanStates, NEW c \in Windows!Chars
  PROVE  Windows!Scan(s, c) \in ScanStates
<1> DEFINE C == Windows!Chars
<1>1. /\ Windows!Backslash \in C /\ Windows!Quote \in C
  BY DEF Windows!Chars
<1>2. ASSUME NEW n \in Nat PROVE Windows!Slashes(s, n) \in ScanStates
  <2>1. Windows!Times(Windows!Backslash, n) \in Seq(C)
    BY <1>1, TimesOf
  <2>2. s.text \o Windows!Times(Windows!Backslash, n) \in Seq(C)
    BY <2>1, ConcatProperties DEF ScanStates
  <2>. QED
    BY <2>2 DEF Windows!Slashes, ScanStates
<1>3. ASSUME NEW t \in ScanStates PROVE Windows!EndArgument(t) \in ScanStates
  <2> DEFINE Q == Seq(C)
             a == Append(t.args, t.text)
  <2>1. t.args \in Seq(Q) /\ t.text \in Q /\ << >> \in Q
    BY DEF ScanStates
  <2> HIDE DEF Q
  <2>2. a \in Seq(Q)
    BY <2>1, Appending
  <2>3. Windows!EndArgument(t) = IF t.begun THEN [t EXCEPT !.args = a, !.text = << >>, !.begun = FALSE] ELSE t
    BY DEF Windows!EndArgument
  <2> HIDE DEF a
  <2>4. ScanStates = [args : Seq(Q), text : Q, begun : BOOLEAN, quoted : BOOLEAN, slashes : Nat]
    BY DEF ScanStates, Q
  <2>. QED
    BY <2>1, <2>2, <2>3, <2>4
<1>4. ASSUME NEW t \in ScanStates, NEW d \in C
      PROVE  [t EXCEPT !.text = Append(@, d), !.begun = TRUE] \in ScanStates
  <2> DEFINE Q == Seq(C)
             a == Append(t.text, d)
  <2>1. t.text \in Seq(C)
    BY DEF ScanStates
  <2>2. a \in Seq(C)
    BY <2>1, Appending
  <2>3. [t EXCEPT !.text = Append(@, d), !.begun = TRUE] = [t EXCEPT !.text = a, !.begun = TRUE]
    BY DEF ScanStates
  <2> HIDE DEF a, Q
  <2>4. ScanStates = [args : Seq(Q), text : Q, begun : BOOLEAN, quoted : BOOLEAN, slashes : Nat]
    BY DEF ScanStates, Q
  <2>5. a \in Q
    BY <2>2 DEF Q
  <2> HIDE DEF C
  <2>. QED
    BY <2>3, <2>4, <2>5
<1>5. s.slashes \in Nat /\ s.slashes \div 2 \in Nat
  BY DEF ScanStates
<1>0. /\ Windows!Backslash # Windows!Quote /\ Windows!Backslash # Windows!Blank
      /\ Windows!Quote # Windows!Blank
  BY DEF Windows!Backslash, Windows!Quote, Windows!Blank
<1>6. CASE c = Windows!Backslash
  <2>1. Windows!Scan(s, c) = [s EXCEPT !.slashes = s.slashes + 1]
    BY <1>0, <1>6 DEF Windows!Scan, ScanStates
  <2> DEFINE n == s.slashes + 1
  <2>2. n \in Nat
    BY <1>5
  <2> HIDE DEF n, C
  <2>. QED
    BY <2>1, <2>2 DEF ScanStates, n
<1>7. CASE c = Windows!Quote /\ c # Windows!Backslash
  <2> DEFINE t == Windows!Slashes(s, s.slashes \div 2)
  <2>1. t \in ScanStates
    BY <1>2, <1>5
  <2>2. Windows!Scan(s, c) = IF s.slashes % 2 = 1
                             THEN [t EXCEPT !.text = Append(@, Windows!Quote), !.begun = TRUE]
                     ELSE [t EXCEPT !.quoted = ~@, !.begun = TRUE]
    BY <1>0, <1>7 DEF Windows!Scan
  <2> HIDE DEF t
  <2>3. [t EXCEPT !.quoted = ~@, !.begun = TRUE] \in ScanStates
    BY <2>1 DEF ScanStates
  <2>4. [t EXCEPT !.text = Append(@, Windows!Quote), !.begun = TRUE] \in ScanStates
    BY <1>1, <1>4, <2>1
  <2>. QED
    BY <2>2, <2>3, <2>4
<1>8. CASE c = Windows!Blank /\ ~s.quoted /\ c # Windows!Backslash /\ c # Windows!Quote
  <2>1. Windows!Scan(s, c) = Windows!EndArgument(Windows!Slashes(s, s.slashes))
    BY <1>0, <1>8 DEF Windows!Scan
  <2>. QED
    BY <1>2, <1>3, <1>5, <2>1, Zenon
<1>9. CASE ~(c = Windows!Blank /\ ~s.quoted) /\ c # Windows!Backslash /\ c # Windows!Quote
  <2> DEFINE t == Windows!Slashes(s, s.slashes)
  <2>1. t \in ScanStates
    BY <1>2, <1>5
  <2>2. Windows!Scan(s, c) = [t EXCEPT !.text = Append(@, c), !.begun = TRUE]
    BY <1>0, <1>9 DEF Windows!Scan
  <2> HIDE DEF t
  <2>. QED
    BY <1>4, <2>1, <2>2
<1>. QED
  BY <1>6, <1>7, <1>8, <1>9

\* The scan reads one character after another.
LEMMA ScanLoop ==
  ASSUME NEW l \in Seq(Windows!Chars)
  PROVE  \E r : /\ r[0] = Windows!Start /\ \A n \in 1 .. Len(l) : r[n] = Windows!Scan(r[n - 1], l[n])
                /\ \A n \in 0 .. Len(l) : r[n] \in ScanStates
                /\ Windows!Scanned(l) = r[Len(l)]
<1> DEFINE N == Len(l)
           loop(f) == f = [n \in 0 .. N |-> IF n = 0 THEN Windows!Start ELSE Windows!Scan(f[n - 1], l[n])]
           r == CHOOSE f : loop(f)
<1>1. Windows!Scanned(l) = r[N]
  BY DEF Windows!Scanned
<1>2. N \in Nat /\ \A n \in 1 .. N : l[n] \in Windows!Chars
  OBVIOUS
<1>3. Windows!Start \in ScanStates
  BY DEF Windows!Start, ScanStates
<1> DEFINE g == [p \in ScanStates \X (1 .. N) |-> Windows!Scan(p[1], l[p[2]])]
<1>4. /\ g \in [ScanStates \X (1 .. N) -> ScanStates]
      /\ \A s \in ScanStates, n \in 1 .. N : g[<<s, n>>] = Windows!Scan(s, l[n])
  BY <1>2, ScanKept
<1> HIDE DEF g, N
<1>5. PICK f : LoopOf(f, N, ScanStates, Windows!Start, g)
  BY <1>2, <1>3, <1>4, LoopExists, Zenon
<1>6. ASSUME NEW n \in 1 .. N PROVE f[n - 1] \in ScanStates /\ f[n] = Windows!Scan(f[n - 1], l[n])
  <2>1. n - 1 \in 0 .. N
    BY <1>2
  <2>2. f[n - 1] \in ScanStates
    BY <1>5, <2>1, Zenon DEF LoopOf
  <2>. QED
    BY <1>4, <1>5, <2>2, Zenon DEF LoopOf
<1>7. loop(f)
  BY <1>2, <1>5, <1>6 DEF LoopOf
<1>8. loop(r)
  BY <1>7
<1> HIDE DEF r
<1>9. r[0] = Windows!Start /\ \A n \in 1 .. N : r[n] = Windows!Scan(r[n - 1], l[n])
  BY <1>2, <1>8
<1> DEFINE K == {k \in 0 .. N : r[k] \in ScanStates}
<1>10. 0 \in K
  BY <1>2, <1>3, <1>9
<1>11. ASSUME NEW k \in 1 .. N, k - 1 \in K PROVE k \in K
  BY <1>2, <1>9, <1>11, ScanKept
<1> HIDE DEF K
<1>12. 0 .. N \subseteq K
  BY <1>2, <1>10, <1>11, Induct, Zenon
<1>. QED
  BY <1>1, <1>9, <1>12 DEF K, N

\* One more character is one more step of the scan.
LEMMA ScanOne ==
  ASSUME NEW l \in Seq(Windows!Chars), NEW c \in Windows!Chars
  PROVE  /\ Windows!Scanned(l) \in ScanStates
         /\ l \o <<c>> \in Seq(Windows!Chars)
         /\ Windows!Scanned(l \o <<c>>) = Windows!Scan(Windows!Scanned(l), c)
<1> DEFINE N == Len(l)
           m == l \o <<c>>
<1>1. /\ N \in Nat /\ m \in Seq(Windows!Chars) /\ Len(m) = N + 1 /\ m[N + 1] = c
      /\ \A i \in 1 .. N : m[i] = l[i]
  BY Appending
<1> HIDE DEF m, N
<1>2. PICK r : /\ r[0] = Windows!Start /\ \A n \in 1 .. N : r[n] = Windows!Scan(r[n - 1], l[n])
               /\ \A n \in 0 .. N : r[n] \in ScanStates
               /\ Windows!Scanned(l) = r[N]
  BY ScanLoop, Zenon DEF N
<1>3. PICK q : /\ q[0] = Windows!Start /\ \A n \in 1 .. N + 1 : q[n] = Windows!Scan(q[n - 1], m[n])
               /\ Windows!Scanned(m) = q[N + 1]
  <2>1. Len(m) = N + 1 /\ m \in Seq(Windows!Chars)
    BY <1>1
  <2>. QED
    BY <2>1, ScanLoop
<1> DEFINE K == {k \in 0 .. N : q[k] = r[k]}
<1>4. 0 \in K
  BY <1>1, <1>2, <1>3
<1>5. ASSUME NEW k \in 1 .. N, k - 1 \in K PROVE k \in K
  BY <1>1, <1>2, <1>3, <1>5
<1> HIDE DEF K
<1>6. 0 .. N \subseteq K
  BY <1>1, <1>4, <1>5, Induct, Zenon
<1>7. q[N] = r[N]
  BY <1>1, <1>6 DEF K
<1>8. q[N + 1] = Windows!Scan(q[N], c)
  BY <1>1, <1>3
<1>9. r[N] \in ScanStates
  BY <1>1, <1>2
<1>. QED
  BY <1>1, <1>2, <1>3, <1>7, <1>8, <1>9 DEF m

\* What a character makes of each field of the scan's state.
LEMMA ScanFields ==
  ASSUME NEW s \in ScanStates, NEW c \in Windows!Chars
  PROVE  LET u == Windows!Scan(s, c) IN
         /\ c = Windows!Backslash =>
                /\ u.args = s.args /\ u.text = s.text /\ u.begun = s.begun
                /\ u.quoted = s.quoted /\ u.slashes = s.slashes + 1
         /\ c = Windows!Quote /\ s.slashes % 2 = 1 =>
                /\ u.args = s.args
                /\ u.text = s.text \o Windows!Times(Windows!Backslash, s.slashes \div 2) \o <<Windows!Quote>>
                /\ u.begun /\ u.quoted = s.quoted /\ u.slashes = 0
         /\ c = Windows!Quote /\ s.slashes % 2 # 1 =>
                /\ u.args = s.args
                /\ u.text = s.text \o Windows!Times(Windows!Backslash, s.slashes \div 2)
                /\ u.begun /\ u.quoted = ~s.quoted /\ u.slashes = 0
         /\ c = Windows!Blank /\ ~s.quoted => u = Windows!EndArgument(Windows!Slashes(s, s.slashes))
         /\ c \notin {Windows!Backslash, Windows!Quote} /\ (c = Windows!Blank => s.quoted) =>
                /\ u.args = s.args
                /\ u.text = s.text \o Windows!Times(Windows!Backslash, s.slashes) \o <<c>>
                /\ u.begun /\ u.quoted = s.quoted /\ u.slashes = 0
<1> DEFINE C == Windows!Chars
           u == Windows!Scan(s, c)
<1>0. /\ Windows!Backslash # Windows!Quote /\ Windows!Backslash # Windows!Blank
      /\ Windows!Quote # Windows!Blank /\ Windows!Backslash \in C /\ Windows!Quote \in C
  BY DEF Windows!Backslash, Windows!Quote, Windows!Blank, Windows!Chars
<1>1. s.slashes \in Nat /\ s.slashes \div 2 \in Nat /\ s.quoted \in BOOLEAN /\ s.begun \in BOOLEAN
  BY DEF ScanStates
<1>2. ASSUME NEW n \in Nat, NEW d \in C
      PROVE  /\ s.text \o Windows!Times(Windows!Backslash, n) \in Seq(C)
             /\ Append(s.text \o Windows!Times(Windows!Backslash, n), d)
                    = s.text \o Windows!Times(Windows!Backslash, n) \o <<d>>
  <2>1. Windows!Times(Windows!Backslash, n) \in Seq(C) /\ s.text \in Seq(C)
    BY <1>0, TimesOf DEF ScanStates
  <2>2. s.text \o Windows!Times(Windows!Backslash, n) \in Seq(C)
    BY <2>1, ConcatProperties
  <2>. QED
    BY <2>2, Appending
<1>3. CASE c = Windows!Backslash
  <2>1. u = [s EXCEPT !.slashes = s.slashes + 1]
    BY <1>0, <1>3 DEF Windows!Scan, ScanStates
  <2> HIDE DEF u
  <2>. QED
    BY <1>0, <1>3, <2>1 DEF ScanStates, u
<1>4. CASE c = Windows!Quote
  <2> DEFINE n == s.slashes \div 2
             t == Windows!Slashes(s, n)
             w == s.text \o Windows!Times(Windows!Backslash, n)
  <2>1. u = IF s.slashes % 2 = 1 THEN [t EXCEPT !.text = Append(@, Windows!Quote), !.begun = TRUE]
            ELSE [t EXCEPT !.quoted = ~@, !.begun = TRUE]
    BY <1>0, <1>4 DEF Windows!Scan
  <2>2. t = [s EXCEPT !.text = w, !.slashes = 0, !.begun = s.begun \/ s.slashes > 0]
    BY DEF Windows!Slashes, ScanStates
  <2>3. Append(w, Windows!Quote) = w \o <<Windows!Quote>>
    BY <1>0, <1>1, <1>2
  <2> HIDE DEF u, t, w
  <2>4. u.args = s.args /\ u.begun /\ u.slashes = 0
    BY <2>1, <2>2 DEF ScanStates
  <2>5. s.slashes % 2 = 1 => u.text = w \o <<Windows!Quote>> /\ u.quoted = s.quoted
    BY <2>1, <2>2, <2>3 DEF ScanStates
  <2>6. s.slashes % 2 # 1 => u.text = w /\ u.quoted = ~s.quoted
    BY <2>1, <2>2 DEF ScanStates
  <2>. QED
    BY <1>0, <1>4, <2>4, <2>5, <2>6 DEF u, w
<1>5. CASE c = Windows!Blank /\ ~s.quoted
  <2>1. u = Windows!EndArgument(Windows!Slashes(s, s.slashes))
    BY <1>0, <1>5 DEF Windows!Scan
  <2>. QED
    BY <1>0, <1>5, <2>1
<1>6. CASE c \notin {Windows!Backslash, Windows!Quote} /\ ~(c = Windows!Blank /\ ~s.quoted)
  <2> DEFINE n == s.slashes
             t == Windows!Slashes(s, n)
             w == s.text \o Windows!Times(Windows!Backslash, n)
  <2>1. u = [t EXCEPT !.text = Append(@, c), !.begun = TRUE]
    BY <1>0, <1>6 DEF Windows!Scan
  <2>2. t = [s EXCEPT !.text = w, !.slashes = 0, !.begun = s.begun \/ s.slashes > 0]
    BY DEF Windows!Slashes, ScanStates
  <2>3. Append(w, c) = w \o <<c>>
    BY <1>0, <1>1, <1>2
  <2> HIDE DEF u, t, w
  <2>4. u.args = s.args /\ u.begun /\ u.slashes = 0 /\ u.text = w \o <<c>> /\ u.quoted = s.quoted
    BY <2>1, <2>2, <2>3 DEF ScanStates
  <2>. QED
    BY <1>0, <1>6, <2>4 DEF u, w
<1>. QED
  BY <1>0, <1>3, <1>4, <1>5, <1>6, Zenon

\* The arguments that the scan has found when the line ends in the state s.
EndOfLine(s) == Windows!EndArgument(Windows!Slashes(s, s.slashes))

LEMMA EndOfLineFields ==
  ASSUME NEW s \in ScanStates
  PROVE  /\ EndOfLine(s).slashes = 0 /\ ~EndOfLine(s).begun /\ EndOfLine(s).quoted = s.quoted
         /\ s.begun \/ s.slashes > 0 =>
                /\ EndOfLine(s).args = Append(s.args, s.text \o Windows!Times(Windows!Backslash, s.slashes))
                /\ EndOfLine(s).text = << >>
         /\ ~(s.begun \/ s.slashes > 0) => EndOfLine(s).args = s.args /\ EndOfLine(s).text = s.text
<1> DEFINE w == s.text \o Windows!Times(Windows!Backslash, s.slashes)
           t == Windows!Slashes(s, s.slashes)
           a == Append(s.args, w)
<1>1. s.slashes \in Nat /\ s.begun \in BOOLEAN /\ s.text \in Seq(Windows!Chars)
  BY DEF ScanStates
<1>2. t = [s EXCEPT !.text = w, !.slashes = 0, !.begun = s.begun \/ s.slashes > 0]
  BY DEF Windows!Slashes, ScanStates
<1>3. ~(s.slashes > 0) => w = s.text
  <2>1. SUFFICES ASSUME ~(s.slashes > 0) PROVE w = s.text
    OBVIOUS
  <2>2. s.slashes = 0
    BY <1>1, <2>1
  <2>3. Windows!Times(Windows!Backslash, 0) = << >>
    BY TimesOf
  <2>. QED
    BY <1>1, <2>2, <2>3, ConcatEmptySeq
<1>4. EndOfLine(s) = IF t.begun THEN [t EXCEPT !.args = Append(@, t.text), !.text = << >>, !.begun = FALSE] ELSE t
  BY DEF EndOfLine, Windows!EndArgument
<1> HIDE DEF t, w
<1>5. t.text = w /\ t.begun = (s.begun \/ s.slashes > 0) /\ t.args = s.args /\ t.slashes = 0 /\ t.quoted = s.quoted
  BY <1>2 DEF ScanStates
<1>6. CASE s.begun \/ s.slashes > 0
  <2>1. EndOfLine(s) = [t EXCEPT !.args = a, !.text = << >>, !.begun = FALSE]
    BY <1>4, <1>5, <1>6
  <2> HIDE DEF a
  <2>2. /\ EndOfLine(s).args = a /\ EndOfLine(s).text = << >> /\ ~EndOfLine(s).begun
        /\ EndOfLine(s).slashes = 0 /\ EndOfLine(s).quoted = s.quoted
    BY <1>2, <2>1 DEF ScanStates
  <2>. QED
    BY <1>6, <2>2 DEF a, w
<1>7. CASE ~(s.begun \/ s.slashes > 0)
  BY <1>3, <1>4, <1>5, <1>7
<1>. QED
  BY <1>6, <1>7

\* Backslashes only wait.
LEMMA ScannedSlashes ==
  ASSUME NEW l \in Seq(Windows!Chars), NEW n \in Nat
  PROVE  LET u == Windows!Scanned(l \o Windows!Times(Windows!Backslash, n))
             s == Windows!Scanned(l)
         IN  /\ l \o Windows!Times(Windows!Backslash, n) \in Seq(Windows!Chars)
             /\ u \in ScanStates /\ s \in ScanStates
             /\ u.args = s.args /\ u.text = s.text /\ u.begun = s.begun /\ u.quoted = s.quoted
             /\ u.slashes = s.slashes + n
<1> DEFINE s == Windows!Scanned(l)
           m(k) == l \o Windows!Times(Windows!Backslash, k)
           ok(u, k) == /\ u \in ScanStates /\ u.args = s.args /\ u.text = s.text /\ u.begun = s.begun
                       /\ u.quoted = s.quoted /\ u.slashes = s.slashes + k
           K == {k \in 0 .. n : m(k) \in Seq(Windows!Chars) /\ ok(Windows!Scanned(m(k)), k)}
<1>1. Windows!Backslash \in Windows!Chars
  BY DEF Windows!Chars
<1>2. s \in ScanStates /\ s.slashes \in Nat
  BY <1>1, ScanOne DEF ScanStates
<1>3. 0 \in K
  <2>1. Windows!Times(Windows!Backslash, 0) = << >>
    BY <1>1, TimesOf
  <2>2. m(0) = l
    BY <2>1, ConcatEmptySeq
  <2>3. ok(s, 0)
    BY <1>2
  <2> HIDE DEF ok, m
  <2>4. m(0) \in Seq(Windows!Chars) /\ ok(Windows!Scanned(m(0)), 0)
    BY <2>2, <2>3
  <2>5. 0 \in 0 .. n
    OBVIOUS
  <2>. QED
    BY <2>4, <2>5
<1>4. ASSUME NEW k \in 1 .. n, k - 1 \in K PROVE k \in K
  <2>1. /\ Windows!Times(Windows!Backslash, k - 1) \in Seq(Windows!Chars)
        /\ Windows!Times(Windows!Backslash, (k - 1) + 1) = Windows!Times(Windows!Backslash, k - 1) \o <<Windows!Backslash>>
        /\ (k - 1) + 1 = k
    <3>1. k - 1 \in Nat /\ (k - 1) + 1 = k
      OBVIOUS
    <3>. QED
      BY <1>1, <3>1, TimesOf
  <2>2. m(k) = m(k - 1) \o <<Windows!Backslash>>
    <3> DEFINE t == Windows!Times(Windows!Backslash, k - 1)
               b == <<Windows!Backslash>>
    <3>1. /\ b \in Seq(Windows!Chars) /\ t \in Seq(Windows!Chars)
          /\ Windows!Times(Windows!Backslash, k) = t \o b
      BY <1>1, <2>1
    <3>2. m(k) = l \o Windows!Times(Windows!Backslash, k) /\ m(k - 1) = l \o t
      OBVIOUS
    <3> HIDE DEF t, b, m
    <3>3. (l \o t) \o b = l \o (t \o b)
      BY <3>1, ConcatAssociative
    <3>. QED
      BY <3>1, <3>2, <3>3 DEF b
  <2>3. m(k - 1) \in Seq(Windows!Chars) /\ ok(Windows!Scanned(m(k - 1)), k - 1)
    BY <1>4
  <2> DEFINE v == Windows!Scanned(m(k - 1))
  <2>4. /\ m(k) \in Seq(Windows!Chars)
        /\ Windows!Scanned(m(k)) = Windows!Scan(v, Windows!Backslash)
        /\ Windows!Scanned(m(k)) \in ScanStates
    <3> HIDE DEF ok
    <3>1. m(k - 1) \in Seq(Windows!Chars)
      BY <2>3
    <3> HIDE DEF m
    <3>2. /\ v \in ScanStates /\ m(k - 1) \o <<Windows!Backslash>> \in Seq(Windows!Chars)
          /\ Windows!Scanned(m(k - 1) \o <<Windows!Backslash>>) = Windows!Scan(v, Windows!Backslash)
      BY <1>1, <3>1, ScanOne
    <3>. QED
      BY <1>1, <2>2, <3>2, ScanKept
  <2>5. v \in ScanStates
    BY <2>3
  <2>6. ok(Windows!Scan(v, Windows!Backslash), k)
    <3> HIDE DEF v, m
    <3>1. ok(v, k - 1)
      BY <2>3 DEF v
    <3>2. LET u == Windows!Scan(v, Windows!Backslash)
          IN  /\ u.args = v.args /\ u.text = v.text /\ u.begun = v.begun /\ u.quoted = v.quoted
              /\ u.slashes = v.slashes + 1
      BY <1>1, <2>5, ScanFields
    <3>3. Windows!Scan(v, Windows!Backslash) \in ScanStates
      BY <1>1, <2>5, ScanKept
    <3>. QED
      BY <1>2, <3>1, <3>2, <3>3
  <2> HIDE DEF m, ok, v
  <2>. QED
    BY <2>4, <2>6
<1> HIDE DEF K
<1>5. 0 .. n \subseteq K
  BY <1>3, <1>4, Induct, Zenon
<1>6. n \in K
  BY <1>5
<1>. QED
  BY <1>2, <1>6 DEF K

\* Concatenation of lines is associative.
LEMMA Regroup ==
  ASSUME NEW l1 \in Seq(Windows!Chars), NEW l2 \in Seq(Windows!Chars), NEW l3 \in Seq(Windows!Chars)
  PROVE  (l1 \o l2) \o l3 = l1 \o (l2 \o l3)
  BY ConcatAssociative

\* A backslash is only counted.
LEMMA ScanBackslash ==
  ASSUME NEW s \in ScanStates
  PROVE  LET u == Windows!Scan(s, Windows!Backslash) IN
         /\ u.args = s.args /\ u.text = s.text /\ u.begun = s.begun
         /\ u.quoted = s.quoted /\ u.slashes = s.slashes + 1
<1>1. Windows!Backslash \in Windows!Chars
  BY DEF Windows!Chars
<1>. QED
  BY <1>1, ScanFields, Zenon

\* A character that is neither a backslash nor a quote nor a blank between
\* arguments joins the argument after the backslashes that waited.
LEMMA ScanPlain ==
  ASSUME NEW s \in ScanStates, NEW c \in Windows!Chars, c # Windows!Backslash, c # Windows!Quote,
         c = Windows!Blank => s.quoted
  PROVE  LET u == Windows!Scan(s, c) IN
         /\ u.args = s.args
         /\ u.text = s.text \o Windows!Times(Windows!Backslash, s.slashes) \o <<c>>
         /\ u.begun /\ u.quoted = s.quoted /\ u.slashes = 0
<1>1. c \notin {Windows!Backslash, Windows!Quote} /\ (c = Windows!Blank => s.quoted)
  OBVIOUS
<1>. QED
  BY <1>1, ScanFields, Zenon

\* A quote after an even number of backslashes opens or closes the quoted part.
LEMMA ScanQuote ==
  ASSUME NEW s \in ScanStates, s.slashes % 2 # 1
  PROVE  LET u == Windows!Scan(s, Windows!Quote) IN
         /\ u.args = s.args /\ u.text = s.text \o Windows!Times(Windows!Backslash, s.slashes \div 2)
         /\ u.begun /\ u.quoted = ~s.quoted /\ u.slashes = 0
<1>1. Windows!Quote \in Windows!Chars
  BY DEF Windows!Chars
<1>. QED
  BY <1>1, ScanFields, Zenon

\* A text without blanks and quotes becomes, after a blank, the argument that is open.
LEMMA Copied ==
  ASSUME NEW l \in Seq(Windows!Chars), NEW t \in Seq(Windows!Chars),
         \A i \in 1 .. Len(t) : t[i] \notin {Windows!Blank, Windows!Quote},
         LET s == Windows!Scanned(l) IN ~s.quoted /\ s.text = << >> /\ s.slashes = 0
  PROVE  LET u == Windows!Scanned(l \o t)
             s == Windows!Scanned(l)
         IN  /\ u \in ScanStates /\ u.args = s.args /\ ~u.quoted
             /\ u.text \o Windows!Times(Windows!Backslash, u.slashes) = t
             /\ t # << >> => u.begun \/ u.slashes > 0
<1> DEFINE s == Windows!Scanned(l)
           n == Len(t)
           m(k) == l \o SubSeq(t, 1, k)
           ok(u, k) == /\ u \in ScanStates /\ u.args = s.args /\ ~u.quoted
                       /\ u.text \o Windows!Times(Windows!Backslash, u.slashes) = SubSeq(t, 1, k)
                       /\ k > 0 => u.begun \/ u.slashes > 0
           K == {k \in 0 .. n : m(k) \in Seq(Windows!Chars) /\ ok(Windows!Scanned(m(k)), k)}
<1>1. /\ Windows!Backslash \in Windows!Chars /\ Windows!Backslash # Windows!Quote
      /\ Windows!Backslash # Windows!Blank
  BY DEF Windows!Chars, Windows!Backslash, Windows!Quote, Windows!Blank
<1>2. s \in ScanStates /\ ~s.quoted /\ s.text = << >> /\ s.slashes = 0
  BY <1>1, ScanOne
<1>3. /\ n \in Nat
      /\ \A k \in 1 .. n : t[k] \in Windows!Chars /\ t[k] \notin {Windows!Blank, Windows!Quote}
  OBVIOUS
<1>4. ASSUME NEW k \in 1 .. n
      PROVE  /\ SubSeq(t, 1, k) = SubSeq(t, 1, k - 1) \o <<t[k]>>
             /\ SubSeq(t, 1, k - 1) \in Seq(Windows!Chars)
  <2>1. 1 \in 1 .. n /\ k \in 1 .. n
    BY <1>3
  <2>2. SubSeq(t, 1, k) = SubSeq(t, 1, k - 1) \o <<t[k]>>
    BY <2>1, SubSeqRecursiveSecond
  <2>3. \A i \in 1 .. k - 1 : t[i] \in Windows!Chars
    BY <1>3
  <2>4. SubSeq(t, 1, k - 1) \in Seq(Windows!Chars)
    BY <2>3, SubSeqProperties
  <2>. QED
    BY <2>2, <2>4
<1>5. 0 \in K
  <2>1. /\ SubSeq(t, 1, 0) = << >> /\ Windows!Times(Windows!Backslash, 0) = << >>
        /\ << >> \in Seq(Windows!Chars)
    <3>1. SubSeq(t, 1, 0) = << >>
      BY SubSeqEmpty
    <3>2. Windows!Times(Windows!Backslash, 0) = << >>
      BY <1>1, TimesOf
    <3>. QED
      BY <3>1, <3>2
  <2>2. m(0) = l
    BY <2>1, ConcatEmptySeq
  <2>3. s.text \o Windows!Times(Windows!Backslash, s.slashes) = << >>
    BY <1>2, <2>1, ConcatEmptySeq
  <2>4. ok(s, 0)
    BY <1>2, <2>1, <2>3
  <2> HIDE DEF ok, m
  <2>5. m(0) \in Seq(Windows!Chars) /\ ok(Windows!Scanned(m(0)), 0)
    BY <2>2, <2>4
  <2>6. 0 \in 0 .. n
    BY <1>3
  <2>. QED
    BY <2>5, <2>6
<1>6. ASSUME NEW k \in 1 .. n, k - 1 \in K PROVE k \in K
  <2> DEFINE v == Windows!Scanned(m(k - 1))
             u == Windows!Scan(v, t[k])
             b == <<t[k]>>
             p == SubSeq(t, 1, k - 1)
             q == Windows!Times(Windows!Backslash, v.slashes)
  <2>1. m(k - 1) \in Seq(Windows!Chars) /\ ok(v, k - 1)
    BY <1>6
  <2>2. /\ t[k] \in Windows!Chars /\ t[k] \notin {Windows!Blank, Windows!Quote}
        /\ b \in Seq(Windows!Chars) /\ p \in Seq(Windows!Chars)
    BY <1>3, <1>4
  <2>3. m(k) = m(k - 1) \o b
    <3>1. SubSeq(t, 1, k) = p \o b
      BY <1>4
    <3>2. m(k) = l \o SubSeq(t, 1, k) /\ m(k - 1) = l \o p
      OBVIOUS
    <3> HIDE DEF p, b, m
    <3>3. (l \o p) \o b = l \o (p \o b)
      BY <2>2, Regroup
    <3>. QED
      BY <3>1, <3>2, <3>3
  <2>4. m(k) \in Seq(Windows!Chars) /\ Windows!Scanned(m(k)) = u /\ u \in ScanStates
    <3> HIDE DEF ok
    <3>1. m(k - 1) \in Seq(Windows!Chars)
      BY <2>1
    <3>2. m(k) = m(k - 1) \o <<t[k]>>
      BY <2>3
    <3> HIDE DEF m
    <3>3. /\ v \in ScanStates /\ m(k - 1) \o <<t[k]>> \in Seq(Windows!Chars)
          /\ Windows!Scanned(m(k - 1) \o <<t[k]>>) = Windows!Scan(v, t[k])
      BY <2>2, <3>1, ScanOne
    <3>. QED
      BY <2>2, <3>2, <3>3, ScanKept
  <2> HIDE DEF m, v, u
  <2>5. /\ v \in ScanStates /\ v.args = s.args /\ ~v.quoted /\ v.slashes \in Nat
        /\ v.text \in Seq(Windows!Chars) /\ v.text \o q = p
    BY <2>1 DEF ScanStates
  <2>6. CASE t[k] = Windows!Backslash
    <3>1. u.args = v.args /\ u.text = v.text /\ u.quoted = v.quoted /\ u.slashes = v.slashes + 1
      BY <2>5, <2>6, ScanBackslash DEF u
    <3>2. q \in Seq(Windows!Chars) /\ Windows!Times(Windows!Backslash, v.slashes + 1) = q \o b
      BY <1>1, <2>5, <2>6, TimesOf
    <3> HIDE DEF q, b, p
    <3>3. v.text \o (q \o b) = (v.text \o q) \o b
      <4> DEFINE w == v.text
      <4>1. w \in Seq(Windows!Chars) /\ q \in Seq(Windows!Chars) /\ b \in Seq(Windows!Chars)
        BY <2>2, <2>5, <3>2
      <4> HIDE DEF w
      <4>2. (w \o q) \o b = w \o (q \o b)
        BY <4>1, Regroup
      <4>. QED
        BY <4>2 DEF w
    <3>4. u.text \o Windows!Times(Windows!Backslash, u.slashes) = p \o b
      BY <2>5, <3>1, <3>2, <3>3
    <3>5. SubSeq(t, 1, k) = p \o b
      BY <1>4 DEF p, b
    <3>6. u.args = s.args /\ ~u.quoted /\ u.slashes > 0
      BY <2>5, <3>1
    <3>7. ok(u, k)
      BY <2>4, <3>4, <3>5, <3>6
    <3> HIDE DEF ok
    <3>. QED
      BY <2>4, <3>7
  <2>7. CASE t[k] # Windows!Backslash
    <3>1. /\ u.args = v.args /\ u.text = v.text \o q \o b /\ u.begun /\ u.quoted = v.quoted
          /\ u.slashes = 0
      BY <2>2, <2>5, <2>7, ScanPlain DEF u
    <3>2. Windows!Times(Windows!Backslash, 0) = << >>
      BY <1>1, TimesOf
    <3>3. SubSeq(t, 1, k) = p \o b
      BY <1>4
    <3> HIDE DEF q, b, p
    <3>4. p \o b \in Seq(Windows!Chars)
      BY <2>2, ConcatProperties
    <3>5. u.text \o Windows!Times(Windows!Backslash, u.slashes) = p \o b
      BY <2>5, <3>1, <3>2, <3>4, ConcatEmptySeq
    <3>6. ok(u, k)
      BY <2>4, <2>5, <3>1, <3>3, <3>5
    <3> HIDE DEF ok
    <3>. QED
      BY <2>4, <3>6
  <2>. QED
    BY <2>6, <2>7
<1> HIDE DEF K
<1>7. 0 .. n \subseteq K
  BY <1>3, <1>5, <1>6, Induct, Zenon
<1>8. n \in K
  BY <1>3, <1>7
<1>9. SubSeq(t, 1, n) = t /\ m(n) = l \o t
  BY SubSeqFull
<1>10. t # << >> => n > 0
  BY EmptySeq, <1>3
<1> USE DEF K
<1>11. ok(Windows!Scanned(m(n)), n)
  BY <1>8
<1> HIDE DEF K
<1>. QED
  BY <1>9, <1>10, <1>11

\* A blank outside quotes ends the argument that is open.
LEMMA BlankEnds ==
  ASSUME NEW l \in Seq(Windows!Chars), ~Windows!Scanned(l).quoted,
         LET s == Windows!Scanned(l) IN ~(s.begun \/ s.slashes > 0) => s.text = << >>
  PROVE  LET u == Windows!Scanned(l \o <<Windows!Blank>>)
         IN  /\ l \o <<Windows!Blank>> \in Seq(Windows!Chars) /\ u \in ScanStates
             /\ u.args = EndOfLine(Windows!Scanned(l)).args /\ u.text = << >> /\ u.slashes = 0
             /\ ~u.begun /\ ~u.quoted
<1> DEFINE s == Windows!Scanned(l)
           m == l \o <<Windows!Blank>>
<1>1. Windows!Blank \in Windows!Chars
  BY DEF Windows!Chars
<1>2. /\ s \in ScanStates /\ m \in Seq(Windows!Chars)
      /\ Windows!Scanned(m) = Windows!Scan(s, Windows!Blank)
  BY <1>1, ScanOne
<1>3. Windows!Scan(s, Windows!Blank) \in ScanStates
  BY <1>1, <1>2, ScanKept
<1>4. Windows!Scan(s, Windows!Blank) = EndOfLine(s)
  BY <1>1, <1>2, ScanFields DEF EndOfLine
<1> HIDE DEF m
<1>5. /\ ~(s.begun \/ s.slashes > 0) => s.text = << >>
      /\ ~s.quoted
  OBVIOUS
<1> HIDE DEF s
<1>6. /\ EndOfLine(s).text = << >> /\ EndOfLine(s).slashes = 0 /\ ~EndOfLine(s).begun
      /\ ~EndOfLine(s).quoted
  BY <1>2, <1>5, EndOfLineFields
<1>. QED
  BY <1>2, <1>3, <1>4, <1>6 DEF m, s

\* The backslashes and the character that quoteWindowsArgument writes, read back
\* inside quotes: half of the backslashes before a quote, all of them otherwise.
LEMMA BackslashesRead ==
  ASSUME NEW l \in Seq(Windows!Chars), NEW n \in Nat, NEW c \in Windows!Chars, c # Windows!Backslash,
         LET s == Windows!Scanned(l) IN s.quoted /\ s.begun /\ s.slashes = 0
  PROVE  LET m == l \o Windows!Times(Windows!Backslash, IF c = Windows!Quote THEN 2 * n + 1 ELSE n) \o <<c>>
             u == Windows!Scanned(m)
             s == Windows!Scanned(l)
         IN  /\ m \in Seq(Windows!Chars) /\ u \in ScanStates
             /\ u.quoted /\ u.begun /\ u.slashes = 0 /\ u.args = s.args
             /\ u.text = s.text \o Windows!Times(Windows!Backslash, n) \o <<c>>
<1> DEFINE s == Windows!Scanned(l)
           k == IF c = Windows!Quote THEN 2 * n + 1 ELSE n
           w == l \o Windows!Times(Windows!Backslash, k)
           v == Windows!Scanned(w)
<1>1. k \in Nat
  OBVIOUS
<1>2. /\ w \in Seq(Windows!Chars) /\ v \in ScanStates /\ s \in ScanStates
      /\ v.args = s.args /\ v.text = s.text /\ v.begun = s.begun /\ v.quoted = s.quoted
      /\ v.slashes = s.slashes + k
  <2> HIDE DEF k
  <2>. QED
    BY <1>1, ScannedSlashes
<1> HIDE DEF v, w
<1>3. /\ w \o <<c>> \in Seq(Windows!Chars) /\ Windows!Scanned(w \o <<c>>) = Windows!Scan(v, c)
      /\ Windows!Scan(v, c) \in ScanStates
  BY <1>2, ScanOne, ScanKept DEF v
<1>4. s.quoted /\ s.begun /\ s.slashes = 0
  OBVIOUS
<1>5. v.slashes = k
  BY <1>1, <1>2, <1>4
<1> HIDE DEF s
<1>6. CASE c = Windows!Quote
  <2>1. v.slashes = 2 * n + 1
    BY <1>5, <1>6
  <2>2. v.slashes % 2 = 1 /\ v.slashes \div 2 = n
    BY <2>1
  <2>3. LET u == Windows!Scan(v, c)
        IN  /\ u.args = v.args
            /\ u.text = v.text \o Windows!Times(Windows!Backslash, n) \o <<Windows!Quote>>
            /\ u.begun /\ u.quoted = v.quoted /\ u.slashes = 0
    BY <1>2, <1>6, <2>2, ScanFields
  <2>. QED
    BY <1>2, <1>3, <1>4, <1>6, <2>3 DEF w, s
<1>7. CASE c # Windows!Quote
  <2>1. v.slashes = n
    BY <1>5, <1>7
  <2>2. LET u == Windows!Scan(v, c)
        IN  /\ u.args = v.args
            /\ u.text = v.text \o Windows!Times(Windows!Backslash, n) \o <<c>> /\ u.begun
            /\ u.quoted = v.quoted /\ u.slashes = 0
    BY <1>2, <1>4, <1>7, <2>1, ScanPlain
  <2>. QED
    BY <1>2, <1>3, <1>4, <1>7, <2>2 DEF w, s
<1>. QED
  BY <1>6, <1>7

\* The closing quote after twice the backslashes that waited: they are read as
\* they were given, and the quote ends the quoted part.
LEMMA QuoteCloses ==
  ASSUME NEW l \in Seq(Windows!Chars), NEW n \in Nat,
         LET s == Windows!Scanned(l) IN s.quoted /\ s.begun /\ s.slashes = 0
  PROVE  LET m == l \o Windows!Times(Windows!Backslash, 2 * n) \o <<Windows!Quote>>
             u == Windows!Scanned(m)
             s == Windows!Scanned(l)
         IN  /\ m \in Seq(Windows!Chars) /\ u \in ScanStates
             /\ ~u.quoted /\ u.begun /\ u.slashes = 0 /\ u.args = s.args
             /\ u.text = s.text \o Windows!Times(Windows!Backslash, n)
<1> DEFINE s == Windows!Scanned(l)
           k == 2 * n
           w == l \o Windows!Times(Windows!Backslash, k)
           v == Windows!Scanned(w)
<1>1. k \in Nat /\ Windows!Quote \in Windows!Chars
  <2>1. Windows!Quote \in Windows!Chars
    BY DEF Windows!Chars
  <2>2. k \in Nat
    OBVIOUS
  <2>. QED
    BY <2>1, <2>2
<1>2. /\ w \in Seq(Windows!Chars) /\ v \in ScanStates /\ s \in ScanStates
      /\ v.args = s.args /\ v.text = s.text /\ v.begun = s.begun /\ v.quoted = s.quoted
      /\ v.slashes = s.slashes + k
  <2> HIDE DEF k
  <2>. QED
    BY <1>1, ScannedSlashes
<1> HIDE DEF v, w
<1>3. /\ w \o <<Windows!Quote>> \in Seq(Windows!Chars)
      /\ Windows!Scanned(w \o <<Windows!Quote>>) = Windows!Scan(v, Windows!Quote)
      /\ Windows!Scan(v, Windows!Quote) \in ScanStates
  BY <1>1, <1>2, ScanOne, ScanKept DEF v
<1>4. s.quoted /\ s.begun /\ s.slashes = 0
  OBVIOUS
<1> HIDE DEF s
<1>5. v.slashes = 2 * n
  BY <1>1, <1>2, <1>4
<1>6. v.slashes % 2 # 1 /\ v.slashes \div 2 = n
  BY <1>5
<1>7. LET u == Windows!Scan(v, Windows!Quote)
      IN  /\ u.args = v.args /\ u.text = v.text \o Windows!Times(Windows!Backslash, n)
          /\ u.begun /\ u.quoted = ~v.quoted /\ u.slashes = 0
  BY <1>1, <1>2, <1>6, ScanFields
<1>. QED
  BY <1>2, <1>3, <1>4, <1>7 DEF w, s

\* Between two arguments the program reads the line as the arguments before;
\* inside a quoted argument the part of it that is written, with the backslashes
\* that wait, is what is open.
QuoteInv ==
    /\ arguments \in Seq(Seq(Windows!Chars)) /\ line \in Seq(Windows!Chars) /\ backslashes \in Nat
    /\ arg \in 1 .. Len(arguments) + 1
    /\ LET s == Windows!Scanned(line) IN
       \/ /\ pos = 0 /\ backslashes = 0 /\ ~s.quoted
          /\ ~(s.begun \/ s.slashes > 0) => s.text = << >>
          /\ EndOfLine(s).args = SubSeq(arguments, 1, arg - 1)
       \/ /\ arg <= Len(arguments) /\ pos \in 1 .. Len(Windows!Text) + 1
          /\ s.quoted /\ s.begun /\ s.slashes = 0
          /\ s.args = SubSeq(arguments, 1, arg - 1)
          /\ s.text \o Windows!Times(Windows!Backslash, backslashes) = SubSeq(Windows!Text, 1, pos - 1)

\* Before the first argument the line is empty.
LEMMA QuoteStarts ==
  ASSUME arguments \in Seq(Seq(Windows!Chars)), arg = 1, pos = 0, backslashes = 0, line = << >>
  PROVE  QuoteInv
<1>1. Windows!Scanned(<< >>) = Windows!Start /\ << >> \in Seq(Windows!Chars)
  <2>1. << >> \in Seq(Windows!Chars) /\ Len(<< >>) = 0
    BY EmptySeq
  <2>2. PICK r : r[0] = Windows!Start /\ Windows!Scanned(<< >>) = r[0]
    BY <2>1, ScanLoop
  <2>. QED
    BY <2>1, <2>2
<1>2. Windows!Start \in ScanStates
  BY DEF Windows!Start, ScanStates
<1>3. /\ ~Windows!Start.begun /\ Windows!Start.slashes = 0 /\ Windows!Start.args = << >>
      /\ ~Windows!Start.quoted /\ Windows!Start.text = << >>
  BY DEF Windows!Start
<1>4. EndOfLine(Windows!Start).args = << >>
  <2> DEFINE s == Windows!Start
  <2>1. s \in ScanStates /\ ~(s.begun \/ s.slashes > 0) /\ s.args = << >>
    BY <1>2, <1>3
  <2> HIDE DEF s
  <2>2. EndOfLine(s).args = s.args
    BY <2>1, EndOfLineFields, Zenon
  <2>. QED
    BY <2>1, <2>2 DEF s
<1>5. SubSeq(arguments, 1, 1 - 1) = << >>
  BY SubSeqEmpty
<1>6. 1 \in 1 .. Len(arguments) + 1 /\ 0 \in Nat
  OBVIOUS
<1>. QED
  BY <1>1, <1>3, <1>4, <1>5, <1>6 DEF QuoteInv

\* The next argument is done: what the program reads of the line is one more argument.
LEMMA NextDone ==
  ASSUME QuoteInv, arg <= Len(arguments), Windows!NextArgument, line' \in Seq(Windows!Chars),
         LET u == Windows!Scanned(line')
         IN  /\ u \in ScanStates /\ ~u.quoted /\ u.args = SubSeq(arguments, 1, arg - 1)
             /\ u.text \o Windows!Times(Windows!Backslash, u.slashes) = Windows!Text
             /\ u.begun \/ u.slashes > 0
  PROVE  QuoteInv'
<1> DEFINE u == Windows!Scanned(line')
           S == Seq(Windows!Chars)
<1>1. arguments \in Seq(S) /\ arg \in 1 .. Len(arguments) /\ Windows!Text = arguments[arg]
  BY DEF QuoteInv, Windows!Text
<1>2. arguments' = arguments /\ arg' = arg + 1 /\ pos' = 0 /\ backslashes' = 0
  BY DEF Windows!NextArgument
<1>3. EndOfLine(u).args = Append(SubSeq(arguments, 1, arg - 1), Windows!Text)
  BY EndOfLineFields
<1>4. u \in ScanStates /\ ~u.quoted /\ (u.begun \/ u.slashes > 0)
  OBVIOUS
<1> HIDE DEF S, u
<1>5. SubSeq(arguments, 1, arg - 1) \in Seq(S) /\ Windows!Text \in S
  <2>1. \A i \in 1 .. arg - 1 : arguments[i] \in S
    BY <1>1
  <2>. QED
    BY <1>1, <2>1, SubSeqProperties
<1>6. SubSeq(arguments, 1, arg) = SubSeq(arguments, 1, arg - 1) \o <<Windows!Text>>
  <2>1. 1 \in 1 .. Len(arguments) /\ arg \in 1 .. Len(arguments)
    BY <1>1
  <2>. QED
    BY <1>1, <2>1, SubSeqRecursiveSecond
<1>7. EndOfLine(u).args = SubSeq(arguments, 1, arg)
  <2> DEFINE p == SubSeq(arguments, 1, arg - 1)
             x == Windows!Text
  <2>1. p \in Seq(S) /\ x \in S
    BY <1>5
  <2> HIDE DEF p, x
  <2>2. Append(p, x) = p \o <<x>>
    BY <2>1, AppendIsConcat
  <2> USE DEF p, x
  <2>. QED
    BY <1>3, <1>6, <2>2, Zenon
<1>8. arg' \in 1 .. Len(arguments') + 1 /\ arg' - 1 = arg /\ arguments' \in Seq(S)
  BY <1>1, <1>2
<1>. QED
  BY <1>2, <1>4, <1>7, <1>8 DEF QuoteInv, S, u

\* An argument that is copied is read back: nothing in it is special.
LEMMA CopyArgumentKeeps == ASSUME QuoteInv, Windows!CopyArgument PROVE QuoteInv'
<1> DEFINE s == Windows!Scanned(line)
           m == line \o <<Windows!Blank>>
           v == Windows!Scanned(m)
<1>1. /\ line \in Seq(Windows!Chars) /\ arg <= Len(arguments) /\ ~s.quoted
      /\ ~(s.begun \/ s.slashes > 0) => s.text = << >>
      /\ EndOfLine(s).args = SubSeq(arguments, 1, arg - 1)
  BY DEF QuoteInv, Windows!CopyArgument, Windows!Busy
<1>2. Windows!Text \in Seq(Windows!Chars)
  BY <1>1 DEF QuoteInv, Windows!Text
<1>3. /\ Windows!Text # << >>
      /\ \A i \in 1 .. Len(Windows!Text) : Windows!Text[i] \notin {Windows!Blank, Windows!Quote}
  BY <1>2 DEF Windows!CopyArgument, Windows!NeedsQuotes
<1>4. /\ m \in Seq(Windows!Chars) /\ v.args = EndOfLine(s).args /\ v.text = << >>
      /\ v.slashes = 0 /\ ~v.quoted
  BY <1>1, BlankEnds
<1>5. line' = m \o Windows!Text /\ Windows!NextArgument
  BY DEF Windows!CopyArgument
<1> HIDE DEF m
<1>6. LET u == Windows!Scanned(m \o Windows!Text)
      IN  /\ u \in ScanStates /\ u.args = v.args /\ ~u.quoted
          /\ u.text \o Windows!Times(Windows!Backslash, u.slashes) = Windows!Text
          /\ u.begun \/ u.slashes > 0
  BY <1>2, <1>3, <1>4, Copied
<1>7. line' \in Seq(Windows!Chars)
  BY <1>2, <1>4, <1>5, ConcatProperties
<1> HIDE DEF s, v
<1>. QED
  BY <1>1, <1>4, <1>5, <1>6, <1>7, NextDone

\* The opening quote begins the argument, which may be empty.
LEMMA OpenQuoteKeeps == ASSUME QuoteInv, Windows!OpenQuote PROVE QuoteInv'
<1> DEFINE s == Windows!Scanned(line)
           m == line \o <<Windows!Blank>>
           v == Windows!Scanned(m)
           w == m \o <<Windows!Quote>>
           u == Windows!Scan(v, Windows!Quote)
<1>1. /\ line \in Seq(Windows!Chars) /\ arg <= Len(arguments) /\ ~s.quoted /\ backslashes = 0
      /\ ~(s.begun \/ s.slashes > 0) => s.text = << >>
      /\ EndOfLine(s).args = SubSeq(arguments, 1, arg - 1)
  BY DEF QuoteInv, Windows!OpenQuote, Windows!Busy
<1>2. /\ m \in Seq(Windows!Chars) /\ v \in ScanStates /\ v.args = EndOfLine(s).args
      /\ v.text = << >> /\ v.slashes = 0 /\ ~v.begun /\ ~v.quoted
  BY <1>1, BlankEnds
<1>3. /\ Windows!Quote \in Windows!Chars /\ Windows!Blank \in Windows!Chars
      /\ Windows!Backslash \in Windows!Chars
  BY DEF Windows!Chars
<1>4. line' = w
  <2>1. line' = line \o <<Windows!Blank, Windows!Quote>>
    BY DEF Windows!OpenQuote
  <2> DEFINE p == <<Windows!Blank>>
             q == <<Windows!Quote>>
  <2>2. /\ p \in Seq(Windows!Chars) /\ q \in Seq(Windows!Chars)
        /\ p \o q = <<Windows!Blank, Windows!Quote>>
    <3>1. p \in Seq(Windows!Chars) /\ q \in Seq(Windows!Chars)
      BY <1>3
    <3>2. p \o q = <<Windows!Blank, Windows!Quote>>
      <4> DEFINE r == <<Windows!Blank, Windows!Quote>>
      <4>1. r \in Seq(Windows!Chars) /\ Len(r) = 2 /\ r[1] = Windows!Blank /\ r[2] = Windows!Quote
        BY <1>3
      <4>2. Len(p) = 1 /\ p[1] = Windows!Blank /\ Len(q) = 1 /\ q[1] = Windows!Quote
        OBVIOUS
      <4> HIDE DEF r, p, q
      <4>3. /\ p \o q \in Seq(Windows!Chars) /\ Len(p \o q) = 2 /\ (p \o q)[1] = Windows!Blank
            /\ (p \o q)[2] = Windows!Quote
        BY <3>1, <4>2, ConcatProperties
      <4>4. p \o q = r
        BY <4>1, <4>3, SeqEqual
      <4>. QED
        BY <4>4 DEF r
    <3>. QED
      BY <3>1, <3>2
  <2> HIDE DEF p, q
  <2>3. (line \o p) \o q = line \o (p \o q)
    BY <1>1, <2>2, Regroup
  <2>. QED
    BY <2>1, <2>2, <2>3 DEF p, q
<1> HIDE DEF m
<1>5. w \in Seq(Windows!Chars) /\ Windows!Scanned(w) = u
  BY <1>2, <1>3, ScanOne
<1> HIDE DEF v
<1>6. v.slashes % 2 # 1 /\ v.slashes \div 2 = 0
  BY <1>2
<1>7. /\ u.args = v.args /\ u.text = v.text \o Windows!Times(Windows!Backslash, 0) /\ u.begun
      /\ u.quoted = ~v.quoted /\ u.slashes = 0
  BY <1>2, <1>6, ScanQuote
<1>8. Windows!Times(Windows!Backslash, 0) = << >> /\ << >> \in Seq(Windows!Chars)
  BY <1>3, TimesOf, EmptySeq
<1> HIDE DEF u, s, w
<1>9. u.text \o Windows!Times(Windows!Backslash, backslashes) = << >>
  BY <1>1, <1>2, <1>7, <1>8, ConcatEmptySeq
<1>10. arguments' = arguments /\ arg' = arg /\ pos' = 1 /\ backslashes' = backslashes
  BY DEF Windows!OpenQuote
<1>11. /\ Windows!Text' = Windows!Text /\ Windows!Text \in Seq(Windows!Chars)
       /\ SubSeq(Windows!Text, 1, 1 - 1) = << >>
  <2>1. Windows!Text' = Windows!Text
    BY <1>10 DEF Windows!Text
  <2>2. Windows!Text \in Seq(Windows!Chars)
    BY <1>1 DEF QuoteInv, Windows!Text
  <2>3. SubSeq(Windows!Text, 1, 1 - 1) = << >>
    BY SubSeqEmpty
  <2>. QED
    BY <2>1, <2>2, <2>3
<1>12. pos' \in 1 .. Len(Windows!Text') + 1
  BY <1>10, <1>11
<1>13. u.quoted /\ u.begun /\ u.slashes = 0 /\ u.args = SubSeq(arguments, 1, arg - 1)
  BY <1>1, <1>2, <1>7
<1>14. /\ arguments' \in Seq(Seq(Windows!Chars)) /\ line' \in Seq(Windows!Chars)
       /\ backslashes' \in Nat
       /\ arg' \in 1 .. Len(arguments') + 1 /\ arg' <= Len(arguments') /\ Windows!Scanned(line') = u
  BY <1>1, <1>4, <1>5, <1>10 DEF QuoteInv
<1>. QED
  BY <1>9, <1>10, <1>11, <1>12, <1>13, <1>14 DEF QuoteInv

\* A character of a quoted argument, with the backslashes before it or waiting.
LEMMA QuoteCharacterKeeps == ASSUME QuoteInv, Windows!QuoteCharacter PROVE QuoteInv'
<1> DEFINE s == Windows!Scanned(line)
           c == Windows!Text[pos]
           n == backslashes
           q == SubSeq(Windows!Text, 1, pos - 1)
           b == Windows!Times(Windows!Backslash, n)
<1>1. /\ arguments \in Seq(Seq(Windows!Chars)) /\ line \in Seq(Windows!Chars) /\ n \in Nat
      /\ arg \in 1 .. Len(arguments) + 1 /\ arg <= Len(arguments)
  BY DEF QuoteInv, Windows!QuoteCharacter, Windows!Busy
<1>2. Windows!Text \in Seq(Windows!Chars)
  BY <1>1 DEF Windows!Text
<1>3. pos \in 1 .. Len(Windows!Text) /\ c \in Windows!Chars
  BY <1>2 DEF Windows!QuoteCharacter
<1>4. /\ s.quoted /\ s.begun /\ s.slashes = 0
      /\ s.args = SubSeq(arguments, 1, arg - 1) /\ s.text \o b = q
  <2>1. pos # 0
    BY <1>2, <1>3
  <2>. QED
    BY <2>1, Zenon DEF QuoteInv
<1>5. /\ arguments' = arguments /\ arg' = arg /\ pos' = pos + 1 /\ Windows!Text' = Windows!Text
  BY DEF Windows!QuoteCharacter, Windows!Text
<1>6. pos' \in 1 .. Len(Windows!Text') + 1 /\ pos' - 1 = pos
  BY <1>2, <1>3, <1>5
<1>7. SubSeq(Windows!Text, 1, pos) = q \o <<c>>
  <2>1. 1 \in 1 .. Len(Windows!Text) /\ pos \in 1 .. Len(Windows!Text)
    BY <1>2, <1>3
  <2>. QED
    BY <1>2, <2>1, SubSeqRecursiveSecond
<1>8. s \in ScanStates /\ s.text \in Seq(Windows!Chars) /\ Windows!Backslash \in Windows!Chars
  <2>1. Windows!Backslash \in Windows!Chars
    BY DEF Windows!Chars
  <2>. QED
    BY <1>1, <2>1, ScanOne DEF ScanStates
<1>9. SUFFICES /\ line' \in Seq(Windows!Chars) /\ backslashes' \in Nat
               /\ LET u == Windows!Scanned(line')
                  IN  /\ u.quoted /\ u.begun /\ u.slashes = 0
                      /\ u.args = s.args
                      /\ u.text \o Windows!Times(Windows!Backslash, backslashes') = SubSeq(Windows!Text, 1, pos)
  <2>1. /\ arguments' \in Seq(Seq(Windows!Chars)) /\ arg' \in 1 .. Len(arguments') + 1
        /\ arg' <= Len(arguments')
    BY <1>1, <1>5
  <2>2. Windows!Scanned(line)' = Windows!Scanned(line')
    OBVIOUS
  <2> HIDE DEF s, c, q, b
  <2>. QED
    BY <1>4, <1>5, <1>6, <2>1 DEF QuoteInv
<1>10. CASE c = Windows!Backslash
  <2>1. backslashes' = n + 1 /\ line' = line
    BY <1>10 DEF Windows!QuoteCharacter
  <2>2. b \in Seq(Windows!Chars) /\ Windows!Times(Windows!Backslash, n + 1) = b \o <<c>>
    <3>1. /\ b \in Seq(Windows!Chars)
          /\ Windows!Times(Windows!Backslash, n + 1) = b \o <<Windows!Backslash>>
      BY <1>1, <1>8, TimesOf
    <3>. QED
      BY <1>10, <3>1
  <2> DEFINE w == s.text
             d == <<c>>
  <2>3. w \in Seq(Windows!Chars) /\ d \in Seq(Windows!Chars)
    BY <1>3, <1>8
  <2> HIDE DEF w, d, b, q
  <2>4. (w \o b) \o d = w \o (b \o d)
    BY <2>2, <2>3, Regroup
  <2>5. s.text \o Windows!Times(Windows!Backslash, backslashes') = SubSeq(Windows!Text, 1, pos)
    BY <1>4, <1>7, <2>1, <2>2, <2>4 DEF w, d
  <2>6. Windows!Scanned(line') = s /\ line' \in Seq(Windows!Chars) /\ backslashes' \in Nat
    BY <1>1, <2>1
  <2> HIDE DEF s
  <2>. QED
    BY <1>4, <2>5, <2>6
<1>11. CASE c # Windows!Backslash
  <2> DEFINE m == line \o Windows!Times(Windows!Backslash, IF c = Windows!Quote THEN 2 * n + 1 ELSE n)
                          \o <<c>>
             u == Windows!Scanned(m)
  <2>1. backslashes' = 0 /\ line' = m
    BY <1>11 DEF Windows!QuoteCharacter
  <2>2. /\ m \in Seq(Windows!Chars) /\ u \in ScanStates /\ u.quoted /\ u.begun /\ u.slashes = 0
        /\ u.args = s.args
        /\ u.text = s.text \o b \o <<c>>
    <3> DEFINE cc == c
               nn == n
    <3>1. cc \in Windows!Chars /\ nn \in Nat /\ cc # Windows!Backslash
      BY <1>1, <1>3, <1>11
    <3> HIDE DEF cc, nn, c, n
    <3> DEFINE mm == line \o Windows!Times(Windows!Backslash, IF cc = Windows!Quote THEN 2 * nn + 1 ELSE nn)
                            \o <<cc>>
    <3>2. LET uu == Windows!Scanned(mm)
          IN  /\ mm \in Seq(Windows!Chars) /\ uu \in ScanStates /\ uu.quoted /\ uu.begun
              /\ uu.slashes = 0 /\ uu.args = s.args
              /\ uu.text = s.text \o Windows!Times(Windows!Backslash, nn) \o <<cc>>
      BY <1>1, <1>4, <3>1, BackslashesRead
    <3>. QED
      BY <3>2 DEF cc, nn
  <2>3. q \o <<c>> \in Seq(Windows!Chars) /\ Windows!Times(Windows!Backslash, 0) = << >>
    <3>1. Windows!Times(Windows!Backslash, 0) = << >>
      BY <1>8, TimesOf
    <3>2. \A i \in 1 .. pos : Windows!Text[i] \in Windows!Chars
      BY <1>2, <1>3
    <3>3. SubSeq(Windows!Text, 1, pos) \in Seq(Windows!Chars)
      BY <1>3, <3>2, SubSeqProperties
    <3>. QED
      BY <1>7, <3>1, <3>3
  <2>4. u.text = q \o <<c>>
    BY <1>4, <2>2
  <2> HIDE DEF m, u, q
  <2>5. u.text \o Windows!Times(Windows!Backslash, backslashes') = SubSeq(Windows!Text, 1, pos)
    BY <1>7, <2>1, <2>3, <2>4, ConcatEmptySeq
  <2> HIDE DEF s
  <2>. QED
    BY <2>1, <2>2, <2>5 DEF u
<1>. QED
  BY <1>10, <1>11

\* The closing quote ends the argument with the backslashes that it has.
LEMMA CloseQuoteKeeps == ASSUME QuoteInv, Windows!CloseQuote PROVE QuoteInv'
<1> DEFINE s == Windows!Scanned(line)
           n == backslashes
           m == line \o Windows!Times(Windows!Backslash, 2 * n) \o <<Windows!Quote>>
           u == Windows!Scanned(m)
           b == Windows!Times(Windows!Backslash, n)
<1>1. /\ arguments \in Seq(Seq(Windows!Chars)) /\ line \in Seq(Windows!Chars) /\ n \in Nat
      /\ arg \in 1 .. Len(arguments) + 1 /\ arg <= Len(arguments)
  BY DEF QuoteInv, Windows!CloseQuote, Windows!Busy
<1>2. Windows!Text \in Seq(Windows!Chars)
  BY <1>1 DEF Windows!Text
<1>3. pos = Len(Windows!Text) + 1 /\ pos # 0
  BY <1>2 DEF Windows!CloseQuote
<1>4. /\ s.quoted /\ s.begun /\ s.slashes = 0
      /\ s.args = SubSeq(arguments, 1, arg - 1) /\ s.text \o b = SubSeq(Windows!Text, 1, pos - 1)
  BY <1>3, Zenon DEF QuoteInv
<1>5. SubSeq(Windows!Text, 1, pos - 1) = Windows!Text
  <2>1. pos - 1 = Len(Windows!Text)
    BY <1>2, <1>3
  <2>. QED
    BY <1>2, <2>1, SubSeqFull
<1>6. line' = m /\ Windows!NextArgument
  BY DEF Windows!CloseQuote
<1>7. /\ m \in Seq(Windows!Chars) /\ u \in ScanStates
      /\ ~u.quoted /\ u.begun /\ u.slashes = 0 /\ u.args = s.args /\ u.text = s.text \o b
  BY <1>1, <1>4, QuoteCloses
<1>8. Windows!Times(Windows!Backslash, 0) = << >>
  BY TimesOf
<1> HIDE DEF u, m, s, b
<1>9. u.text = Windows!Text
  BY <1>4, <1>5, <1>7
<1>10. u.text \o Windows!Times(Windows!Backslash, u.slashes) = Windows!Text
  BY <1>2, <1>7, <1>8, <1>9, ConcatEmptySeq
<1>11. u = Windows!Scanned(line')
  BY <1>6 DEF u
<1>. QED
  BY <1>1, <1>4, <1>6, <1>7, <1>10, <1>11, NextDone

\* Every step of the quoting keeps the invariant, and the invariant says that the
\* arguments survive.
LEMMA QuoteKept ==
  /\ QuoteInv /\ [Windows!Next]_(Windows!vars) => QuoteInv'
  /\ QuoteInv => Windows!ArgumentsSurvive
<1>1. QuoteInv /\ UNCHANGED Windows!vars => QuoteInv'
  BY DEF Windows!vars, QuoteInv, Windows!Text
<1>2. QuoteInv /\ [Windows!Next]_(Windows!vars) => QuoteInv'
  BY <1>1, CopyArgumentKeeps, OpenQuoteKeeps, QuoteCharacterKeeps, CloseQuoteKeeps DEF Windows!Next
<1>3. ASSUME QuoteInv, pos = 0 PROVE Windows!Split(line) = SubSeq(arguments, 1, arg - 1)
  BY <1>3 DEF QuoteInv, Windows!Split, EndOfLine
<1>. QED
  BY <1>2, <1>3 DEF Windows!ArgumentsSurvive

\* While another part runs, nothing is quoted.
QuotePart == (part # "quote" => QuoteIdle) /\ QuoteInv

\* For any number of arguments of any length: the program that runProcess starts gets
\* back exactly the arguments it was given (quoteWindowsArgument), whatever blanks,
\* quotes and backslashes they have.
THEOREM ArgumentsComeBack == Spec => []ArgumentsSurvive
<1>0. MaxLength \in Nat /\ MaxQuoted \in Nat
  BY PartsAssumption DEF Windows!LineAssumption
<1>1. Init => QuotePart
  <2>. SUFFICES ASSUME Init PROVE QuotePart
    OBVIOUS
  <2>1. arguments \in Seq(Seq(Windows!Chars)) /\ (part # "quote" => QuoteIdle)
    <3>1. CASE part = "quote"
      <4>1. arguments \in Windows!SeqOf(Windows!Arguments, MaxQuoted)
        BY <3>1 DEF Init, Windows!Init
      <4>2. Windows!Arguments \subseteq Seq(Windows!Chars)
        BY <1>0 DEF Windows!Arguments, Windows!SeqOf
      <4>3. arguments \in Seq(Windows!Arguments)
        BY <1>0, <4>1 DEF Windows!SeqOf
      <4>. QED
        BY <3>1, <4>2, <4>3
    <3>2. CASE part # "quote"
      <4>1. QuoteIdle
        BY <3>2 DEF Init
      <4>. QED
        BY <4>1, EmptySeq DEF QuoteIdle
    <3>. QED
      BY <3>1, <3>2
  <2>2. arg = 1 /\ pos = 0 /\ backslashes = 0 /\ line = << >>
    BY DEF Init, QuoteIdle, Windows!Init
  <2>. QED
    BY <2>1, <2>2, QuoteStarts DEF QuotePart
<1>2. QuotePart /\ [Next]_mcVars => QuotePart'
  <2>. SUFFICES ASSUME QuotePart, [Next]_mcVars PROVE QuotePart'
    OBVIOUS
  <2>1. part' = part
    BY DEF Next, LineStep, PlanStep, BuildStep, CargoStep, QuoteStep, Finished, mcVars
  <2>2. CASE part = "quote"
    <3>1. [Windows!Next]_(Windows!vars)
      BY <2>2 DEF Next, LineStep, PlanStep, BuildStep, CargoStep, QuoteStep, Finished,
                  mcVars, quoteVars, Windows!vars
    <3>. QED
      BY <2>1, <2>2, <3>1, QuoteKept DEF QuotePart
  <2>3. CASE part # "quote"
    <3>1. UNCHANGED quoteVars
      BY <2>3 DEF Next, LineStep, PlanStep, BuildStep, CargoStep, QuoteStep, Finished, mcVars
    <3>2. [Windows!Next]_(Windows!vars) /\ (QuoteIdle => QuoteIdle')
      BY <3>1 DEF quoteVars, Windows!vars, QuoteIdle
    <3>. QED
      BY <2>1, <2>3, <3>2, QuoteKept DEF QuotePart
  <2>. QED
    BY <2>2, <2>3
<1>3. QuotePart => ArgumentsSurvive
  BY QuoteKept DEF QuotePart, ArgumentsSurvive
<1>. QED
  BY <1>1, <1>2, <1>3, PTL DEF Spec
=============================================================================
