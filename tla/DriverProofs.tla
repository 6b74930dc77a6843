---------------------------- MODULE DriverProofs ----------------------------
(***************************************************************************)
(* Proofs about the run of hsc, for every set of builds and environments:  *)
(* whatever step fails, a run that reports success has made the whole      *)
(* product after checking every unit, and its record tells what happened.  *)
(* The calls that remain are described by the set of them and by their     *)
(* order: a call's effect is there or the call is still to come.           *)
(*                                                                         *)
(* At the end, the theorems about the parse of a command line, which rest  *)
(* on DriverPartsProofs, and about all parts.                              *)
(***************************************************************************)
EXTENDS DriverPartsProofs

-----------------------------------------------------------------------------
(* The calls that remain.                                                  *)

\* The calls made for a unit, for an action that is no build, and to link.
UnitCalls == {"preprocess", "parse", "c_compat_lowering", "sema_hir", "llvm_emission",
              "optimize", "append_remarks", "emit"}
ActionCalls == {"--target-info", "--dump-tokens", "--dump-ast", "--dump-hir", "--emit-llvm",
                "--preprocess-only"}
Links == {"link", "mixed_link"}

\* Calls are made in the order of their ranks.
Rank(c) ==
    CASE c \in UnitCalls -> 0
      [] c \in {"clang", "mixed_tools", "extract"} -> 2
      [] c \in {"sanitizer_runtime", "c_sources", "cxx_sources", "runtime_sources",
                "remove_mixed_pdb", "leave_temp", "extracted", "archive"} -> 3
      [] c \in Links \cup {"emit_input", "copy_archive", "write_ir"} -> 4
      [] c \in {"dsym", "skip_native", "skip_link"} -> 5
      [] c = "check_pdb" -> 6
      [] c \in {"finish_success", "finish_failure"} -> 7
      [] OTHER -> 1

\* The calls after which nothing is left to call.
Final == ActionCalls \cup {"command_line", "dispatch", "compile", "fail_cli", "finish_success",
                           "finish_failure"}

\* Only calls for units are made more than once.
InOrder(t) ==
    \A i, j \in DOMAIN t : i < j =>
        /\ Rank(t[i].call) <= Rank(t[j].call)
        /\ t[i].call = t[j].call => t[i].call \in UnitCalls
        /\ t[i].call \notin Final

\* The place of a call among the stages of the front end.
StageNumber(c) ==
    CASE c = "preprocess" -> 1 [] c = "parse" -> 2 [] c = "c_compat_lowering" -> 3
      [] c = "sema_hir" -> 4 [] c = "llvm_emission" -> 5 [] OTHER -> 0

\* The stages of the front end follow one another.
Staged(t) ==
    /\ \A i \in 1 .. (Len(t) - 1) :
          (StageNumber(t[i].call) \in 1 .. 4 \/ StageNumber(t[i + 1].call) \in 2 .. 5)
          => StageNumber(t[i + 1].call) = StageNumber(t[i].call) + 1
    /\ t # << >> => StageNumber(t[Len(t)].call) \notin 1 .. 4

\* Before the compile function, and after a failure.
Outside == ActionCalls \cup {"command_line", "profile", "timing_path", "dispatch", "remarks",
                             "cargo", "compile", "fail_cli", "finish_failure"}
\* One of the calls in S has one of these names; none of them is outside the
\* compile functions.
Named(S, names) == \E x \in S : x.call \in names
Inside(S) == ~Named(S, Outside)

\* The calls of builds of an executable only.
BinCalls == Links \cup {"cargo", "remove_pdb", "remove_mixed_pdb", "check_pdb", "c_sources",
                        "cxx_sources", "mixed_tools", "clang"}

\* Which calls there are depends on what is built; granted says that the command
\* line was accepted.
Belong(S, o, granted) ==
    /\ Named(S, {"profile", "timing_path", "dispatch"} \cup ActionCalls) => granted
    /\ Named(S, {"remarks", "cargo", "compile", "fail_cli"} \cup BinCalls)
       => granted /\ o.actions = {} /\ o.inputs # << >>
    /\ Named(S, BinCalls) => o.crateType = "bin"
    /\ Named(S, {"copy_archive", "extract", "archive", "extracted"}) => o.crateType = "staticlib"
    /\ Named(S, ActionCalls \cup {"write_ir"}) => o.actions # {}
    /\ Named(S, {"emit_input"}) => o.crateType = "object" /\ Len(o.inputs) = 1
    /\ Named(S, {"profile", "timing_path"}) => Named(S, {"dispatch"})
    /\ Named(S, {"remarks", "cargo"}) => Named(S, {"compile"})
    /\ Named(S, {"--emit-llvm", "write_ir"}) => Len(o.inputs) = 1
    /\ o.crateType = "object" /\ Inside(S) /\ granted /\ o.actions = {} => Len(o.inputs) = 1

\* The command line was read without an error and asks for more than a text.
Granted == Outcome(parse) = "ok" /\ parse.state # "shown"

\* The calls that remain, as a set.
Left == ToSet(todo)

\* The options are of the kinds that the parse can set, and every path among
\* them is an argument of the line or the value of one.
ReadFrom(o, l) ==
    LET values == {l[i].val : i \in DOMAIN l} IN
    /\ DOMAIN o = DOMAIN DefaultOptions
    /\ o.crateType \in {"bin", "object", "staticlib"}
    /\ o.actions \subseteq ActionFlags \ {"-E"}
    /\ o.inputs \in Seq(ToSet(l))
    /\ o.output \in ToSet(l) \cup {Absent}
    /\ {o.timingJson, o.remarks} \subseteq values \cup {None}

\* The options are those of the command line, but for what hsc resets and what
\* Cargo adds.
OptionsKept ==
    /\ args \in Builds /\ parse = parseDriverOptions(args) /\ env \in Environments
    /\ ReadFrom(opts, args)
    /\ opts.inputs = parse.options.inputs /\ opts.crateType = parse.options.crateType
    /\ opts.ext \subseteq parse.options.ext \cup {"--link-input"}
    /\ opts.timingJson \in {None, parse.options.timingJson}

\* A step has failed, and only the failure is left to record.
Failing == todo = <<Call("finish_failure", None)>>

\* Every call of the driver.
CallNames ==
    UnitCalls \cup Outside \cup BinCalls \cup
    {"each_frontend", "each_emit", "each_unit", "emit_input", "source_modules", "emit_modules",
     "merge", "mains", "external_abi", "parent_cli", "parent_write", "sanitizer_write",
     "sanitizer_link", "temp", "skip_write", "skip_link", "skip_native", "sanitizer_runtime",
     "runtime_sources", "dsym", "llvm-ar", "runtime_library", "enter_temp", "extract",
     "leave_temp", "extracted", "archive", "copy_archive", "write_ir", "finish_success"}
CallsFor(U) == [call : CallNames, of : U \cup {None}, index : Nat \ {0}]

\* The calls that remain are in order and belong to what is built.
ControlInv ==
    /\ OptionsKept
    /\ todo \in Seq(CallsFor(Units))
    /\ InOrder(todo) /\ Staged(todo) /\ Belong(Left, opts, Granted)
    /\ Named(Left, {"finish_failure"}) => Failing
    /\ exit \in {None, "success", "failure"}
    /\ exit = "success" => ~Failing

-----------------------------------------------------------------------------
(* Sequences of calls.                                                     *)

\* Two lists of calls may follow one another.
Fits(c, t) ==
    \A x \in ToSet(c), y \in ToSet(t) :
        /\ Rank(x.call) <= Rank(y.call)
        /\ x.call = y.call => x.call \in UnitCalls
        /\ x.call \notin Final

\* The front end of a unit is not torn apart where the lists meet.
Meets(c, t) ==
    t # << >> => /\ StageNumber(t[1].call) \notin 2 .. 5
                 /\ c # << >> => StageNumber(c[Len(c)].call) \notin 1 .. 4

\* A call that is done leaves the others in order: they come after it, and only
\* the calls for units have namesakes.
LEMMA Popped ==
  ASSUME NEW S, NEW t \in Seq(S), t # << >>, InOrder(t), Staged(t)
  PROVE  /\ Tail(t) \in Seq(S) /\ InOrder(Tail(t)) /\ Staged(Tail(t))
         /\ Head(t) \in S /\ ToSet(t) = ToSet(Tail(t)) \cup {Head(t)}
         /\ \A x \in ToSet(Tail(t)) : /\ Rank(Head(t).call) <= Rank(x.call)
                                      /\ x.call = Head(t).call => x.call \in UnitCalls
                                      /\ Head(t).call \notin Final
         /\ StageNumber(Head(t).call) \in 1 .. 4 => Tail(t) # << >>
         /\ Tail(t) # << >> =>
              /\ Head(Tail(t)) \in ToSet(Tail(t)) /\ Head(Tail(t)) = Tail(t)[1]
              /\ (StageNumber(Head(t).call) \in 1 .. 4 \/ StageNumber(Head(Tail(t)).call) \in 2 .. 5)
                 => StageNumber(Head(Tail(t)).call) = StageNumber(Head(t).call) + 1
<1>1. /\ Tail(t) \in Seq(S) /\ Len(Tail(t)) = Len(t) - 1 /\ DOMAIN t = 1 .. Len(t)
      /\ DOMAIN Tail(t) = 1 .. (Len(t) - 1) /\ Len(t) \in Nat \ {0}
      /\ \A i \in 1 .. (Len(t) - 1) : Tail(t)[i] = t[i + 1]
      /\ Head(t) = t[1] /\ t[1] \in S
  OBVIOUS
<1>2. InOrder(Tail(t))
  BY <1>1 DEF InOrder
<1>3. Staged(Tail(t))
  <2>1. \A i \in 1 .. (Len(Tail(t)) - 1) :
          /\ Tail(t)[i] = t[i + 1] /\ Tail(t)[i + 1] = t[(i + 1) + 1] /\ i + 1 \in 1 .. (Len(t) - 1)
    BY <1>1
  <2>2. Tail(t) # << >> => Tail(t)[Len(Tail(t))] = t[Len(t)]
    BY <1>1
  <2>. QED
    BY <1>1, <2>1, <2>2 DEF Staged
<1>4. ToSet(t) = ToSet(Tail(t)) \cup {Head(t)}
  <2>1. ASSUME NEW x \in ToSet(t), x # Head(t) PROVE x \in ToSet(Tail(t))
    <3>1. PICK i \in 1 .. Len(t) : x = t[i]
      BY <1>1 DEF ToSet
    <3>2. i - 1 \in 1 .. (Len(t) - 1) /\ Tail(t)[i - 1] = x
      BY <1>1, <2>1, <3>1
    <3>. QED
      BY <1>1, <3>2 DEF ToSet
  <2>2. ASSUME NEW x \in ToSet(Tail(t)) PROVE x \in ToSet(t)
    <3>1. PICK i \in 1 .. (Len(t) - 1) : x = Tail(t)[i]
      BY <1>1, <2>2 DEF ToSet
    <3>. QED
      BY <1>1, <3>1 DEF ToSet
  <2>3. Head(t) \in ToSet(t)
    BY <1>1 DEF ToSet
  <2>. QED
    BY <2>1, <2>2, <2>3
<1>5. ASSUME NEW x \in ToSet(Tail(t))
      PROVE  /\ Rank(Head(t).call) <= Rank(x.call)
             /\ x.call = Head(t).call => x.call \in UnitCalls
             /\ Head(t).call \notin Final
  <2>1. PICK i \in 1 .. (Len(t) - 1) : x = t[i + 1]
    BY <1>1 DEF ToSet
  <2>. QED
    BY <1>1, <2>1 DEF InOrder
<1>6. Tail(t) # << >> =>
        /\ Head(Tail(t)) \in ToSet(Tail(t)) /\ Head(Tail(t)) = Tail(t)[1] /\ Head(Tail(t)) = t[2]
        /\ Len(t) - 1 \in Nat \ {0}
  BY <1>1 DEF ToSet
<1>7. Tail(t) # << >> =>
        ((StageNumber(Head(t).call) \in 1 .. 4 \/ StageNumber(Head(Tail(t)).call) \in 2 .. 5)
         => StageNumber(Head(Tail(t)).call) = StageNumber(Head(t).call) + 1)
  BY <1>1, <1>6 DEF Staged
<1>8. Tail(t) = << >> => Len(t) = 1
  BY <1>1
<1>9. StageNumber(Head(t).call) \in 1 .. 4 => Tail(t) # << >>
  BY <1>1, <1>8 DEF Staged
<1>. QED
  BY <1>1, <1>2, <1>3, <1>4, <1>5, <1>6, <1>7, <1>9

\* Lists that fit and meet may be put together.
LEMMA Pushed ==
  ASSUME NEW S, NEW c \in Seq(S), NEW t \in Seq(S), InOrder(c), InOrder(t), Staged(c), Staged(t),
         Fits(c, t), Meets(c, t)
  PROVE  /\ c \o t \in Seq(S) /\ InOrder(c \o t) /\ Staged(c \o t)
         /\ ToSet(c \o t) = ToSet(c) \cup ToSet(t)
<1>. DEFINE s == c \o t
<1>1. /\ s \in Seq(S) /\ Len(s) = Len(c) + Len(t) /\ Len(c) \in Nat /\ Len(t) \in Nat
      /\ DOMAIN s = 1 .. Len(s) /\ DOMAIN c = 1 .. Len(c) /\ DOMAIN t = 1 .. Len(t)
      /\ \A i \in 1 .. Len(c) : s[i] = c[i] /\ c[i] \in ToSet(c)
      /\ \A i \in 1 .. Len(s) : i > Len(c) => /\ s[i] = t[i - Len(c)] /\ t[i - Len(c)] \in ToSet(t)
                                             /\ i - Len(c) \in 1 .. Len(t)
  BY DEF ToSet
<1>. HIDE DEF s
<1>2. InOrder(s)
  <2>. SUFFICES ASSUME NEW i \in 1 .. Len(s), NEW j \in 1 .. Len(s), i < j
                PROVE  /\ Rank(s[i].call) <= Rank(s[j].call)
                       /\ s[i].call = s[j].call => s[i].call \in UnitCalls
                       /\ s[i].call \notin Final
    BY <1>1 DEF InOrder
  <2>1. CASE j <= Len(c)
    BY <1>1, <2>1 DEF InOrder
  <2>2. CASE i <= Len(c) /\ j > Len(c)
    <3>1. i \in 1 .. Len(c) /\ s[i] \in ToSet(c) /\ s[j] \in ToSet(t)
      BY <1>1, <2>2
    <3>. QED
      BY <3>1 DEF Fits
  <2>3. CASE i > Len(c)
    <3>1. /\ i - Len(c) < j - Len(c) /\ i - Len(c) \in 1 .. Len(t) /\ j - Len(c) \in 1 .. Len(t)
          /\ s[i] = t[i - Len(c)] /\ s[j] = t[j - Len(c)]
      BY <1>1, <2>3
    <3>. QED
      BY <1>1, <3>1 DEF InOrder
  <2>4. i \in Nat /\ j \in Nat /\ Len(c) \in Nat
    BY <1>1
  <2>. QED
    BY <2>1, <2>2, <2>3, <2>4
<1>3. ASSUME NEW i \in 1 .. (Len(s) - 1)
      PROVE  (StageNumber(s[i].call) \in 1 .. 4 \/ StageNumber(s[i + 1].call) \in 2 .. 5)
             => StageNumber(s[i + 1].call) = StageNumber(s[i].call) + 1
  <2>1. CASE i + 1 <= Len(c)
    BY <1>1, <2>1 DEF Staged
  <2>2. CASE i = Len(c)
    <3>1. s[i] = c[Len(c)] /\ s[i + 1] = t[1] /\ c # << >> /\ t # << >>
      BY <1>1, <2>2
    <3>. QED
      BY <3>1 DEF Meets
  <2>3. CASE i > Len(c)
    <3>1. /\ s[i] = t[i - Len(c)] /\ s[i + 1] = t[(i - Len(c)) + 1]
          /\ i - Len(c) \in 1 .. (Len(t) - 1)
      <4>1. i + 1 \in 1 .. Len(s) /\ i + 1 > Len(c) /\ (i + 1) - Len(c) = (i - Len(c)) + 1
        BY <1>1, <2>3
      <4>. QED
        BY <1>1, <2>3, <4>1
    <3>. QED
      BY <3>1 DEF Staged
  <2>4. i \in Nat /\ Len(c) \in Nat
    BY <1>1
  <2>. QED
    BY <2>1, <2>2, <2>3, <2>4
<1>4. s # << >> => StageNumber(s[Len(s)].call) \notin 1 .. 4
  <2>1. CASE t # << >>
    <3>1. Len(t) > 0 /\ s[Len(s)] = t[Len(t)]
      BY <1>1, <2>1
    <3>. QED
      BY <2>1, <3>1 DEF Staged
  <2>2. CASE t = << >>
    <3>1. Len(t) = 0 /\ Len(s) = Len(c)
      BY <1>1, <2>2
    <3>2. s # << >> => Len(c) > 0 /\ c # << >> /\ s[Len(s)] = c[Len(c)]
      BY <1>1, <3>1
    <3>. QED
      BY <3>2 DEF Staged
  <2>. QED
    BY <2>1, <2>2
<1>5. ToSet(s) = ToSet(c) \cup ToSet(t)
  <2>1. ASSUME NEW x \in ToSet(s) PROVE x \in ToSet(c) \cup ToSet(t)
    <3>1. PICK i \in 1 .. Len(s) : x = s[i]
      BY <1>1, <2>1 DEF ToSet
    <3>2. i <= Len(c) \/ i > Len(c)
      BY <1>1
    <3>. QED
      BY <1>1, <3>1, <3>2
  <2>2. ASSUME NEW x \in ToSet(c) PROVE x \in ToSet(s)
    <3>1. PICK i \in 1 .. Len(c) : x = c[i]
      BY <1>1, <2>2 DEF ToSet
    <3>2. i \in 1 .. Len(s) /\ s[i] = x
      BY <1>1, <3>1
    <3>. QED
      BY <1>1, <3>2 DEF ToSet
  <2>3. ASSUME NEW x \in ToSet(t) PROVE x \in ToSet(s)
    <3>1. PICK i \in 1 .. Len(t) : x = t[i]
      BY <1>1 DEF ToSet
    <3>2. i + Len(c) \in 1 .. Len(s) /\ i + Len(c) > Len(c) /\ (i + Len(c)) - Len(c) = i
      BY <1>1
    <3>3. s[i + Len(c)] = x
      BY <1>1, <3>1, <3>2
    <3>. QED
      BY <1>1, <3>2, <3>3 DEF ToSet
  <2>. QED
    BY <2>1, <2>2, <2>3
<1>6. Staged(s)
  BY <1>3, <1>4 DEF Staged
<1>. QED
  BY <1>1, <1>2, <1>5, <1>6 DEF s

\* A list of names that can be called one after the other.
Listing(s) ==
    /\ \A i, j \in DOMAIN s : i < j => /\ Rank(s[i]) <= Rank(s[j]) /\ s[i] # s[j]
                                       /\ s[i] \notin Final
    /\ \A i \in DOMAIN s : StageNumber(s[i]) = 0

\* The calls with these names are in order, and for no unit.
LEMMA Listed ==
  ASSUME NEW U, NEW s \in Seq(CallNames), Listing(s)
  PROVE  /\ Calls(s) \in Seq(CallsFor(U)) /\ InOrder(Calls(s)) /\ Staged(Calls(s))
         /\ ToSet(Calls(s)) = {Call(n, None) : n \in ToSet(s)}
         /\ \A t : Meets(t, Calls(s)) <=> (s # << >> /\ t # << >> => StageNumber(t[Len(t)].call) \notin 1 .. 4)
         /\ Calls(s) # << >> => StageNumber(Calls(s)[Len(Calls(s))].call) = 0
<1>. DEFINE c == Calls(s)
<1>1. /\ c \in Seq(CallsFor(U)) /\ DOMAIN c = 1 .. Len(s) /\ DOMAIN s = 1 .. Len(s) /\ Len(s) \in Nat
      /\ Len(c) = Len(s)
      /\ \A i \in 1 .. Len(s) : c[i] = Call(s[i], None) /\ c[i].call = s[i]
  <2>1. Len(s) \in Nat /\ DOMAIN s = 1 .. Len(s) /\ \A i \in 1 .. Len(s) : s[i] \in CallNames
    OBVIOUS
  <2>2. \A i \in 1 .. Len(s) : Call(s[i], None) \in CallsFor(U) /\ Call(s[i], None).call = s[i]
    BY <2>1 DEF Call, CallsFor
  <2>3. c = [i \in 1 .. Len(s) |-> Call(s[i], None)]
    BY <2>1 DEF Calls
  <2>4. c \in [1 .. Len(s) -> CallsFor(U)]
    BY <2>2, <2>3
  <2>5. c \in Seq(CallsFor(U)) /\ Len(c) = Len(s)
    BY <2>1, <2>4
  <2>. QED
    BY <2>1, <2>2, <2>3, <2>5
<1>. HIDE DEF c
<1>2. InOrder(c)
  BY <1>1 DEF InOrder, Listing
<1>3. Staged(c)
  <2>1. \A i \in 1 .. Len(s) : StageNumber(c[i].call) = 0
    BY <1>1 DEF Listing
  <2>2. ASSUME NEW i \in 1 .. (Len(c) - 1)
        PROVE  StageNumber(c[i].call) = 0 /\ StageNumber(c[i + 1].call) = 0
    BY <1>1, <2>1
  <2>3. c # << >> => StageNumber(c[Len(c)].call) = 0
    BY <1>1, <2>1
  <2>. QED
    BY <2>2, <2>3 DEF Staged
<1>4. ToSet(c) = {Call(n, None) : n \in ToSet(s)}
  BY <1>1 DEF ToSet
<1>5. s # << >> <=> c # << >>
  BY <1>1
<1>6. c # << >> => StageNumber(c[1].call) = 0 /\ StageNumber(c[Len(c)].call) = 0
  BY <1>1 DEF Listing
<1>. QED
  BY <1>1, <1>2, <1>3, <1>4, <1>5, <1>6 DEF c, Meets

\* The names of the calls of each compile function.
ObjectNames == <<"parent_cli", "each_frontend", "source_modules", "merge", "emit_input",
                 "skip_native", "finish_success">>
LibraryNames ==
    <<"llvm-ar", "parent_cli", "temp", "each_unit", "source_modules", "emit_modules",
      "runtime_library", "enter_temp", "extract", "leave_temp", "extracted", "archive",
      "copy_archive", "skip_native", "finish_success">>
ExecutableNames ==
    <<"each_frontend", "mains", "external_abi", "source_modules", "parent_write",
      "sanitizer_write", "remove_pdb", "temp", "each_emit", "emit_modules", "skip_write",
      "clang", "sanitizer_runtime", "link", "dsym", "check_pdb", "finish_success">>
MixedNames ==
    <<"temp", "each_unit", "mains", "external_abi", "source_modules", "emit_modules",
      "parent_write", "skip_write", "sanitizer_link", "mixed_tools", "c_sources",
      "cxx_sources", "runtime_sources", "remove_mixed_pdb", "mixed_link", "dsym",
      "check_pdb", "finish_success">>
PrintNames == <<"each_frontend", "source_modules", "merge", "skip_write", "skip_link",
                "finish_success">>
WriteNames == <<"each_frontend", "source_modules", "merge", "parent_write", "write_ir",
                "skip_link", "finish_success">>

\* Each of the lists that a compile function and emitLlvm run through is in
\* order.
LEMMA ProperLists ==
  \A s \in {ObjectNames, LibraryNames, ExecutableNames, MixedNames, PrintNames, WriteNames} :
      s \in Seq(CallNames) /\ Listing(s) /\ s # << >>
<1>1. ObjectNames \in Seq(CallNames) /\ Listing(ObjectNames) /\ ObjectNames # << >>
  <2>1. ObjectNames \in Seq(CallNames) /\ ObjectNames # << >>
    BY DEF ObjectNames, CallNames, UnitCalls, Outside, BinCalls, Links
  <2>2. \A i \in DOMAIN ObjectNames : StageNumber(ObjectNames[i]) = 0
    BY DEF StageNumber, ObjectNames
  <2>3. \A i, j \in DOMAIN ObjectNames : i < j => Rank(ObjectNames[i]) <= Rank(ObjectNames[j])
    BY DEF Rank, UnitCalls, Links, ObjectNames
  <2>4. \A i, j \in DOMAIN ObjectNames : i < j => ObjectNames[i] # ObjectNames[j] /\ ObjectNames[i] \notin Final
    BY DEF Final, ActionCalls, ObjectNames
  <2>. QED
    BY <2>1, <2>2, <2>3, <2>4 DEF Listing
<1>2. LibraryNames \in Seq(CallNames) /\ Listing(LibraryNames) /\ LibraryNames # << >>
  <2>1. LibraryNames \in Seq(CallNames) /\ LibraryNames # << >>
    BY DEF LibraryNames, CallNames, UnitCalls, Outside, BinCalls, Links
  <2>2. \A i \in DOMAIN LibraryNames : StageNumber(LibraryNames[i]) = 0
    BY DEF StageNumber, LibraryNames
  <2>3. \A i, j \in DOMAIN LibraryNames : i < j => Rank(LibraryNames[i]) <= Rank(LibraryNames[j])
    BY DEF Rank, UnitCalls, Links, LibraryNames
  <2>4. \A i, j \in DOMAIN LibraryNames : i < j => LibraryNames[i] # LibraryNames[j] /\ LibraryNames[i] \notin Final
    BY DEF Final, ActionCalls, LibraryNames
  <2>. QED
    BY <2>1, <2>2, <2>3, <2>4 DEF Listing
<1>3. ExecutableNames \in Seq(CallNames) /\ Listing(ExecutableNames) /\ ExecutableNames # << >>
  <2>1. ExecutableNames \in Seq(CallNames) /\ ExecutableNames # << >>
    BY DEF ExecutableNames, CallNames, UnitCalls, Outside, BinCalls, Links
  <2>2. \A i \in DOMAIN ExecutableNames : StageNumber(ExecutableNames[i]) = 0
    BY DEF StageNumber, ExecutableNames
  <2>3. \A i, j \in DOMAIN ExecutableNames : i < j => Rank(ExecutableNames[i]) <= Rank(ExecutableNames[j])
    BY DEF Rank, UnitCalls, Links, ExecutableNames
  <2>4. \A i, j \in DOMAIN ExecutableNames : i < j => ExecutableNames[i] # ExecutableNames[j] /\ ExecutableNames[i] \notin Final
    BY DEF Final, ActionCalls, ExecutableNames
  <2>. QED
    BY <2>1, <2>2, <2>3, <2>4 DEF Listing
<1>4. MixedNames \in Seq(CallNames) /\ Listing(MixedNames) /\ MixedNames # << >>
  <2>1. MixedNames \in Seq(CallNames) /\ MixedNames # << >>
    BY DEF MixedNames, CallNames, UnitCalls, Outside, BinCalls, Links
  <2>2. \A i \in DOMAIN MixedNames : StageNumber(MixedNames[i]) = 0
    BY DEF StageNumber, MixedNames
  <2>3. \A i, j \in DOMAIN MixedNames : i < j => Rank(MixedNames[i]) <= Rank(MixedNames[j])
    BY DEF Rank, UnitCalls, Links, MixedNames
  <2>4. \A i, j \in DOMAIN MixedNames : i < j => MixedNames[i] # MixedNames[j] /\ MixedNames[i] \notin Final
    BY DEF Final, ActionCalls, MixedNames
  <2>. QED
    BY <2>1, <2>2, <2>3, <2>4 DEF Listing
<1>5. PrintNames \in Seq(CallNames) /\ Listing(PrintNames) /\ PrintNames # << >>
  <2>1. PrintNames \in Seq(CallNames) /\ PrintNames # << >>
    BY DEF PrintNames, CallNames, UnitCalls, Outside, BinCalls, Links
  <2>2. \A i \in DOMAIN PrintNames : StageNumber(PrintNames[i]) = 0
    BY DEF StageNumber, PrintNames
  <2>3. \A i, j \in DOMAIN PrintNames : i < j => Rank(PrintNames[i]) <= Rank(PrintNames[j])
    BY DEF Rank, UnitCalls, Links, PrintNames
  <2>4. \A i, j \in DOMAIN PrintNames : i < j => PrintNames[i] # PrintNames[j] /\ PrintNames[i] \notin Final
    BY DEF Final, ActionCalls, PrintNames
  <2>. QED
    BY <2>1, <2>2, <2>3, <2>4 DEF Listing
<1>6. WriteNames \in Seq(CallNames) /\ Listing(WriteNames) /\ WriteNames # << >>
  <2>1. WriteNames \in Seq(CallNames) /\ WriteNames # << >>
    BY DEF WriteNames, CallNames, UnitCalls, Outside, BinCalls, Links
  <2>2. \A i \in DOMAIN WriteNames : StageNumber(WriteNames[i]) = 0
    BY DEF StageNumber, WriteNames
  <2>3. \A i, j \in DOMAIN WriteNames : i < j => Rank(WriteNames[i]) <= Rank(WriteNames[j])
    BY DEF Rank, UnitCalls, Links, WriteNames
  <2>4. \A i, j \in DOMAIN WriteNames : i < j => WriteNames[i] # WriteNames[j] /\ WriteNames[i] \notin Final
    BY DEF Final, ActionCalls, WriteNames
  <2>. QED
    BY <2>1, <2>2, <2>3, <2>4 DEF Listing
<1>. QED
  BY <1>1, <1>2, <1>3, <1>4, <1>5, <1>6

\* The names on each of the lists, as a set.
LEMMA NameSets ==
  /\ ToSet(ObjectNames) =
         {"parent_cli", "each_frontend", "source_modules", "merge", "emit_input",
          "skip_native", "finish_success"}
  /\ ToSet(LibraryNames) =
         {"llvm-ar", "parent_cli", "temp", "each_unit", "source_modules",
          "emit_modules", "runtime_library", "enter_temp", "extract", "leave_temp",
          "extracted", "archive", "copy_archive", "skip_native", "finish_success"}
  /\ ToSet(ExecutableNames) =
         {"each_frontend", "mains", "external_abi", "source_modules", "parent_write",
          "sanitizer_write", "remove_pdb", "temp", "each_emit", "emit_modules",
          "skip_write", "clang", "sanitizer_runtime", "link", "dsym", "check_pdb",
          "finish_success"}
  /\ ToSet(MixedNames) =
         {"temp", "each_unit", "mains", "external_abi", "source_modules",
          "emit_modules", "parent_write", "skip_write", "sanitizer_link",
          "mixed_tools", "c_sources", "cxx_sources", "runtime_sources",
          "remove_mixed_pdb", "mixed_link", "dsym", "check_pdb", "finish_success"}
  /\ ToSet(PrintNames) =
         {"each_frontend", "source_modules", "merge", "skip_write", "skip_link",
          "finish_success"}
  /\ ToSet(WriteNames) =
         {"each_frontend", "source_modules", "merge", "parent_write", "write_ir",
          "skip_link", "finish_success"}
<1>1. ToSet(ObjectNames) =
       {"parent_cli", "each_frontend", "source_modules", "merge", "emit_input",
        "skip_native", "finish_success"}
  BY DEF ToSet, ObjectNames
<1>2. ToSet(LibraryNames) =
       {"llvm-ar", "parent_cli", "temp", "each_unit", "source_modules",
        "emit_modules", "runtime_library", "enter_temp", "extract", "leave_temp",
        "extracted", "archive", "copy_archive", "skip_native", "finish_success"}
  BY DEF ToSet, LibraryNames
<1>3. ToSet(ExecutableNames) =
       {"each_frontend", "mains", "external_abi", "source_modules", "parent_write",
        "sanitizer_write", "remove_pdb", "temp", "each_emit", "emit_modules",
        "skip_write", "clang", "sanitizer_runtime", "link", "dsym", "check_pdb",
        "finish_success"}
  BY DEF ToSet, ExecutableNames
<1>4. ToSet(MixedNames) =
       {"temp", "each_unit", "mains", "external_abi", "source_modules",
        "emit_modules", "parent_write", "skip_write", "sanitizer_link", "mixed_tools",
        "c_sources", "cxx_sources", "runtime_sources", "remove_mixed_pdb",
        "mixed_link", "dsym", "check_pdb", "finish_success"}
  BY DEF ToSet, MixedNames
<1>5. ToSet(PrintNames) =
       {"each_frontend", "source_modules", "merge", "skip_write", "skip_link",
        "finish_success"}
  BY DEF ToSet, PrintNames
<1>6. ToSet(WriteNames) =
       {"each_frontend", "source_modules", "merge", "parent_write", "write_ir",
        "skip_link", "finish_success"}
  BY DEF ToSet, WriteNames
<1>. QED
  BY <1>1, <1>2, <1>3, <1>4, <1>5, <1>6

\* So are the short lists of runHsc.
LEMMA ShortLists ==
  \A s \in {<<"profile", "timing_path", "dispatch">>, <<"remarks", "cargo", "compile">>,
             <<"remarks", "compile">>} \cup
            {<<a>> : a \in ActionCalls \cup {"fail_cli", "finish_success", "finish_failure"}} :
      s \in Seq(CallNames) /\ Listing(s) /\ s # << >>
<1>1. ASSUME NEW a \in ActionCalls \cup {"fail_cli", "finish_success", "finish_failure"}
      PROVE  <<a>> \in Seq(CallNames) /\ Listing(<<a>>) /\ <<a>> # << >>
  <2>1. a \in CallNames /\ StageNumber(a) = 0
    BY DEF StageNumber, ActionCalls, CallNames, Outside
  <2>. QED
    BY <2>1 DEF Listing
<1>2. ASSUME NEW s, s = <<"profile", "timing_path", "dispatch">>
      PROVE  s \in Seq(CallNames) /\ Listing(s) /\ s # << >>
  <2>1. s \in Seq(CallNames) /\ s # << >>
    BY <1>2 DEF CallNames, Outside
  <2>2. \A i \in DOMAIN s : StageNumber(s[i]) = 0
    BY <1>2 DEF StageNumber
  <2>3. \A i, j \in DOMAIN s : i < j => Rank(s[i]) <= Rank(s[j])
    BY <1>2 DEF Rank, UnitCalls, Links
  <2>4. \A i, j \in DOMAIN s : i < j => s[i] # s[j] /\ s[i] \notin Final
    BY <1>2 DEF Final, ActionCalls
  <2>. QED
    BY <2>1, <2>2, <2>3, <2>4 DEF Listing
<1>3. ASSUME NEW s, s = <<"remarks", "cargo", "compile">>
      PROVE  s \in Seq(CallNames) /\ Listing(s) /\ s # << >>
  <2>1. s \in Seq(CallNames) /\ s # << >>
    BY <1>3 DEF CallNames, Outside
  <2>2. \A i \in DOMAIN s : StageNumber(s[i]) = 0
    BY <1>3 DEF StageNumber
  <2>3. \A i, j \in DOMAIN s : i < j => Rank(s[i]) <= Rank(s[j])
    BY <1>3 DEF Rank, UnitCalls, Links
  <2>4. \A i, j \in DOMAIN s : i < j => s[i] # s[j] /\ s[i] \notin Final
    BY <1>3 DEF Final, ActionCalls
  <2>. QED
    BY <2>1, <2>2, <2>3, <2>4 DEF Listing
<1>4. ASSUME NEW s, s = <<"remarks", "compile">>
      PROVE  s \in Seq(CallNames) /\ Listing(s) /\ s # << >>
  <2>1. s \in Seq(CallNames) /\ s # << >>
    BY <1>4 DEF CallNames, Outside
  <2>2. \A i \in DOMAIN s : StageNumber(s[i]) = 0
    BY <1>4 DEF StageNumber
  <2>3. \A i, j \in DOMAIN s : i < j => Rank(s[i]) <= Rank(s[j])
    BY <1>4 DEF Rank, UnitCalls, Links
  <2>4. \A i, j \in DOMAIN s : i < j => s[i] # s[j] /\ s[i] \notin Final
    BY <1>4 DEF Final, ActionCalls
  <2>. QED
    BY <2>1, <2>2, <2>3, <2>4 DEF Listing
<1>. QED
  BY <1>1, <1>2, <1>3, <1>4

\* The elements of two lists put together.
LEMMA Joined ==
  ASSUME NEW S, NEW f \in Seq(S), NEW e \in Seq(S)
  PROVE  /\ f \o e \in Seq(S) /\ Len(f \o e) = Len(f) + Len(e)
         /\ \A i \in 1 .. Len(f \o e) : (f \o e)[i] = IF i <= Len(f) THEN f[i] ELSE e[i - Len(f)]
OBVIOUS

\* The calls that one turn of a loop makes are for one unit.
LEMMA Bodies ==
  ASSUME NEW U, NEW u \in U
  PROVE  \A b \in {Frontend(u), Emit(u), FrontendAndEmit(u)} :
            /\ b \in Seq(CallsFor(U)) /\ b # << >> /\ Staged(b)
            /\ StageNumber(b[1].call) \notin 2 .. 5 /\ StageNumber(b[Len(b)].call) \notin 1 .. 4
            /\ \A x \in ToSet(b) : x.call \in UnitCalls /\ x.of = u
<1>1. /\ Frontend(u) = <<Call("preprocess", u), Call("parse", u), Call("c_compat_lowering", u),
                         Call("sema_hir", u), Call("llvm_emission", u)>>
      /\ Emit(u) = <<Call("optimize", u), Call("append_remarks", u), Call("emit", u)>>
  BY DEF Frontend, UnitStages, Emit
<1>3. \A n \in UnitCalls : Call(n, u) \in CallsFor(U) /\ Call(n, u).call = n /\ Call(n, u).of = u
  BY DEF Call, CallsFor, CallNames
<1>4. ASSUME NEW b, b = Frontend(u)
      PROVE  /\ b \in Seq(CallsFor(U)) /\ b # << >> /\ Staged(b)
             /\ StageNumber(b[1].call) \notin 2 .. 5 /\ StageNumber(b[Len(b)].call) \notin 1 .. 4
             /\ \A x \in ToSet(b) : x.call \in UnitCalls /\ x.of = u
  <2>1. /\ b \in Seq(CallsFor(U)) /\ Len(b) = 5 /\ b # << >>
        /\ b[1].call = "preprocess" /\ b[2].call = "parse" /\ b[3].call = "c_compat_lowering"
        /\ b[4].call = "sema_hir" /\ b[5].call = "llvm_emission"
    BY <1>1, <1>3, <1>4 DEF UnitCalls
  <2>2. \A i \in 1 .. 5 : StageNumber(b[i].call) = i
    BY <2>1 DEF StageNumber
  <2>3. Staged(b)
    BY <2>1, <2>2 DEF Staged
  <2>4. \A x \in ToSet(b) : x.call \in UnitCalls /\ x.of = u
    BY <1>1, <1>3, <1>4 DEF ToSet, UnitCalls
  <2>. QED
    BY <2>1, <2>2, <2>3, <2>4
<1>5. ASSUME NEW b, b = Emit(u)
      PROVE  /\ b \in Seq(CallsFor(U)) /\ b # << >> /\ Staged(b)
             /\ StageNumber(b[1].call) \notin 2 .. 5 /\ StageNumber(b[Len(b)].call) \notin 1 .. 4
             /\ \A x \in ToSet(b) : x.call \in UnitCalls /\ x.of = u
  <2>1. /\ b \in Seq(CallsFor(U)) /\ Len(b) = 3 /\ b # << >>
        /\ b[1].call = "optimize" /\ b[2].call = "append_remarks" /\ b[3].call = "emit"
    BY <1>1, <1>3, <1>5 DEF UnitCalls
  <2>2. \A i \in 1 .. 3 : StageNumber(b[i].call) = 0
    BY <2>1 DEF StageNumber
  <2>3. Staged(b)
    BY <2>1, <2>2 DEF Staged
  <2>4. \A x \in ToSet(b) : x.call \in UnitCalls /\ x.of = u
    BY <1>1, <1>3, <1>5 DEF ToSet, UnitCalls
  <2>. QED
    BY <2>1, <2>2, <2>3, <2>4
<1>6. ASSUME NEW b, b = FrontendAndEmit(u)
      PROVE  /\ b \in Seq(CallsFor(U)) /\ b # << >> /\ Staged(b)
             /\ StageNumber(b[1].call) \notin 2 .. 5 /\ StageNumber(b[Len(b)].call) \notin 1 .. 4
             /\ \A x \in ToSet(b) : x.call \in UnitCalls /\ x.of = u
  <2>. DEFINE f == Frontend(u)  e == Emit(u)
  <2>1. /\ f \in Seq(CallsFor(U)) /\ e \in Seq(CallsFor(U)) /\ Len(f) = 5 /\ Len(e) = 3
        /\ \A i \in 1 .. 5 : f[i].call \in UnitCalls /\ f[i].of = u /\ StageNumber(f[i].call) = i
        /\ \A i \in 1 .. 3 : e[i].call \in UnitCalls /\ e[i].of = u /\ StageNumber(e[i].call) = 0
    <3>1. f \in Seq(CallsFor(U)) /\ e \in Seq(CallsFor(U)) /\ Len(f) = 5 /\ Len(e) = 3
      BY <1>1, <1>3 DEF UnitCalls
    <3>2. /\ \A i \in 1 .. 5 : f[i].call \in UnitCalls /\ f[i].of = u
          /\ \A i \in 1 .. 3 : e[i].call \in UnitCalls /\ e[i].of = u
      BY <1>1, <1>3 DEF UnitCalls
    <3>3. /\ f[1].call = "preprocess" /\ f[2].call = "parse" /\ f[3].call = "c_compat_lowering"
          /\ f[4].call = "sema_hir" /\ f[5].call = "llvm_emission"
          /\ e[1].call = "optimize" /\ e[2].call = "append_remarks" /\ e[3].call = "emit"
      BY <1>1, <1>3 DEF UnitCalls
    <3>. QED
      BY <3>1, <3>2, <3>3 DEF StageNumber
  <2>2. b = f \o e
    BY <1>6 DEF FrontendAndEmit
  <2>. HIDE DEF f, e
  <2>3. /\ b \in Seq(CallsFor(U)) /\ Len(b) = 8 /\ b # << >>
        /\ \A i \in 1 .. 5 : b[i] = f[i]
        /\ \A i \in 1 .. 8 : i > 5 => b[i] = e[i - 5] /\ i - 5 \in 1 .. 3
    <3>1. f \in Seq(CallsFor(U)) /\ e \in Seq(CallsFor(U)) /\ Len(f) = 5 /\ Len(e) = 3
      BY <2>1
    <3>2. /\ b \in Seq(CallsFor(U)) /\ Len(b) = Len(f) + Len(e)
          /\ \A i \in 1 .. Len(b) : b[i] = IF i <= Len(f) THEN f[i] ELSE e[i - Len(f)]
      BY <2>2, <3>1, Joined
    <3>3. Len(b) = 8
      BY <3>1, <3>2
    <3>4. \A i \in 1 .. 5 : b[i] = f[i]
      BY <3>1, <3>2, <3>3
    <3>5. \A i \in 1 .. 8 : i > 5 => b[i] = e[i - 5] /\ i - 5 \in 1 .. 3
      BY <3>1, <3>2, <3>3
    <3>6. b \in Seq(CallsFor(U))
      BY <3>2
    <3>7. b # << >>
      BY <3>3, <3>6
    <3>. QED
      BY <3>3, <3>4, <3>5, <3>6, <3>7
  <2>4. \A i \in 1 .. 8 : StageNumber(b[i].call) = IF i <= 5 THEN i ELSE 0
    BY <2>1, <2>3
  <2>5. Staged(b)
    BY <2>3, <2>4 DEF Staged
  <2>6. \A i \in 1 .. 8 : b[i].call \in UnitCalls /\ b[i].of = u
    BY <2>1, <2>3
  <2>7. \A x \in ToSet(b) : x.call \in UnitCalls /\ x.of = u
    BY <2>3, <2>6 DEF ToSet
  <2>. QED
    BY <2>3, <2>4, <2>5, <2>7
<1>. QED
  BY <1>4, <1>5, <1>6

\* What the loops are over: the inputs, or the modules they need.
Loops == {"each_frontend", "each_emit", "each_unit", "source_modules", "emit_modules"}

\* Calls for units come first, then the loops.
LEMMA Ranks ==
  /\ \A n \in UnitCalls : Rank(n) = 0 /\ n \notin Final
  /\ \A n \in Loops : Rank(n) = 1 /\ n \notin Final /\ StageNumber(n) = 0 /\ n \notin UnitCalls
  /\ \A n : Rank(n) \in Nat
<1>1. \A n \in UnitCalls : Rank(n) = 0 /\ n \notin Final
  BY DEF Rank, UnitCalls, Links, Final, ActionCalls
<1>2. \A n \in Loops : Rank(n) = 1 /\ n \notin Final /\ StageNumber(n) = 0 /\ n \notin UnitCalls
  BY DEF Rank, Loops, Links, Final, ActionCalls, StageNumber, UnitCalls
<1>3. \A n : Rank(n) \in Nat
  BY DEF Rank
<1>. QED
  BY <1>1, <1>2, <1>3

\* Calls for units, and the loop again, fit in front of what follows the loop.
LEMMA Turned ==
  ASSUME NEW U, NEW b \in Seq(CallsFor(U)), b # << >>, Staged(b),
         StageNumber(b[1].call) \notin 2 .. 5, StageNumber(b[Len(b)].call) \notin 1 .. 4,
         \A x \in ToSet(b) : x.call \in UnitCalls,
         NEW r \in Seq(CallsFor(U)), r = << >> \/ (\E n \in Loops, k \in Nat \ {0} : r = <<Turn(n, k)>>),
         NEW t \in Seq(CallsFor(U)), InOrder(t), Staged(t),
         t # << >> => StageNumber(t[1].call) \notin 2 .. 5,
         \A y \in ToSet(t) : 1 <= Rank(y.call) /\ \A x \in ToSet(r) : x.call # y.call
  PROVE  /\ (b \o r) \o t \in Seq(CallsFor(U)) /\ InOrder((b \o r) \o t) /\ Staged((b \o r) \o t)
         /\ ToSet((b \o r) \o t) = ToSet(b) \cup ToSet(r) \cup ToSet(t)
<1>1. \A n \in UnitCalls : Rank(n) = 0 /\ n \notin Final
  BY Ranks
<1>2. \A n \in Loops : Rank(n) = 1 /\ n \notin Final /\ StageNumber(n) = 0 /\ n \notin UnitCalls
  BY Ranks
<1>3. InOrder(b)
  <2>1. \A i \in DOMAIN b : b[i].call \in UnitCalls
    BY DEF ToSet
  <2>. QED
    BY <1>1, <2>1 DEF InOrder
<1>4. /\ InOrder(r) /\ Staged(r) /\ \A x \in ToSet(r) : x.call \in Loops
      /\ r # << >> => StageNumber(r[1].call) = 0 /\ StageNumber(r[Len(r)].call) = 0
  <2>1. CASE r = << >>
    BY <2>1 DEF InOrder, Staged, ToSet
  <2>2. ASSUME NEW n \in Loops, NEW k \in Nat \ {0}, r = <<Turn(n, k)>>
        PROVE  /\ InOrder(r) /\ Staged(r) /\ \A x \in ToSet(r) : x.call \in Loops
               /\ r # << >> => StageNumber(r[1].call) = 0 /\ StageNumber(r[Len(r)].call) = 0
    <3>1. Len(r) = 1 /\ r[1].call = n /\ DOMAIN r = {1} /\ StageNumber(n) = 0
      BY <1>2, <2>2 DEF Turn
    <3>. QED
      BY <3>1 DEF InOrder, Staged, ToSet
  <2>. QED
    BY <2>1, <2>2
<1>5. Fits(b, r) /\ Meets(b, r)
  BY <1>1, <1>2, <1>4 DEF Fits, Meets
<1>6. /\ b \o r \in Seq(CallsFor(U)) /\ InOrder(b \o r) /\ Staged(b \o r)
      /\ ToSet(b \o r) = ToSet(b) \cup ToSet(r)
  BY <1>3, <1>4, <1>5, Pushed
<1>7. StageNumber((b \o r)[Len(b \o r)].call) \notin 1 .. 4 /\ b \o r # << >>
  <2>1. Len(b) \in Nat \ {0} /\ b \o r # << >>
    OBVIOUS
  <2>. QED
    BY <1>6, <2>1 DEF Staged
<1>8. Fits(b \o r, t)
  <2>. SUFFICES ASSUME NEW x \in ToSet(b) \cup ToSet(r), NEW y \in ToSet(t)
                PROVE  /\ Rank(x.call) <= Rank(y.call)
                       /\ x.call = y.call => x.call \in UnitCalls
                       /\ x.call \notin Final
    BY <1>6 DEF Fits
  <2>1. Rank(y.call) \in Nat
    BY Ranks
  <2>. QED
    BY <1>1, <1>2, <1>4, <2>1
<1>9. Meets(b \o r, t)
  BY <1>7 DEF Meets
<1>. DEFINE c == b \o r
<1>10. /\ c \in Seq(CallsFor(U)) /\ InOrder(c) /\ Staged(c) /\ Fits(c, t) /\ Meets(c, t)
       /\ ToSet(c) = ToSet(b) \cup ToSet(r)
  BY <1>6, <1>8, <1>9
<1>. HIDE DEF c
<1>11. /\ c \o t \in Seq(CallsFor(U)) /\ InOrder(c \o t) /\ Staged(c \o t)
       /\ ToSet(c \o t) = ToSet(c) \cup ToSet(t)
  BY <1>10, Pushed
<1>. QED
  BY <1>10, <1>11 DEF c

-----------------------------------------------------------------------------
(* What a step of the driver does to the calls that remain.                *)

\* The call that is next, while hsc runs.
Now == Head(todo)
Running == exit = None /\ todo # << >> /\ exit' = None

\* The call is done, it fails, or others take its place.
Pops == Running /\ Now.call \notin Final /\ todo' = Tail(todo)
Aborts == Running /\ Failing'
Replaced(c) == Running /\ todo' = c \o Tail(todo)

\* hsc exits, with failure if that is what is left to record.
Ends ==
    /\ exit = None /\ todo # << >> /\ Now.call \in {"finish_success", "finish_failure"}
    /\ exit' \in {"success", "failure"} /\ (Now.call = "finish_failure" => exit' = "failure")
    /\ UNCHANGED <<todo, opts>>

\* A turn of the loop named n over the units in seq, with the calls b.
Turns(n, seq, b) ==
    /\ Now.call = n
    /\ \/ Now.index > Len(seq) /\ Pops
       \/ ~(Now.index > Len(seq)) /\ Replaced(b \o <<Turn(n, Now.index + 1)>>)

\* A turn of one of the loops over the inputs and the source modules.
Loop ==
    \/ Turns("each_frontend", inputs(opts), Frontend(inputs(opts)[Now.index]))
    \/ Turns("each_emit", inputs(opts), Emit(inputs(opts)[Now.index]))
    \/ Turns("each_unit", inputs(opts), FrontendAndEmit(inputs(opts)[Now.index]))
    \/ Turns("source_modules", requiredModules(opts), Frontend(requiredModules(opts)[Now.index]))
    \/ Turns("emit_modules", requiredModules(opts), Emit(requiredModules(opts)[Now.index]))
    \/ Now.call = "emit_input" /\ Replaced(Emit(Head(inputs(opts))) \o << >>)

\* The calls that are replaced by the next part of the run.
Chooses ==
    \/ /\ Now.call = "command_line"
       /\ \/ parse.state = "shown" /\ Replaced(Calls(<<"finish_success">>))
          \/ Granted /\ Replaced(Calls(<<"profile", "timing_path", "dispatch">>))
    \/ /\ Now.call = "dispatch"
       /\ \/ /\ opts.actions = {} /\ opts.inputs # << >>
             /\ IF opts.crateType = "bin" THEN Replaced(Calls(<<"remarks", "cargo", "compile">>))
                ELSE Replaced(Calls(<<"remarks", "compile">>))
          \/ \E a \in opts.actions :
                (a = "--emit-llvm" => Len(opts.inputs) = 1) /\ Replaced(Calls(<<a>>))
    \/ /\ Now.call = "compile"
       /\ \/ opts.crateType \in {"object", "bin"} /\ Replaced(Calls(<<"fail_cli">>))
          \/ opts.crateType = "object" /\ Len(opts.inputs) = 1 /\ Replaced(Calls(ObjectNames))
          \/ opts.crateType = "staticlib" /\ Replaced(Calls(LibraryNames))
          \/ /\ opts.crateType = "bin" /\ ~hasMixedBuildOptions(opts)
             /\ Replaced(Calls(ExecutableNames))
          \/ opts.crateType = "bin" /\ Replaced(Calls(MixedNames))
    \/ Now.call \in ActionCalls /\ Replaced(Calls(<<"finish_success">>))
    \/ Now.call = "--emit-llvm" /\ (Replaced(Calls(PrintNames)) \/ Replaced(Calls(WriteNames)))

\* The options change in two places only.
OptionsStep ==
    \/ UNCHANGED opts
    \/ Now.call = "timing_path" /\ opts' = [opts EXCEPT !.timingJson = None] /\ Failing'
    \/ /\ Now.call = "cargo"
       /\ opts' = [opts EXCEPT !.ext = @ \cup {"--link-input"},
                     !.linkerLanguage = IF @ = None /\ "--cxx-source" \notin opts.ext
                                        THEN "c" ELSE @]

\* The calls that change the files, the objects, the stages of a unit, the global
\* stages, the tools that were used and the tools that were found.
DiskCalls == {"remarks", "emit", "copy_archive", "write_ir", "remove_pdb", "remove_mixed_pdb",
              "--preprocess-only"} \cup Links
ObjectCalls == {"merge", "emit", "sanitizer_runtime", "c_sources", "cxx_sources", "runtime_sources", "extract"}
StageCalls == {"preprocess", "parse", "c_compat_lowering", "sema_hir", "llvm_emission"}
MarkCalls == {"optimize", "emit", "parent_write", "skip_write", "skip_link", "skip_native", "sanitizer_write",
              "clang", "mixed_tools", "sanitizer_runtime", "link", "mixed_link", "dsym", "check_pdb", "write_ir"}
UseCalls == {"sanitizer_runtime", "c_sources", "cxx_sources", "runtime_sources", "link", "mixed_link",
             "extract", "archive"}
FindCalls == {"llvm-ar", "clang", "mixed_tools"}

\* What a call leaves alone unless it is one of the few that touch it.
Untouched ==
    /\ Now.call \notin DiskCalls => disk' = disk
    /\ Now.call \notin ObjectCalls => objects' = objects
    /\ Now.call # "extract" => child' = child
    /\ Now.call \notin StageCalls => units' = units
    /\ Now.call \notin MarkCalls => stages' = stages
    /\ Now.call \notin UseCalls => used' = used
    /\ Now.call \notin FindCalls => resolved' = resolved
    /\ Now.call \notin {"enter_temp", "leave_temp"} => cwd' = cwd
    /\ failed' = failed \/ Aborts

\* The calls whose only effects on the others are to be done or to fail.
LEMMA PlainSteps ==
  ASSUME CheckProfile \/ CheckTimingPath \/ PrepareRemarks \/ RunCargo \/ Rejected \/ Preprocess \/ LowerC
         \/ FrontendStage \/ CheckMains
         \/ validateCCompatibilityExternalAbi \/ mergeLlvmModules
         \/ Optimize \/ appendOptimizationRemarks \/ emitObjectFile
         \/ validateOutputParent \/ markSkipped \/ sanitizerRuntimeSources \/ removePdb
         \/ createTemporaryDirectory \/ resolveClang \/ resolveMixedTools
         \/ compileExternalSource \/ LinkExecutable \/ LinkMixedExecutable \/ emitMacDsym \/ checkPdb
         \/ resolveLlvmAr \/ checkRuntimeLibrary \/ enterTemporaryDirectory \/ extractRuntime
         \/ leaveTemporaryDirectory \/ checkExtracted \/ archiveObjects \/ copyArchive \/ writeIr
  PROVE  (Pops \/ Aborts) /\ OptionsStep /\ Untouched /\ UNCHANGED <<args, next, parse, env>>
<1>. USE DEF Untouched, DiskCalls, ObjectCalls, StageCalls, MarkCalls, UseCalls, FindCalls, Links,
             Mark, MarkUnit, Uses, files, metrics, tools, place
<1>. USE DEF Pops, Aborts, Running, Failing, OptionsStep, At, Goes, Fail, Keep, Now, Final, ActionCalls,
             parserVars, run
<1>1. CASE CheckProfile
  BY <1>1 DEF CheckProfile
<1>2. CASE CheckTimingPath
  BY <1>2 DEF CheckTimingPath
<1>3. CASE PrepareRemarks
  BY <1>3 DEF PrepareRemarks
<1>4. CASE RunCargo
  BY <1>4 DEF RunCargo
<1>5. CASE Rejected
  BY <1>5 DEF Rejected
<1>6. CASE Preprocess
  BY <1>6 DEF Preprocess
<1>7. CASE LowerC
  BY <1>7 DEF LowerC
<1>8. CASE FrontendStage
  BY <1>8 DEF FrontendStage
<1>9. CASE CheckMains
  BY <1>9 DEF CheckMains
<1>10. CASE validateCCompatibilityExternalAbi
  BY <1>10 DEF validateCCompatibilityExternalAbi
<1>11. CASE mergeLlvmModules
  BY <1>11 DEF mergeLlvmModules
<1>12. CASE Optimize
  BY <1>12 DEF Optimize
<1>13. CASE appendOptimizationRemarks
  BY <1>13 DEF appendOptimizationRemarks
<1>14. CASE emitObjectFile
  BY <1>14 DEF emitObjectFile
<1>15. CASE validateOutputParent
  BY <1>15 DEF validateOutputParent
<1>16. CASE markSkipped
  BY <1>16 DEF markSkipped
<1>17. CASE sanitizerRuntimeSources
  BY <1>17 DEF sanitizerRuntimeSources
<1>18. CASE removePdb
  BY <1>18 DEF removePdb
<1>19. CASE createTemporaryDirectory
  BY <1>19 DEF createTemporaryDirectory
<1>20. CASE resolveClang
  BY <1>20 DEF resolveClang
<1>21. CASE resolveMixedTools
  BY <1>21 DEF resolveMixedTools
<1>22. CASE compileExternalSource
  BY <1>22 DEF compileExternalSource, CompileWith
<1>23. CASE LinkExecutable
  BY <1>23 DEF LinkExecutable, Link
<1>24. CASE LinkMixedExecutable
  BY <1>24 DEF LinkMixedExecutable, Link
<1>25. CASE emitMacDsym
  BY <1>25 DEF emitMacDsym
<1>26. CASE checkPdb
  BY <1>26 DEF checkPdb
<1>27. CASE resolveLlvmAr
  BY <1>27 DEF resolveLlvmAr
<1>28. CASE checkRuntimeLibrary
  BY <1>28 DEF checkRuntimeLibrary
<1>29. CASE enterTemporaryDirectory
  BY <1>29 DEF enterTemporaryDirectory
<1>30. CASE extractRuntime
  BY <1>30 DEF extractRuntime
<1>31. CASE leaveTemporaryDirectory
  BY <1>31 DEF leaveTemporaryDirectory
<1>32. CASE checkExtracted
  BY <1>32 DEF checkExtracted
<1>33. CASE archiveObjects
  BY <1>33 DEF archiveObjects
<1>34. CASE copyArchive
  BY <1>34 DEF copyArchive
<1>35. CASE writeIr
  BY <1>35 DEF writeIr
<1>. QED
  BY <1>1, <1>2, <1>3, <1>4, <1>5, <1>6, <1>7, <1>8, <1>9, <1>10, <1>11, <1>12, <1>13, <1>14, <1>15,
     <1>16, <1>17, <1>18, <1>19, <1>20, <1>21, <1>22, <1>23, <1>24, <1>25, <1>26, <1>27, <1>28,
     <1>29, <1>30, <1>31, <1>32, <1>33, <1>34, <1>35

\* What becomes of the calls in a step: the first one is done, fails, chooses
\* what comes next, makes one turn of its loop, or ends the run.
LEMMA Steps ==
  ASSUME OptionsKept, DriverNext
  PROVE  /\ UNCHANGED <<args, next, parse, env>>
         /\ \/ UNCHANGED driverVars
            \/ Ends
            \/ OptionsStep /\ Untouched /\ (Pops \/ Aborts \/ Chooses \/ Loop)
<1>. USE DEF At, Goes, Expands, Fail, Keep, Running, Replaced, OptionsStep, Now, parserVars, run
<1>. USE DEF files, metrics, tools, place, Untouched, DiskCalls, ObjectCalls, StageCalls, MarkCalls, UseCalls,
             FindCalls, Links
<1>1. CASE ParseCommandLine
  <2>1. /\ Running /\ Now.call = "command_line" /\ UNCHANGED <<args, next, parse, env, opts>> /\ Untouched
        /\ \/ Outcome(parse) = "error" /\ Aborts
           \/ parse.state = "shown" /\ Replaced(Calls(<<"finish_success">>))
           \/ /\ Outcome(parse) # "error" /\ parse.state # "shown"
              /\ Replaced(Calls(<<"profile", "timing_path", "dispatch">>))
    BY <1>1 DEF ParseCommandLine, Aborts, Failing
  <2>2. Outcome(parse) \in {"ok", "error"}
    BY DEF Outcome
  <2>. QED
    BY <2>1, <2>2 DEF Chooses, Granted
<1>2. CASE Dispatch
  <2>1. /\ Running /\ Now.call = "dispatch" /\ UNCHANGED <<args, next, parse, env, opts>> /\ Untouched
        /\ \/ Aborts
           \/ /\ opts.actions = {} /\ opts.inputs # << >>
              /\ todo' = Calls(IF opts.crateType = "bin" THEN <<"remarks", "cargo", "compile">>
                               ELSE <<"remarks", "compile">>) \o Tail(todo)
           \/ \E a \in opts.actions : ActionAccepted(opts, a) /\ todo' = Calls(<<a>>) \o Tail(todo)
    BY <1>2 DEF Dispatch, Aborts, Failing
  <2>2. \A a \in opts.actions :
          a = "--emit-llvm" /\ ActionAccepted(opts, a) => Len(opts.inputs) = 1
    BY DEF ActionAccepted
  <2>. QED
    BY <2>1, <2>2 DEF Chooses
<1>3. CASE Compile
  <2>1. /\ compileStaticLibrary = Calls(LibraryNames) /\ compileExecutable = Calls(ExecutableNames)
        /\ compileObject(opts) = IF Len(opts.inputs) # 1 THEN Calls(<<"fail_cli">>)
                                 ELSE Calls(ObjectNames)
        /\ compileMixedExecutable(opts) \in {Calls(<<"fail_cli">>), Calls(MixedNames)}
    BY DEF compileStaticLibrary, compileExecutable, compileObject, compileMixedExecutable,
           LibraryNames, ExecutableNames, ObjectNames, MixedNames
  <2>2. opts.crateType \in {"bin", "object", "staticlib"}
    BY DEF OptionsKept, ReadFrom
  <2>. QED
    BY <1>3, <2>1, <2>2 DEF Compile, Chooses
<1>4. CASE CompileInputs
  <2>1. ASSUME ForEach("each_frontend", inputs(opts), Frontend), exit' = exit
        PROVE  Pops \/ Loop
    BY <2>1 DEF ForEach, Loop, Turns, Pops, Final, ActionCalls
  <2>2. ASSUME ForEach("each_emit", inputs(opts), Emit), exit' = exit
        PROVE  Pops \/ Loop
    BY <2>2 DEF ForEach, Loop, Turns, Pops, Final, ActionCalls
  <2>3. ASSUME ForEach("each_unit", inputs(opts), FrontendAndEmit), exit' = exit
        PROVE  Pops \/ Loop
    BY <2>3 DEF ForEach, Loop, Turns, Pops, Final, ActionCalls
  <2>4. ASSUME At("emit_input"), Expands(Emit(Head(inputs(opts)))), exit' = exit PROVE Loop
    BY <2>4 DEF Loop
  <2>5. exit' = exit /\ failed' = failed /\ UNCHANGED <<args, next, parse, env, opts>> /\ Untouched
    BY <1>4 DEF CompileInputs, ForEach
  <2>. QED
    BY <1>4, <2>1, <2>2, <2>3, <2>4, <2>5 DEF CompileInputs
<1>5. CASE compileSourceModules
  <2>1. ASSUME ForEach("source_modules", requiredModules(opts), Frontend), exit' = exit
        PROVE Pops \/ Loop
    BY <2>1 DEF ForEach, Loop, Turns, Pops, Final, ActionCalls
  <2>2. UNCHANGED <<args, next, parse, env, opts, exit>>
    BY <1>5 DEF compileSourceModules, ForEach, Failing
  <2>3. Untouched
    BY <1>5 DEF compileSourceModules, ForEach, Aborts, Failing
  <2>. QED
    BY <1>5, <2>1, <2>2, <2>3 DEF compileSourceModules, Aborts, Failing
<1>6. CASE EmitModules
  <2>1. ASSUME ForEach("emit_modules", requiredModules(opts), Emit), exit' = exit
        PROVE Pops \/ Loop
    BY <2>1 DEF ForEach, Loop, Turns, Pops, Final, ActionCalls
  <2>2. UNCHANGED <<args, next, parse, env, opts, exit>> /\ Untouched
    BY <1>6 DEF EmitModules, ForEach
  <2>. QED
    BY <1>6, <2>1, <2>2 DEF EmitModules
<1>7. CASE DumpInput \/ preprocessOnly
  BY <1>7 DEF DumpInput, preprocessOnly, Chooses, ActionCalls, Aborts, Failing
<1>8. CASE emitLlvm
  BY <1>8 DEF emitLlvm, Chooses, PrintNames, WriteNames
<1>9. CASE finish
  <2>1. /\ exit = None /\ todo # << >> /\ Now.call \in {"finish_success", "finish_failure"}
        /\ exit' \in {"success", "failure"} /\ (Now.call = "finish_failure" => exit' = "failure")
        /\ UNCHANGED <<todo, opts, args, next, parse, env>>
    BY <1>9 DEF finish
  <2>. QED
    BY <2>1 DEF Ends
<1>10. CASE Ended
  BY <1>10 DEF Ended, driverVars
<1>. QED
  BY <1>1, <1>2, <1>3, <1>4, <1>5, <1>6, <1>7, <1>8, <1>9, <1>10, PlainSteps DEF DriverNext

\* The loop over the modules of a unit (collectRequiredSourceModules): whatever is
\* not there yet is added.
LEMMA UnseenAdded ==
  ASSUME NEW S, NEW modules \in Seq(S), NEW more \in Seq(S)
  PROVE  /\ addUnseen(modules, more) \in Seq(S)
         /\ ToSet(addUnseen(modules, more)) = ToSet(modules) \cup ToSet(more)
<1> DEFINE N == Len(more)
           step(s, n) == IF more[n] \in ToSet(s) THEN s ELSE Append(s, more[n])
           loop(f) == f = [n \in 0 .. N |-> IF n = 0 THEN modules ELSE step(f[n - 1], n)]
           r == CHOOSE f : loop(f)
<1>1. addUnseen(modules, more) = r[N]
  BY DEF addUnseen
<1>2. N \in Nat /\ \A n \in 1 .. N : more[n] \in S
  OBVIOUS
<1>3. \A s \in Seq(S), n \in 1 .. N : step(s, n) \in Seq(S)
  BY <1>2
<1> DEFINE g == [p \in Seq(S) \X (1 .. N) |-> step(p[1], p[2])]
<1>4. g \in [Seq(S) \X (1 .. N) -> Seq(S)] /\ \A s \in Seq(S), n \in 1 .. N : g[<<s, n>>] = step(s, n)
  BY <1>3
<1> HIDE DEF g, N, step
<1>5. PICK f : LoopOf(f, N, Seq(S), modules, g)
  <2>1. N \in Nat /\ modules \in Seq(S) /\ g \in [Seq(S) \X (1 .. N) -> Seq(S)]
    BY <1>2, <1>4
  <2>. QED
    BY <2>1, LoopExists, Zenon
<1>6. ASSUME NEW n \in 1 .. N PROVE f[n - 1] \in Seq(S) /\ f[n] = step(f[n - 1], n)
  <2>1. n - 1 \in 0 .. N
    BY <1>2
  <2>2. f[n - 1] \in Seq(S)
    BY <1>5, <2>1, Zenon DEF LoopOf
  <2>. QED
    BY <1>4, <1>5, <2>2, Zenon DEF LoopOf
<1>7. loop(f)
  BY <1>2, <1>5, <1>6 DEF LoopOf
<1>8. loop(r)
  BY <1>7
<1> HIDE DEF r
<1>9. r[0] = modules /\ \A n \in 1 .. N : r[n] = step(r[n - 1], n)
  BY <1>2, <1>8
<1> DEFINE K == {k \in 0 .. N : r[k] \in Seq(S) /\ ToSet(r[k]) = ToSet(modules) \cup {more[i] : i \in 1 .. k}}
<1>10. 0 \in K
  <2>1. {more[i] : i \in 1 .. 0} = {} /\ 0 \in 0 .. N
    BY <1>2
  <2>. QED
    BY <1>9, <2>1
<1>11. ASSUME NEW k \in 1 .. N, k - 1 \in K PROVE k \in K
  <2>1. /\ r[k - 1] \in Seq(S) /\ r[k] = step(r[k - 1], k)
        /\ ToSet(r[k - 1]) = ToSet(modules) \cup {more[i] : i \in 1 .. k - 1}
    BY <1>9, <1>11
  <2>2. ToSet(step(r[k - 1], k)) = ToSet(r[k - 1]) \cup {more[k]}
    <3>1. CASE more[k] \in ToSet(r[k - 1])
      BY <3>1 DEF step
    <3>2. CASE more[k] \notin ToSet(r[k - 1])
      <4>1. step(r[k - 1], k) = Append(r[k - 1], more[k])
        BY <3>2 DEF step
      <4> DEFINE s == r[k - 1]
      <4>2. s \in Seq(S) /\ more[k] \in S
        BY <1>2, <2>1
      <4> HIDE DEF s
      <4>3. /\ DOMAIN s = 1 .. Len(s) /\ DOMAIN Append(s, more[k]) = 1 .. (Len(s) + 1) /\ Len(s) \in Nat
            /\ Append(s, more[k])[Len(s) + 1] = more[k] /\ \A i \in 1 .. Len(s) : Append(s, more[k])[i] = s[i]
        BY <4>2
      <4> DEFINE a == Append(s, more[k])
      <4> HIDE DEF a
      <4>4. \A i \in DOMAIN a : (i \in DOMAIN s /\ a[i] = s[i]) \/ a[i] = more[k]
        BY <4>3 DEF a
      <4>5. Len(s) + 1 \in DOMAIN a /\ \A i \in DOMAIN s : i \in DOMAIN a
        BY <4>3 DEF a
      <4>6. ToSet(a) = ToSet(s) \cup {more[k]}
        BY <4>3, <4>4, <4>5 DEF ToSet, a
      <4>. QED
        BY <4>1, <4>6 DEF s, a
    <3>. QED
      BY <3>1, <3>2
  <2>3. {more[i] : i \in 1 .. k} = {more[i] : i \in 1 .. k - 1} \cup {more[k]}
    OBVIOUS
  <2>4. r[k] \in Seq(S)
    BY <1>3, <2>1
  <2>. QED
    BY <2>1, <2>2, <2>3, <2>4
<1> HIDE DEF K
<1>12. 0 .. N \subseteq K
  BY <1>2, <1>10, <1>11, Induct, Zenon
<1>13. ToSet(more) = {more[i] : i \in 1 .. N}
  BY DEF N, ToSet
<1>14. r[N] \in Seq(S) /\ ToSet(r[N]) = ToSet(modules) \cup {more[i] : i \in 1 .. N}
  <2>1. N \in K
    BY <1>2, <1>12
  <2>. QED
    BY <2>1, Zenon DEF K
<1>. QED
  BY <1>1, <1>13, <1>14, Zenon

\* The loop over the units: the modules are those that one of them needs.
LEMMA ModulesCollected ==
  ASSUME NEW S, NEW U, NEW ins \in Seq(U), \A u \in ToSet(ins) : Needs[u] \in Seq(S)
  PROVE  /\ collectRequiredSourceModules(ins) \in Seq(S)
         /\ ToSet(collectRequiredSourceModules(ins)) = UNION {ToSet(Needs[u]) : u \in ToSet(ins)}
<1> DEFINE N == Len(ins)
           loop(f) == f = [n \in 0 .. N |-> IF n = 0 THEN << >> ELSE addUnseen(f[n - 1], Needs[ins[n]])]
           r == CHOOSE f : loop(f)
<1>1. collectRequiredSourceModules(ins) = r[N]
  BY DEF collectRequiredSourceModules
<1>2. N \in Nat /\ \A n \in 1 .. N : ins[n] \in ToSet(ins) /\ Needs[ins[n]] \in Seq(S)
  BY DEF ToSet
<1>3. \A s \in Seq(S), n \in 1 .. N : addUnseen(s, Needs[ins[n]]) \in Seq(S)
  BY <1>2, UnseenAdded
<1> DEFINE g == [p \in Seq(S) \X (1 .. N) |-> addUnseen(p[1], Needs[ins[p[2]]])]
<1>4. /\ g \in [Seq(S) \X (1 .. N) -> Seq(S)]
      /\ \A s \in Seq(S), n \in 1 .. N : g[<<s, n>>] = addUnseen(s, Needs[ins[n]])
  BY <1>3
<1> HIDE DEF g, N
<1>5. PICK f : LoopOf(f, N, Seq(S), << >>, g)
  <2>1. N \in Nat /\ << >> \in Seq(S) /\ g \in [Seq(S) \X (1 .. N) -> Seq(S)]
    BY <1>2, <1>4
  <2>. QED
    BY <2>1, LoopExists, Zenon
<1>6. ASSUME NEW n \in 1 .. N PROVE f[n - 1] \in Seq(S) /\ f[n] = addUnseen(f[n - 1], Needs[ins[n]])
  <2>1. n - 1 \in 0 .. N
    BY <1>2
  <2>2. f[n - 1] \in Seq(S)
    BY <1>5, <2>1, Zenon DEF LoopOf
  <2>. QED
    BY <1>4, <1>5, <2>2, Zenon DEF LoopOf
<1>7. loop(f)
  BY <1>2, <1>5, <1>6 DEF LoopOf
<1>8. loop(r)
  BY <1>7
<1> HIDE DEF r
<1>9. r[0] = << >> /\ \A n \in 1 .. N : r[n] = addUnseen(r[n - 1], Needs[ins[n]])
  BY <1>2, <1>8
<1> DEFINE K == {k \in 0 .. N : /\ r[k] \in Seq(S)
                                /\ ToSet(r[k]) = UNION {ToSet(Needs[ins[i]]) : i \in 1 .. k}}
<1>10. 0 \in K
  <2>1. UNION {ToSet(Needs[ins[i]]) : i \in 1 .. 0} = {} /\ ToSet(<< >>) = {} /\ << >> \in Seq(S) /\ 0 \in 0 .. N
    BY <1>2 DEF ToSet
  <2>. QED
    BY <1>9, <2>1
<1>11. ASSUME NEW k \in 1 .. N, k - 1 \in K PROVE k \in K
  <2>1. /\ r[k - 1] \in Seq(S) /\ r[k] = addUnseen(r[k - 1], Needs[ins[k]])
        /\ ToSet(r[k - 1]) = UNION {ToSet(Needs[ins[i]]) : i \in 1 .. k - 1}
    BY <1>9, <1>11
  <2>2. r[k] \in Seq(S) /\ ToSet(r[k]) = ToSet(r[k - 1]) \cup ToSet(Needs[ins[k]])
    BY <1>2, <2>1, UnseenAdded
  <2> DEFINE h(i) == ToSet(Needs[ins[i]])
  <2> HIDE DEF h
  <2>3. UNION {h(i) : i \in 1 .. k} = (UNION {h(i) : i \in 1 .. k - 1}) \cup h(k)
    <3>1. \A i : i \in 1 .. k <=> i \in 1 .. k - 1 \/ i = k
      OBVIOUS
    <3>. QED
      BY <3>1, Zenon
  <2>4. ToSet(r[k]) = UNION {ToSet(Needs[ins[i]]) : i \in 1 .. k}
    BY <2>1, <2>2, <2>3, Zenon DEF h
  <2>. QED
    BY <2>2, <2>4
<1> HIDE DEF K
<1>12. 0 .. N \subseteq K
  BY <1>2, <1>10, <1>11, Induct, Zenon
<1>13. ToSet(ins) = {ins[i] : i \in 1 .. N}
  BY DEF N, ToSet
<1>14. r[N] \in Seq(S) /\ ToSet(r[N]) = UNION {ToSet(Needs[ins[i]]) : i \in 1 .. N}
  <2>1. N \in K
    BY <1>2, <1>12
  <2>. QED
    BY <2>1, Zenon DEF K
<1>15. UNION {ToSet(Needs[ins[i]]) : i \in 1 .. N} = UNION {ToSet(Needs[u]) : u \in {ins[i] : i \in 1 .. N}}
  BY Zenon
<1>. QED
  BY <1>1, <1>13, <1>14, <1>15, Zenon

\* The loops run over the units of the build.
LEMMA LoopRanges ==
  ASSUME OptionsKept
  PROVE  /\ inputs(opts) \in Seq(ToSet(inputs(opts))) /\ ToSet(inputs(opts)) \subseteq Units
         /\ requiredModules(opts) \in Seq(Units)
         /\ ToSet(inputs(opts)) \cup ToSet(requiredModules(opts)) = Units
         /\ Len(inputs(opts)) = Len(opts.inputs) /\ Len(opts.inputs) \in Nat
         /\ opts.inputs # << >> => inputs(opts) # << >> /\ Head(inputs(opts)) \in Units
<1>. DEFINE o == parse.options
<1>1. /\ inputs(opts) = inputs(o) /\ requiredModules(opts) = requiredModules(o)
  BY DEF OptionsKept, inputs, requiredModules
<1>2. \A u \in ToSet(inputs(o)) : Needs[u] \in Seq(STRING)
  BY DriverAssumption DEF OptionsKept
<1>3. opts.inputs \in Seq(ToSet(args))
  BY DEF OptionsKept, ReadFrom
<1>4. inputs(opts) \in Seq(ToSet(inputs(opts))) /\ Len(inputs(opts)) = Len(opts.inputs)
  BY <1>3 DEF inputs, ToSet
<1>5. opts.inputs # << >> => inputs(opts) # << >> /\ Head(inputs(opts)) \in ToSet(inputs(opts))
  BY <1>3, <1>4
<1>. HIDE DEF o
<1>6. Units = ToSet(inputs(o)) \cup UNION {ToSet(Needs[u]) : u \in ToSet(inputs(o))}
  BY <1>1 DEF Units
<1> DEFINE needed == UNION {ToSet(Needs[u]) : u \in ToSet(inputs(o))}
<1>7. requiredModules(o) \in Seq(STRING) /\ ToSet(requiredModules(o)) = needed
  BY <1>1, <1>2, <1>4, ModulesCollected DEF requiredModules
<1>8. requiredModules(o) \in Seq(needed)
  <2> DEFINE s == requiredModules(o)
  <2>1. s \in Seq(STRING)
    BY <1>7
  <2> HIDE DEF s
  <2>2. s \in Seq({s[i] : i \in DOMAIN s})
    BY <2>1
  <2>. QED
    BY <1>7, <2>2 DEF ToSet, s
<1>9. /\ requiredModules(opts) \in Seq(Units) /\ ToSet(inputs(opts)) \subseteq Units
      /\ ToSet(inputs(opts)) \cup ToSet(requiredModules(opts)) = Units
  BY <1>1, <1>6, <1>7, <1>8
<1>10. Len(opts.inputs) \in Nat
  BY <1>3
<1>. QED
  BY <1>4, <1>5, <1>9, <1>10

\* Resetting the timing path and adding what Cargo built leave alone what
\* decides which calls there are.
LEMMA OptionsStepKeeps ==
  ASSUME OptionsKept, OptionsStep, UNCHANGED <<args, parse, env>>
  PROVE  /\ OptionsKept' /\ Units' = Units /\ Granted' = Granted
         /\ opts'.inputs = opts.inputs /\ opts'.crateType = opts.crateType
         /\ opts'.actions = opts.actions /\ opts'.output = opts.output
<1>1. /\ DOMAIN opts' = DOMAIN opts /\ opts'.inputs = opts.inputs /\ opts'.crateType = opts.crateType
      /\ opts'.actions = opts.actions /\ opts'.output = opts.output /\ opts'.remarks = opts.remarks
      /\ opts'.timingJson \in {opts.timingJson, None} /\ opts'.ext \subseteq opts.ext \cup {"--link-input"}
  BY DEF OptionsKept, ReadFrom, OptionsStep, DefaultOptions
<1>2. inputs(opts') = inputs(opts)
  BY <1>1 DEF inputs
<1>. QED
  BY <1>1, <1>2 DEF OptionsKept, ReadFrom, Units, Granted, Outcome, inputs

\* A call that is done, or a turn of a loop, changes nothing about which calls
\* belong to the build.
LEMMA StillBelong ==
  ASSUME NEW t \in Seq(CallsFor(Units)), t # << >>, InOrder(t), Staged(t), NEW o, NEW g,
         Belong(ToSet(t), o, g), NEW S, ToSet(Tail(t)) \subseteq S,
         \A x \in S : x \in ToSet(Tail(t)) \/ x.call \in UnitCalls
                      \/ (x.call \in Loops /\ x.call = Head(t).call),
         Head(t).call \notin Final
  PROVE  Belong(S, o, g)
<1>1. /\ ToSet(t) = ToSet(Tail(t)) \cup {Head(t)}
      /\ \A x \in ToSet(Tail(t)) : x.call = Head(t).call => x.call \in UnitCalls
  BY Popped
<1>2. ASSUME NEW names, names \cap (UnitCalls \cup Loops) = {}
      PROVE  Named(S, names) => Named(ToSet(t), names)
  BY <1>1, <1>2 DEF Named
<1>3. ASSUME NEW n, n \notin UnitCalls, Named(ToSet(t), {n}), Head(t).call # n
      PROVE  Named(S, {n})
  BY <1>1, <1>3 DEF Named
<1>4. /\ Named(S, {"profile", "timing_path"}) => Head(t).call # "dispatch"
      /\ Named(S, {"remarks", "cargo"}) => Head(t).call # "compile"
  BY DEF Final, ActionCalls
<1>5. Inside(S) => Inside(ToSet(t))
  <2>. SUFFICES ASSUME Named(ToSet(t), Outside) PROVE Named(S, Outside)
    BY DEF Inside
  <2>1. CASE Named(ToSet(Tail(t)), Outside)
    BY <2>1 DEF Named
  <2>2. CASE Head(t).call \in Outside
    <3>1. Head(t).call \in {"profile", "timing_path", "remarks", "cargo"}
      BY <2>2 DEF Outside, Final, ActionCalls
    <3>2. Named(ToSet(t), {"dispatch"}) \/ Named(ToSet(t), {"compile"})
      BY <1>1, <3>1 DEF Belong, Named
    <3>3. Named(S, {"dispatch"}) \/ Named(S, {"compile"})
      BY <1>3, <3>1, <3>2 DEF UnitCalls
    <3>. QED
      BY <3>3 DEF Named, Outside
  <2>. QED
    BY <1>1, <2>1, <2>2 DEF Named
<1>6. /\ Named(S, {"profile", "timing_path", "dispatch"} \cup ActionCalls)
         => Named(ToSet(t), {"profile", "timing_path", "dispatch"} \cup ActionCalls)
      /\ Named(S, {"remarks", "cargo", "compile", "fail_cli"} \cup BinCalls)
         => Named(ToSet(t), {"remarks", "cargo", "compile", "fail_cli"} \cup BinCalls)
      /\ Named(S, BinCalls) => Named(ToSet(t), BinCalls)
      /\ Named(S, {"copy_archive", "extract", "archive", "extracted"})
         => Named(ToSet(t), {"copy_archive", "extract", "archive", "extracted"})
      /\ Named(S, ActionCalls \cup {"write_ir"}) => Named(ToSet(t), ActionCalls \cup {"write_ir"})
      /\ Named(S, {"emit_input"}) => Named(ToSet(t), {"emit_input"})
      /\ Named(S, {"profile", "timing_path"}) => Named(ToSet(t), {"profile", "timing_path"})
      /\ Named(S, {"remarks", "cargo"}) => Named(ToSet(t), {"remarks", "cargo"})
      /\ Named(S, {"--emit-llvm", "write_ir"}) => Named(ToSet(t), {"--emit-llvm", "write_ir"})
  BY <1>2 DEF UnitCalls, Loops, ActionCalls, BinCalls, Links
<1>7. /\ Named(S, {"profile", "timing_path"}) => Named(S, {"dispatch"})
      /\ Named(S, {"remarks", "cargo"}) => Named(S, {"compile"})
  BY <1>3, <1>4, <1>6 DEF Belong, UnitCalls
<1>. QED
  BY <1>5, <1>6, <1>7 DEF Belong

\* What may be chosen, by the options and whether the command line was accepted.
IsBuild(o, g) == g /\ o.actions = {} /\ o.inputs # << >>
Choice(names, o, g) ==
    \/ /\ names = <<"finish_success">> /\ ~IsBuild(o, g)
       /\ o.crateType = "object" /\ g /\ o.actions = {} => Len(o.inputs) = 1
    \/ names = <<"profile", "timing_path", "dispatch">> /\ g
    \/ names \in {<<"remarks", "compile">>, <<"fail_cli">>} /\ IsBuild(o, g)
    \/ /\ names \in {<<"remarks", "cargo", "compile">>, ExecutableNames, MixedNames}
       /\ IsBuild(o, g) /\ o.crateType = "bin"
       /\ names = ExecutableNames => ~hasMixedBuildOptions(o)
    \/ names = LibraryNames /\ IsBuild(o, g) /\ o.crateType = "staticlib"
    \/ names = ObjectNames /\ IsBuild(o, g) /\ o.crateType = "object" /\ Len(o.inputs) = 1
    \/ names = PrintNames /\ o.actions # {}
    \/ names = WriteNames /\ o.actions # {} /\ Len(o.inputs) = 1
    \/ \E a \in ActionCalls : /\ names = <<a>> /\ g /\ o.actions # {}
                              /\ a = "--emit-llvm" => Len(o.inputs) = 1

\* The lists that runHsc, the compile functions and emitLlvm choose belong to
\* what is built.
LEMMA ChosenBelong ==
  ASSUME NEW o, NEW g, NEW names, NEW S, S = {Call(n, None) : n \in ToSet(names)},
         Choice(names, o, g)
  PROVE  Belong(S, o, g)
<1>1. \A X : Named(S, X) <=> \E n \in ToSet(names) : n \in X
  <2>1. \A n : Call(n, None).call = n
    BY DEF Call
  <2>. QED
    BY <2>1 DEF Named
<1>2. ASSUME names = <<"finish_success">>, o.crateType = "object" /\ g /\ o.actions = {} => Len(o.inputs) = 1
      PROVE  Belong(S, o, g)
  <2>1. ToSet(names) = {"finish_success"}
    BY <1>2 DEF ToSet
  <2>. QED
    BY <1>1, <1>2, <2>1 DEF Belong, Links, BinCalls, ActionCalls
<1>3. ASSUME names = <<"profile", "timing_path", "dispatch">>, g
      PROVE  Belong(S, o, g)
  <2>1. ToSet(names) = {"profile", "timing_path", "dispatch"}
    BY <1>3 DEF ToSet
  <2>. QED
    BY <1>1, <1>3, <2>1 DEF Belong, Links, BinCalls, ActionCalls, Inside, Outside
<1>4. ASSUME names \in {<<"remarks", "compile">>, <<"fail_cli">>}, IsBuild(o, g)
      PROVE  Belong(S, o, g)
  <2>1. ToSet(names) \in {{"remarks", "compile"}, {"fail_cli"}}
    BY <1>4 DEF ToSet
  <2>. QED
    BY <1>1, <1>4, <2>1 DEF Belong, Links, BinCalls, ActionCalls, Inside, Outside, IsBuild
<1>5. ASSUME names = <<"remarks", "cargo", "compile">>, IsBuild(o, g), o.crateType = "bin"
      PROVE  Belong(S, o, g)
  <2>1. ToSet(names) = {"remarks", "cargo", "compile"}
    BY <1>5 DEF ToSet
  <2>. QED
    BY <1>1, <1>5, <2>1 DEF Belong, Links, BinCalls, ActionCalls, Inside, Outside, IsBuild
<1>6. ASSUME names \in {ExecutableNames, MixedNames}, IsBuild(o, g), o.crateType = "bin"
      PROVE  Belong(S, o, g)
  <2>1. ToSet(names) \cap ({"remarks", "profile", "timing_path", "cargo", "copy_archive", "extract",
                            "archive", "extracted", "write_ir", "emit_input"} \cup ActionCalls) = {}
    BY <1>6, NameSets DEF ActionCalls
  <2>. QED
    BY <1>1, <1>6, <2>1 DEF Belong, ActionCalls, IsBuild
<1>7. ASSUME names = LibraryNames, IsBuild(o, g), o.crateType = "staticlib"
      PROVE  Belong(S, o, g)
  <2>1. ToSet(names) \cap ({"remarks", "profile", "timing_path", "write_ir", "emit_input"}
                           \cup ActionCalls \cup BinCalls) = {}
    BY <1>7, NameSets DEF ActionCalls, BinCalls, Links
  <2>. QED
    BY <1>1, <1>7, <2>1 DEF Belong, ActionCalls, BinCalls, IsBuild
<1>8. ASSUME names = ObjectNames, IsBuild(o, g), o.crateType = "object", Len(o.inputs) = 1
      PROVE  Belong(S, o, g)
  <2>1. ToSet(names) \cap ({"remarks", "profile", "timing_path", "write_ir", "copy_archive", "extract",
                            "archive", "extracted"} \cup ActionCalls \cup BinCalls) = {}
    BY <1>8, NameSets DEF ActionCalls, BinCalls, Links
  <2>. QED
    BY <1>1, <1>8, <2>1 DEF Belong, ActionCalls, BinCalls, IsBuild
<1>9. ASSUME names = PrintNames \/ (names = WriteNames /\ Len(o.inputs) = 1), o.actions # {}
      PROVE  Belong(S, o, g)
  <2>1. ToSet(names) \cap ({"remarks", "profile", "timing_path", "dispatch", "cargo", "compile",
                            "fail_cli", "copy_archive", "extract", "archive", "extracted",
                            "emit_input"} \cup ActionCalls \cup BinCalls) = {}
    BY <1>9, NameSets DEF ActionCalls, BinCalls, Links
  <2>2. names = PrintNames => "write_ir" \notin ToSet(names)
    BY <1>9, NameSets
  <2>. QED
    BY <1>1, <1>9, <2>1, <2>2 DEF Belong, ActionCalls, BinCalls
<1>10. ASSUME NEW a \in ActionCalls, names = <<a>>, g, o.actions # {},
              a = "--emit-llvm" => Len(o.inputs) = 1
       PROVE  Belong(S, o, g)
  <2>1. ToSet(names) = {a} /\ a \notin BinCalls /\ a \in Outside
    BY <1>10 DEF ToSet, ActionCalls, BinCalls, Links, Outside
  <2>2. a \notin {"remarks", "profile", "timing_path", "dispatch", "cargo", "compile",
                  "fail_cli", "copy_archive", "extract", "archive", "extracted", "write_ir", "emit_input"}
    BY DEF ActionCalls
  <2>. QED
    BY <1>1, <1>10, <2>1, <2>2 DEF Belong, BinCalls
<1>. QED
  BY <1>2, <1>3, <1>4, <1>5, <1>6, <1>7, <1>8, <1>9, <1>10 DEF Choice

\* No list that is chosen ends in a failure.
LEMMA ChosenNames ==
  ASSUME NEW o, NEW g, NEW names, Choice(names, o, g)
  PROVE  "finish_failure" \notin ToSet(names)
<1>1. /\ "finish_failure" \notin ToSet(<<"finish_success">>)
      /\ "finish_failure" \notin ToSet(<<"profile", "timing_path", "dispatch">>)
      /\ "finish_failure" \notin ToSet(<<"remarks", "compile">>)
      /\ "finish_failure" \notin ToSet(<<"remarks", "cargo", "compile">>)
      /\ "finish_failure" \notin ToSet(<<"fail_cli">>)
      /\ \A a \in ActionCalls : "finish_failure" \notin ToSet(<<a>>)
  BY DEF ToSet, ActionCalls
<1>2. \A s \in {ObjectNames, LibraryNames, ExecutableNames, MixedNames, PrintNames, WriteNames} :
        "finish_failure" \notin ToSet(s)
  BY NameSets
<1>. QED
  BY <1>1, <1>2 DEF Choice

\* The other lists that are chosen are short.
ShortNames == ActionCalls \cup {"finish_success", "profile", "timing_path", "dispatch", "remarks", "cargo", "compile",
                                "fail_cli"}

\* Each list that is chosen is that of a compile function or a short one.
LEMMA Offered ==
  ASSUME NEW o, NEW g, NEW names, Choice(names, o, g)
  PROVE  \/ names \in {ObjectNames, LibraryNames, ExecutableNames, MixedNames, PrintNames, WriteNames}
         \/ ToSet(names) \subseteq ShortNames
<1>1. CASE names \in {<<"finish_success">>, <<"profile", "timing_path", "dispatch">>, <<"remarks", "compile">>,
                     <<"fail_cli">>, <<"remarks", "cargo", "compile">>}
  BY <1>1 DEF ToSet, ShortNames
<1>2. CASE \E a \in ActionCalls : names = <<a>>
  BY <1>2 DEF ToSet, ShortNames
<1>. QED
  BY <1>1, <1>2 DEF Choice

\* Nothing remains where no call is.
LEMMA NoCalls ==
  ASSUME NEW S, NEW s \in Seq(S)
  PROVE  /\ ToSet(s) = {} => s = << >>
         /\ s \o << >> = s
<1>1. ASSUME s # << >> PROVE ToSet(s) # {}
  <2>1. s[1] \in ToSet(s)
    BY <1>1 DEF ToSet
  <2>. QED
    BY <2>1
<1>. QED
  BY <1>1

\* The first of the calls that remain is one of them.
LEMMA NowLeft ==
  ASSUME ControlInv, todo # << >>
  PROVE  /\ Now \in Left /\ Now \in CallsFor(Units) /\ Tail(todo) \in Seq(CallsFor(Units))
         /\ Left = ToSet(Tail(todo)) \cup {Now}
         /\ \A names : Now.call \in names => Named(Left, names)
<1>1. todo \in Seq(CallsFor(Units)) /\ InOrder(todo) /\ Staged(todo)
  BY DEF ControlInv
<1>2. /\ Tail(todo) \in Seq(CallsFor(Units)) /\ Head(todo) \in CallsFor(Units)
      /\ ToSet(todo) = ToSet(Tail(todo)) \cup {Head(todo)}
  BY <1>1, Popped
<1>. QED
  BY <1>2 DEF Now, Left, Named

\* What is chosen is one of the lists, and the last call before the choice.
LEMMA Chosen ==
  ASSUME ControlInv, Chooses
  PROVE  /\ Now.call \in Final
         /\ \E names \in Seq(CallNames) :
               Listing(names) /\ names # << >> /\ Choice(names, opts, Granted) /\ Replaced(Calls(names))
<1>1. todo # << >> /\ OptionsKept
  BY DEF Chooses, Replaced, Running, ControlInv
<1>2. \A names : Now.call \in names => Named(Left, names)
  BY <1>1, NowLeft
<1>3. /\ Now.call \in {"dispatch"} \cup ActionCalls => Granted
      /\ Now.call \in ActionCalls => opts.actions # {}
      /\ Now.call = "--emit-llvm" => Len(opts.inputs) = 1
      /\ Now.call = "compile" => IsBuild(opts, Granted)
  BY <1>2 DEF ControlInv, Belong, IsBuild, BinCalls, ActionCalls
<1>4. opts.actions \subseteq ActionCalls
  BY <1>1 DEF OptionsKept, ReadFrom, ActionFlags, ActionCalls
<1>5. /\ \A s \in {ObjectNames, LibraryNames, ExecutableNames, MixedNames, PrintNames, WriteNames} :
            s \in Seq(CallNames) /\ Listing(s) /\ s # << >>
      /\ \A s \in {<<"profile", "timing_path", "dispatch">>, <<"remarks", "cargo", "compile">>,
                   <<"remarks", "compile">>, <<"fail_cli">>, <<"finish_success">>} :
            s \in Seq(CallNames) /\ Listing(s) /\ s # << >>
      /\ \A a \in ActionCalls : <<a>> \in Seq(CallNames) /\ Listing(<<a>>) /\ <<a>> # << >>
  BY ProperLists, ShortLists
<1>6. CASE Now.call = "command_line" /\ parse.state = "shown" /\ Replaced(Calls(<<"finish_success">>))
  <2>1. Choice(<<"finish_success">>, opts, Granted)
    BY <1>6 DEF Choice, Granted, IsBuild
  <2>. QED
    BY <1>5, <1>6, <2>1 DEF Final
<1>7. CASE /\ Now.call = "command_line" /\ Granted
           /\ Replaced(Calls(<<"profile", "timing_path", "dispatch">>))
  <2>1. Choice(<<"profile", "timing_path", "dispatch">>, opts, Granted)
    BY <1>7 DEF Choice
  <2>. QED
    BY <1>5, <1>7, <2>1 DEF Final
<1>8. CASE /\ Now.call = "dispatch" /\ opts.actions = {} /\ opts.inputs # << >>
           /\ IF opts.crateType = "bin" THEN Replaced(Calls(<<"remarks", "cargo", "compile">>))
              ELSE Replaced(Calls(<<"remarks", "compile">>))
  <2>1. IsBuild(opts, Granted)
    BY <1>3, <1>8 DEF IsBuild
  <2>2. /\ Choice(<<"remarks", "compile">>, opts, Granted)
        /\ opts.crateType = "bin" => Choice(<<"remarks", "cargo", "compile">>, opts, Granted)
    BY <2>1 DEF Choice, ExecutableNames
  <2>. QED
    BY <1>5, <1>8, <2>2 DEF Final
<1>9. ASSUME Now.call = "dispatch", NEW a \in opts.actions, a = "--emit-llvm" => Len(opts.inputs) = 1,
             Replaced(Calls(<<a>>))
      PROVE  /\ Now.call \in Final
             /\ \E names \in Seq(CallNames) :
                   Listing(names) /\ names # << >> /\ Choice(names, opts, Granted) /\ Replaced(Calls(names))
  <2>1. Choice(<<a>>, opts, Granted)
    BY <1>3, <1>4, <1>9 DEF Choice
  <2>. QED
    BY <1>4, <1>5, <1>9, <2>1 DEF Final
<1>10. ASSUME Now.call = "compile"
       PROVE  /\ Choice(<<"fail_cli">>, opts, Granted)
              /\ opts.crateType = "bin" /\ ~hasMixedBuildOptions(opts) => Choice(ExecutableNames, opts, Granted)
              /\ opts.crateType = "bin" => Choice(MixedNames, opts, Granted)
              /\ opts.crateType = "staticlib" => Choice(LibraryNames, opts, Granted)
              /\ opts.crateType = "object" /\ Len(opts.inputs) = 1 => Choice(ObjectNames, opts, Granted)
  <2>1. ExecutableNames # MixedNames
    BY DEF ExecutableNames, MixedNames
  <2>. QED
    BY <1>3, <1>10, <2>1 DEF Choice
<1>11. CASE /\ Now.call = "compile"
            /\ \/ Replaced(Calls(<<"fail_cli">>))
               \/ opts.crateType = "object" /\ Len(opts.inputs) = 1 /\ Replaced(Calls(ObjectNames))
               \/ opts.crateType = "staticlib" /\ Replaced(Calls(LibraryNames))
               \/ /\ opts.crateType = "bin" /\ ~hasMixedBuildOptions(opts)
                  /\ Replaced(Calls(ExecutableNames))
               \/ opts.crateType = "bin" /\ Replaced(Calls(MixedNames))
  BY <1>5, <1>10, <1>11 DEF Final
<1>12. CASE Now.call \in ActionCalls /\ Replaced(Calls(<<"finish_success">>))
  <2>1. Choice(<<"finish_success">>, opts, Granted)
    BY <1>3, <1>12 DEF Choice, IsBuild
  <2>. QED
    BY <1>5, <1>12, <2>1 DEF Final
<1>13. CASE Now.call = "--emit-llvm" /\ (Replaced(Calls(PrintNames)) \/ Replaced(Calls(WriteNames)))
  <2>1. Choice(PrintNames, opts, Granted) /\ Choice(WriteNames, opts, Granted)
    BY <1>3, <1>13 DEF Choice, ActionCalls
  <2>. QED
    BY <1>5, <1>13, <2>1 DEF Final, ActionCalls
<1>. QED
  BY <1>6, <1>7, <1>8, <1>9, <1>11, <1>12, <1>13 DEF Chooses

\* The calls of one turn: those for its unit, and the loop again.
LEMMA Looped ==
  ASSUME ControlInv, Loop
  PROVE  \/ Pops
         \/ \E u \in Units : \E b \in {Frontend(u), Emit(u), FrontendAndEmit(u)}, r \in Seq(CallsFor(Units)) :
               /\ Replaced(b \o r) /\ Now.call \in Loops \cup {"emit_input"}
               /\ \/ r = << >>
                  \/ Now.call \in Loops /\ \E k \in Nat \ {0} : r = <<Turn(Now.call, k)>>
<1>1. todo # << >> /\ OptionsKept
  BY DEF Loop, Turns, Pops, Replaced, Running, ControlInv
<1>2. Now \in CallsFor(Units) /\ \A names : Now.call \in names => Named(Left, names)
  BY <1>1, NowLeft
<1>3. Now.index \in Nat \ {0}
  BY <1>2 DEF CallsFor
<1>4. ASSUME NEW n \in Loops
      PROVE  \A k \in Nat \ {0} : <<Turn(n, k)>> \in Seq(CallsFor(Units))
  BY DEF Turn, CallsFor, Loops, CallNames
<1>5. /\ inputs(opts) \in Seq(Units) /\ requiredModules(opts) \in Seq(Units)
      /\ opts.inputs # << >> => Head(inputs(opts)) \in Units
  BY <1>1, LoopRanges
<1>6. ASSUME NEW n \in Loops, NEW seq \in Seq(Units), NEW b, Turns(n, seq, b),
             b \in {Frontend(seq[Now.index]), Emit(seq[Now.index]), FrontendAndEmit(seq[Now.index])}
      PROVE  \/ Pops
             \/ \E u \in Units : \E c \in {Frontend(u), Emit(u), FrontendAndEmit(u)}, r \in Seq(CallsFor(Units)) :
                   /\ Replaced(c \o r) /\ Now.call \in Loops
                   /\ \E k \in Nat \ {0} : r = <<Turn(Now.call, k)>>
  <2>1. CASE Now.index > Len(seq)
    BY <1>6, <2>1 DEF Turns
  <2>2. CASE ~(Now.index > Len(seq))
    <3>1. seq[Now.index] \in Units /\ Now.index + 1 \in Nat \ {0}
      BY <1>3, <2>2
    <3>2. Now.call = n /\ Replaced(b \o <<Turn(n, Now.index + 1)>>)
      BY <1>6, <2>2 DEF Turns
    <3>3. <<Turn(n, Now.index + 1)>> \in Seq(CallsFor(Units))
      BY <1>4, <3>1
    <3>. QED
      BY <1>6, <3>1, <3>2, <3>3
  <2>. QED
    BY <2>1, <2>2
<1>7. CASE Now.call = "emit_input" /\ Replaced(Emit(Head(inputs(opts))) \o << >>)
  <2>1. opts.inputs # << >>
    <3>1. Named(Left, {"emit_input"})
      BY <1>2, <1>7
    <3>2. Len(opts.inputs) = 1
      BY <3>1 DEF ControlInv, Belong
    <3>. QED
      BY <3>2
  <2>2. << >> \in Seq(CallsFor(Units))
    OBVIOUS
  <2>. QED
    BY <1>5, <1>7, <2>1, <2>2
<1>. QED
  BY <1>5, <1>6, <1>7 DEF Loop, Loops

\* What hsc reads of the line of a build is of these kinds.
LEMMA BuildsRead == ASSUME NEW l \in Builds PROVE ReadFrom(parseDriverOptions(l).options, l)
<1>1. l \in Seq(Arguments)
  BY DriverAssumption
<1>2. parseDriverOptions(l).options \in LineOptions(ToSet(l))
  BY <1>1, LineRead DEF LineParses
<1> DEFINE o == parseDriverOptions(l).options
<1> HIDE DEF o
<1>3. o \in OptionsRead(ToSet(l)) /\ DOMAIN o = Members
  BY <1>2, OptionMembers DEF LineOptions, o
<1>4. Values(ToSet(l)) \subseteq {l[i].val : i \in DOMAIN l} \cup {None}
  BY <1>1 DEF Values, ToSet
<1>. QED
  BY <1>3, <1>4 DEF ReadFrom, OptionsRead, Members, o

\* The invariant about the calls holds at the start.
LEMMA ControlStarts == ASSUME DriverInit PROVE ControlInv
<1>1. OptionsKept
  BY BuildsRead DEF DriverInit, OptionsKept
<1>2. /\ Call("command_line", None) \in CallsFor(Units) /\ Call("command_line", None).call = "command_line"
      /\ StageNumber("command_line") = 0
  BY DEF Call, CallsFor, CallNames, Outside, StageNumber
<1>3. todo = <<Call("command_line", None)>> /\ exit = None
  BY DEF DriverInit
<1>4. todo \in Seq(CallsFor(Units)) /\ Len(todo) = 1 /\ DOMAIN todo = {1} /\ todo[1] = Call("command_line", None)
  BY <1>2, <1>3
<1>5. InOrder(todo) /\ Staged(todo)
  BY <1>2, <1>4 DEF InOrder, Staged
<1>6. Left = {Call("command_line", None)}
  BY <1>4 DEF Left, ToSet
<1>7. \A names : Named(Left, names) <=> "command_line" \in names
  BY <1>2, <1>6 DEF Named
<1>8. Belong(Left, opts, Granted)
  BY <1>7 DEF Belong, ActionCalls, BinCalls, Links, Inside, Outside
<1>. QED
  BY <1>1, <1>3, <1>4, <1>5, <1>7, <1>8 DEF ControlInv, None

\* And every step of the driver keeps it.
LEMMA ControlStep == ASSUME ControlInv, [DriverNext]_driverVars PROVE ControlInv'
<1>. DEFINE C == CallsFor(Units)
<1>1. /\ OptionsKept /\ todo \in Seq(C) /\ InOrder(todo) /\ Staged(todo)
      /\ Belong(ToSet(todo), opts, Granted) /\ Left = ToSet(todo)
      /\ Named(Left, {"finish_failure"}) => Failing
  BY DEF ControlInv, Left
<1>2. CASE UNCHANGED driverVars
  BY <1>2 DEF ControlInv, driverVars, run, parserVars, OptionsKept, Units, Granted, Outcome, Left,
     Failing, inputs
<1>3. CASE Ends /\ UNCHANGED <<args, parse, env>>
  <2>1. exit' = "success" => ~Failing
    BY <1>3 DEF Ends, Failing, Now, Call
  <2>. QED
    BY <1>3, <2>1 DEF Ends, ControlInv, OptionsKept, Units, Granted, Outcome, Left, Failing, inputs
<1>4. ASSUME OptionsStep, UNCHANGED <<args, parse, env>>, Pops \/ Aborts \/ Chooses \/ Loop
      PROVE  ControlInv'
  <2>1. /\ OptionsKept' /\ Units' = Units /\ Granted' = Granted
        /\ opts'.inputs = opts.inputs /\ opts'.crateType = opts.crateType
        /\ opts'.actions = opts.actions
    BY <1>1, <1>4, OptionsStepKeeps
  <2>2. \A S : Belong(S, opts', Granted') <=> Belong(S, opts, Granted)
    BY <2>1 DEF Belong
  <2>3. SUFFICES /\ todo' \in Seq(C) /\ InOrder(todo') /\ Staged(todo')
                 /\ Belong(ToSet(todo'), opts, Granted)
                 /\ Named(ToSet(todo'), {"finish_failure"}) => Failing'
    <3>1. exit' = None
      BY <1>4 DEF Pops, Aborts, Chooses, Loop, Turns, Replaced, Running
    <3>2. None # "success"
      BY DEF None
    <3>. QED
      BY <2>1, <2>2, <2>3, <3>1, <3>2 DEF ControlInv, Left
  <2>4. CASE Aborts
    <3>1. todo' = <<Call("finish_failure", None)>>
      BY <2>4 DEF Aborts, Failing
    <3>2. /\ Call("finish_failure", None) \in C /\ Call("finish_failure", None).call = "finish_failure"
          /\ StageNumber("finish_failure") = 0
      BY DEF Call, CallsFor, CallNames, Outside, StageNumber
    <3>3. /\ todo' \in Seq(C) /\ Len(todo') = 1 /\ DOMAIN (todo') = {1}
          /\ todo'[1] = Call("finish_failure", None)
      BY <3>1, <3>2
    <3>4. InOrder(todo') /\ Staged(todo')
      BY <3>2, <3>3 DEF InOrder, Staged
    <3>5. \A names : Named(ToSet(todo'), names) <=> "finish_failure" \in names
      BY <3>2, <3>3 DEF Named, ToSet
    <3>6. Belong(ToSet(todo'), opts, Granted)
      BY <3>5 DEF Belong, ActionCalls, BinCalls, Links, Inside, Outside
    <3>. QED
      BY <2>4, <3>3, <3>4, <3>6 DEF Aborts
  <2>5. ASSUME todo # << >>
        PROVE  /\ Tail(todo) \in Seq(C) /\ InOrder(Tail(todo)) /\ Staged(Tail(todo))
               /\ Now \in C /\ ToSet(todo) = ToSet(Tail(todo)) \cup {Now}
               /\ \A x \in ToSet(Tail(todo)) : /\ Rank(Now.call) <= Rank(x.call)
                                               /\ x.call = Now.call => x.call \in UnitCalls
                                               /\ Now.call \notin Final
               /\ Tail(todo) # << >> /\ StageNumber(Now.call) = 0 => StageNumber(Tail(todo)[1].call) \notin 2 .. 5
    BY <1>1, <2>5, Popped DEF Now
  <2>6. ASSUME todo # << >>, Now.call \notin Final
        PROVE  ~Named(ToSet(Tail(todo)), {"finish_failure"})
    <3>1. Named(ToSet(Tail(todo)), {"finish_failure"}) => Named(Left, {"finish_failure"})
      BY <1>1, <2>5, <2>6 DEF Named
    <3>2. Failing => Now.call \in Final
      BY DEF Failing, Now, Call, Final
    <3>. QED
      BY <1>1, <2>6, <3>1, <3>2
  <2>7. CASE Pops
    <3>1. todo # << >> /\ Now.call \notin Final /\ todo' = Tail(todo)
      BY <2>7 DEF Pops, Running
    <3>2. Belong(ToSet(Tail(todo)), opts, Granted)
      BY <1>1, <3>1, StillBelong DEF Now
    <3>. QED
      BY <2>5, <2>6, <3>1, <3>2
  <2>8. CASE Chooses
    <3>1. Now.call \in Final
      BY <2>8, Chosen
    <3>2. PICK names \in Seq(CallNames) :
             Listing(names) /\ names # << >> /\ Choice(names, opts, Granted) /\ Replaced(Calls(names))
      BY <2>8, Chosen
    <3>. DEFINE c == Calls(names)
    <3>3. todo # << >> /\ todo' = c \o Tail(todo)
      BY <3>2 DEF Replaced, Running
    <3>4. /\ c \in Seq(C) /\ InOrder(c) /\ Staged(c) /\ ToSet(c) = {Call(n, None) : n \in ToSet(names)}
      BY <3>2, Listed
    <3>5. Tail(todo) = << >>
      <4>1. ToSet(Tail(todo)) = {}
        BY <2>5, <3>1, <3>3
      <4>2. Tail(todo) \in Seq(C)
        BY <2>5, <3>3
      <4>. QED
        BY <4>1, <4>2, NoCalls
    <3>. HIDE DEF c
    <3>6. todo' = c
      BY <3>3, <3>4, <3>5, NoCalls
    <3>7. Belong(ToSet(c), opts, Granted)
      BY <3>2, <3>4, ChosenBelong
    <3>8. ~Named(ToSet(c), {"finish_failure"})
      <4>1. "finish_failure" \notin ToSet(names)
        BY <3>2, ChosenNames
      <4>. QED
        BY <3>4, <4>1 DEF Named, Call
    <3>. QED
      BY <3>4, <3>6, <3>7, <3>8
  <2>9. CASE Loop /\ ~Pops
    <3>1. PICK u \in Units : \E b \in {Frontend(u), Emit(u), FrontendAndEmit(u)}, r \in Seq(C) :
               /\ Replaced(b \o r) /\ Now.call \in Loops \cup {"emit_input"}
               /\ \/ r = << >>
                  \/ Now.call \in Loops /\ \E k \in Nat \ {0} : r = <<Turn(Now.call, k)>>
      BY <2>9, Looped
    <3>2. PICK b \in {Frontend(u), Emit(u), FrontendAndEmit(u)}, r \in Seq(C) :
               /\ Replaced(b \o r) /\ Now.call \in Loops \cup {"emit_input"}
               /\ \/ r = << >>
                  \/ Now.call \in Loops /\ \E k \in Nat \ {0} : r = <<Turn(Now.call, k)>>
      BY <3>1
    <3>3. /\ b \in Seq(C) /\ b # << >> /\ Staged(b)
          /\ StageNumber(b[1].call) \notin 2 .. 5 /\ StageNumber(b[Len(b)].call) \notin 1 .. 4
          /\ \A x \in ToSet(b) : x.call \in UnitCalls
      BY Bodies
    <3>4. todo # << >> /\ todo' = (b \o r) \o Tail(todo)
      BY <3>2 DEF Replaced, Running
    <3>5. /\ Rank(Now.call) >= 1 /\ Now.call \notin UnitCalls /\ StageNumber(Now.call) = 0
          /\ Now.call \notin Final
      BY <3>2, Ranks DEF Rank, UnitCalls, StageNumber, Final, ActionCalls, Links
    <3>6. \A x \in ToSet(r) : x.call = Now.call /\ Now.call \in Loops
      BY <3>2 DEF ToSet, Turn
    <3>7. /\ Tail(todo) # << >> => StageNumber(Tail(todo)[1].call) \notin 2 .. 5
          /\ \A y \in ToSet(Tail(todo)) : 1 <= Rank(y.call) /\ \A x \in ToSet(r) : x.call # y.call
      <4>1. \A y \in ToSet(Tail(todo)) : Rank(Now.call) <= Rank(y.call) /\ Now.call # y.call
        BY <2>5, <3>4, <3>5
      <4>2. Rank(Now.call) \in Nat /\ \A y : Rank(y.call) \in Nat
        BY Ranks
      <4>3. Tail(todo) # << >> => StageNumber(Tail(todo)[1].call) \notin 2 .. 5
        BY <2>5, <3>4, <3>5
      <4>. QED
        BY <3>5, <3>6, <4>1, <4>2, <4>3
    <3>8. r = << >> \/ (\E n \in Loops, k \in Nat \ {0} : r = <<Turn(n, k)>>)
      BY <3>2
    <3>9. Tail(todo) \in Seq(C) /\ InOrder(Tail(todo)) /\ Staged(Tail(todo))
      BY <2>5, <3>4
    <3>10. /\ todo' \in Seq(C) /\ InOrder(todo') /\ Staged(todo')
           /\ ToSet(todo') = ToSet(b) \cup ToSet(r) \cup ToSet(Tail(todo))
      <4>. DEFINE t == Tail(todo)
      <4>1. /\ t \in Seq(C) /\ InOrder(t) /\ Staged(t)
            /\ t # << >> => StageNumber(t[1].call) \notin 2 .. 5
            /\ \A y \in ToSet(t) : 1 <= Rank(y.call) /\ \A x \in ToSet(r) : x.call # y.call
            /\ todo' = (b \o r) \o t
        BY <3>4, <3>7, <3>9
      <4>. HIDE DEF t, C
      <4>2. /\ (b \o r) \o t \in Seq(C) /\ InOrder((b \o r) \o t) /\ Staged((b \o r) \o t)
            /\ ToSet((b \o r) \o t) = ToSet(b) \cup ToSet(r) \cup ToSet(t)
        BY <3>3, <3>8, <4>1, Turned DEF C
      <4>. QED
        BY <4>1, <4>2 DEF t
    <3>11. \A x \in ToSet(todo') : x \in ToSet(Tail(todo)) \/ x.call \in UnitCalls
                                  \/ (x.call \in Loops /\ x.call = Now.call)
      BY <3>3, <3>6, <3>10
    <3>12. Belong(ToSet(todo'), opts, Granted)
      BY <1>1, <3>4, <3>5, <3>10, <3>11, StillBelong DEF Now
    <3>13. ~Named(ToSet(todo'), {"finish_failure"})
      BY <2>6, <3>4, <3>5, <3>11 DEF Named, UnitCalls, Loops
    <3>. QED
      BY <3>10, <3>12, <3>13
  <2>. QED
    BY <1>4, <2>4, <2>7, <2>8, <2>9
<1>. QED
  BY <1>1, <1>2, <1>3, <1>4, Steps

\* Untouched holds of every step that is not the last.
LEMMA Leaves ==
  ASSUME OptionsKept, DriverNext, exit' = None
  PROVE  OptionsStep /\ Untouched /\ UNCHANGED <<args, parse, env>>
<1>1. ~Ends
  BY DEF Ends, None
<1>2. UNCHANGED driverVars => OptionsStep /\ Untouched
  BY DEF driverVars, run, OptionsStep, Untouched
<1>. QED
  BY <1>1, <1>2, Steps

\* The first call that remains says which action takes the step.
LEMMA Names ==
  /\ Ended => exit # None
  /\ ParseCommandLine => Now.call = "command_line"
  /\ CheckProfile => Now.call = "profile"
  /\ CheckTimingPath => Now.call = "timing_path"
  /\ Dispatch => Now.call = "dispatch"
  /\ PrepareRemarks => Now.call = "remarks"
  /\ RunCargo => Now.call = "cargo"
  /\ Compile => Now.call = "compile"
  /\ CompileInputs => Now.call \in {"each_frontend", "each_emit", "each_unit", "emit_input"}
  /\ Rejected => Now.call = "fail_cli"
  /\ Preprocess => Now.call = "preprocess"
  /\ LowerC => Now.call = "c_compat_lowering"
  /\ FrontendStage => Now.call \in {"parse", "sema_hir", "llvm_emission"}
  /\ CheckMains => Now.call = "mains"
  /\ validateCCompatibilityExternalAbi => Now.call = "external_abi"
  /\ compileSourceModules => Now.call = "source_modules"
  /\ mergeLlvmModules => Now.call = "merge"
  /\ Optimize => Now.call = "optimize"
  /\ appendOptimizationRemarks => Now.call = "append_remarks"
  /\ emitObjectFile => Now.call = "emit"
  /\ EmitModules => Now.call = "emit_modules"
  /\ validateOutputParent => Now.call \in {"parent_cli", "parent_write"}
  /\ markSkipped => Now.call \in {"skip_write", "skip_link", "skip_native"}
  /\ sanitizerRuntimeSources => Now.call \in {"sanitizer_write", "sanitizer_link"}
  /\ removePdb => Now.call \in {"remove_pdb", "remove_mixed_pdb"}
  /\ createTemporaryDirectory => Now.call = "temp"
  /\ resolveClang => Now.call = "clang"
  /\ resolveMixedTools => Now.call = "mixed_tools"
  /\ compileExternalSource => Now.call \in {"sanitizer_runtime", "c_sources", "cxx_sources", "runtime_sources"}
  /\ LinkExecutable => Now.call = "link"
  /\ LinkMixedExecutable => Now.call = "mixed_link"
  /\ emitMacDsym => Now.call = "dsym"
  /\ checkPdb => Now.call = "check_pdb"
  /\ resolveLlvmAr => Now.call = "llvm-ar"
  /\ checkRuntimeLibrary => Now.call = "runtime_library"
  /\ enterTemporaryDirectory => Now.call = "enter_temp"
  /\ extractRuntime => Now.call = "extract"
  /\ leaveTemporaryDirectory => Now.call = "leave_temp"
  /\ checkExtracted => Now.call = "extracted"
  /\ archiveObjects => Now.call = "archive"
  /\ copyArchive => Now.call = "copy_archive"
  /\ DumpInput => Now.call \in {"--dump-tokens", "--dump-ast", "--dump-hir", "--target-info"}
  /\ preprocessOnly => Now.call = "--preprocess-only"
  /\ emitLlvm => Now.call = "--emit-llvm"
  /\ writeIr => Now.call = "write_ir"
  /\ finish => Now.call \in {"finish_success", "finish_failure"}
<1>. USE DEF At, Now
<1>1. Ended => exit # None
  BY DEF Ended
<1>2. ParseCommandLine => Now.call = "command_line"
  BY DEF ParseCommandLine
<1>3. CheckProfile => Now.call = "profile"
  BY DEF CheckProfile
<1>4. CheckTimingPath => Now.call = "timing_path"
  BY DEF CheckTimingPath
<1>5. Dispatch => Now.call = "dispatch"
  BY DEF Dispatch
<1>6. PrepareRemarks => Now.call = "remarks"
  BY DEF PrepareRemarks
<1>7. RunCargo => Now.call = "cargo"
  BY DEF RunCargo
<1>8. Compile => Now.call = "compile"
  BY DEF Compile
<1>9. CompileInputs => Now.call \in {"each_frontend", "each_emit", "each_unit", "emit_input"}
  BY DEF CompileInputs, ForEach
<1>10. Rejected => Now.call = "fail_cli"
  BY DEF Rejected
<1>11. Preprocess => Now.call = "preprocess"
  BY DEF Preprocess
<1>12. LowerC => Now.call = "c_compat_lowering"
  BY DEF LowerC
<1>13. FrontendStage => Now.call \in {"parse", "sema_hir", "llvm_emission"}
  BY DEF FrontendStage
<1>14. CheckMains => Now.call = "mains"
  BY DEF CheckMains
<1>15. validateCCompatibilityExternalAbi => Now.call = "external_abi"
  BY DEF validateCCompatibilityExternalAbi
<1>16. compileSourceModules => Now.call = "source_modules"
  BY DEF compileSourceModules
<1>17. mergeLlvmModules => Now.call = "merge"
  BY DEF mergeLlvmModules
<1>18. Optimize => Now.call = "optimize"
  BY DEF Optimize
<1>19. appendOptimizationRemarks => Now.call = "append_remarks"
  BY DEF appendOptimizationRemarks
<1>20. emitObjectFile => Now.call = "emit"
  BY DEF emitObjectFile
<1>21. EmitModules => Now.call = "emit_modules"
  BY DEF EmitModules, ForEach
<1>22. validateOutputParent => Now.call \in {"parent_cli", "parent_write"}
  BY DEF validateOutputParent
<1>23. markSkipped => Now.call \in {"skip_write", "skip_link", "skip_native"}
  BY DEF markSkipped
<1>24. sanitizerRuntimeSources => Now.call \in {"sanitizer_write", "sanitizer_link"}
  BY DEF sanitizerRuntimeSources
<1>25. removePdb => Now.call \in {"remove_pdb", "remove_mixed_pdb"}
  BY DEF removePdb
<1>26. createTemporaryDirectory => Now.call = "temp"
  BY DEF createTemporaryDirectory
<1>27. resolveClang => Now.call = "clang"
  BY DEF resolveClang
<1>28. resolveMixedTools => Now.call = "mixed_tools"
  BY DEF resolveMixedTools
<1>29. compileExternalSource => Now.call \in {"sanitizer_runtime", "c_sources", "cxx_sources", "runtime_sources"}
  BY DEF compileExternalSource, CompileWith
<1>30. LinkExecutable => Now.call = "link"
  BY DEF LinkExecutable, Link
<1>31. LinkMixedExecutable => Now.call = "mixed_link"
  BY DEF LinkMixedExecutable, Link
<1>32. emitMacDsym => Now.call = "dsym"
  BY DEF emitMacDsym
<1>33. checkPdb => Now.call = "check_pdb"
  BY DEF checkPdb
<1>34. resolveLlvmAr => Now.call = "llvm-ar"
  BY DEF resolveLlvmAr
<1>35. checkRuntimeLibrary => Now.call = "runtime_library"
  BY DEF checkRuntimeLibrary
<1>36. enterTemporaryDirectory => Now.call = "enter_temp"
  BY DEF enterTemporaryDirectory
<1>37. extractRuntime => Now.call = "extract"
  BY DEF extractRuntime
<1>38. leaveTemporaryDirectory => Now.call = "leave_temp"
  BY DEF leaveTemporaryDirectory
<1>39. checkExtracted => Now.call = "extracted"
  BY DEF checkExtracted
<1>40. archiveObjects => Now.call = "archive"
  BY DEF archiveObjects
<1>41. copyArchive => Now.call = "copy_archive"
  BY DEF copyArchive
<1>42. DumpInput => Now.call \in {"--dump-tokens", "--dump-ast", "--dump-hir", "--target-info"}
  BY DEF DumpInput
<1>43. preprocessOnly => Now.call = "--preprocess-only"
  BY DEF preprocessOnly
<1>44. emitLlvm => Now.call = "--emit-llvm"
  BY DEF emitLlvm
<1>45. writeIr => Now.call = "write_ir"
  BY DEF writeIr
<1>46. finish => Now.call \in {"finish_success", "finish_failure"}
  BY DEF finish
<1>. QED
  BY <1>1, <1>2, <1>3, <1>4, <1>5, <1>6, <1>7, <1>8, <1>9, <1>10, <1>11, <1>12, <1>13, <1>14, <1>15,
     <1>16, <1>17, <1>18, <1>19, <1>20, <1>21, <1>22, <1>23, <1>24, <1>25, <1>26, <1>27, <1>28,
     <1>29, <1>30, <1>31, <1>32, <1>33, <1>34, <1>35, <1>36, <1>37, <1>38, <1>39, <1>40, <1>41,
     <1>42, <1>43, <1>44, <1>45, <1>46

\* So each call has its action.
LEMMA Acts ==
  ASSUME DriverNext, exit = None
  PROVE  /\ Now.call = "command_line" => ParseCommandLine
         /\ Now.call = "profile" => CheckProfile
         /\ Now.call = "timing_path" => CheckTimingPath
         /\ Now.call = "dispatch" => Dispatch
         /\ Now.call = "remarks" => PrepareRemarks
         /\ Now.call = "cargo" => RunCargo
         /\ Now.call = "compile" => Compile
         /\ Now.call \in {"each_frontend", "each_emit", "each_unit", "emit_input"} => CompileInputs
         /\ Now.call = "fail_cli" => Rejected
         /\ Now.call = "preprocess" => Preprocess
         /\ Now.call = "c_compat_lowering" => LowerC
         /\ Now.call \in {"parse", "sema_hir", "llvm_emission"} => FrontendStage
         /\ Now.call = "mains" => CheckMains
         /\ Now.call = "external_abi" => validateCCompatibilityExternalAbi
         /\ Now.call = "source_modules" => compileSourceModules
         /\ Now.call = "merge" => mergeLlvmModules
         /\ Now.call = "optimize" => Optimize
         /\ Now.call = "append_remarks" => appendOptimizationRemarks
         /\ Now.call = "emit" => emitObjectFile
         /\ Now.call = "emit_modules" => EmitModules
         /\ Now.call \in {"parent_cli", "parent_write"} => validateOutputParent
         /\ Now.call \in {"skip_write", "skip_link", "skip_native"} => markSkipped
         /\ Now.call \in {"sanitizer_write", "sanitizer_link"} => sanitizerRuntimeSources
         /\ Now.call \in {"remove_pdb", "remove_mixed_pdb"} => removePdb
         /\ Now.call = "temp" => createTemporaryDirectory
         /\ Now.call = "clang" => resolveClang
         /\ Now.call = "mixed_tools" => resolveMixedTools
         /\ Now.call \in {"sanitizer_runtime", "c_sources", "cxx_sources", "runtime_sources"} => compileExternalSource
         /\ Now.call = "link" => LinkExecutable
         /\ Now.call = "mixed_link" => LinkMixedExecutable
         /\ Now.call = "dsym" => emitMacDsym
         /\ Now.call = "check_pdb" => checkPdb
         /\ Now.call = "llvm-ar" => resolveLlvmAr
         /\ Now.call = "runtime_library" => checkRuntimeLibrary
         /\ Now.call = "enter_temp" => enterTemporaryDirectory
         /\ Now.call = "extract" => extractRuntime
         /\ Now.call = "leave_temp" => leaveTemporaryDirectory
         /\ Now.call = "extracted" => checkExtracted
         /\ Now.call = "archive" => archiveObjects
         /\ Now.call = "copy_archive" => copyArchive
         /\ Now.call \in {"--dump-tokens", "--dump-ast", "--dump-hir", "--target-info"} => DumpInput
         /\ Now.call = "--preprocess-only" => preprocessOnly
         /\ Now.call = "--emit-llvm" => emitLlvm
         /\ Now.call = "write_ir" => writeIr
         /\ Now.call \in {"finish_success", "finish_failure"} => finish
<1>1. DriverNext /\ ~Ended
  BY Names
<1>2. Now.call = "command_line" => ParseCommandLine
  BY <1>1, Names DEF DriverNext
<1>3. Now.call = "profile" => CheckProfile
  BY <1>1, Names DEF DriverNext
<1>4. Now.call = "timing_path" => CheckTimingPath
  BY <1>1, Names DEF DriverNext
<1>5. Now.call = "dispatch" => Dispatch
  BY <1>1, Names DEF DriverNext
<1>6. Now.call = "remarks" => PrepareRemarks
  BY <1>1, Names DEF DriverNext
<1>7. Now.call = "cargo" => RunCargo
  BY <1>1, Names DEF DriverNext
<1>8. Now.call = "compile" => Compile
  BY <1>1, Names DEF DriverNext
<1>9. Now.call \in {"each_frontend", "each_emit", "each_unit", "emit_input"} => CompileInputs
  BY <1>1, Names DEF DriverNext
<1>10. Now.call = "fail_cli" => Rejected
  BY <1>1, Names DEF DriverNext
<1>11. Now.call = "preprocess" => Preprocess
  BY <1>1, Names DEF DriverNext
<1>12. Now.call = "c_compat_lowering" => LowerC
  BY <1>1, Names DEF DriverNext
<1>13. Now.call \in {"parse", "sema_hir", "llvm_emission"} => FrontendStage
  BY <1>1, Names DEF DriverNext
<1>14. Now.call = "mains" => CheckMains
  BY <1>1, Names DEF DriverNext
<1>15. Now.call = "external_abi" => validateCCompatibilityExternalAbi
  BY <1>1, Names DEF DriverNext
<1>16. Now.call = "source_modules" => compileSourceModules
  BY <1>1, Names DEF DriverNext
<1>17. Now.call = "merge" => mergeLlvmModules
  BY <1>1, Names DEF DriverNext
<1>18. Now.call = "optimize" => Optimize
  BY <1>1, Names DEF DriverNext
<1>19. Now.call = "append_remarks" => appendOptimizationRemarks
  BY <1>1, Names DEF DriverNext
<1>20. Now.call = "emit" => emitObjectFile
  BY <1>1, Names DEF DriverNext
<1>21. Now.call = "emit_modules" => EmitModules
  BY <1>1, Names DEF DriverNext
<1>22. Now.call \in {"parent_cli", "parent_write"} => validateOutputParent
  BY <1>1, Names DEF DriverNext
<1>23. Now.call \in {"skip_write", "skip_link", "skip_native"} => markSkipped
  BY <1>1, Names DEF DriverNext
<1>24. Now.call \in {"sanitizer_write", "sanitizer_link"} => sanitizerRuntimeSources
  BY <1>1, Names DEF DriverNext
<1>25. Now.call \in {"remove_pdb", "remove_mixed_pdb"} => removePdb
  BY <1>1, Names DEF DriverNext
<1>26. Now.call = "temp" => createTemporaryDirectory
  BY <1>1, Names DEF DriverNext
<1>27. Now.call = "clang" => resolveClang
  BY <1>1, Names DEF DriverNext
<1>28. Now.call = "mixed_tools" => resolveMixedTools
  BY <1>1, Names DEF DriverNext
<1>29. Now.call \in {"sanitizer_runtime", "c_sources", "cxx_sources", "runtime_sources"} => compileExternalSource
  BY <1>1, Names DEF DriverNext
<1>30. Now.call = "link" => LinkExecutable
  BY <1>1, Names DEF DriverNext
<1>31. Now.call = "mixed_link" => LinkMixedExecutable
  BY <1>1, Names DEF DriverNext
<1>32. Now.call = "dsym" => emitMacDsym
  BY <1>1, Names DEF DriverNext
<1>33. Now.call = "check_pdb" => checkPdb
  BY <1>1, Names DEF DriverNext
<1>34. Now.call = "llvm-ar" => resolveLlvmAr
  BY <1>1, Names DEF DriverNext
<1>35. Now.call = "runtime_library" => checkRuntimeLibrary
  BY <1>1, Names DEF DriverNext
<1>36. Now.call = "enter_temp" => enterTemporaryDirectory
  BY <1>1, Names DEF DriverNext
<1>37. Now.call = "extract" => extractRuntime
  BY <1>1, Names DEF DriverNext
<1>38. Now.call = "leave_temp" => leaveTemporaryDirectory
  BY <1>1, Names DEF DriverNext
<1>39. Now.call = "extracted" => checkExtracted
  BY <1>1, Names DEF DriverNext
<1>40. Now.call = "archive" => archiveObjects
  BY <1>1, Names DEF DriverNext
<1>41. Now.call = "copy_archive" => copyArchive
  BY <1>1, Names DEF DriverNext
<1>42. Now.call \in {"--dump-tokens", "--dump-ast", "--dump-hir", "--target-info"} => DumpInput
  BY <1>1, Names DEF DriverNext
<1>43. Now.call = "--preprocess-only" => preprocessOnly
  BY <1>1, Names DEF DriverNext
<1>44. Now.call = "--emit-llvm" => emitLlvm
  BY <1>1, Names DEF DriverNext
<1>45. Now.call = "write_ir" => writeIr
  BY <1>1, Names DEF DriverNext
<1>46. Now.call \in {"finish_success", "finish_failure"} => finish
  BY <1>1, Names DEF DriverNext
<1>. QED
  BY <1>2, <1>3, <1>4, <1>5, <1>6, <1>7, <1>8, <1>9, <1>10, <1>11, <1>12, <1>13, <1>14, <1>15,
     <1>16, <1>17, <1>18, <1>19, <1>20, <1>21, <1>22, <1>23, <1>24, <1>25, <1>26, <1>27, <1>28,
     <1>29, <1>30, <1>31, <1>32, <1>33, <1>34, <1>35, <1>36, <1>37, <1>38, <1>39, <1>40, <1>41,
     <1>42, <1>43, <1>44, <1>45, <1>46

\* A failure never waits behind another call: what is done and what fails
\* cannot be mistaken for one another.
LEMMA Apart ==
  ASSUME ControlInv, todo # << >>
  PROVE  Tail(todo) # <<Call("finish_failure", None)>>
<1>. SUFFICES ASSUME Tail(todo) = <<Call("finish_failure", None)>> PROVE FALSE
  OBVIOUS
<1>1. Call("finish_failure", None) \in ToSet(Tail(todo))
  <2>1. \A x : x \in ToSet(<<x>>)
    BY DEF ToSet
  <2>. QED
    BY <2>1
<1>2. Named(Left, {"finish_failure"})
  BY <1>1, NowLeft DEF Named, Call
<1>3. todo = <<Call("finish_failure", None)>>
  BY <1>2 DEF ControlInv, Failing
<1>. QED
  BY <1>3

\* The states of a stage in the record, and the stages of a unit.
Statuses == {"not_started", "skipped", "completed", "failed"}
StageSet == ToSet(UnitStages)

\* The calls that start or skip each global stage.
Marker(s) ==
    CASE s = "llvm_ir_write" -> {"skip_write", "skip_native", "write_ir"}
      [] s = "clang_backend_link" -> {"check_pdb", "skip_native"}
      [] s = "native_optimization" -> {"optimize"}
      [] s = "object_emission" -> {"emit"}

\* What a step does to the global stages: they are done or skipped by a call
\* that is done, and failed by a call that fails, which names the stage.
StagesStep ==
    /\ stages' \in [GlobalStages -> Statuses]
    /\ \A s \in GlobalStages :
          \/ stages'[s] = stages[s]
          \/ Pops /\ stages'[s] \in {"completed", "skipped"}
          \/ Aborts /\ (failed = None => failed' = s)
    /\ \A s \in GlobalStages : Pops /\ Now.call \in Marker(s) => stages'[s] # "not_started"

\* Every call does to the global stages what StagesStep says.
LEMMA StagesSteps ==
  ASSUME OptionsKept, DriverNext, Pops \/ Aborts, Tail(todo) # <<Call("finish_failure", None)>>,
         stages \in [GlobalStages -> Statuses]
  PROVE  StagesStep
<1>. DEFINE n == Now.call
<1>1. exit = None /\ exit' = None
  BY DEF Pops, Aborts, Running
<1>2. CASE n \notin MarkCalls
  <2>1. stages' = stages
    BY <1>1, <1>2, Leaves DEF Untouched
  <2>2. \A s \in GlobalStages : n \notin Marker(s)
    BY <1>2 DEF Marker, GlobalStages, MarkCalls
  <2>. QED
    BY <2>1, <2>2 DEF StagesStep
<1>. USE <1>1 DEF Goes, Fail, Mark, Pops, Aborts, Failing, StagesStep, Marker, GlobalStages, Statuses,
                  files, metrics, tools, place
<1>3. CASE n = "optimize"
  BY <1>3, Acts DEF Optimize
<1>4. CASE n = "emit"
  BY <1>4, Acts DEF emitObjectFile
<1>5. CASE n = "parent_write"
  BY <1>5, Acts DEF validateOutputParent, At
<1>6. CASE n \in {"skip_write", "skip_link", "skip_native"}
  BY <1>6, Acts DEF markSkipped, At, Now
<1>7. CASE n = "sanitizer_write"
  BY <1>7, Acts DEF sanitizerRuntimeSources, At
<1>8. CASE n = "clang"
  BY <1>8, Acts DEF resolveClang
<1>9. CASE n = "mixed_tools"
  BY <1>9, Acts DEF resolveMixedTools
<1>10. CASE n = "sanitizer_runtime"
  BY <1>10, Acts DEF compileExternalSource, CompileWith, At
<1>11. CASE n = "link"
  BY <1>11, Acts DEF LinkExecutable, Link
<1>12. CASE n = "mixed_link"
  BY <1>12, Acts DEF LinkMixedExecutable, Link
<1>13. CASE n = "dsym"
  BY <1>13, Acts DEF emitMacDsym
<1>14. CASE n = "check_pdb"
  BY <1>14, Acts DEF checkPdb
<1>15. CASE n = "write_ir"
  BY <1>15, Acts DEF writeIr
<1>. QED
  BY <1>2, <1>3, <1>4, <1>5, <1>6, <1>7, <1>8, <1>9, <1>10, <1>11, <1>12, <1>13, <1>14, <1>15
     DEF MarkCalls

\* What a step does to the stages of the units: a call of the front end adds a
\* unit or enters its own stage for the last one, and a failure there names it.
UnitsStep ==
    /\ Now.call = "preprocess" =>
         units' = Append(units,
           [input |-> Now.of,
            stages |-> [s \in StageSet |-> IF s # "preprocess" THEN "not_started"
                                           ELSE IF Pops THEN "completed" ELSE "failed"]])
    /\ Now.call \in StageCalls \ {"preprocess"} =>
         \E status \in IF Pops THEN {"completed", "skipped"} ELSE {"failed"} :
            /\ units' = [units EXCEPT ![Len(units)].stages[Now.call] = status]
            /\ Pops /\ Now.call = "llvm_emission" => status = "completed"
    /\ Now.call \in StageCalls /\ Aborts /\ failed = None => failed' = Now.call
    /\ Now.call \notin StageCalls => units' = units
    /\ Now.call \in StageCalls => stages' = stages

\* Every call does to the stages of the units what UnitsStep says.
LEMMA UnitsSteps ==
  ASSUME OptionsKept, DriverNext, Pops \/ Aborts, Tail(todo) # <<Call("finish_failure", None)>>
  PROVE  UnitsStep
<1>. DEFINE n == Now.call
<1>1. exit = None /\ exit' = None
  BY DEF Pops, Aborts, Running
<1>2. CASE n \notin StageCalls
  <2>1. units' = units
    BY <1>1, <1>2, Leaves DEF Untouched
  <2>. QED
    BY <1>2, <2>1 DEF UnitsStep, StageCalls
<1>. USE <1>1 DEF Goes, Fail, MarkUnit, Pops, Aborts, Failing, UnitsStep, Keep, files, metrics, tools, place
<1>3. CASE n = "preprocess"
  <2>. DEFINE new(status) == [input |-> Now.of,
                              stages |-> [s \in StageSet |-> IF s # "preprocess" THEN "not_started" ELSE status]]
  <2>1. ASSUME NEW status
        PROVE  [[input |-> Now.of, stages |-> [s \in ToSet(UnitStages) |-> "not_started"]]
                  EXCEPT !.stages["preprocess"] = status] = new(status)
    BY DEF StageSet
  <2>2. \/ Goes /\ units' = Append(units, new("completed"))
        \/ Fail("preprocess") /\ units' = Append(units, new("failed"))
    BY <1>3, <2>1, Acts DEF Preprocess, Now
  <2>3. stages' = stages
    BY <1>3, Acts DEF Preprocess
  <2>. HIDE DEF new
  <2>4. IF Pops THEN units' = Append(units, new("completed"))
                ELSE units' = Append(units, new("failed")) /\ (failed = None => failed' = "preprocess")
    BY <2>2
  <2>. QED
    BY <1>3, <2>3, <2>4 DEF new, StageCalls
<1>4. CASE n = "c_compat_lowering"
  BY <1>4, Acts DEF LowerC, StageCalls
<1>5. CASE n \in {"parse", "sema_hir", "llvm_emission"}
  <2>1. /\ \/ Goes /\ MarkUnit(n, "completed")
           \/ Fail(n) /\ MarkUnit(n, "failed")
        /\ stages' = stages
    BY <1>5, Acts DEF FrontendStage, At, Now
  <2>. QED
    BY <1>5, <2>1 DEF StageCalls
<1>. QED
  BY <1>2, <1>3, <1>4, <1>5 DEF StageCalls

\* No call but the last one writes a record.
LEMMA DiskSteps ==
  ASSUME OptionsKept, DriverNext, exit = None, exit' = None
  PROVE  /\ DOMAIN disk' = DOMAIN disk
         /\ \A p \in DOMAIN disk : disk'[p] = disk[p] \/ disk'[p].what # "record"
<1>. DEFINE n == Now.call
<1>2. CASE n \notin DiskCalls
  <2>1. disk' = disk
    BY <1>2, Leaves DEF Untouched
  <2>. QED
    BY <2>1
<1>3. CASE n = "remarks"
  BY <1>3, Acts DEF PrepareRemarks
<1>4. CASE n = "emit"
  BY <1>4, Acts DEF emitObjectFile
<1>5. CASE n \in Links
  BY <1>5, Acts DEF LinkExecutable, LinkMixedExecutable, Link, Links
<1>6. CASE n \in {"remove_pdb", "remove_mixed_pdb"}
  BY <1>6, Acts DEF removePdb
<1>7. CASE n = "copy_archive"
  BY <1>7, Acts DEF copyArchive
<1>8. CASE n = "write_ir"
  BY <1>8, Acts DEF writeIr
<1>9. CASE n = "--preprocess-only"
  BY <1>9, Acts DEF preprocessOnly
<1>. QED
  BY <1>2, <1>3, <1>4, <1>5, <1>6, <1>7, <1>8, <1>9 DEF DiskCalls

-----------------------------------------------------------------------------
(* The record: the stages of the metrics agree with what remains.          *)

\* The unit is through its first k stages, and no further.
UpTo(u, k) ==
    /\ \A s \in StageSet : IF StageNumber(s) <= k THEN u.stages[s] \in {"completed", "skipped"}
                                                  ELSE u.stages[s] = "not_started"
    /\ k = 5 => u.stages["llvm_emission"] = "completed"

\* How far the last unit is when t remains.
Reached(t) ==
    IF t # << >> /\ StageNumber(Head(t).call) \in 2 .. 5 THEN StageNumber(Head(t).call) - 1 ELSE 5

\* What the record holds of each unit.
UnitRecords == [input : Units \cup {None}, stages : [StageSet -> Statuses]]

\* While hsc runs: a unit is recorded as far as its calls are done, all units before
\* it are through, and only the stage that has failed is recorded as failed.
MetricsInv ==
    /\ stages \in [GlobalStages -> Statuses]
    /\ units \in Seq(UnitRecords)
    /\ \A i \in DOMAIN units : i < Len(units) => UpTo(units[i], 5)
    /\ todo # << >> /\ StageNumber(Now.call) \in 2 .. 5 => units # << >>
    /\ ~Failing => /\ units # << >> => UpTo(units[Len(units)], Reached(todo))
                   /\ failed = None /\ \A s \in GlobalStages : stages[s] # "failed"
    /\ Failing => FailedStages \subseteq {failed}
    /\ DOMAIN disk = Paths /\ \A p \in Paths : disk[p].what # "record"

\* Appending to the records of the units, and changing the last.
LEMMA LastUnit ==
  ASSUME NEW S, NEW s \in Seq(S)
  PROVE  /\ \A x \in S : LET a == Append(s, x) IN
              /\ a \in Seq(S) /\ a # << >> /\ Len(a) = Len(s) + 1 /\ a[Len(a)] = x
              /\ DOMAIN a = 1 .. (Len(s) + 1)
              /\ \A i \in 1 .. Len(s) : a[i] = s[i]
         /\ DOMAIN s = 1 .. Len(s) /\ Len(s) \in Nat /\ (s # << >> <=> Len(s) # 0)
         /\ s # << >> => Len(s) \in DOMAIN s
         /\ \A i \in DOMAIN s : s[i] \in S
         /\ \A x \in S : s # << >> => LET a == [s EXCEPT ![Len(s)] = x] IN
              /\ a \in Seq(S) /\ a # << >> /\ Len(a) = Len(s) /\ a[Len(a)] = x
              /\ DOMAIN a = DOMAIN s
              /\ \A i \in DOMAIN s : i # Len(s) => a[i] = s[i]
<1>1. /\ DOMAIN s = 1 .. Len(s) /\ Len(s) \in Nat /\ (s # << >> <=> Len(s) # 0)
      /\ \A i \in DOMAIN s : s[i] \in S
  OBVIOUS
<1>2. ASSUME NEW x \in S
      PROVE  LET a == Append(s, x) IN
              /\ a \in Seq(S) /\ a # << >> /\ Len(a) = Len(s) + 1 /\ a[Len(a)] = x
              /\ DOMAIN a = 1 .. (Len(s) + 1)
              /\ \A i \in 1 .. Len(s) : a[i] = s[i]
  OBVIOUS
<1>3. ASSUME NEW x \in S, s # << >>
      PROVE  LET a == [s EXCEPT ![Len(s)] = x] IN
              /\ a \in Seq(S) /\ a # << >> /\ Len(a) = Len(s) /\ a[Len(a)] = x
              /\ DOMAIN a = DOMAIN s
              /\ \A i \in DOMAIN s : i # Len(s) => a[i] = s[i]
  <2>. DEFINE a == [s EXCEPT ![Len(s)] = x]
  <2>1. a = [i \in 1 .. Len(s) |-> IF i = Len(s) THEN x ELSE s[i]]
    BY <1>1
  <2>. HIDE DEF a
  <2>2. a \in [1 .. Len(s) -> S]
    BY <1>1, <2>1
  <2>3. a \in Seq(S) /\ Len(a) = Len(s)
    BY <1>1, <2>2
  <2>4. a # << >>
    BY <1>1, <1>3, <2>3
  <2>5. /\ DOMAIN a = 1 .. Len(s)
        /\ \A i \in 1 .. Len(s) : a[i] = IF i = Len(s) THEN x ELSE s[i]
    BY <2>1
  <2>6. a[Len(a)] = x
    <3>1. Len(s) \in 1 .. Len(s)
      BY <1>1, <1>3
    <3>2. a[Len(s)] = x
      BY <2>5, <3>1
    <3>. QED
      BY <2>3, <3>2
  <2>7. DOMAIN a = DOMAIN s /\ \A i \in DOMAIN s : i # Len(s) => a[i] = s[i]
    BY <1>1, <2>5
  <2>. QED
    BY <2>3, <2>4, <2>6, <2>7 DEF a
<1>. QED
  BY <1>1, <1>2, <1>3

\* What comes next: the next stage of the front end after each of its first
\* four, and otherwise no call from the middle of it.
LEMMA After ==
  ASSUME ControlInv, Pops \/ Chooses \/ Loop
  PROVE  /\ StageNumber(Now.call) \in 1 .. 4 =>
              Pops /\ todo' # << >> /\ StageNumber(Head(todo').call) = StageNumber(Now.call) + 1
         /\ StageNumber(Now.call) \notin 1 .. 4 =>
              (todo' # << >> => StageNumber(Head(todo').call) \notin 2 .. 5)
         /\ ~Failing /\ ~Failing'
<1>. DEFINE C == CallsFor(Units)
<1>1. todo # << >> /\ exit' = None /\ todo \in Seq(C) /\ InOrder(todo) /\ Staged(todo)
  BY DEF ControlInv, Pops, Chooses, Loop, Turns, Replaced, Running
<1>2. StageNumber(Now.call) \in Nat
  BY DEF StageNumber
<1>3. CASE Pops
  <2>1. todo' = Tail(todo) /\ Now.call \notin Final
    BY <1>3 DEF Pops
  <2>2. ~Failing
    BY <2>1 DEF Failing, Now, Call, Final
  <2>3. ~Failing'
    BY <1>1, <2>1, Apart DEF Failing
  <2>4. /\ StageNumber(Now.call) \in 1 .. 4 => Tail(todo) # << >>
        /\ /\ Tail(todo) # << >>
           /\ StageNumber(Now.call) \in 1 .. 4 \/ StageNumber(Head(Tail(todo)).call) \in 2 .. 5
           => StageNumber(Head(Tail(todo)).call) = StageNumber(Now.call) + 1
    BY <1>1, Popped DEF Now
  <2>. QED
    BY <1>2, <1>3, <2>1, <2>2, <2>3, <2>4
<1>4. CASE Chooses
  <2>1. Now.call \in Final
    BY <1>4, Chosen
  <2>2. PICK names \in Seq(CallNames) :
           Listing(names) /\ names # << >> /\ Choice(names, opts, Granted) /\ Replaced(Calls(names))
    BY <1>4, Chosen
  <2>. DEFINE c == Calls(names)
  <2>3. /\ c \in Seq(C) /\ ToSet(c) = {Call(n, None) : n \in ToSet(names)}
        /\ todo' = c \o Tail(todo)
    BY <2>2, Listed DEF Replaced
  <2>4. ToSet(Tail(todo)) = {} /\ Tail(todo) \in Seq(C)
    BY <1>1, <2>1, Popped DEF Now
  <2>5. c # << >> /\ c[1].call = names[1] /\ 1 \in DOMAIN names /\ Len(c) = Len(names)
    BY <2>2 DEF Calls, Call
  <2>6. StageNumber(names[1]) = 0
    BY <2>2, <2>5 DEF Listing
  <2>. HIDE DEF c
  <2>7. todo' = c
    <3>1. Tail(todo) = << >>
      BY <2>4, NoCalls
    <3>. QED
      BY <2>3, <3>1, NoCalls
  <2>8. StageNumber(Head(todo').call) = 0
    BY <2>3, <2>5, <2>6, <2>7
  <2>9. StageNumber(Now.call) = 0
    BY <2>1 DEF StageNumber, Final, ActionCalls
  <2>10. "finish_failure" \notin ToSet(names)
    BY <2>2, ChosenNames
  <2>11. ~Failing
    <3>1. Failing => Now.call = "finish_failure"
      BY DEF Failing, Now, Call
    <3>2. Now.call # "finish_failure"
      BY <1>4 DEF Chooses, ActionCalls
    <3>. QED
      BY <3>1, <3>2
  <2>12. ~Failing'
    <3>1. Failing' => Call("finish_failure", None) \in ToSet(c)
      BY <2>7 DEF Failing, ToSet
    <3>2. Call("finish_failure", None) \notin ToSet(c)
      BY <2>3, <2>10 DEF Call
    <3>. QED
      BY <3>1, <3>2
  <2>. QED
    BY <2>8, <2>9, <2>11, <2>12
<1>5. CASE Loop /\ ~Pops
  <2>1. PICK u \in Units : \E b \in {Frontend(u), Emit(u), FrontendAndEmit(u)}, r \in Seq(C) :
             Replaced(b \o r) /\ Now.call \in Loops \cup {"emit_input"}
    BY <1>5, Looped
  <2>2. PICK b \in {Frontend(u), Emit(u), FrontendAndEmit(u)}, r \in Seq(C) :
             Replaced(b \o r) /\ Now.call \in Loops \cup {"emit_input"}
    BY <2>1
  <2>3. b \in Seq(C) /\ b # << >> /\ StageNumber(b[1].call) \notin 2 .. 5 /\ b[1].call \in UnitCalls
    <3>1. /\ b \in Seq(C) /\ b # << >> /\ StageNumber(b[1].call) \notin 2 .. 5
          /\ \A x \in ToSet(b) : x.call \in UnitCalls
      BY Bodies
    <3>2. b[1] \in ToSet(b)
      BY <3>1 DEF ToSet
    <3>. QED
      BY <3>1, <3>2
  <2>4. todo' = (b \o r) \o Tail(todo) /\ Tail(todo) \in Seq(C)
    BY <1>1, <2>2 DEF Replaced
  <2>5. Head(todo') = b[1]
    <3>. DEFINE t == Tail(todo)
    <3>. HIDE DEF t
    <3>1. b \o r \in Seq(C) /\ Len(b \o r) = Len(b) + Len(r) /\ (b \o r)[1] = b[1] /\ Len(b) # 0
      BY <2>3
    <3>2. Head((b \o r) \o t) = (b \o r)[1]
      BY <2>4, <3>1, Joined DEF t
    <3>. QED
      BY <2>4, <3>1, <3>2 DEF t
  <2>6. StageNumber(Now.call) = 0 /\ Now.call # "finish_failure"
    BY <2>2, Ranks DEF StageNumber, Loops
  <2>7. ~Failing /\ ~Failing'
    <3>1. /\ Failing => Now.call = "finish_failure"
          /\ Failing' => Head(todo').call = "finish_failure"
      BY DEF Failing, Now, Call
    <3>2. Head(todo').call # "finish_failure"
      BY <2>3, <2>5 DEF UnitCalls
    <3>. QED
      BY <2>6, <3>1, <3>2
  <2>. QED
    BY <2>3, <2>5, <2>6, <2>7
<1>. QED
  BY <1>3, <1>4, <1>5

\* A step that is not the last keeps the invariant about the metrics.
LEMMA MetricsStep ==
  ASSUME ControlInv, MetricsInv, DriverNext, exit = None, exit' = None
  PROVE  MetricsInv'
<1>. DEFINE n == Now.call
<1>1. OptionsKept /\ ~Ends
  BY DEF ControlInv, Ends, None
<1>2. OptionsStep /\ UNCHANGED <<args, parse, env>> /\ Untouched
  BY <1>1, Leaves
<1>3. Units' = Units /\ Paths' = Paths
  BY <1>1, <1>2, OptionsStepKeeps DEF Paths
<1>4. UnitRecords' = UnitRecords
  BY <1>3 DEF UnitRecords
<1>5. DOMAIN disk' = Paths' /\ \A p \in Paths' : disk'[p].what # "record"
  BY <1>1, <1>3, DiskSteps DEF MetricsInv
<1>6. UNCHANGED driverVars \/ Pops \/ Aborts \/ Chooses \/ Loop
  BY <1>1, Steps
<1>7. StageSet = {"preprocess", "parse", "c_compat_lowering", "sema_hir", "llvm_emission"}
  BY DEF StageSet, UnitStages, ToSet
<1>8. n \in StageCalls <=> StageNumber(n) \in 1 .. 5
  BY DEF StageCalls, StageNumber
<1>9. CASE UNCHANGED driverVars
  <2>1. UNCHANGED <<stages, units, todo, failed, disk>>
    BY <1>9 DEF driverVars, run
  <2>2. FailedStages' = FailedStages /\ Failing' = Failing
    BY <2>1 DEF FailedStages, AllStages, Failing
  <2>. QED
    BY <1>3, <1>4, <1>5, <2>1, <2>2 DEF MetricsInv, Now, Reached
<1>10. CASE (Chooses \/ Loop) /\ ~Pops /\ ~Aborts
  <2>1. n \notin StageCalls \cup MarkCalls
    <3>1. Chooses => n \in Final
      BY Chosen
    <3>2. Loop /\ ~Pops => n \in Loops \cup {"emit_input"}
      BY Looped
    <3>. QED
      BY <1>10, <3>1, <3>2 DEF Final, Loops, StageCalls, MarkCalls, ActionCalls
  <2>2. UNCHANGED <<stages, units, failed>>
    BY <1>2, <1>10, <2>1 DEF Untouched
  <2>3. StageNumber(n) \notin 1 .. 5
    BY <1>8, <2>1
  <2>4. /\ todo' # << >> => StageNumber(Head(todo').call) \notin 2 .. 5
        /\ ~Failing /\ ~Failing'
    BY <1>10, <2>3, After
  <2>5. Reached(todo) = 5 /\ Reached(todo') = 5
    BY <2>3, <2>4 DEF Reached, Now
  <2>. QED
    BY <1>3, <1>4, <1>5, <2>2, <2>3, <2>4, <2>5 DEF MetricsInv, Now
<1>11. ASSUME Pops \/ Aborts
       PROVE  /\ todo # << >> /\ ~Failing /\ StagesStep /\ UnitsStep
              /\ units # << >> => UpTo(units[Len(units)], Reached(todo))
              /\ failed = None /\ \A s \in GlobalStages : stages[s] # "failed"
  <2>1. todo # << >>
    BY <1>11 DEF Pops, Aborts, Running
  <2>2. n # "finish_failure"
    BY Acts, None # "success" DEF finish, None
  <2>3. ~Failing
    BY <2>2 DEF Failing, Now, Call
  <2>. QED
    BY <1>1, <1>11, <2>1, <2>3, Apart, StagesSteps, UnitsSteps DEF MetricsInv
<1>12. CASE (Pops \/ Aborts) /\ n \notin StageCalls
  <2>1. units' = units /\ Reached(todo) = 5
    BY <1>8, <1>11, <1>12 DEF UnitsStep, Reached, Now
  <2>2. CASE Pops
    <3>1. /\ todo' # << >> => StageNumber(Head(todo').call) \notin 2 .. 5
          /\ ~Failing'
      BY <1>8, <1>12, <2>2, After
    <3>2. Reached(todo') = 5
      BY <3>1 DEF Reached
    <3>3. failed' = None /\ ~Aborts
      BY <1>2, <1>11, <1>12, <3>1 DEF Untouched, Aborts
    <3>4. stages' \in [GlobalStages -> Statuses] /\ \A s \in GlobalStages : stages'[s] # "failed"
      BY <1>11, <1>12, <3>3 DEF StagesStep
    <3>. QED
      BY <1>4, <1>5, <1>11, <1>12, <2>1, <3>1, <3>2, <3>3, <3>4 DEF MetricsInv, Now
  <2>3. CASE Aborts /\ ~Pops
    <3>1. Failing' /\ todo' = <<Call("finish_failure", None)>>
      BY <2>3 DEF Aborts, Failing
    <3>2. \A s \in GlobalStages : stages'[s] = "failed" => failed' = s
      BY <1>11, <2>3 DEF StagesStep
    <3>3. \A i \in DOMAIN units, s \in StageSet : units[i].stages[s] # "failed"
      <4>1. ASSUME NEW i \in DOMAIN units, NEW s \in StageSet PROVE units[i].stages[s] # "failed"
        <5>1. units # << >> /\ UpTo(units[i], 5)
          BY <1>11, <1>12, <2>1 DEF MetricsInv
        <5>. QED
          BY <5>1 DEF UpTo
      <4>. QED
        BY <4>1
    <3>4. FailedStages' \subseteq {failed'}
      BY <2>1, <3>2, <3>3 DEF FailedStages, AllStages, StageSet
    <3>5. StageNumber(Head(todo').call) \notin 2 .. 5
      BY <3>1 DEF Call, StageNumber
    <3>6. stages' \in [GlobalStages -> Statuses]
      BY <1>11, <1>12 DEF StagesStep
    <3>. QED
      BY <1>4, <1>5, <2>1, <3>1, <3>4, <3>5, <3>6 DEF MetricsInv, Now
  <2>. QED
    BY <1>12, <2>2, <2>3
<1>13. CASE (Pops \/ Aborts) /\ n = "preprocess"
  <2>. DEFINE status == IF Pops THEN "completed" ELSE "failed"
              new == [input |-> Now.of,
                      stages |-> [s \in StageSet |-> IF s # "preprocess" THEN "not_started" ELSE status]]
  <2>1. units' = Append(units, new) /\ stages' = stages
    BY <1>11, <1>13 DEF UnitsStep, StageCalls
  <2>2. new \in UnitRecords /\ \A s \in StageSet : new.stages[s] = IF s # "preprocess" THEN "not_started" ELSE status
    <3>1. [s \in StageSet |-> IF s # "preprocess" THEN "not_started" ELSE status] \in [StageSet -> Statuses]
      BY DEF Statuses
    <3>2. Now.of \in Units \cup {None}
      BY <1>11, <1>13, NowLeft DEF CallsFor
    <3>. QED
      BY <3>1, <3>2 DEF UnitRecords
  <2>. HIDE DEF new
  <2>3. UpTo(new, 1) \/ ~Pops
    BY <1>7, <2>2 DEF UpTo, StageNumber
  <2>4. /\ units' \in Seq(UnitRecords) /\ units' # << >> /\ units'[Len(units')] = new
        /\ Len(units') = Len(units) + 1 /\ DOMAIN units' = 1 .. (Len(units) + 1)
        /\ \A i \in 1 .. Len(units) : units'[i] = units[i]
        /\ DOMAIN units = 1 .. Len(units) /\ Len(units) \in Nat /\ (units # << >> <=> Len(units) # 0)
    BY <2>1, <2>2, LastUnit DEF MetricsInv
  <2>5. Reached(todo) = 5 /\ StageNumber(n) = 1
    BY <1>13 DEF Reached, StageNumber, Now
  <2>6. \A i \in 1 .. Len(units) : UpTo(units[i], 5)
    <3>1. ASSUME NEW i \in 1 .. Len(units) PROVE UpTo(units[i], 5)
      <4>0. Len(units) \in Nat
        BY <2>4
      <4>1. i < Len(units) \/ i = Len(units)
        BY <4>0
      <4>2. units # << >>
        BY <2>4
      <4>. QED
        BY <1>11, <1>13, <2>4, <2>5, <4>1, <4>2 DEF MetricsInv
    <3>. QED
      BY <3>1
  <2>7. \A i \in DOMAIN units' : i < Len(units') => UpTo(units'[i], 5)
    BY <2>4, <2>6
  <2>8. CASE Pops
    <3>1. /\ todo' # << >> /\ StageNumber(Head(todo').call) = 2 /\ ~Failing'
      BY <2>5, <2>8, After
    <3>2. Reached(todo') = 1
      BY <3>1 DEF Reached
    <3>3. failed' = None
      BY <1>2, <1>11, <2>8, <3>1 DEF Untouched, Aborts
    <3>. QED
      BY <1>4, <1>5, <1>11, <2>1, <2>3, <2>4, <2>7, <2>8, <3>1, <3>2, <3>3 DEF MetricsInv
  <2>9. CASE Aborts /\ ~Pops
    <3>1. Failing' /\ todo' = <<Call("finish_failure", None)>>
      BY <2>9 DEF Aborts, Failing
    <3>2. failed' = "preprocess"
      BY <1>11, <1>13, <2>9 DEF UnitsStep, StageCalls
    <3>3. \A i \in DOMAIN units', s \in StageSet : units'[i].stages[s] = "failed" => s = "preprocess"
      <4>1. ASSUME NEW i \in DOMAIN units', NEW s \in StageSet, s # "preprocess"
            PROVE  units'[i].stages[s] # "failed"
        <5>1. CASE i \in 1 .. Len(units)
          BY <2>4, <2>6, <5>1 DEF UpTo
        <5>2. CASE i = Len(units) + 1
          BY <2>2, <2>4, <4>1, <5>2
        <5>. QED
          BY <2>4, <5>1, <5>2
      <4>. QED
        BY <4>1
    <3>4. \A s \in GlobalStages : stages'[s] # "failed"
      BY <1>11, <2>1, <2>9
    <3>5. FailedStages' \subseteq {failed'}
      BY <3>2, <3>3, <3>4 DEF FailedStages, AllStages, StageSet
    <3>6. StageNumber(Head(todo').call) \notin 2 .. 5
      BY <3>1 DEF Call, StageNumber
    <3>. QED
      BY <1>4, <1>5, <1>11, <2>1, <2>4, <2>7, <3>1, <3>5, <3>6 DEF MetricsInv, Now
  <2>. QED
    BY <1>13, <2>8, <2>9
<1>14. CASE (Pops \/ Aborts) /\ n \in StageCalls \ {"preprocess"}
  <2>1. PICK status \in IF Pops THEN {"completed", "skipped"} ELSE {"failed"} :
           /\ units' = [units EXCEPT ![Len(units)].stages[n] = status]
           /\ Pops /\ n = "llvm_emission" => status = "completed"
    BY <1>11, <1>14 DEF UnitsStep
  <2>2. stages' = stages
    BY <1>11, <1>14 DEF UnitsStep
  <2>3. /\ StageNumber(n) \in 2 .. 5 /\ n \in StageSet /\ Reached(todo) = StageNumber(n) - 1
        /\ \A s \in StageSet : StageNumber(s) <= StageNumber(n) <=> (StageNumber(s) <= StageNumber(n) - 1 \/ s = n)
    <3>1. StageNumber(n) \in 2 .. 5 /\ n \in StageSet
      BY <1>7, <1>14 DEF StageCalls, StageNumber
    <3>2. Reached(todo) = StageNumber(n) - 1
      BY <1>11, <1>14, <3>1 DEF Reached, Now
    <3>3. \A s \in StageSet : StageNumber(s) = StageNumber(n) <=> s = n
      BY <1>7, <1>14 DEF StageCalls, StageNumber
    <3>4. \A s \in StageSet : StageNumber(s) \in Nat
      BY DEF StageNumber
    <3>. QED
      BY <3>1, <3>2, <3>3, <3>4
  <2>4. units # << >> /\ units \in Seq(UnitRecords)
    BY <1>11, <1>14, <2>3 DEF MetricsInv
  <2>. DEFINE old == units[Len(units)]
              new == [old EXCEPT !.stages[n] = status]
  <2>5. old \in UnitRecords /\ UpTo(old, StageNumber(n) - 1) /\ units' = [units EXCEPT ![Len(units)] = new]
    BY <1>11, <1>14, <2>1, <2>3, <2>4, LastUnit
  <2>6. /\ new \in UnitRecords
        /\ \A s \in StageSet : new.stages[s] = IF s = n THEN status ELSE old.stages[s]
    <3>1. status \in Statuses
      BY <2>1 DEF Statuses
    <3>2. /\ old.input \in Units \cup {None} /\ old.stages \in [StageSet -> Statuses]
          /\ old = [input |-> old.input, stages |-> old.stages]
      BY <2>5 DEF UnitRecords
    <3>3. new = [input |-> old.input, stages |-> [old.stages EXCEPT ![n] = status]]
      BY <3>2
    <3>. QED
      BY <2>3, <3>1, <3>2, <3>3 DEF UnitRecords
  <2>. HIDE DEF new, old
  <2>7. /\ units' \in Seq(UnitRecords) /\ units' # << >> /\ Len(units') = Len(units) /\ units'[Len(units')] = new
        /\ DOMAIN units' = DOMAIN units
        /\ \A i \in DOMAIN units : i # Len(units) => units'[i] = units[i]
        /\ DOMAIN units = 1 .. Len(units) /\ Len(units) \in Nat
    BY <2>4, <2>5, <2>6, LastUnit
  <2>8. \A i \in DOMAIN units : i < Len(units) => units'[i] = units[i] /\ UpTo(units[i], 5)
    BY <2>7 DEF MetricsInv
  <2>9. \A i \in DOMAIN units' : i < Len(units') => UpTo(units'[i], 5)
    BY <2>7, <2>8
  <2>10. \A s \in StageSet : StageNumber(s) <= StageNumber(n) - 1 => old.stages[s] \in {"completed", "skipped"}
    BY <2>5 DEF UpTo
  <2>11. \A s \in StageSet : ~(StageNumber(s) <= StageNumber(n) - 1) => old.stages[s] = "not_started"
    BY <2>5 DEF UpTo
  <2>12. CASE Pops
    <3>1. UpTo(new, StageNumber(n))
      <4>1. status \in {"completed", "skipped"}
        BY <2>1, <2>12
      <4>2. StageNumber(n) = 5 => n = "llvm_emission"
        BY <1>14 DEF StageCalls, StageNumber
      <4>3. "llvm_emission" \in StageSet
        BY <1>7
      <4>. QED
        BY <2>1, <2>3, <2>6, <2>10, <2>11, <2>12, <4>1, <4>2, <4>3 DEF UpTo
    <3>2. ~Failing' /\ Reached(todo') = StageNumber(n)
      <4>1. CASE StageNumber(n) \in 2 .. 4
        BY <2>12, <4>1, After DEF Reached
      <4>2. CASE StageNumber(n) = 5
        BY <2>12, <4>2, After DEF Reached
      <4>. QED
        BY <2>3, <4>1, <4>2
    <3>3. failed' = None
      BY <1>2, <1>11, <2>12, <3>2 DEF Untouched, Aborts
    <3>. QED
      BY <1>4, <1>5, <1>11, <2>2, <2>7, <2>9, <2>12, <3>1, <3>2, <3>3 DEF MetricsInv
  <2>13. CASE Aborts /\ ~Pops
    <3>1. Failing' /\ todo' = <<Call("finish_failure", None)>>
      BY <2>13 DEF Aborts, Failing
    <3>2. failed' = n
      BY <1>11, <1>14, <2>13 DEF UnitsStep
    <3>3. \A i \in DOMAIN units', s \in StageSet : units'[i].stages[s] = "failed" => s = n
      <4>1. ASSUME NEW i \in DOMAIN units', NEW s \in StageSet, s # n
            PROVE  units'[i].stages[s] # "failed"
        <5>1. CASE i < Len(units)
          BY <2>7, <2>8, <5>1 DEF UpTo
        <5>2. CASE i = Len(units)
          BY <2>6, <2>7, <2>10, <2>11, <4>1, <5>2
        <5>3. i < Len(units) \/ i = Len(units)
          BY <2>7
        <5>. QED
          BY <5>1, <5>2, <5>3
      <4>. QED
        BY <4>1
    <3>4. \A s \in GlobalStages : stages'[s] # "failed"
      BY <1>11, <2>2, <2>13
    <3>5. FailedStages' \subseteq {failed'}
      BY <3>2, <3>3, <3>4 DEF FailedStages, AllStages, StageSet
    <3>6. StageNumber(Head(todo').call) \notin 2 .. 5
      BY <3>1 DEF Call, StageNumber
    <3>. QED
      BY <1>4, <1>5, <1>11, <2>2, <2>7, <2>9, <2>13, <3>1, <3>5, <3>6 DEF MetricsInv, Now
  <2>. QED
    BY <1>14, <2>12, <2>13
<1>. QED
  BY <1>6, <1>9, <1>10, <1>12, <1>13, <1>14

-----------------------------------------------------------------------------
(* How the calls that remain move.                                         *)

\* The elements of lists put together.
LEMMA Together ==
  ASSUME NEW S, NEW b \in Seq(S), NEW r \in Seq(S), NEW t \in Seq(S)
  PROVE  ToSet((b \o r) \o t) = ToSet(b) \cup ToSet(r) \cup ToSet(t)
<1>1. ASSUME NEW f \in Seq(S), NEW e \in Seq(S)
      PROVE  ToSet(f \o e) = ToSet(f) \cup ToSet(e)
  <2>1. /\ f \o e \in Seq(S) /\ Len(f \o e) = Len(f) + Len(e)
        /\ \A i \in 1 .. Len(f \o e) : (f \o e)[i] = IF i <= Len(f) THEN f[i] ELSE e[i - Len(f)]
    BY Joined
  <2>. DEFINE j == f \o e
  <2>2. /\ DOMAIN j = 1 .. Len(j) /\ DOMAIN f = 1 .. Len(f) /\ DOMAIN e = 1 .. Len(e)
        /\ Len(j) = Len(f) + Len(e) /\ Len(f) \in Nat /\ Len(e) \in Nat
        /\ \A i \in 1 .. Len(j) : j[i] = IF i <= Len(f) THEN f[i] ELSE e[i - Len(f)]
    BY <2>1
  <2>. HIDE DEF j
  <2>3. \A x \in ToSet(j) : x \in ToSet(f) \cup ToSet(e)
    <3>1. ASSUME NEW i \in 1 .. Len(j)
          PROVE  \/ i \in 1 .. Len(f) /\ j[i] = f[i]
                 \/ i - Len(f) \in 1 .. Len(e) /\ j[i] = e[i - Len(f)]
      BY <2>2
    <3>. QED
      BY <2>2, <3>1 DEF ToSet
  <2>4. \A x \in ToSet(f) : x \in ToSet(j)
    <3>1. ASSUME NEW i \in 1 .. Len(f) PROVE i \in 1 .. Len(j) /\ j[i] = f[i]
      BY <2>2
    <3>. QED
      BY <2>2, <3>1 DEF ToSet
  <2>5. ASSUME NEW i \in 1 .. Len(e) PROVE e[i] \in ToSet(j)
    <3>1. i + Len(f) \in 1 .. Len(j) /\ ~(i + Len(f) <= Len(f)) /\ (i + Len(f)) - Len(f) = i
      BY <2>2
    <3>2. j[i + Len(f)] = e[i]
      BY <2>2, <3>1
    <3>. QED
      BY <2>2, <3>1, <3>2 DEF ToSet
  <2>6. \A x \in ToSet(e) : x \in ToSet(j)
    BY <2>2, <2>5 DEF ToSet
  <2>7. ToSet(j) = ToSet(f) \cup ToSet(e)
    BY <2>3, <2>4, <2>6
  <2>. QED
    BY <2>7 DEF j
<1>2. b \o r \in Seq(S)
  OBVIOUS
<1>. QED
  BY <1>1, <1>2

\* A call that is done, or a turn of a loop, leaves the later calls where they
\* are; what a turn adds is for a unit, or the loop again.
LEMMA Moved ==
  ASSUME ControlInv, Pops \/ Loop
  PROVE  /\ Left \ {Now} \subseteq Left' /\ Now \in Left
         /\ \A x \in Left' : x \in Left \/ x.call \in UnitCalls \/ (x.call = Now.call /\ x.call \in Loops)
         /\ \A x \in Left' : x.call \in UnitCalls \/ Rank(Now.call) <= Rank(x.call)
         /\ \A x \in Left : Rank(Now.call) <= Rank(x.call)
         /\ \A x \in Left : x.call = Now.call => x = Now \/ x.call \in UnitCalls
         /\ Now.call \notin UnitCalls \cup Loops => ~Named(Left', {Now.call})
         /\ Pops => Left' \subseteq Left
         /\ Pops /\ Now.call \notin UnitCalls => ~Named(Left', {Now.call})
<1>. DEFINE C == CallsFor(Units)  t == Tail(todo)
<1>1. todo # << >> /\ todo \in Seq(C) /\ InOrder(todo) /\ Staged(todo)
  BY DEF ControlInv, Pops, Loop, Turns, Replaced, Running
<1>2. /\ t \in Seq(C) /\ Left = ToSet(t) \cup {Now}
      /\ \A x \in ToSet(t) : /\ Rank(Now.call) <= Rank(x.call)
                             /\ x.call = Now.call => x.call \in UnitCalls
  BY <1>1, Popped DEF Now, Left
<1>. HIDE DEF t
<1>3. \A x \in Left : Rank(Now.call) <= Rank(x.call)
  BY <1>2, Ranks
<1>4. CASE Pops
  <2>1. Left' = ToSet(t)
    BY <1>4 DEF Pops, Left, t
  <2>. QED
    BY <1>2, <1>3, <1>4, <2>1 DEF Named
<1>5. CASE Loop /\ ~Pops
  <2>1. PICK u \in Units : \E b \in {Frontend(u), Emit(u), FrontendAndEmit(u)}, r \in Seq(C) :
             /\ Replaced(b \o r) /\ Now.call \in Loops \cup {"emit_input"}
             /\ r = << >> \/ (Now.call \in Loops /\ \E k \in Nat \ {0} : r = <<Turn(Now.call, k)>>)
    BY <1>5, Looped
  <2>2. PICK b \in {Frontend(u), Emit(u), FrontendAndEmit(u)}, r \in Seq(C) :
             /\ Replaced(b \o r) /\ Now.call \in Loops \cup {"emit_input"}
             /\ r = << >> \/ (Now.call \in Loops /\ \E k \in Nat \ {0} : r = <<Turn(Now.call, k)>>)
    BY <2>1
  <2>3. b \in Seq(C) /\ \A x \in ToSet(b) : x.call \in UnitCalls
    BY Bodies
  <2>4. \A x \in ToSet(r) : x.call = Now.call /\ Now.call \in Loops
    BY <2>2 DEF ToSet, Turn
  <2>5. Left' = ToSet(b) \cup ToSet(r) \cup ToSet(t)
    <3>1. todo' = (b \o r) \o t
      BY <2>2 DEF Replaced, t
    <3>2. ToSet((b \o r) \o t) = ToSet(b) \cup ToSet(r) \cup ToSet(t)
      BY <1>2, <2>3, Together
    <3>. QED
      BY <3>1, <3>2 DEF Left
  <2>6. /\ Now.call \notin UnitCalls
        /\ Now.call \notin Loops => Now.call = "emit_input"
    BY <2>2, Ranks DEF UnitCalls
  <2>7. /\ Left \ {Now} \subseteq Left' /\ Now \in Left
        /\ \A x \in Left' : x \in Left \/ x.call \in UnitCalls \/ (x.call = Now.call /\ x.call \in Loops)
    BY <1>2, <2>3, <2>4, <2>5
  <2>8. \A x \in Left' : x.call \in UnitCalls \/ Rank(Now.call) <= Rank(x.call)
    BY <1>2, <2>3, <2>4, <2>5, Ranks
  <2>9. Now.call \notin UnitCalls \cup Loops => ~Named(Left', {Now.call})
    BY <1>2, <2>3, <2>4, <2>5, <2>6 DEF Named
  <2>. QED
    BY <1>2, <1>3, <1>5, <2>7, <2>8, <2>9
<1>. QED
  BY <1>4, <1>5

\* The calls of a list, as a set.
NamesOf(s) == {Call(n, None) : n \in ToSet(s)}

\* A choice leaves the calls of one list.
LEMMA Opened ==
  ASSUME ControlInv, Chooses
  PROVE  /\ Left = {Now} /\ Now.call \in Final
         /\ \E names : Choice(names, opts, Granted) /\ Left' = NamesOf(names)
         /\ \A names : Choice(names, opts, Granted) => \A X : Named(NamesOf(names), X) <=> \E n \in ToSet(names) : n \in X
<1>1. todo # << >>
  BY DEF Chooses, Replaced, Running
<1>2. PICK names \in Seq(CallNames) :
         Listing(names) /\ names # << >> /\ Choice(names, opts, Granted) /\ Replaced(Calls(names))
  BY Chosen
<1>3. Now.call \in Final
  BY Chosen
<1>. DEFINE C == CallsFor(Units)  c == Calls(names)
<1>4. c \in Seq(C) /\ ToSet(c) = NamesOf(names) /\ todo' = c \o Tail(todo)
  BY <1>2, Listed DEF Replaced, NamesOf
<1>. HIDE DEF c, C
<1>5. /\ Tail(todo) \in Seq(C) /\ Left = ToSet(Tail(todo)) \cup {Now} /\ ToSet(Tail(todo)) = {}
  <2>1. todo \in Seq(C) /\ InOrder(todo) /\ Staged(todo)
    BY DEF ControlInv, C
  <2>. QED
    BY <1>1, <1>3, <2>1, Popped DEF Now, Left
<1>6. Tail(todo) = << >>
  BY <1>5, NoCalls
<1>7. Left' = NamesOf(names)
  BY <1>4, <1>6, NoCalls DEF Left
<1>8. ASSUME NEW s, NEW X
      PROVE  Named(NamesOf(s), X) <=> \E n \in ToSet(s) : n \in X
  <2>1. \A n : Call(n, None).call = n
    BY DEF Call
  <2>. QED
    BY <2>1 DEF Named, NamesOf
<1>. QED
  BY <1>2, <1>3, <1>5, <1>7, <1>8

\* The compile functions are entered from a build's `compile', with all their
\* calls to make.
LEMMA Enters ==
  ASSUME ControlInv, Chooses, Native, Inside(Left')
  PROVE  \/ /\ Left' = NamesOf(ObjectNames) /\ opts.crateType = "object" /\ Len(opts.inputs) = 1
         \/ Left' = NamesOf(LibraryNames) /\ opts.crateType = "staticlib"
         \/ /\ Left' = NamesOf(ExecutableNames) /\ opts.crateType = "bin"
            /\ ~hasMixedBuildOptions(opts)
         \/ Left' = NamesOf(MixedNames) /\ opts.crateType = "bin"
<1>1. PICK names : Choice(names, opts, Granted) /\ Left' = NamesOf(names)
  BY Opened
<1>2. IsBuild(opts, Granted)
  BY DEF Native, Granted, IsBuild
<1>3. \A n \in ToSet(names) : n \notin Outside
  BY <1>1, Opened DEF Inside
<1>4. /\ "profile" \in ToSet(<<"profile", "timing_path", "dispatch">>)
      /\ "remarks" \in ToSet(<<"remarks", "compile">>) /\ "fail_cli" \in ToSet(<<"fail_cli">>)
      /\ "remarks" \in ToSet(<<"remarks", "cargo", "compile">>)
  BY DEF ToSet
<1>5. {"profile", "remarks", "fail_cli"} \subseteq Outside
  BY DEF Outside
<1>. QED
  BY <1>1, <1>2, <1>3, <1>4, <1>5 DEF Choice, IsBuild

\* Inside a compile function the options no longer change, and only a call that
\* is done, a turn of a loop or a failure leaves its calls.
LEMMA Stays ==
  ASSUME ControlInv, DriverNext, exit = None, exit' = None, Inside(Left')
  PROVE  /\ UNCHANGED <<args, parse, env>> /\ Units' = Units
         /\ ~Aborts /\ (UNCHANGED driverVars \/ Pops \/ Chooses \/ Loop)
         /\ Inside(Left) => UNCHANGED opts
         /\ ~Inside(Left) => Chooses
         /\ Native' <=> Native
<1>1. OptionsKept /\ ~Ends
  BY DEF ControlInv, Ends, None
<1>2. OptionsStep /\ UNCHANGED <<args, parse, env>>
  BY <1>1, Leaves
<1>3. /\ Units' = Units /\ opts'.inputs = opts.inputs /\ opts'.actions = opts.actions
  BY <1>1, <1>2, OptionsStepKeeps
<1>4. ~Aborts
  <2>1. Failing' => Named(Left', {"finish_failure"})
    <3>1. \A x : x \in ToSet(<<x>>)
      BY DEF ToSet
    <3>. QED
      BY <3>1 DEF Failing, Named, Left, Call
  <2>. QED
    BY <2>1 DEF Aborts, Inside, Named, Outside
<1>5. UNCHANGED driverVars \/ Pops \/ Chooses \/ Loop
  BY <1>1, <1>4, Steps
<1>6. UNCHANGED driverVars => Left' = Left /\ UNCHANGED opts
  BY DEF driverVars, run, Left
<1>7. Inside(Left) => UNCHANGED opts
  <2>1. ASSUME Inside(Left), Pops \/ Chooses \/ Loop PROVE Now.call \notin Outside
    <3>1. todo # << >>
      BY <2>1 DEF Pops, Chooses, Loop, Turns, Replaced, Running
    <3>. QED
      BY <2>1, <3>1, NowLeft DEF Inside
  <2>. QED
    BY <1>2, <1>5, <1>6, <2>1 DEF OptionsStep, Outside
<1>8. ~Inside(Left) => Chooses
  <2>1. ASSUME Pops \/ Loop PROVE Inside(Left)
    <3>. DEFINE C == CallsFor(Units)
    <3>1. /\ todo # << >> /\ Now.call \notin Final
      <4>1. Loop => Pops \/ Now.call \in Loops \cup {"emit_input"}
        BY Looped
      <4>2. todo # << >>
        BY <2>1 DEF Pops, Loop, Turns, Replaced, Running
      <4>. QED
        BY <2>1, <4>1, <4>2 DEF Pops, Loops, Final, ActionCalls
    <3>2. /\ Left \ {Now} \subseteq Left' /\ Now \in Left
          /\ Now.call \notin UnitCalls \cup Loops => ~Named(Left', {Now.call})
          /\ \A x \in Left : x.call = Now.call => x = Now \/ x.call \in UnitCalls
      BY <2>1, Moved
    <3>3. SUFFICES ASSUME Named(Left, Outside) PROVE FALSE
      BY DEF Inside
    <3>4. Now.call \in Outside
      BY <3>2, <3>3 DEF Named, Inside
    <3>5. Now.call \in {"profile", "timing_path", "remarks", "cargo"}
      BY <3>1, <3>4 DEF Outside, Final, ActionCalls
    <3>6. Named(Left, {"dispatch"}) \/ Named(Left, {"compile"})
      BY <3>1, <3>5, NowLeft DEF ControlInv, Belong
    <3>7. Named(Left', {"dispatch"}) \/ Named(Left', {"compile"})
      BY <3>2, <3>5, <3>6 DEF Named
    <3>. QED
      BY <3>7 DEF Inside, Named, Outside
  <2>. QED
    BY <1>5, <1>6, <2>1
<1>. QED
  BY <1>2, <1>3, <1>4, <1>5, <1>7, <1>8 DEF Native, Outcome

\* What the loop named n is over.
Over(n) == IF n \in {"source_modules", "emit_modules"} THEN requiredModules(opts) ELSE inputs(opts)

\* The step of a loop is one turn of it, unless it fails.
LEMMA LoopCalls ==
  ASSUME DriverNext, exit = None, exit' = None, todo # << >>, Now.call \in Loops \cup {"emit_input"}
  PROVE  Loop \/ Aborts
<1>. USE DEF Running, Replaced, At, Goes, Expands, Now, ForEach, Turns, Pops, Final, ActionCalls
<1>1. CASE Now.call = "each_frontend"
  BY <1>1, Acts DEF CompileInputs, Loop
<1>2. CASE Now.call = "each_emit"
  BY <1>2, Acts DEF CompileInputs, Loop
<1>3. CASE Now.call = "each_unit"
  BY <1>3, Acts DEF CompileInputs, Loop
<1>4. CASE Now.call = "emit_input"
  <2>1. CompileInputs
    BY <1>4, Acts
  <2>2. At("emit_input") /\ Expands(Emit(Head(inputs(opts))))
    BY <1>4, <2>1 DEF CompileInputs
  <2>. QED
    BY <1>4, <2>2 DEF Loop
<1>5. CASE Now.call = "source_modules"
  BY <1>5, Acts DEF compileSourceModules, Loop, Aborts, Failing, Fail
<1>6. CASE Now.call = "emit_modules"
  BY <1>6, Acts DEF EmitModules, Loop
<1>. QED
  BY <1>1, <1>2, <1>3, <1>4, <1>5, <1>6 DEF Loops

\* The calls in the body of a loop.
LEMMA BodyCalls ==
  ASSUME NEW u
  PROVE  /\ {Call("preprocess", u)} \subseteq ToSet(Frontend(u))
         /\ {Call("optimize", u), Call("emit", u)} \subseteq ToSet(Emit(u))
         /\ {Call("preprocess", u), Call("optimize", u), Call("emit", u)} \subseteq ToSet(FrontendAndEmit(u))
<1>1. /\ Frontend(u) = <<Call("preprocess", u), Call("parse", u), Call("c_compat_lowering", u),
                         Call("sema_hir", u), Call("llvm_emission", u)>>
      /\ Emit(u) = <<Call("optimize", u), Call("append_remarks", u), Call("emit", u)>>
  BY DEF Frontend, UnitStages, Emit
<1>. DEFINE S == {Call("preprocess", u), Call("parse", u), Call("c_compat_lowering", u), Call("sema_hir", u),
                  Call("llvm_emission", u), Call("optimize", u), Call("append_remarks", u), Call("emit", u)}
<1>2. Frontend(u) \in Seq(S) /\ Emit(u) \in Seq(S) /\ << >> \in Seq(S)
  BY <1>1
<1>3. {Call("preprocess", u)} \subseteq ToSet(Frontend(u)) /\ {Call("optimize", u), Call("emit", u)} \subseteq ToSet(Emit(u))
  BY <1>1 DEF ToSet
<1>. DEFINE none == << >>
<1>. HIDE DEF S, none
<1>4. ToSet((Frontend(u) \o Emit(u)) \o none) = ToSet(Frontend(u)) \cup ToSet(Emit(u)) \cup ToSet(none)
  <2>1. none \in Seq(S)
    BY <1>2 DEF none
  <2>. QED
    BY <1>2, <2>1, Together
<1>5. (Frontend(u) \o Emit(u)) \o none = FrontendAndEmit(u)
  <2>1. Frontend(u) \o Emit(u) \in Seq(S)
    BY <1>2
  <2>. QED
    BY <2>1, NoCalls DEF FrontendAndEmit, none
<1>. QED
  BY <1>3, <1>4, <1>5

\* One turn of a loop: the calls for the next unit, and the loop again.
LEMMA Turning ==
  ASSUME ControlInv, Loop, Now.call = "emit_input" \/ Now.index <= Len(Over(Now.call))
  PROVE  LET u == IF Now.call = "emit_input" THEN inputs(opts)[1] ELSE Over(Now.call)[Now.index] IN
         /\ u \in Units /\ Now.index \in Nat \ {0} /\ Now.call \in Loops \cup {"emit_input"}
         /\ Now.call = "emit_input" => Len(inputs(opts)) = 1
         /\ Now.call \in {"each_frontend", "each_unit", "source_modules"} => Call("preprocess", u) \in Left'
         /\ Now.call \in {"each_emit", "each_unit", "emit_modules", "emit_input"}
            => {Call("optimize", u), Call("emit", u)} \subseteq Left'
         /\ Now.call # "emit_input" => Turn(Now.call, Now.index + 1) \in Left'
         /\ \A x \in Left' : x.call \in UnitCalls => x \in Left \/ x.of = u
         /\ Now.call = "emit_input" => \A x \in Left' : x \in Left \/ x.call \in {"optimize", "append_remarks", "emit"}
         /\ Now.call \in {"each_frontend", "source_modules"}
            => \A x \in Left' : x \in Left \/ x.call \in StageCalls \cup {Now.call}
<1>. DEFINE C == CallsFor(Units)  t == Tail(todo)
            u == IF Now.call = "emit_input" THEN inputs(opts)[1] ELSE Over(Now.call)[Now.index]
<1>1. todo # << >> /\ OptionsKept
  BY DEF Loop, Turns, Pops, Replaced, Running, ControlInv
<1>2. /\ Now \in C /\ t \in Seq(C) /\ Left = ToSet(t) \cup {Now}
      /\ \A names : Now.call \in names => Named(Left, names)
  BY <1>1, NowLeft
<1>3. Now.index \in Nat \ {0}
  BY <1>2 DEF CallsFor
<1>4. /\ inputs(opts) \in Seq(Units) /\ requiredModules(opts) \in Seq(Units)
      /\ Now.call = "emit_input" => Len(inputs(opts)) = 1
  <2>1. Now.call = "emit_input" => Len(opts.inputs) = 1
    BY <1>2 DEF ControlInv, Belong
  <2>. QED
    BY <1>1, <2>1, LoopRanges
<1>5. u \in Units /\ (Now.call = "emit_input" => u = Head(inputs(opts)))
  <2>1. CASE Now.call = "emit_input"
    BY <1>4, <2>1
  <2>2. CASE Now.call # "emit_input"
    <3>1. Over(Now.call) \in Seq(Units)
      BY <1>4 DEF Over
    <3>. QED
      BY <1>3, <2>2, <3>1
  <2>. QED
    BY <2>1, <2>2
<1>6. PICK b \in {Frontend(u), Emit(u), FrontendAndEmit(u)}, r \in {<< >>, <<Turn(Now.call, Now.index + 1)>>} :
        /\ Replaced(b \o r) /\ Now.call \in Loops \cup {"emit_input"}
        /\ IF Now.call = "emit_input" THEN r = << >> ELSE r = <<Turn(Now.call, Now.index + 1)>>
        /\ Now.call \in {"each_frontend", "source_modules"} => b = Frontend(u)
        /\ Now.call \in {"each_emit", "emit_modules", "emit_input"} => b = Emit(u)
        /\ Now.call = "each_unit" => b = FrontendAndEmit(u)
  <2>1. ASSUME NEW n \in Loops, NEW seq \in Seq(Units), NEW b, Turns(n, seq, b), ~(Now.index > Len(seq))
        PROVE  Now.call = n /\ Replaced(b \o <<Turn(Now.call, Now.index + 1)>>)
    BY <2>1 DEF Turns
  <2>2. CASE Now.call # "emit_input"
    <3>. DEFINE seq == Over(Now.call)
    <3>1. /\ Now.call \in Loops /\ seq \in Seq(Units)
          /\ Turns(Now.call, seq, IF Now.call \in {"each_frontend", "source_modules"} THEN Frontend(seq[Now.index])
                        ELSE IF Now.call = "each_unit" THEN FrontendAndEmit(seq[Now.index])
                        ELSE Emit(seq[Now.index]))
      BY <1>4, <2>2 DEF Loop, Over, Loops, Turns
    <3>2. ~(Now.index > Len(seq))
      BY <1>3, <2>2, <3>1
    <3>. QED
      BY <2>1, <2>2, <3>1, <3>2 DEF Loops
  <2>3. CASE Now.call = "emit_input"
    BY <1>5, <2>3 DEF Loop, Turns
  <2>. QED
    BY <2>2, <2>3
<1>. HIDE DEF u, t
<1>7. /\ b \in Seq(C) /\ \A x \in ToSet(b) : x.call \in UnitCalls /\ x.of = u
  BY <1>5, Bodies
<1>8. /\ r \in Seq(C) /\ ToSet(r) = IF r = << >> THEN {} ELSE {Turn(Now.call, Now.index + 1)}
  <2>1. Turn(Now.call, Now.index + 1) \in C
    BY <1>2, <1>3 DEF CallsFor, Turn
  <2>2. \A x : ToSet(<<x>>) = {x} /\ <<x>> # << >>
    BY DEF ToSet
  <2>3. ToSet(<< >>) = {}
    BY DEF ToSet
  <2>4. << >> \in Seq(C) /\ \A x \in C : <<x>> \in Seq(C)
    OBVIOUS
  <2>5. CASE r = << >>
    BY <2>3, <2>4, <2>5
  <2>6. CASE r = <<Turn(Now.call, Now.index + 1)>>
    BY <2>1, <2>2, <2>4, <2>6
  <2>. QED
    BY <2>5, <2>6
<1>9. Left' = ToSet(b) \cup ToSet(r) \cup ToSet(t)
  <2>1. todo' = (b \o r) \o t
    BY <1>6 DEF Replaced, t
  <2>2. ToSet((b \o r) \o t) = ToSet(b) \cup ToSet(r) \cup ToSet(t)
    BY <1>2, <1>7, <1>8, Together
  <2>. QED
    BY <2>1, <2>2 DEF Left
<1>10. Now.call # "emit_input" => Turn(Now.call, Now.index + 1) \in Left'
  <2>1. \A x : <<x>> # << >>
    OBVIOUS
  <2>. QED
    BY <1>6, <1>8, <1>9, <2>1
<1>11. Now.call \notin UnitCalls
  BY <1>6, Ranks DEF UnitCalls
<1>12. \A x \in Left' : x.call \in UnitCalls => x \in Left \/ x.of = u
  BY <1>2, <1>6, <1>7, <1>8, <1>9, <1>11 DEF Turn
<1>13. Now.call = "emit_input" => \A x \in Left' : x \in Left \/ x.call \in {"optimize", "append_remarks", "emit"}
  <2>1. \A x \in ToSet(Emit(u)) : x.call \in {"optimize", "append_remarks", "emit"}
    BY DEF Emit, ToSet, Call
  <2>. QED
    BY <1>2, <1>6, <1>8, <1>9, <2>1
<1>14. Now.call \in {"each_frontend", "source_modules"}
       => \A x \in Left' : x \in Left \/ x.call \in StageCalls \cup {Now.call}
  <2>1. \A x \in ToSet(Frontend(u)) : x.call \in StageCalls
    BY DEF Frontend, UnitStages, ToSet, Call, StageCalls
  <2>. QED
    BY <1>2, <1>6, <1>8, <1>9, <2>1 DEF Turn
<1>. QED
  BY <1>3, <1>4, <1>5, <1>6, <1>9, <1>10, <1>12, <1>13, <1>14, BodyCalls DEF u

-----------------------------------------------------------------------------
(* Every global stage of a build is done or skipped.                       *)

\* An object will be emitted for the first input.
Emitting(S) == \/ Named(S, {"emit_input"})
               \/ \E x \in S : x.call \in {"each_emit", "each_unit"} /\ x.index = 1

\* The stage s will be started or skipped by a call in S.
Comes(S, s) == \/ Named(S, Marker(s))
               \/ s \in {"native_optimization", "object_emission"} /\ Emitting(S)

\* In a build, a global stage that is not started yet will be.
MarksInv ==
    Native /\ Inside(Left) => \A s \in GlobalStages : stages[s] # "not_started" \/ Comes(Left, s)

\* Each compile function has the calls that start or skip every global stage.
LEMMA ListsMark ==
  ASSUME NEW names \in {ObjectNames, LibraryNames, ExecutableNames, MixedNames},
         NEW s \in GlobalStages
  PROVE  Comes(NamesOf(names), s)
<1>1. \A n \in ToSet(names) : Call(n, None) \in NamesOf(names) /\ Call(n, None).call = n /\ Call(n, None).index = 1
  BY DEF NamesOf, Call
<1>2. ASSUME NEW n \in ToSet(names), n \in Marker(s) PROVE Named(NamesOf(names), Marker(s))
  BY <1>1, <1>2 DEF Named
<1>3. ASSUME "emit_input" \in ToSet(names) \/ "each_emit" \in ToSet(names) \/ "each_unit" \in ToSet(names)
      PROVE  Emitting(NamesOf(names))
  BY <1>1, <1>3 DEF Emitting, Named
<1>4. CASE s = "llvm_ir_write"
  BY <1>2, <1>4, NameSets DEF Comes, Marker
<1>5. CASE s = "clang_backend_link"
  BY <1>2, <1>5, NameSets DEF Comes, Marker
<1>6. CASE s \in {"native_optimization", "object_emission"}
  <2>1. "emit_input" \in ToSet(names) \/ "each_emit" \in ToSet(names) \/ "each_unit" \in ToSet(names)
    BY NameSets
  <2>. QED
    BY <1>3, <1>6, <2>1 DEF Comes
<1>. QED
  BY <1>4, <1>5, <1>6 DEF GlobalStages

\* A step that is not the last keeps the marks.
LEMMA MarksStep ==
  ASSUME ControlInv, MetricsInv, MarksInv, DriverNext, exit = None, exit' = None
  PROVE  MarksInv'
<1>. SUFFICES ASSUME Native', Inside(Left'), NEW s \in GlobalStages
              PROVE  stages'[s] # "not_started" \/ Comes(Left', s)
  BY DEF MarksInv
<1>1. /\ Native /\ ~Aborts /\ (UNCHANGED driverVars \/ Pops \/ Chooses \/ Loop)
      /\ ~Inside(Left) => Chooses
  BY Stays
<1>2. CASE Chooses
  <2>1. \E names \in {ObjectNames, LibraryNames, ExecutableNames, MixedNames} : Left' = NamesOf(names)
    BY <1>1, <1>2, Enters
  <2>. QED
    BY <2>1, ListsMark
<1>3. CASE UNCHANGED driverVars
  <2>1. Left' = Left /\ stages' = stages
    BY <1>3 DEF driverVars, run, Left
  <2>. QED
    BY <1>1, <2>1 DEF MarksInv
<1>4. CASE (Pops \/ Loop) /\ ~Chooses
  <2>1. Native /\ Inside(Left) /\ OptionsKept
    BY <1>1, <1>4 DEF ControlInv
  <2>2. todo # << >> /\ Left \ {Now} \subseteq Left' /\ Now \in Left
    BY <1>4, Moved DEF Pops, Loop, Turns, Replaced, Running
  <2>3. CASE stages[s] # "not_started"
    <3>1. CASE Pops
      BY <1>1, <2>1, <2>2, <2>3, <3>1, Apart, StagesSteps DEF StagesStep, MetricsInv, Aborts
    <3>2. CASE Loop /\ ~Pops
      <4>1. Now.call \notin MarkCalls
        BY <3>2, Looped DEF Loops, MarkCalls
      <4>2. stages' = stages
        BY <2>1, <4>1, Leaves DEF Untouched
      <4>. QED
        BY <2>3, <4>2
    <3>. QED
      BY <1>4, <3>1, <3>2
  <2>4. ASSUME Named(Left, Marker(s)) PROVE stages'[s] # "not_started" \/ Comes(Left', s)
    <3>1. PICK x \in Left : x.call \in Marker(s)
      BY <2>4 DEF Named
    <3>2. CASE x # Now
      BY <2>2, <3>1, <3>2 DEF Comes, Named
    <3>3. CASE x = Now
      <4>1. Pops
        BY <1>4, <3>1, <3>3, Looped DEF Marker, Loops, GlobalStages
      <4>. QED
        BY <2>1, <2>2, <3>1, <3>3, <4>1, Apart, StagesSteps DEF StagesStep, MetricsInv
    <3>. QED
      BY <3>2, <3>3
  <2>5. ASSUME s \in {"native_optimization", "object_emission"}, Emitting(Left)
        PROVE  Comes(Left', s)
    <3>1. PICK x \in Left : x.call = "emit_input" \/ (x.call \in {"each_emit", "each_unit"} /\ x.index = 1)
      BY <2>5 DEF Emitting, Named
    <3>2. CASE x # Now
      BY <2>2, <2>5, <3>1, <3>2 DEF Comes, Emitting, Named
    <3>3. CASE x = Now
      <4>1. Loop
        BY <1>1, <2>2, <3>1, <3>3, LoopCalls DEF Loops
      <4>2. Now.call = "emit_input" \/ Now.index <= Len(Over(Now.call))
        <5>1. Len(inputs(opts)) \in Nat /\ inputs(opts) # << >> /\ inputs(opts) \in Seq(ToSet(inputs(opts)))
          BY <2>1, LoopRanges DEF Native
        <5>2. 1 <= Len(inputs(opts))
          BY <5>1
        <5>. QED
          BY <3>1, <3>3, <5>2 DEF Over
      <4>3. PICK u : {Call("optimize", u), Call("emit", u)} \subseteq Left'
        BY <3>1, <3>3, <4>1, <4>2, Turning
      <4>4. Call("optimize", u).call = "optimize" /\ Call("emit", u).call = "emit"
        BY DEF Call
      <4>. QED
        BY <2>5, <4>3, <4>4 DEF Comes, Named, Marker
    <3>. QED
      BY <3>2, <3>3
  <2>. QED
    BY <2>1, <2>3, <2>4, <2>5 DEF MarksInv, Comes
<1>. QED
  BY <1>1, <1>2, <1>3, <1>4

-----------------------------------------------------------------------------
(* The record.                                                             *)

\* The record while hsc runs, and once it has exited.
RecordInv == IF exit = None THEN MetricsInv /\ MarksInv ELSE RecordTellsOutcome

\* Nothing is marked before the first call.
LEMMA RecordStarts == ASSUME DriverInit PROVE RecordInv
<1>1. /\ todo = <<Call("command_line", None)>> /\ exit = None /\ units = << >> /\ failed = None
      /\ stages = [s \in GlobalStages |-> "not_started"] /\ disk = [p \in Paths |-> Before]
  BY DEF DriverInit
<1>2. Call("command_line", None).call = "command_line" /\ Now = Call("command_line", None)
  BY <1>1 DEF Call, Now
<1>3. StageNumber("command_line") = 0 /\ ~Failing
  BY <1>1, <1>2 DEF StageNumber, Failing, Now, Call
<1>4. stages \in [GlobalStages -> Statuses] /\ \A s \in GlobalStages : stages[s] # "failed"
  BY <1>1 DEF Statuses
<1>5. units \in Seq(UnitRecords) /\ DOMAIN units = {}
  BY <1>1
<1>6. DOMAIN disk = Paths /\ \A p \in Paths : disk[p].what # "record"
  BY <1>1 DEF Before
<1>7. MetricsInv
  BY <1>1, <1>2, <1>3, <1>4, <1>5, <1>6 DEF MetricsInv
<1>8. Call("command_line", None) \in Left
  BY <1>1 DEF Left, ToSet
<1>9. ~Inside(Left)
  BY <1>2, <1>8 DEF Inside, Named, Outside
<1>. QED
  BY <1>1, <1>7, <1>9 DEF RecordInv, MarksInv

\* A run that reports success has passed every stage.
LEMMA SuccessRecord ==
  ASSUME ControlInv, MetricsInv, MarksInv, todo # << >>, Now.call = "finish_success"
  PROVE  /\ FailedStages = {} /\ failed = None
         /\ \A p \in AllStages : units[p.unit].stages[p.stage] # "not_started"
         /\ Native => \A s \in GlobalStages : stages[s] # "not_started"
<1>1. ~Failing
  BY DEF Failing, Now, Call
<1>2. StageNumber(Now.call) = 0 /\ Reached(todo) = 5
  BY DEF StageNumber, Reached, Now
<1>3. \A i \in DOMAIN units : UpTo(units[i], 5)
  <2>1. ASSUME NEW i \in DOMAIN units PROVE UpTo(units[i], 5)
    <3>1. units # << >> /\ DOMAIN units = 1 .. Len(units) /\ Len(units) \in Nat
      BY <2>1, LastUnit DEF MetricsInv
    <3>2. i < Len(units) \/ i = Len(units)
      BY <2>1, <3>1
    <3>. QED
      BY <1>1, <1>2, <2>1, <3>1, <3>2 DEF MetricsInv
  <2>. QED
    BY <2>1
<1>4. \A s \in StageSet : StageNumber(s) <= 5
  BY DEF StageNumber
<1>5. \A i \in DOMAIN units, s \in StageSet : units[i].stages[s] \in {"completed", "skipped"}
  BY <1>3, <1>4 DEF UpTo
<1>6. \A p \in AllStages : p.unit \in DOMAIN units /\ p.stage \in StageSet
  BY DEF AllStages, StageSet
<1>7. FailedStages = {} /\ failed = None
  BY <1>1, <1>5, <1>6 DEF FailedStages, MetricsInv
<1>8. \A p \in AllStages : units[p.unit].stages[p.stage] # "not_started"
  BY <1>5, <1>6
<1>9. Left = {Now}
  BY NowLeft, Popped DEF Now, Left, ControlInv, Final
<1>10. Inside(Left)
  BY <1>9 DEF Inside, Named, Outside, ActionCalls
<1>11. ASSUME NEW s \in GlobalStages PROVE ~Comes(Left, s)
  BY <1>9, <1>11 DEF Comes, Emitting, Named, Marker, GlobalStages
<1>. QED
  BY <1>7, <1>8, <1>10, <1>11 DEF MarksInv

\* The stage that failed is the one that is named, and it is in the last unit.
LEMMA FailureRecord ==
  ASSUME ControlInv, MetricsInv, todo # << >>, Now.call = "finish_failure"
  PROVE  /\ FailedStages \subseteq {IF failed = None THEN "cli" ELSE failed}
         /\ \A u \in DOMAIN units : "failed" \in {units[u].stages[s] : s \in ToSet(UnitStages)} => u = Len(units)
<1>1. Failing
  BY NowLeft DEF ControlInv
<1>2. FailedStages \subseteq {failed}
  BY <1>1 DEF MetricsInv
<1>3. \A s \in GlobalStages \cup StageSet : s # None
  BY DEF GlobalStages, StageSet, UnitStages, ToSet, None
<1>4. FailedStages \subseteq GlobalStages \cup StageSet
  BY DEF FailedStages, AllStages, StageSet
<1>5. ASSUME NEW u \in DOMAIN units, NEW s \in StageSet, units[u].stages[s] = "failed" PROVE u = Len(units)
  <2>1. DOMAIN units = 1 .. Len(units) /\ Len(units) \in Nat
    BY LastUnit DEF MetricsInv
  <2>2. ~UpTo(units[u], 5)
    BY <1>5 DEF UpTo
  <2>. QED
    BY <2>1, <2>2 DEF MetricsInv
<1>. QED
  BY <1>2, <1>3, <1>4, <1>5 DEF StageSet

\* The step that ends the run is finish, and nothing happens after it.
LEMMA LastStep ==
  ASSUME ControlInv, DriverNext
  PROVE  /\ exit # None => UNCHANGED driverVars
         /\ exit = None /\ exit' # None =>
              finish /\ todo # << >> /\ Now.call \in {"finish_success", "finish_failure"}
<1>1. UNCHANGED driverVars \/ Ends \/ (Pops \/ Aborts \/ Chooses \/ Loop)
  BY Steps DEF ControlInv
<1>2. exit # None => UNCHANGED driverVars
  BY <1>1 DEF Ends, Pops, Aborts, Chooses, Loop, Turns, Replaced, Running
<1>3. ASSUME exit = None, exit' # None
      PROVE  finish /\ todo # << >> /\ Now.call \in {"finish_success", "finish_failure"}
  <2>1. ~UNCHANGED driverVars
    BY <1>3 DEF driverVars, run
  <2>2. ~(Pops \/ Aborts \/ Chooses \/ Loop)
    BY <1>3 DEF Pops, Aborts, Chooses, Loop, Turns, Replaced, Running
  <2>3. Ends
    BY <1>1, <2>1, <2>2
  <2>. QED
    BY <1>3, <2>3, Acts DEF Ends
<1>. QED
  BY <1>2, <1>3

\* So the record that the last step writes is right.
LEMMA RecordStep ==
  ASSUME ControlInv, RecordInv, [DriverNext]_driverVars
  PROVE  RecordInv'
<1>1. CASE UNCHANGED driverVars
  <2>1. /\ UNCHANGED <<args, parse, env, opts, todo, units, stages, failed, disk, exit>>
    BY <1>1 DEF driverVars, run, parserVars
  <2>2. RecordTellsOutcome' = RecordTellsOutcome
    BY <2>1 DEF RecordTellsOutcome, FailedStages, AllStages, Native, Outcome
  <2>3. Units' = Units /\ Paths' = Paths
    BY <2>1 DEF Units, inputs, Paths
  <2>4. MetricsInv' = MetricsInv
    BY <2>1, <2>3 DEF MetricsInv, UnitRecords, Now, Failing, FailedStages, AllStages, Reached
  <2>5. MarksInv' = MarksInv
    BY <2>1 DEF MarksInv, Native, Outcome, Left
  <2>. QED
    BY <2>1, <2>2, <2>4, <2>5 DEF RecordInv
<1>2. CASE DriverNext /\ exit # None
  BY <1>1, <1>2, LastStep
<1>3. CASE DriverNext /\ exit = None /\ exit' = None
  BY <1>3, MetricsStep, MarksStep DEF RecordInv
<1>4. CASE DriverNext /\ exit = None /\ exit' # None
  <2>1. todo # << >> /\ Now.call \in {"finish_success", "finish_failure"}
    BY <1>4, LastStep
  <2>2. finish
    BY <1>4, LastStep
  <2>3. MetricsInv /\ MarksInv
    BY <1>4 DEF RecordInv
  <2>. DEFINE path == opts.timingJson
              ok == Now.call = "finish_success"
              stage == IF ok THEN None ELSE IF failed = None THEN "cli" ELSE failed
  <2>4. /\ UNCHANGED <<args, parse, env, opts, units, stages>>
        /\ \/ exit' = (IF ok THEN "success" ELSE "failure") /\ (path # None => disk' = [disk EXCEPT ![path] = record(ok, stage)])
           \/ exit' = "failure" /\ UNCHANGED disk
    BY <2>1, <2>2 DEF finish, At, Now, parserVars, metrics
  <2>5. path # None => path \in Paths
    <3>1. {path} \subseteq {args[i].val : i \in DOMAIN args} \cup {None}
      BY DEF ControlInv, OptionsKept, ReadFrom
    <3>. QED
      BY <3>1 DEF Paths
  <2>6. FailedStages' = FailedStages /\ AllStages' = AllStages /\ Native' = Native
    BY <2>4 DEF FailedStages, AllStages, Native, Outcome
  <2>7. CASE path # None /\ disk'[path].what = "record"
    <3>1. DOMAIN disk = Paths /\ disk[path].what # "record"
      BY <2>3, <2>5, <2>7 DEF MetricsInv
    <3>2. exit' = (IF ok THEN "success" ELSE "failure") /\ disk'[path] = record(ok, stage)
      BY <2>4, <2>5, <2>7, <3>1
    <3>3. disk'[path].ok = ok /\ disk'[path].stage = stage
      BY <3>2 DEF record
    <3>4. CASE Now.call = "finish_success"
      <4>1. exit' = "success" /\ disk'[path].ok /\ disk'[path].stage = None
        BY <3>2, <3>3, <3>4
      <4>2. /\ FailedStages' = {}
            /\ \A p \in AllStages' : units'[p.unit].stages[p.stage] # "not_started"
            /\ Native' => \A s \in GlobalStages : stages'[s] # "not_started"
        BY <2>1, <2>3, <2>4, <2>6, <3>4, SuccessRecord
      <4>. QED
        BY <1>4, <2>4, <4>1, <4>2 DEF RecordInv, RecordTellsOutcome
    <3>5. CASE Now.call = "finish_failure"
      <4>1. exit' = "failure" /\ disk'[path].ok = FALSE /\ disk'[path].stage = IF failed = None THEN "cli" ELSE failed
        BY <3>2, <3>3, <3>5
      <4>2. "cli" # None /\ disk'[path].stage # None
        BY <4>1 DEF None
      <4>3. /\ FailedStages' \subseteq {disk'[path].stage}
            /\ \A u \in DOMAIN units' :
                  "failed" \in {units'[u].stages[s] : s \in ToSet(UnitStages)} => u = Len(units')
        BY <2>1, <2>3, <2>4, <2>6, <3>5, <4>1, FailureRecord
      <4>4. exit' # "success"
        BY <4>1
      <4>. QED
        BY <1>4, <2>4, <4>1, <4>2, <4>3, <4>4 DEF RecordInv, RecordTellsOutcome
    <3>. QED
      BY <2>1, <3>4, <3>5
  <2>8. CASE path = None \/ disk'[path].what # "record"
    BY <1>4, <2>4, <2>8 DEF RecordInv, RecordTellsOutcome
  <2>. QED
    BY <2>7, <2>8
<1>. QED
  BY <1>1, <1>2, <1>3, <1>4

-----------------------------------------------------------------------------
(* What a run leaves behind, and the tools it starts.                      *)

\* The programs hsc looks up before it starts them.
Tools == {"clang", "clangxx", "llvm-ar"}

\* A tool is found before the calls that start it: it has been looked up, or it
\* still will be.
ToolsFound ==
    Inside(Left) =>
        /\ Named(Left, {"extract", "archive"}) => Named(Left, {"llvm-ar"}) \/ "llvm-ar" \in resolved
        /\ Named(Left, {"sanitizer_runtime", "link"}) => Named(Left, {"clang"}) \/ "clang" \in resolved
        /\ Named(Left, {"c_sources", "cxx_sources", "runtime_sources", "mixed_link"}) =>
             \/ Named(Left, {"mixed_tools"})
             \/ /\ needsCCompiler(opts) => "clang" \in resolved
                /\ needsCxxCompiler(opts) => "clangxx" \in resolved

\* Nothing that a run sets up is left behind, and only tools that were found are
\* used.
PlaceInv ==
    /\ stages \in [GlobalStages -> Statuses]
    /\ temp \in {"none", "there", "removed"} /\ (exit # None => temp # "there")
    /\ cwd \in {"start", "temp"} /\ (cwd = "temp" => Failing \/ Named(Left, {"leave_temp"}))
    /\ Named(Left, {"enter_temp"}) => Named(Left, {"leave_temp"})
    /\ exit = "success" => cwd = "start"
    /\ resolved \subseteq Tools /\ used \subseteq resolved
    /\ ToolsFound

\* Before the first call there is nothing to clean up.
LEMMA PlaceStarts == ASSUME DriverInit PROVE PlaceInv
<1>1. /\ Left = {Call("command_line", None)} /\ exit = None /\ temp = "none" /\ cwd = "start" /\ resolved = {}
      /\ used = {} /\ stages = [s \in GlobalStages |-> "not_started"]
  BY DEF DriverInit, Left, ToSet
<1>2. \A names : Named(Left, names) <=> "command_line" \in names
  BY <1>1 DEF Named, Call
<1>3. stages \in [GlobalStages -> Statuses]
  BY <1>1 DEF Statuses
<1>. QED
  BY <1>1, <1>2, <1>3 DEF PlaceInv, ToolsFound, Inside, Outside, ActionCalls, None

\* The first of the calls that remain comes first.
LEMMA First ==
  ASSUME ControlInv, todo # << >>
  PROVE  /\ \A x \in Left : Rank(Now.call) <= Rank(x.call)
         /\ Rank(Now.call) \in 2 .. 6 => Inside(Left)
<1>1. /\ \A x \in ToSet(Tail(todo)) : Rank(Now.call) <= Rank(x.call)
      /\ Left = ToSet(Tail(todo)) \cup {Now}
  BY Popped DEF ControlInv, Left, Now
<1>2. \A x \in Left : Rank(Now.call) <= Rank(x.call)
  BY <1>1, Ranks
<1>3. ASSUME Rank(Now.call) \in 2 .. 6, NEW x \in Left, x.call \in Outside PROVE FALSE
  <2>1. Rank(x.call) \in {1, 7}
    BY <1>3 DEF Rank, Outside, ActionCalls, UnitCalls, Links
  <2>2. x.call = "finish_failure"
    <3>1. Rank(x.call) = 7
      BY <1>2, <1>3, <2>1
    <3>. QED
      BY <1>3, <3>1 DEF Rank, Outside, ActionCalls, UnitCalls, Links
  <2>3. Failing
    BY <2>2 DEF ControlInv, Named
  <2>4. Rank(Now.call) = 7
    BY <2>3 DEF Failing, Now, Call, Rank, UnitCalls, Links
  <2>. QED
    BY <1>3, <2>4
<1>. QED
  BY <1>2, <1>3 DEF Inside, Named

\* The temporary directory only comes and goes.
LEMMA TempSteps ==
  ASSUME DriverNext, exit = None, exit' = None, temp \in {"none", "there", "removed"}
  PROVE  temp' \in {"none", "there", "removed"}
<1>. USE DEF Goes, Fail, Expands, ForEach, Keep
<1>1. CASE ParseCommandLine
  BY <1>1 DEF ParseCommandLine
<1>2. CASE CheckProfile
  BY <1>2 DEF CheckProfile
<1>3. CASE CheckTimingPath
  BY <1>3 DEF CheckTimingPath
<1>4. CASE Dispatch
  BY <1>4 DEF Dispatch
<1>5. CASE PrepareRemarks
  BY <1>5 DEF PrepareRemarks
<1>6. CASE RunCargo
  BY <1>6 DEF RunCargo
<1>7. CASE Compile
  BY <1>7 DEF Compile
<1>8. CASE CompileInputs
  BY <1>8 DEF CompileInputs
<1>9. CASE Rejected
  BY <1>9 DEF Rejected
<1>10. CASE Preprocess
  BY <1>10 DEF Preprocess
<1>11. CASE LowerC
  BY <1>11 DEF LowerC
<1>12. CASE FrontendStage
  BY <1>12 DEF FrontendStage
<1>13. CASE CheckMains
  BY <1>13 DEF CheckMains
<1>14. CASE validateCCompatibilityExternalAbi
  BY <1>14 DEF validateCCompatibilityExternalAbi
<1>15. CASE compileSourceModules
  BY <1>15 DEF compileSourceModules
<1>16. CASE mergeLlvmModules
  BY <1>16 DEF mergeLlvmModules
<1>17. CASE Optimize
  BY <1>17 DEF Optimize
<1>18. CASE appendOptimizationRemarks
  BY <1>18 DEF appendOptimizationRemarks
<1>19. CASE emitObjectFile
  BY <1>19 DEF emitObjectFile
<1>20. CASE EmitModules
  BY <1>20 DEF EmitModules
<1>21. CASE validateOutputParent
  BY <1>21 DEF validateOutputParent
<1>22. CASE markSkipped
  BY <1>22 DEF markSkipped
<1>23. CASE sanitizerRuntimeSources
  BY <1>23 DEF sanitizerRuntimeSources
<1>24. CASE removePdb
  BY <1>24 DEF removePdb
<1>25. CASE createTemporaryDirectory
  BY <1>25 DEF createTemporaryDirectory
<1>26. CASE resolveClang
  BY <1>26 DEF resolveClang
<1>27. CASE resolveMixedTools
  BY <1>27 DEF resolveMixedTools
<1>28. CASE compileExternalSource
  BY <1>28 DEF compileExternalSource, CompileWith
<1>29. CASE LinkExecutable
  BY <1>29 DEF LinkExecutable, Link
<1>30. CASE LinkMixedExecutable
  BY <1>30 DEF LinkMixedExecutable, Link
<1>31. CASE emitMacDsym
  BY <1>31 DEF emitMacDsym
<1>32. CASE checkPdb
  BY <1>32 DEF checkPdb
<1>33. CASE resolveLlvmAr
  BY <1>33 DEF resolveLlvmAr
<1>34. CASE checkRuntimeLibrary
  BY <1>34 DEF checkRuntimeLibrary
<1>35. CASE enterTemporaryDirectory
  BY <1>35 DEF enterTemporaryDirectory
<1>36. CASE extractRuntime
  BY <1>36 DEF extractRuntime
<1>37. CASE leaveTemporaryDirectory
  BY <1>37 DEF leaveTemporaryDirectory
<1>38. CASE checkExtracted
  BY <1>38 DEF checkExtracted
<1>39. CASE archiveObjects
  BY <1>39 DEF archiveObjects
<1>40. CASE copyArchive
  BY <1>40 DEF copyArchive
<1>41. CASE DumpInput
  BY <1>41 DEF DumpInput
<1>42. CASE preprocessOnly
  BY <1>42 DEF preprocessOnly
<1>43. CASE emitLlvm
  BY <1>43 DEF emitLlvm
<1>44. CASE writeIr
  BY <1>44 DEF writeIr
<1>45. CASE finish \/ Ended
  BY <1>45, None # "success" DEF finish, Ended, None
<1>. QED
  BY <1>1, <1>2, <1>3, <1>4, <1>5, <1>6, <1>7, <1>8, <1>9, <1>10, <1>11, <1>12, <1>13, <1>14, <1>15,
     <1>16, <1>17, <1>18, <1>19, <1>20, <1>21, <1>22, <1>23, <1>24, <1>25, <1>26, <1>27, <1>28,
     <1>29, <1>30, <1>31, <1>32, <1>33, <1>34, <1>35, <1>36, <1>37, <1>38, <1>39, <1>40, <1>41,
     <1>42, <1>43, <1>44, <1>45 DEF DriverNext

\* A tool that is looked up is found or the run fails; only tools that were
\* found are started.
LEMMA ToolSteps ==
  ASSUME ControlInv, PlaceInv, DriverNext, exit = None, exit' = None, todo # << >>
  PROVE  /\ resolved \subseteq resolved' /\ resolved' \subseteq Tools /\ used' \subseteq resolved'
         /\ Pops /\ Now.call = "llvm-ar" => "llvm-ar" \in resolved'
         /\ Pops /\ Now.call = "clang" => "clang" \in resolved'
         /\ Pops /\ Now.call = "mixed_tools" =>
              /\ needsCCompiler(opts) => "clang" \in resolved'
              /\ needsCxxCompiler(opts) => "clangxx" \in resolved'
<1>. DEFINE n == Now.call
<1>1. Untouched /\ resolved \subseteq Tools /\ used \subseteq resolved
  BY Leaves DEF ControlInv, PlaceInv
<1>2. Pops => todo' # <<Call("finish_failure", None)>>
  BY Apart DEF Pops
<1>3. n \notin UseCalls => used' = used
  BY <1>1 DEF Untouched
<1>4. n \notin FindCalls => resolved' = resolved
  BY <1>1 DEF Untouched
<1>5. CASE n = "llvm-ar"
  <2>1. resolveLlvmAr
    BY <1>5, Acts
  <2>. QED
    BY <1>1, <1>2, <1>3, <1>5, <2>1 DEF resolveLlvmAr, Fail, UseCalls, Tools
<1>6. CASE n = "clang"
  <2>1. resolveClang
    BY <1>6, Acts
  <2>. QED
    BY <1>1, <1>2, <1>3, <1>6, <2>1 DEF resolveClang, Fail, UseCalls, Tools
<1>7. CASE n = "mixed_tools"
  <2>1. resolveMixedTools
    BY <1>7, Acts
  <2>2. /\ resolved \subseteq resolved' /\ resolved' \subseteq Tools
        /\ Pops => /\ needsCCompiler(opts) => "clang" \in resolved'
                   /\ needsCxxCompiler(opts) => "clangxx" \in resolved'
    BY <1>1, <1>2, <2>1 DEF resolveMixedTools, Fail, Tools
  <2>. QED
    BY <1>1, <1>3, <1>7, <2>2 DEF UseCalls
<1>8. CASE n \in UseCalls
  <2>1. Rank(n) \in {2, 3, 4}
    BY <1>8 DEF Rank, UseCalls, UnitCalls, Links
  <2>2. Inside(Left) /\ \A x \in Left : Rank(n) <= Rank(x.call)
    BY <2>1, First
  <2>3. n \in {"extract", "archive"} => "llvm-ar" \in resolved
    <3>1. Rank("llvm-ar") = 1
      BY DEF Rank, UnitCalls, Links
    <3>2. ~Named(Left, {"llvm-ar"})
      BY <2>1, <2>2, <3>1 DEF Named
    <3>. QED
      BY <2>2, <3>2, NowLeft DEF PlaceInv, ToolsFound
  <2>4. n \in {"sanitizer_runtime", "link"} => "clang" \in resolved
    <3>1. Rank("clang") = 2 /\ (n \in {"sanitizer_runtime", "link"} => Rank(n) \in {3, 4})
      BY DEF Rank, UnitCalls, Links
    <3>2. n \in {"sanitizer_runtime", "link"} => ~Named(Left, {"clang"})
      BY <2>2, <3>1 DEF Named
    <3>. QED
      BY <2>2, <3>2, NowLeft DEF PlaceInv, ToolsFound
  <2>5. n \in {"c_sources", "cxx_sources", "runtime_sources", "mixed_link"}
        => /\ needsCCompiler(opts) => "clang" \in resolved
           /\ needsCxxCompiler(opts) => "clangxx" \in resolved
    <3>1. /\ Rank("mixed_tools") = 2
          /\ n \in {"c_sources", "cxx_sources", "runtime_sources", "mixed_link"} => Rank(n) \in {3, 4}
      BY DEF Rank, UnitCalls, Links
    <3>2. n \in {"c_sources", "cxx_sources", "runtime_sources", "mixed_link"} => ~Named(Left, {"mixed_tools"})
      BY <2>2, <3>1 DEF Named
    <3>. QED
      BY <2>2, <3>2, NowLeft DEF PlaceInv, ToolsFound
  <2>6. used' \subseteq resolved
    <3>1. CASE n = "extract"
      <4>1. extractRuntime
        BY <3>1, Acts
      <4>. QED
        BY <1>1, <2>3, <3>1, <4>1 DEF extractRuntime, Uses
    <3>2. CASE n = "archive"
      <4>1. archiveObjects
        BY <3>2, Acts
      <4>. QED
        BY <1>1, <2>3, <3>2, <4>1 DEF archiveObjects, Uses
    <3>3. CASE n \in {"sanitizer_runtime", "c_sources", "cxx_sources", "runtime_sources"}
      <4>1. compileExternalSource
        BY <3>3, Acts
      <4>2. CASE n = "sanitizer_runtime"
        BY <1>1, <2>4, <4>1, <4>2 DEF compileExternalSource, CompileWith, Uses, At, Now
      <4>3. CASE n = "c_sources"
        BY <1>1, <2>5, <4>1, <4>3 DEF compileExternalSource, CompileWith, Uses, At, Now, needsCCompiler
      <4>4. CASE n = "cxx_sources"
        BY <1>1, <2>5, <4>1, <4>4 DEF compileExternalSource, CompileWith, Uses, At, Now, needsCxxCompiler
      <4>5. CASE n = "runtime_sources"
        BY <1>1, <2>5, <4>1, <4>5 DEF compileExternalSource, CompileWith, Uses, At, Now, needsCCompiler
      <4>. QED
        BY <3>3, <4>2, <4>3, <4>4, <4>5
    <3>4. CASE n = "link"
      <4>1. LinkExecutable
        BY <3>4, Acts
      <4>. QED
        BY <1>1, <2>4, <3>4, <4>1 DEF LinkExecutable, Link, Uses
    <3>5. CASE n = "mixed_link"
      <4>1. LinkMixedExecutable
        BY <3>5, Acts
      <4>2. used' = used \cup {IF useCxxLinker(opts) THEN "clangxx" ELSE "clang"}
        BY <4>1 DEF LinkMixedExecutable, Link, Uses
      <4>. QED
        BY <1>1, <2>5, <3>5, <4>2 DEF needsCCompiler, needsCxxCompiler
    <3>. QED
      BY <1>8, <3>1, <3>2, <3>3, <3>4, <3>5 DEF UseCalls
  <2>7. resolved' = resolved
    BY <1>4, <1>8 DEF UseCalls, FindCalls
  <2>. QED
    BY <1>1, <1>8, <2>6, <2>7 DEF UseCalls
<1>. QED
  BY <1>1, <1>3, <1>4, <1>5, <1>6, <1>7, <1>8 DEF FindCalls

\* Whatever comes next, the tools that will be started are found before.
LEMMA ToolsKept ==
  ASSUME ControlInv, PlaceInv, DriverNext, exit = None, exit' = None
  PROVE  ToolsFound'
<1>. DEFINE Ar == {"extract", "archive"}
            Plain == {"sanitizer_runtime", "link"}
            Mixed == {"c_sources", "cxx_sources", "runtime_sources", "mixed_link"}
<1>. SUFFICES ASSUME Inside(Left')
              PROVE  /\ Named(Left', Ar) => Named(Left', {"llvm-ar"}) \/ "llvm-ar" \in resolved'
                     /\ Named(Left', Plain) => Named(Left', {"clang"}) \/ "clang" \in resolved'
                     /\ Named(Left', Mixed) =>
                          \/ Named(Left', {"mixed_tools"})
                          \/ /\ needsCCompiler(opts)' => "clang" \in resolved'
                             /\ needsCxxCompiler(opts)' => "clangxx" \in resolved'
  BY DEF ToolsFound
<1>1. /\ ~Aborts /\ (UNCHANGED driverVars \/ Pops \/ Chooses \/ Loop) /\ UNCHANGED <<args, parse, env>>
      /\ Inside(Left) => UNCHANGED opts
      /\ ~Inside(Left) => Chooses
  BY Stays
<1>2. CASE UNCHANGED driverVars
  <2>1. Left' = Left /\ resolved' = resolved /\ opts' = opts /\ env' = env
    BY <1>2 DEF driverVars, run, Left
  <2>2. needsCCompiler(opts)' = needsCCompiler(opts) /\ needsCxxCompiler(opts)' = needsCxxCompiler(opts)
    BY <2>1 DEF needsCCompiler, needsCxxCompiler, sanitizerRuntime, useCxxLinker
  <2>. QED
    BY <2>1, <2>2 DEF PlaceInv, ToolsFound
<1>3. CASE Chooses
  <2>1. PICK names : Choice(names, opts, Granted) /\ Left' = NamesOf(names)
    BY <1>3, Opened
  <2>2. \A X : Named(Left', X) <=> \E n \in ToSet(names) : n \in X
    BY <1>3, <2>1, Opened
  <2>. DEFINE Found(s) == /\ (\E n \in ToSet(s) : n \in Ar) => "llvm-ar" \in ToSet(s)
                          /\ (\E n \in ToSet(s) : n \in Plain) => "clang" \in ToSet(s)
                          /\ (\E n \in ToSet(s) : n \in Mixed) => "mixed_tools" \in ToSet(s)
  <2>3. CASE names \in {ObjectNames, LibraryNames, ExecutableNames, MixedNames, PrintNames, WriteNames}
    <3>1. Found(ObjectNames) /\ Found(LibraryNames) /\ Found(ExecutableNames)
      BY NameSets
    <3>2. Found(MixedNames) /\ Found(PrintNames) /\ Found(WriteNames)
      BY NameSets
    <3>. QED
      BY <2>2, <2>3, <3>1, <3>2
  <2>4. CASE ToSet(names) \subseteq ShortNames
    <3>1. \A n \in ToSet(names) : n \notin Ar \cup Plain \cup Mixed
      BY <2>4 DEF ShortNames, ActionCalls
    <3>. QED
      BY <2>2, <3>1
  <2>. QED
    BY <2>1, <2>3, <2>4, Offered
<1>4. CASE (Pops \/ Loop) /\ ~Chooses
  <2>1. Inside(Left) /\ opts' = opts /\ env' = env
    BY <1>1, <1>4
  <2>2. needsCCompiler(opts)' = needsCCompiler(opts) /\ needsCxxCompiler(opts)' = needsCxxCompiler(opts)
    BY <2>1 DEF needsCCompiler, needsCxxCompiler, sanitizerRuntime, useCxxLinker
  <2>3. /\ todo # << >> /\ Left \ {Now} \subseteq Left'
        /\ \A x \in Left' : x \in Left \/ x.call \in UnitCalls \cup Loops
    BY <1>4, Moved DEF Pops, Loop, Turns, Replaced, Running
  <2>4. \A c \in Ar \cup Plain \cup Mixed : c \notin UnitCalls \cup Loops
    BY DEF UnitCalls, Loops
  <2>5. \A X : X \subseteq Ar \cup Plain \cup Mixed /\ Named(Left', X) => Named(Left, X)
    BY <2>3, <2>4 DEF Named
  <2>6. \A c \in {"llvm-ar", "clang", "mixed_tools"} :
           Named(Left, {c}) => Named(Left', {c}) \/ (Pops /\ Now.call = c)
    <3>1. ASSUME NEW c \in {"llvm-ar", "clang", "mixed_tools"}, NEW x \in Left, x.call = c
          PROVE  Named(Left', {c}) \/ (Pops /\ Now.call = c)
      <4>1. CASE x # Now
        BY <2>3, <3>1, <4>1 DEF Named
      <4>2. CASE x = Now
        <5>1. c \notin Loops \cup {"emit_input"}
          BY <3>1 DEF Loops
        <5>. QED
          BY <1>4, <3>1, <4>2, <5>1, Looped
      <4>. QED
        BY <4>1, <4>2
    <3>. QED
      BY <3>1 DEF Named
  <2>7. ToolsFound
    BY DEF PlaceInv
  <2>8. Named(Left', Ar) => Named(Left', {"llvm-ar"}) \/ "llvm-ar" \in resolved'
    BY <2>1, <2>3, <2>5, <2>6, <2>7, ToolSteps DEF ToolsFound
  <2>9. Named(Left', Plain) => Named(Left', {"clang"}) \/ "clang" \in resolved'
    BY <2>1, <2>3, <2>5, <2>6, <2>7, ToolSteps DEF ToolsFound
  <2>10. Named(Left', Mixed) =>
           \/ Named(Left', {"mixed_tools"})
           \/ /\ needsCCompiler(opts)' => "clang" \in resolved'
              /\ needsCxxCompiler(opts)' => "clangxx" \in resolved'
    BY <2>1, <2>2, <2>3, <2>5, <2>6, <2>7, ToolSteps DEF ToolsFound
  <2>. QED
    BY <2>8, <2>9, <2>10
<1>. QED
  BY <1>1, <1>2, <1>3, <1>4

\* Every step keeps track of the directories, and of the tools.
LEMMA PlaceStep ==
  ASSUME ControlInv, RecordInv, PlaceInv, [DriverNext]_driverVars
  PROVE  PlaceInv'
<1>1. CASE UNCHANGED driverVars
  <2>1. UNCHANGED <<stages, temp, cwd, exit, todo, resolved, used, opts, env>>
    BY <1>1 DEF driverVars, run
  <2>2. ToolsFound' = ToolsFound
    BY <2>1 DEF ToolsFound, Left, needsCCompiler, needsCxxCompiler, sanitizerRuntime, useCxxLinker
  <2>. QED
    BY <2>1, <2>2 DEF PlaceInv, Failing, Left
<1>2. CASE DriverNext /\ exit # None
  BY <1>1, <1>2, LastStep
<1>3. CASE DriverNext /\ exit = None /\ exit' # None
  <2>1. finish /\ todo # << >> /\ Now.call \in {"finish_success", "finish_failure"}
    BY <1>3, LastStep
  <2>2. /\ UNCHANGED <<stages, cwd, todo, resolved, used, opts, env>>
        /\ temp' = IF temp = "there" THEN "removed" ELSE temp
        /\ exit' = "success" => Now.call = "finish_success"
    BY <2>1 DEF finish, At, Now, parserVars, metrics, place, tools
  <2>3. Left' = Left /\ Failing' = Failing
    BY <2>2 DEF Left, Failing
  <2>4. ToolsFound' = ToolsFound
    BY <2>2, <2>3 DEF ToolsFound, needsCCompiler, needsCxxCompiler, sanitizerRuntime, useCxxLinker
  <2>5. Now.call = "finish_success" => cwd = "start"
    <3>1. Now.call = "finish_success" => ~Failing
      BY DEF Failing, Now, Call
    <3>2. Now.call = "finish_success" => Left = {Now}
      BY <2>1, NowLeft, Popped DEF Now, Left, ControlInv, Final
    <3>3. Now.call = "finish_success" => ~Named(Left, {"leave_temp"})
      BY <3>2 DEF Named
    <3>. QED
      BY <3>1, <3>3 DEF PlaceInv
  <2>. QED
    BY <2>2, <2>3, <2>4, <2>5 DEF PlaceInv
<1>4. CASE DriverNext /\ exit = None /\ exit' = None /\ ~UNCHANGED driverVars
  <2>1. stages' \in [GlobalStages -> Statuses]
    BY <1>4, RecordStep DEF RecordInv, MetricsInv
  <2>2. temp' \in {"none", "there", "removed"}
    BY <1>4, TempSteps DEF PlaceInv
  <2>3. Untouched /\ (Pops \/ Aborts \/ Chooses \/ Loop)
    BY <1>4, Steps DEF ControlInv, Ends, None
  <2>4. todo # << >> /\ Now \in Left
    <3>1. todo # << >>
      BY <2>3 DEF Pops, Aborts, Chooses, Loop, Turns, Replaced, Running
    <3>. QED
      BY <3>1, NowLeft
  <2>5. resolved' \subseteq Tools /\ used' \subseteq resolved'
    BY <1>4, <2>4, ToolSteps
  <2>6. ToolsFound'
    BY <1>4, ToolsKept
  <2>7. ~Failing
    <3>1. Now.call # "finish_failure"
      BY <1>4, <2>4, Acts, None # "success" DEF finish, None
    <3>. QED
      BY <3>1 DEF Failing, Now, Call
  <2>8. Named(Left', {"enter_temp"}) => Named(Left', {"leave_temp"})
    <3>1. CASE Aborts
      BY <3>1 DEF Aborts, Failing, Left, Named, Call, ToSet
    <3>2. CASE Chooses
      <4>1. PICK names : Choice(names, opts, Granted) /\ Left' = NamesOf(names)
        BY <3>2, Opened
      <4>2. \A X : Named(Left', X) <=> \E n \in ToSet(names) : n \in X
        BY <3>2, <4>1, Opened
      <4>3. "enter_temp" \in ToSet(names) => "leave_temp" \in ToSet(names)
        <5>1. CASE names \in {ObjectNames, LibraryNames, ExecutableNames, MixedNames, PrintNames, WriteNames}
          BY <5>1, NameSets
        <5>2. CASE ToSet(names) \subseteq ShortNames
          BY <5>2 DEF ShortNames, ActionCalls
        <5>. QED
          BY <4>1, <5>1, <5>2, Offered
      <4>. QED
        BY <4>2, <4>3
    <3>3. CASE Pops \/ Loop
      <4>1. /\ Left \ {Now} \subseteq Left'
            /\ \A x \in Left' : x \in Left \/ x.call \in UnitCalls \cup Loops
            /\ Pops /\ Now.call \notin UnitCalls => ~Named(Left', {Now.call})
        BY <3>3, Moved
      <4>2. Named(Left', {"enter_temp"}) => Named(Left, {"enter_temp"}) /\ Named(Left, {"leave_temp"})
        BY <4>1 DEF Named, UnitCalls, Loops, PlaceInv
      <4>3. Named(Left, {"enter_temp"}) => Now.call # "leave_temp"
        BY <2>4, First DEF Named, Rank, UnitCalls, Links
      <4>. QED
        BY <4>1, <4>2, <4>3 DEF Named
    <3>. QED
      BY <2>3, <3>1, <3>2, <3>3
  <2>9. Named(Left, {"leave_temp"}) /\ Now.call # "leave_temp" => Failing' \/ Named(Left', {"leave_temp"})
    <3>1. CASE Aborts
      BY <3>1 DEF Aborts
    <3>2. CASE Chooses
      <4>1. Left = {Now}
        BY <3>2, Opened
      <4>. QED
        BY <4>1 DEF Named
    <3>3. CASE Pops \/ Loop
      BY <3>3, Moved DEF Named
    <3>. QED
      BY <2>3, <3>1, <3>2, <3>3
  <2>10. cwd' \in {"start", "temp"} /\ (cwd' = "temp" => Failing' \/ Named(Left', {"leave_temp"}))
    <3>1. CASE Now.call \notin {"enter_temp", "leave_temp"}
      BY <2>3, <2>7, <2>9, <3>1 DEF Untouched, PlaceInv
    <3>2. CASE Now.call = "enter_temp"
      <4>1. Named(Left, {"leave_temp"})
        BY <2>4, <3>2 DEF Named, PlaceInv
      <4>2. cwd' \in {"temp", cwd}
        BY <1>4, <3>2, Acts DEF enterTemporaryDirectory
      <4>. QED
        BY <2>9, <3>2, <4>1, <4>2 DEF PlaceInv
    <3>3. CASE Now.call = "leave_temp"
      <4>1. leaveTemporaryDirectory
        BY <1>4, <3>3, Acts
      <4>2. cwd' = "start" \/ (Failing' /\ cwd' = cwd)
        BY <4>1 DEF leaveTemporaryDirectory, Fail, Failing
      <4>. QED
        BY <4>2 DEF PlaceInv
    <3>. QED
      BY <3>1, <3>2, <3>3
  <2>. QED
    BY <1>4, <2>1, <2>2, <2>5, <2>6, <2>8, <2>10, None # "success" DEF PlaceInv, None
<1>. QED
  BY <1>1, <1>2, <1>3, <1>4

-----------------------------------------------------------------------------
(* The product: an effect that it needs is there, or the call for it is    *)
(* still to come.                                                          *)

\* One of the loops with these names comes to u.
Ahead(S, u, names) ==
    \E x \in S : /\ x.call \in names
                 /\ \E j \in 1 .. Len(Over(x.call)) : x.index <= j /\ Over(x.call)[j] = u

\* The units that the front end has begun.
Fronted == {units[i].input : i \in DOMAIN units}

\* Every unit passes the front end.
FrontInv ==
    \A u \in Units : \/ u \in Fronted \/ Call("preprocess", u) \in Left
                     \/ Ahead(Left, u, {"each_frontend", "each_unit", "source_modules"})

\* The calls that turn a module into an object.
Emits == {"optimize", "append_remarks", "emit"}

\* Every unit has its object; those of an object build are merged, and then
\* only the input is emitted.
ObjectsInv ==
    IF opts.crateType = "object"
    THEN /\ ToSet(requiredModules(opts)) \subseteq objects \/ Named(Left, {"merge"})
         /\ \A x \in Left : x.call = "emit" => x.of = inputs(opts)[1]
         /\ Named(Left, Emits) => \A x \in Left : x.call \in Emits \/ Rank(x.call) >= 4
         /\ ~Named(Left, {"each_emit", "each_unit", "emit_modules"})
    ELSE \A u \in Units : \/ u \in objects \/ Call("emit", u) \in Left
                          \/ Ahead(Left, u, {"each_emit", "each_unit", "emit_modules"})

\* The native sources are compiled.
SourcesInv ==
    /\ "--c-source" \in opts.ext => "c" \in objects \/ Named(Left, {"c_sources"})
    /\ "--cxx-source" \in opts.ext => "cxx" \in objects \/ Named(Left, {"cxx_sources"})

\* The runtime is extracted into a static library.
RuntimeInv ==
    opts.crateType = "staticlib" =>
        /\ Named(Left, {"extract"}) => Named(Left, {"extracted"})
        /\ "runtime" \in objects \/ Named(Left, {"extract"}) \/ (child = "failed" /\ Named(Left, {"extracted"}))

\* The calls that make the product of each crate type.
Makers(type) == CASE type = "bin" -> Links
                  [] type = "staticlib" -> {"copy_archive"}
                  [] type = "object" -> {"emit_input", "emit"}

\* What the product is when it is whole.
Whole(product) ==
    /\ product.what = CASE opts.crateType = "bin" -> "executable"
                        [] opts.crateType = "object" -> "object"
                        [] opts.crateType = "staticlib" -> "archive"
    /\ Units \subseteq product.parts
    /\ "--c-source" \in opts.ext => "c" \in product.parts
    /\ "--cxx-source" \in opts.ext => "cxx" \in product.parts
    /\ opts.crateType # "object" => "runtime" \in product.parts

\* The product is there and whole, or the call that makes it is still to come.
ProductInv == Named(Left, Makers(opts.crateType)) \/ Whole(disk[outputPath(opts)])

\* The calls that remove the PDB of an earlier build.
Removes == {"remove_pdb", "remove_mixed_pdb"}

\* The PDB of an earlier build is removed, and then it is this one's.
PdbInv ==
    emitWindowsPdb /\ opts.crateType = "bin" =>
        \/ /\ Named(Left, Links) /\ Named(Left, {"check_pdb"})
           /\ ~(Named(Left, {"link"}) /\ Named(Left, {"mixed_link"}))
           /\ Named(Left, Removes) \/ disk["pdb"].what = "nothing"
        \/ /\ ~Named(Left, Links) /\ ~Named(Left, Removes)
           /\ \/ Named(Left, {"check_pdb"}) /\ disk["pdb"].what = "nothing"
              \/ disk["pdb"] = disk[outputPath(opts)]

\* The record is not written over the product.
TimingApart ==
    Native /\ ~Named(Left, {"command_line", "timing_path"}) /\ ~Failing
    => opts.timingJson = None \/ opts.timingJson # outputPath(opts)

\* The calls for units, and the units that were begun, are of the build,
\* and belong to a compile function.
UnitsBelong ==
    /\ \A x \in Left : x.call \in UnitCalls => x.of \in Units
    /\ Named(Left, UnitCalls \cup Loops \cup {"emit_input"}) => Inside(Left)
    /\ Fronted \subseteq Units

\* In a compile function, each part of the product is made or still to be made.
WorkInv ==
    /\ UnitsBelong /\ TimingApart
    /\ Native /\ Inside(Left) =>
         FrontInv /\ ObjectsInv /\ SourcesInv /\ RuntimeInv /\ ProductInv /\ PdbInv

\* A step inside a compile function: a call that is done, or a turn of a loop.
Going ==
    /\ Native /\ Inside(Left) /\ todo # << >> /\ (Pops \/ Loop) /\ ~Failing'
    /\ UNCHANGED <<args, parse, env, opts>> /\ Untouched

\* A step that stays in a build leaves it as it was, chooses the calls of the compile
\* function, or is one of them.
LEMMA Progress ==
  ASSUME ControlInv, DriverNext, exit = None, exit' = None, Native', Inside(Left')
  PROVE  /\ Native /\ Units' = Units /\ UNCHANGED <<args, parse, env, opts>>
         /\ \/ UNCHANGED driverVars
            \/ Chooses /\ UNCHANGED <<units, objects, disk, child>>
            \/ Going
<1>1. /\ UNCHANGED <<args, parse, env>> /\ Units' = Units /\ Native
      /\ UNCHANGED driverVars \/ Pops \/ Chooses \/ Loop
      /\ Inside(Left) => UNCHANGED opts
      /\ ~Inside(Left) => Chooses
  BY Stays
<1>2. OptionsStep /\ Untouched
  BY Leaves DEF ControlInv
<1>3. CASE UNCHANGED driverVars
  BY <1>1, <1>3 DEF driverVars, run, parserVars
<1>4. CASE Chooses
  <2>1. Left = {Now} /\ Now.call \in Final
    BY <1>4, Opened
  <2>2. ~Named(Left, ActionCalls)
    BY <1>1 DEF ControlInv, Belong, Named, Native
  <2>3. Now.call \in {"command_line", "dispatch", "compile", "fail_cli", "finish_success", "finish_failure"}
    BY <2>1, <2>2 DEF Named, Final
  <2>4. UNCHANGED opts
    <3>1. ~Failing'
      BY <1>4, After
    <3>. QED
      BY <1>2, <2>3, <3>1 DEF OptionsStep
  <2>5. UNCHANGED <<units, objects, disk, child>>
    BY <1>2, <2>3 DEF Untouched, DiskCalls, ObjectCalls, StageCalls, Links
  <2>. QED
    BY <1>1, <1>4, <2>4, <2>5
<1>5. CASE (Pops \/ Loop) /\ ~Chooses
  <2>1. todo # << >> /\ ~Failing'
    BY <1>5, After DEF Pops, Loop, Turns, Replaced, Running
  <2>. QED
    BY <1>1, <1>2, <1>5, <2>1 DEF Going
<1>. QED
  BY <1>1, <1>3, <1>4, <1>5

\* A loop that is not done has a next turn.
LEMMA LoopTurns ==
  ASSUME ControlInv, Loop
  PROVE  Pops \/ Now.call = "emit_input" \/ Now.index <= Len(Over(Now.call))
<1>1. todo # << >>
  BY DEF Loop, Turns, Pops, Replaced, Running
<1>2. Now.index \in Nat
  BY <1>1, NowLeft DEF CallsFor
<1>3. Len(inputs(opts)) \in Nat /\ Len(requiredModules(opts)) \in Nat
  <2>1. /\ inputs(opts) \in Seq(ToSet(inputs(opts))) /\ requiredModules(opts) \in Seq(Units)
    BY LoopRanges DEF ControlInv
  <2>. QED
    BY <2>1
<1>. QED
  BY <1>2, <1>3 DEF Loop, Turns, Over

\* The front end is entered for a unit when its preprocessing starts.
LEMMA Fronts ==
  ASSUME ControlInv, MetricsInv, DriverNext, exit = None, exit' = None
  PROVE  /\ Fronted \subseteq Fronted'
         /\ \A u \in Fronted' : u \in Fronted \/ (todo # << >> /\ Now.call = "preprocess" /\ u = Now.of)
         /\ Pops /\ Now.call = "preprocess" => Now.of \in Fronted'
<1>1. UNCHANGED driverVars \/ (OptionsStep /\ Untouched /\ (Pops \/ Aborts \/ Chooses \/ Loop))
  BY Steps DEF ControlInv, Ends, None
<1>2. CASE units' = units /\ ~(Pops /\ Now.call = "preprocess")
  BY <1>2 DEF Fronted
<1>3. CASE Pops \/ Aborts
  <2>1. todo # << >>
    BY <1>3 DEF Pops, Aborts, Running
  <2>2. UnitsStep
    BY <1>3, <2>1, Apart, UnitsSteps DEF ControlInv
  <2>3. units \in Seq(UnitRecords)
    BY DEF MetricsInv
  <2>4. CASE Now.call = "preprocess"
    <3>1. PICK new : units' = Append(units, new) /\ new.input = Now.of
      BY <2>2, <2>4 DEF UnitsStep
    <3>2. /\ DOMAIN units = 1 .. Len(units) /\ DOMAIN units' = 1 .. (Len(units) + 1) /\ Len(units) \in Nat
          /\ units'[Len(units) + 1] = new
          /\ \A i \in 1 .. Len(units) : units'[i] = units[i]
      BY <2>3, <3>1
    <3>3. \A i \in 1 .. (Len(units) + 1) : i \in 1 .. Len(units) \/ i = Len(units) + 1
      BY <3>2
    <3>4. Len(units) + 1 \in DOMAIN units' /\ DOMAIN units \subseteq DOMAIN units'
      BY <3>2
    <3>. QED
      BY <2>1, <2>4, <3>1, <3>2, <3>3, <3>4 DEF Fronted
  <2>5. CASE Now.call \in StageCalls \ {"preprocess"}
    <3>1. PICK status : units' = [units EXCEPT ![Len(units)].stages[Now.call] = status]
      BY <2>2, <2>5 DEF UnitsStep
    <3>2. DOMAIN units' = DOMAIN units
      BY <3>1
    <3>3. ASSUME NEW i \in DOMAIN units PROVE units'[i].input = units[i].input
      <4>1. units[i] = [input |-> units[i].input, stages |-> units[i].stages]
        <5>1. units[i] \in UnitRecords
          BY <2>3
        <5>. QED
          BY <5>1 DEF UnitRecords
      <4>2. units'[i] = IF i = Len(units) THEN [units[i] EXCEPT !.stages = [@ EXCEPT ![Now.call] = status]] ELSE units[i]
        BY <3>1
      <4>. QED
        BY <4>1, <4>2
    <3>. QED
      BY <2>5, <3>2, <3>3 DEF Fronted
  <2>6. CASE Now.call \notin StageCalls
    BY <1>2, <2>2, <2>6 DEF UnitsStep, StageCalls
  <2>. QED
    BY <2>4, <2>5, <2>6
<1>4. CASE UNCHANGED driverVars
  <2>1. units' = units
    BY <1>4 DEF driverVars, run
  <2>. QED
    BY <1>2, <1>3, <2>1
<1>5. CASE Chooses \/ (Loop /\ ~Pops)
  <2>1. Now.call \notin StageCalls
    <3>1. Now.call \in Final \/ Now.call \in Loops \cup {"emit_input"}
      BY <1>5, Opened, Looped
    <3>. QED
      BY <3>1 DEF Final, Loops, StageCalls, ActionCalls
  <2>2. units' = units
    BY <1>1, <1>4, <2>1 DEF Untouched, driverVars, run
  <2>. QED
    BY <1>2, <2>1, <2>2 DEF StageCalls
<1>. QED
  BY <1>1, <1>3, <1>4, <1>5

\* The calls that remain, and that were there, around such a step.
LEMMA Remains ==
  ASSUME ControlInv, Going
  PROVE  /\ Now \in Left /\ Left \ {Now} \subseteq Left'
         /\ \A x \in Left : Rank(Now.call) <= Rank(x.call)
         /\ \A X : Now.call \notin X /\ Named(Left, X) => Named(Left', X)
         /\ \A X : X \cap UnitCalls = {} /\ Named(Left', X) => Named(Left, X)
         /\ Pops \/ (Loop /\ Now.call \in Loops \cup {"emit_input"})
         /\ Now.call \notin Outside
         /\ Now.call \notin UnitCalls \cup Loops => ~Named(Left', {Now.call})
<1>1. /\ Now \in Left /\ Left \ {Now} \subseteq Left'
      /\ \A x \in Left' : x \in Left \/ x.call \in UnitCalls \/ x.call = Now.call
      /\ \A x \in Left : Rank(Now.call) <= Rank(x.call)
      /\ Now.call \notin UnitCalls \cup Loops => ~Named(Left', {Now.call})
  BY Moved DEF Going
<1>2. \A X : Now.call \notin X /\ Named(Left, X) => Named(Left', X)
  BY <1>1 DEF Named
<1>3. \A X : X \cap UnitCalls = {} /\ Named(Left', X) => Named(Left, X)
  BY <1>1 DEF Named
<1>4. Pops \/ (Loop /\ Now.call \in Loops \cup {"emit_input"})
  BY Looped DEF Going
<1>5. Now.call \notin Outside
  BY <1>1 DEF Going, Inside, Named
<1>. QED
  BY <1>1, <1>2, <1>3, <1>4, <1>5

\* A loop that comes to a unit still does, or has put the calls for it.
LEMMA AheadStill ==
  ASSUME ControlInv, DriverNext, exit = None, exit' = None, Going, NEW names, NEW u, Ahead(Left, u, names)
  PROVE  /\ names \subseteq {"each_frontend", "each_unit", "source_modules"}
            => Ahead(Left, u, names)' \/ Call("preprocess", u) \in Left'
         /\ names \subseteq {"each_emit", "each_unit", "emit_modules"}
            => Ahead(Left, u, names)' \/ Call("emit", u) \in Left'
<1>1. \A n : Over(n)' = Over(n)
  BY DEF Going, Over
<1>2. PICK x \in Left : x.call \in names /\ \E j \in 1 .. Len(Over(x.call)) : x.index <= j /\ Over(x.call)[j] = u
  BY DEF Ahead
<1>3. CASE x # Now
  <2>1. x \in Left'
    BY <1>3, Remains
  <2>. QED
    BY <1>1, <1>2, <2>1 DEF Ahead
<1>4. CASE x = Now /\ names \subseteq Loops
  <2>. PICK j \in 1 .. Len(Over(x.call)) : x.index <= j /\ Over(x.call)[j] = u
    BY <1>2
  <2>1. Loop
    BY <1>2, <1>4, LoopCalls DEF Going, Aborts
  <2>2. Now.index \in Nat /\ Len(Over(Now.call)) \in Nat
    <3>1. Now.index \in Nat
      BY NowLeft DEF Going, CallsFor
    <3>2. inputs(opts) \in Seq(ToSet(inputs(opts))) /\ requiredModules(opts) \in Seq(Units)
      BY LoopRanges DEF ControlInv
    <3>. QED
      BY <3>1, <3>2 DEF Over
  <2>3. Now.index <= Len(Over(Now.call)) /\ j \in Nat
    BY <1>2, <1>4, <2>2
  <2>4. Now.call # "emit_input"
    BY <1>2, <1>4 DEF Loops
  <2>5. CASE j = Now.index
    <3>1. /\ Now.call \in {"each_frontend", "each_unit", "source_modules"} => Call("preprocess", u) \in Left'
          /\ Now.call \in {"each_emit", "each_unit", "emit_modules"} => Call("emit", u) \in Left'
      BY <1>2, <1>4, <2>1, <2>3, <2>4, <2>5, Turning
    <3>. QED
      BY <1>2, <1>4, <3>1
  <2>6. CASE j # Now.index
    <3>1. Turn(Now.call, Now.index + 1) \in Left'
      BY <2>1, <2>3, <2>4, Turning
    <3>2. /\ Turn(Now.call, Now.index + 1).call = Now.call
          /\ Turn(Now.call, Now.index + 1).index = Now.index + 1
      BY DEF Turn
    <3>3. Now.index + 1 <= j
      BY <1>2, <1>4, <2>2, <2>3, <2>6
    <3>. QED
      BY <1>1, <1>2, <1>4, <3>1, <3>2, <3>3 DEF Ahead
  <2>. QED
    BY <2>5, <2>6
<1>. QED
  BY <1>3, <1>4 DEF Loops

\* A compile function is entered with its loops at their first turns.
LEMMA Entered ==
  ASSUME ControlInv, Chooses, Native, Inside(Left'), UNCHANGED <<args, parse, env, opts>>
  PROVE  /\ \A u \in Units : Ahead(Left, u, {"each_frontend", "each_unit", "source_modules"})'
         /\ opts.crateType # "object" => \A u \in Units : Ahead(Left, u, {"each_emit", "each_unit", "emit_modules"})'
<1>1. \A n : Over(n)' = Over(n)
  BY DEF Over
<1>2. /\ \/ Left' = NamesOf(ObjectNames) /\ opts.crateType = "object"
         \/ Left' = NamesOf(LibraryNames) /\ opts.crateType = "staticlib"
         \/ Left' = NamesOf(ExecutableNames) /\ opts.crateType = "bin"
         \/ Left' = NamesOf(MixedNames) /\ opts.crateType = "bin"
  BY Enters
<1>3. \A s, n : n \in ToSet(s) => Call(n, None) \in NamesOf(s) /\ Call(n, None).call = n /\ Call(n, None).index = 1
  BY DEF NamesOf, Call
<1>4. ASSUME NEW u \in Units
      PROVE  \/ \E j \in 1 .. Len(inputs(opts)) : 1 <= j /\ inputs(opts)[j] = u
             \/ \E j \in 1 .. Len(requiredModules(opts)) : 1 <= j /\ requiredModules(opts)[j] = u
  <2>1. /\ inputs(opts) \in Seq(ToSet(inputs(opts))) /\ requiredModules(opts) \in Seq(Units)
        /\ u \in ToSet(inputs(opts)) \cup ToSet(requiredModules(opts))
    BY LoopRanges DEF ControlInv
  <2>2. ASSUME NEW S, NEW s \in Seq(S), u \in ToSet(s) PROVE \E j \in 1 .. Len(s) : 1 <= j /\ s[j] = u
    BY <2>2 DEF ToSet
  <2>. QED
    BY <2>1, <2>2
<1>5. ASSUME NEW names, NEW n \in {"each_frontend", "each_emit", "each_unit"},
             NEW m \in {"source_modules", "emit_modules"},
             n \in names, m \in names, Call(n, None) \in Left', Call(m, None) \in Left'
      PROVE  \A u \in Units : Ahead(Left, u, names)'
  <2>1. Over(n) = inputs(opts) /\ Over(m) = requiredModules(opts)
    BY DEF Over
  <2>. QED
    BY <1>1, <1>3, <1>4, <1>5, <2>1 DEF Ahead, Call
<1>6. \E n \in {"each_frontend", "each_unit"} : Call(n, None) \in Left' /\ Call("source_modules", None) \in Left'
  BY <1>2, <1>3, NameSets
<1>7. opts.crateType # "object" =>
        \E n \in {"each_emit", "each_unit"} : Call(n, None) \in Left' /\ Call("emit_modules", None) \in Left'
  BY <1>2, <1>3, NameSets
<1>. QED
  BY <1>5, <1>6, <1>7

\* Calls for units are only made for units of the build.
LEMMA UnitsStill ==
  ASSUME ControlInv, MetricsInv, UnitsBelong, DriverNext, exit = None, exit' = None
  PROVE  UnitsBelong'
<1>1. UNCHANGED driverVars \/ (OptionsStep /\ UNCHANGED <<args, parse, env>> /\ (Pops \/ Aborts \/ Chooses \/ Loop))
  BY Steps DEF ControlInv, Ends, None
<1>2. Units' = Units
  <2>1. CASE UNCHANGED driverVars
    BY <2>1 DEF driverVars, run, Units, inputs
  <2>. QED
    BY <1>1, <2>1, OptionsStepKeeps DEF ControlInv
<1>3. Fronted' \subseteq Units'
  BY <1>2, NowLeft, Fronts DEF UnitsBelong, UnitCalls
<1>4. ASSUME NEW x \in Left', x.call \in UnitCalls PROVE x.of \in Units
  <2>1. CASE UNCHANGED driverVars
    BY <1>4, <2>1 DEF UnitsBelong, driverVars, run, Left
  <2>2. CASE Aborts
    BY <1>4, <2>2 DEF Aborts, Failing, Left, ToSet, Call, UnitCalls
  <2>3. CASE Pops
    BY <1>4, <2>3, Moved DEF UnitsBelong
  <2>4. CASE Loop /\ ~Pops
    BY <1>4, <2>4, LoopTurns, Turning DEF UnitsBelong
  <2>5. CASE Chooses
    <3>1. PICK names : Choice(names, opts, Granted) /\ Left' = NamesOf(names)
      BY <2>5, Opened
    <3>2. x.call \in ToSet(names)
      BY <1>4, <3>1 DEF NamesOf, Call
    <3>3. CASE names \in {ObjectNames, LibraryNames, ExecutableNames, MixedNames, PrintNames, WriteNames}
      BY <1>4, <3>2, <3>3, NameSets DEF UnitCalls
    <3>4. CASE ToSet(names) \subseteq ShortNames
      BY <1>4, <3>2, <3>4 DEF UnitCalls, ShortNames, ActionCalls
    <3>. QED
      BY <3>1, <3>3, <3>4, Offered
  <2>. QED
    BY <1>1, <2>1, <2>2, <2>3, <2>4, <2>5
<1>. DEFINE Making == UnitCalls \cup Loops \cup {"emit_input"}
<1>5. ASSUME Named(Left', Making) PROVE Inside(Left')
  <2>1. CASE UNCHANGED driverVars
    <3>1. Left' = Left
      BY <2>1 DEF driverVars, run, Left
    <3>. QED
      BY <1>5, <3>1 DEF UnitsBelong
  <2>2. CASE Aborts
    BY <1>5, <2>2 DEF Aborts, Failing, Left, ToSet, Call, Named, UnitCalls, Loops
  <2>3. CASE Pops \/ Loop
    <3>1. Named(Left, Making)
      <4>1. CASE Pops
        BY <1>5, <2>3, <4>1, Moved DEF Named
      <4>2. CASE Loop /\ ~Pops
        BY <4>2, Looped, Moved DEF Named
      <4>. QED
        BY <2>3, <4>1, <4>2
    <3>2. Inside(Left)
      BY <3>1 DEF UnitsBelong
    <3>3. \A x \in Left' : x \in Left \/ x.call \in UnitCalls \/ x.call \in Loops
      BY <2>3, Moved
    <3>4. Outside \cap (UnitCalls \cup Loops) = {}
      BY DEF Outside, ActionCalls, UnitCalls, Loops
    <3>. QED
      BY <3>2, <3>3, <3>4 DEF Inside, Named
  <2>4. CASE Chooses
    <3>1. PICK names : Choice(names, opts, Granted) /\ Left' = NamesOf(names)
      BY <2>4, Opened
    <3>2. \A x \in Left' : x.call \in ToSet(names)
      BY <3>1 DEF NamesOf, Call
    <3>3. CASE names \in {ObjectNames, LibraryNames, ExecutableNames, MixedNames, PrintNames, WriteNames}
      <4>1. ToSet(names) \cap Outside = {}
        BY <3>3, NameSets DEF Outside, ActionCalls
      <4>. QED
        BY <3>2, <4>1 DEF Inside, Named
    <3>4. CASE ToSet(names) \subseteq ShortNames
      <4>1. ShortNames \cap Making = {}
        BY DEF ShortNames, ActionCalls, UnitCalls, Loops
      <4>. QED
        BY <1>5, <3>2, <3>4, <4>1 DEF Named
    <3>. QED
      BY <3>1, <3>3, <3>4, Offered
  <2>. QED
    BY <1>1, <2>1, <2>2, <2>3, <2>4
<1>. QED
  BY <1>2, <1>3, <1>4, <1>5 DEF UnitsBelong

\* No unit is left out of the front end.
LEMMA FrontStill ==
  ASSUME ControlInv, MetricsInv, DriverNext, exit = None, exit' = None, Native', Inside(Left'),
         Inside(Left) => FrontInv
  PROVE  FrontInv'
<1>1. /\ Native /\ Units' = Units /\ UNCHANGED <<args, parse, env, opts>>
      /\ UNCHANGED driverVars \/ (Chooses /\ UNCHANGED <<units, objects, disk, child>>) \/ Going
  BY Progress
<1>2. CASE UNCHANGED driverVars
  <2>1. Left' = Left /\ Fronted' = Fronted /\ \A n : Over(n)' = Over(n)
    BY <1>2 DEF driverVars, run, Left, Fronted, Over
  <2>. QED
    BY <1>1, <2>1 DEF FrontInv, Ahead
<1>3. CASE Chooses
  BY <1>1, <1>3, Entered DEF FrontInv
<1>4. CASE Going
  <2>. SUFFICES ASSUME NEW u \in Units
                PROVE  \/ u \in Fronted' \/ Call("preprocess", u) \in Left'
                       \/ Ahead(Left, u, {"each_frontend", "each_unit", "source_modules"})'
    BY <1>1 DEF FrontInv
  <2>1. FrontInv
    BY <1>4 DEF Going
  <2>2. CASE u \in Fronted
    BY <2>2, Fronts
  <2>3. CASE Call("preprocess", u) \in Left
    <3>1. Call("preprocess", u).call = "preprocess" /\ Call("preprocess", u).of = u
      BY DEF Call
    <3>2. CASE Call("preprocess", u) = Now
      <4>1. Pops
        BY <1>4, <3>1, <3>2, Remains DEF Loops
      <4>. QED
        BY <3>1, <3>2, <4>1, Fronts
    <3>. QED
      BY <1>4, <2>3, <3>2, Remains
  <2>4. CASE Ahead(Left, u, {"each_frontend", "each_unit", "source_modules"})
    BY <1>4, <2>4, AheadStill
  <2>. QED
    BY <2>1, <2>2, <2>3, <2>4 DEF FrontInv
<1>. QED
  BY <1>1, <1>2, <1>3, <1>4

\* What the calls that make objects add to them.
LEMMA ObjectSteps ==
  ASSUME ControlInv, DriverNext, exit = None, exit' = None, Going
  PROVE  /\ objects \subseteq objects'
         /\ Now.call = "emit" => objects' = objects \cup {Now.of}
         /\ Now.call = "merge" => ToSet(requiredModules(opts)) \subseteq objects'
         /\ Now.call = "c_sources" /\ "--c-source" \in opts.ext => "c" \in objects'
         /\ Now.call = "cxx_sources" /\ "--cxx-source" \in opts.ext => "cxx" \in objects'
         /\ Now.call = "extract" => child' = "failed" \/ (env.members => "runtime" \in objects')
<1>1. ~Failing' /\ Untouched /\ UNCHANGED opts
  BY DEF Going
<1>2. \A stage : ~Fail(stage)
  BY <1>1 DEF Fail, Failing
<1>3. CASE Now.call = "emit"
  <2>1. emitObjectFile
    BY <1>3, Acts
  <2>2. objects' = objects \cup {Now.of}
    BY <1>2, <2>1 DEF emitObjectFile, Now
  <2>. QED
    BY <1>3, <2>2
<1>4. CASE Now.call = "merge"
  <2>1. mergeLlvmModules
    BY <1>4, Acts
  <2>. QED
    BY <1>2, <1>4, <2>1 DEF mergeLlvmModules
<1>5. CASE Now.call = "extract"
  <2>1. extractRuntime
    BY <1>5, Acts
  <2>. QED
    BY <1>5, <2>1 DEF extractRuntime
<1>6. CASE Now.call \in {"sanitizer_runtime", "c_sources", "cxx_sources", "runtime_sources"}
  <2>1. compileExternalSource
    BY <1>6, Acts
  <2>2. CASE Now.call = "sanitizer_runtime"
    BY <1>2, <2>1, <2>2 DEF compileExternalSource, CompileWith, At, Now
  <2>3. CASE Now.call = "c_sources"
    BY <1>2, <2>1, <2>3 DEF compileExternalSource, CompileWith, At, Now
  <2>4. CASE Now.call = "cxx_sources"
    BY <1>2, <2>1, <2>4 DEF compileExternalSource, CompileWith, At, Now
  <2>5. CASE Now.call = "runtime_sources"
    BY <1>2, <2>1, <2>5 DEF compileExternalSource, CompileWith, At, Now
  <2>. QED
    BY <1>6, <2>2, <2>3, <2>4, <2>5
<1>7. CASE Now.call \notin ObjectCalls
  BY <1>1, <1>7 DEF Untouched, ObjectCalls
<1>. QED
  BY <1>3, <1>4, <1>5, <1>6, <1>7 DEF ObjectCalls

\* In the build of an executable or a library no unit is left without its
\* object.
LEMMA UnitObjects ==
  ASSUME ControlInv, DriverNext, exit = None, exit' = None, Native', Inside(Left'),
         Inside(Left) => ObjectsInv, opts.crateType # "object"
  PROVE  ObjectsInv'
<1>1. /\ Native /\ Units' = Units /\ UNCHANGED <<args, parse, env, opts>>
      /\ UNCHANGED driverVars \/ (Chooses /\ UNCHANGED <<units, objects, disk, child>>) \/ Going
  BY Progress
<1>2. CASE UNCHANGED driverVars
  <2>1. Left' = Left /\ objects' = objects /\ \A n : Over(n)' = Over(n)
    BY <1>2 DEF driverVars, run, Left, Over
  <2>. QED
    BY <1>1, <2>1 DEF ObjectsInv, Ahead
<1>3. CASE Chooses
  BY <1>1, <1>3, Entered DEF ObjectsInv
<1>4. CASE Going
  <2>. SUFFICES ASSUME NEW u \in Units
                PROVE  \/ u \in objects' \/ Call("emit", u) \in Left'
                       \/ Ahead(Left, u, {"each_emit", "each_unit", "emit_modules"})'
    BY <1>1 DEF ObjectsInv
  <2>1. ObjectsInv
    BY <1>4 DEF Going
  <2>2. CASE u \in objects
    BY <1>4, <2>2, ObjectSteps
  <2>3. CASE Call("emit", u) \in Left
    <3>1. Call("emit", u).call = "emit" /\ Call("emit", u).of = u
      BY DEF Call
    <3>2. CASE Call("emit", u) = Now
      BY <1>4, <3>1, <3>2, ObjectSteps
    <3>. QED
      BY <1>4, <2>3, <3>2, Remains
  <2>4. CASE Ahead(Left, u, {"each_emit", "each_unit", "emit_modules"})
    BY <1>4, <2>4, AheadStill
  <2>. QED
    BY <2>1, <2>2, <2>3, <2>4 DEF ObjectsInv
<1>. QED
  BY <1>1, <1>2, <1>3, <1>4

\* In the build of an object the modules are merged before the one input is
\* emitted.
LEMMA MergedObject ==
  ASSUME ControlInv, DriverNext, exit = None, exit' = None, Native', Inside(Left'),
         Inside(Left) => ObjectsInv, opts.crateType = "object"
  PROVE  ObjectsInv'
<1>1. /\ Native /\ Units' = Units /\ UNCHANGED <<args, parse, env, opts>>
      /\ UNCHANGED driverVars \/ (Chooses /\ UNCHANGED <<units, objects, disk, child>>) \/ Going
  BY Progress
<1>2. requiredModules(opts)' = requiredModules(opts) /\ inputs(opts)' = inputs(opts)
  BY <1>1
<1>3. CASE UNCHANGED driverVars
  <2>1. Left' = Left /\ objects' = objects
    BY <1>3 DEF driverVars, run, Left
  <2>. QED
    BY <1>1, <1>2, <1>3, <2>1 DEF ObjectsInv, Going, driverVars, run, Left
<1>4. CASE Chooses
  <2>1. Left' = NamesOf(ObjectNames)
    BY <1>1, <1>4, Enters
  <2>2. \A x \in Left' : x.call \in ToSet(ObjectNames)
    BY <2>1 DEF NamesOf, Call
  <2>3. Call("merge", None) \in Left' /\ Call("merge", None).call = "merge"
    BY <2>1, NameSets DEF NamesOf, Call
  <2>. QED
    BY <1>1, <2>2, <2>3, NameSets DEF ObjectsInv, Named, Emits
<1>5. CASE Going
  <2>1. ObjectsInv
    BY <1>5 DEF Going
  <2>2. ToSet(requiredModules(opts)) \subseteq objects' \/ Named(Left', {"merge"})
    <3>1. CASE ToSet(requiredModules(opts)) \subseteq objects
      BY <1>5, <3>1, ObjectSteps
    <3>2. CASE Named(Left, {"merge"})
      BY <1>5, <3>2, ObjectSteps, Remains
    <3>. QED
      BY <2>1, <3>1, <3>2, opts.crateType = "object" DEF ObjectsInv
  <2>3. ~Named(Left', {"each_emit", "each_unit", "emit_modules"})
    <3>1. {"each_emit", "each_unit", "emit_modules"} \cap UnitCalls = {}
      BY DEF UnitCalls
    <3>. QED
      BY <1>5, <2>1, <3>1, Remains DEF ObjectsInv
  <2>4. Now \in Left /\ (Pops => Left' \subseteq Left)
    BY <1>5, Remains, Moved
  <2>5. CASE Pops
    <3>1. Named(Left', Emits) => Named(Left, Emits)
      BY <2>4, <2>5 DEF Named
    <3>. QED
      BY <1>1, <1>2, <2>1, <2>2, <2>3, <2>4, <2>5, <3>1 DEF ObjectsInv
  <2>6. CASE ~Pops
    <3>1. Loop /\ Now.call \in {"each_frontend", "source_modules", "emit_input"}
      BY <1>5, <2>1, <2>4, <2>6, Remains DEF ObjectsInv, Named, Loops
    <3>2. Now.call = "emit_input" \/ Now.index <= Len(Over(Now.call))
      BY <2>6, <3>1, LoopTurns
    <3>3. CASE Now.call = "emit_input"
      <4>1. /\ \A x \in Left' : x \in Left \/ x.call \in Emits
            /\ \A x \in Left' : x.call \in UnitCalls => x \in Left \/ x.of = inputs(opts)[1]
        BY <3>1, <3>2, <3>3, Turning DEF Emits
      <4>2. \A x \in Left : Rank(x.call) >= 4
        <5>1. \A x \in Left : 4 <= Rank(x.call)
          <6>1. Rank("emit_input") = 4
            BY DEF Rank, UnitCalls, Links
          <6>. QED
            BY <1>5, <3>3, <6>1, Remains
        <5>. QED
          BY <5>1, Ranks
      <4>3. \A x \in Left' : x.call = "emit" => x.of = inputs(opts)[1]
        BY <2>1, <4>1 DEF ObjectsInv, UnitCalls
      <4>. QED
        BY <1>1, <1>2, <2>2, <2>3, <4>1, <4>2, <4>3 DEF ObjectsInv
    <3>4. CASE Now.call \in {"each_frontend", "source_modules"}
      <4>1. \A x \in Left' : x \in Left \/ x.call \in StageCalls \cup {Now.call}
        BY <3>1, <3>2, <3>4, Turning
      <4>2. \A x \in Left' : x \in Left \/ x.call \notin Emits
        BY <3>4, <4>1 DEF StageCalls, Emits
      <4>3. ~Named(Left, Emits)
        <5>1. Rank(Now.call) = 1 /\ Now.call \notin Emits
          BY <3>4, Ranks DEF Loops, Emits
        <5>. QED
          BY <2>1, <2>4, <5>1 DEF ObjectsInv
      <4>4. ~Named(Left', Emits)
        BY <4>2, <4>3 DEF Named
      <4>5. \A x \in Left' : x.call # "emit"
        BY <4>4 DEF Named, Emits
      <4>. QED
        BY <1>1, <1>2, <2>2, <2>3, <4>4, <4>5 DEF ObjectsInv
    <3>. QED
      BY <3>1, <3>3, <3>4
  <2>. QED
    BY <2>5, <2>6
<1>. QED
  BY <1>1, <1>3, <1>4, <1>5

\* Only executables have native sources (parseDriverOptions, hasMixedBuildOptions).
LEMMA SourcesInBin ==
  ASSUME OptionsKept, Native, opts.crateType # "bin"
  PROVE  "--c-source" \notin opts.ext /\ "--cxx-source" \notin opts.ext
<1>1. CombinationOK(parse.options)
  BY DEF Native, Outcome
<1>2. ~hasMixedBuildOptions(parse.options)
  BY <1>1 DEF CombinationOK, OptionsKept
<1>. QED
  BY <1>2 DEF hasMixedBuildOptions, OptionsKept

\* Every native source is compiled before the link.
LEMMA SourcesStill ==
  ASSUME ControlInv, DriverNext, exit = None, exit' = None, Native', Inside(Left'),
         Inside(Left) => SourcesInv
  PROVE  SourcesInv'
<1>1. /\ Native /\ Units' = Units /\ UNCHANGED <<args, parse, env, opts>>
      /\ UNCHANGED driverVars \/ (Chooses /\ UNCHANGED <<units, objects, disk, child>>) \/ Going
  BY Progress
<1>2. CASE UNCHANGED driverVars
  <2>1. Left' = Left /\ objects' = objects
    BY <1>2 DEF driverVars, run, Left
  <2>. QED
    BY <1>1, <1>2, <2>1 DEF SourcesInv
<1>3. CASE Chooses
  <2>1. CASE Left' = NamesOf(MixedNames)
    <3>1. /\ Call("c_sources", None) \in Left' /\ Call("cxx_sources", None) \in Left'
          /\ Call("c_sources", None).call = "c_sources" /\ Call("cxx_sources", None).call = "cxx_sources"
      BY <2>1, NameSets DEF NamesOf, Call
    <3>. QED
      BY <3>1 DEF SourcesInv, Named
  <2>2. CASE ~hasMixedBuildOptions(opts) \/ opts.crateType # "bin"
    <3>1. "--c-source" \notin opts.ext /\ "--cxx-source" \notin opts.ext
      BY <1>1, <2>2, SourcesInBin DEF hasMixedBuildOptions, ControlInv
    <3>. QED
      BY <1>1, <3>1 DEF SourcesInv
  <2>. QED
    BY <1>1, <1>3, <2>1, <2>2, Enters
<1>4. CASE Going
  <2>1. SourcesInv
    BY <1>4 DEF Going
  <2>2. ASSUME "--c-source" \in opts.ext PROVE "c" \in objects' \/ Named(Left', {"c_sources"})
    BY <1>4, <2>1, <2>2, ObjectSteps, Remains DEF SourcesInv
  <2>3. ASSUME "--cxx-source" \in opts.ext PROVE "cxx" \in objects' \/ Named(Left', {"cxx_sources"})
    BY <1>4, <2>1, <2>3, ObjectSteps, Remains DEF SourcesInv
  <2>. QED
    BY <1>1, <2>2, <2>3 DEF SourcesInv
<1>. QED
  BY <1>1, <1>2, <1>3, <1>4

\* The runtime is among the objects of a library when they are archived: what
\* llvm-ar reported is looked at after the working directory is back.
LEMMA RuntimeStill ==
  ASSUME ProductsApart, ControlInv, DriverNext, exit = None, exit' = None, Native', Inside(Left'),
         Inside(Left) => RuntimeInv
  PROVE  RuntimeInv'
<1>1. /\ Native /\ Units' = Units /\ UNCHANGED <<args, parse, env, opts>>
      /\ UNCHANGED driverVars \/ (Chooses /\ UNCHANGED <<units, objects, disk, child>>) \/ Going
  BY Progress
<1>. SUFFICES ASSUME opts.crateType = "staticlib"
              PROVE  /\ Named(Left', {"extract"}) => Named(Left', {"extracted"})
                     /\ \/ "runtime" \in objects' \/ Named(Left', {"extract"})
                        \/ child' = "failed" /\ Named(Left', {"extracted"})
  BY <1>1 DEF RuntimeInv
<1>2. CASE UNCHANGED driverVars
  <2>1. Left' = Left /\ objects' = objects /\ child' = child
    BY <1>2 DEF driverVars, run, Left
  <2>. QED
    BY <1>1, <2>1 DEF RuntimeInv
<1>3. CASE Chooses
  <2>1. Left' = NamesOf(LibraryNames)
    BY <1>1, <1>3, Enters
  <2>2. /\ Call("extract", None) \in Left' /\ Call("extracted", None) \in Left'
        /\ Call("extract", None).call = "extract" /\ Call("extracted", None).call = "extracted"
    BY <2>1, NameSets DEF NamesOf, Call
  <2>. QED
    BY <2>2 DEF Named
<1>4. CASE Going
  <2>1. RuntimeInv
    BY <1>4 DEF Going
  <2>2. /\ Named(Left, {"extract"}) => Named(Left, {"extracted"})
        /\ \/ "runtime" \in objects \/ Named(Left, {"extract"})
           \/ child = "failed" /\ Named(Left, {"extracted"})
    BY <2>1 DEF RuntimeInv
  <2>3. Named(Left', {"extract"}) => Named(Left, {"extract"}) /\ Now.call # "extract"
    <3>1. {"extract"} \cap UnitCalls = {} /\ "extract" \notin UnitCalls \cup Loops
      BY DEF UnitCalls, Loops
    <3>. QED
      BY <1>4, <3>1, Remains
  <2>4. CASE Now.call = "extract"
    <3>1. Named(Left, {"extract"})
      BY <1>4, <2>4, NowLeft DEF Going
    <3>2. Named(Left', {"extracted"})
      BY <1>4, <2>2, <2>4, <3>1, Remains
    <3>3. env.members
      BY DEF ProductsApart, ControlInv, OptionsKept
    <3>. QED
      BY <1>4, <2>4, <3>2, <3>3, ObjectSteps
  <2>5. CASE Now.call = "extracted"
    <3>1. ~Named(Left, {"extract"})
      <4>1. Rank("extract") = 2 /\ Rank("extracted") = 3
        BY DEF Rank, UnitCalls, Links
      <4>2. ASSUME NEW x \in Left, x.call = "extract" PROVE FALSE
        BY <1>4, <2>5, <4>1, <4>2, Remains
      <4>. QED
        BY <4>2 DEF Named
    <3>2. child # "failed"
      <4>1. checkExtracted /\ ~Failing'
        BY <1>4, <2>5, Acts DEF Going
      <4>. QED
        BY <4>1 DEF checkExtracted, Fail, Failing
    <3>. QED
      BY <1>4, <2>2, <2>3, <3>1, <3>2, ObjectSteps
  <2>6. CASE Now.call \notin {"extract", "extracted"}
    <3>1. child' = child
      BY <1>4, <2>6 DEF Going, Untouched
    <3>2. /\ Named(Left, {"extract"}) => Named(Left', {"extract"})
          /\ Named(Left, {"extracted"}) => Named(Left', {"extracted"})
      BY <1>4, <2>6, Remains
    <3>. QED
      BY <1>4, <2>2, <2>3, <3>1, <3>2, ObjectSteps
  <2>. QED
    BY <2>4, <2>5, <2>6
<1>. QED
  BY <1>1, <1>2, <1>3, <1>4

\* The object of the first input has a name (objectPathFor).
LEMMA ObjectNamed ==
  ASSUME OptionsKept, Native
  PROVE  Head(inputs(opts)) \in DOMAIN ObjectPath
<1>1. /\ inputs(opts) = inputs(parse.options)
      /\ \A u \in ToSet(inputs(parse.options)) : u \in DOMAIN ObjectPath
  BY DriverAssumption DEF OptionsKept, inputs
<1>2. inputs(opts) \in Seq(ToSet(inputs(opts))) /\ inputs(opts) # << >>
  BY LoopRanges DEF Native
<1>. QED
  BY <1>1, <1>2 DEF ToSet

\* The path of the product is one of the run's, and not the PDB's.
LEMMA ProductPath ==
  ASSUME OptionsKept, Native
  PROVE  outputPath(opts) \in Paths /\ (ProductsApart => outputPath(opts) # "pdb")
<1>1. ReadFrom(opts, args) /\ args \in Builds
  BY DEF OptionsKept
<1>2. CASE opts.output # Absent
  <2>1. PICK i \in DOMAIN args : opts.output = args[i]
    BY <1>1, <1>2 DEF ReadFrom, ToSet
  <2>. QED
    BY <1>1, <1>2, <2>1 DEF outputPath, Paths, ProductsApart
<1>3. CASE opts.output = Absent /\ opts.crateType = "object"
  BY <1>3, ObjectNamed DEF outputPath, Paths, ProductsApart
<1>4. CASE opts.output = Absent /\ opts.crateType \in {"bin", "staticlib"}
  BY <1>4 DEF outputPath, executableDefault, Paths
<1>. QED
  BY <1>1, <1>2, <1>3, <1>4 DEF ReadFrom

\* When the product of an executable or a library is made, all that goes into
\* it is there.
LEMMA AllThere ==
  ASSUME ControlInv, ObjectsInv, SourcesInv, RuntimeInv, todo # << >>,
         opts.crateType # "object", Rank(Now.call) = 4
  PROVE  /\ Units \subseteq objects
         /\ "--c-source" \in opts.ext => "c" \in objects
         /\ "--cxx-source" \in opts.ext => "cxx" \in objects
         /\ opts.crateType = "staticlib" => "runtime" \in objects
<1>1. \A x \in Left : 4 <= Rank(x.call)
  BY First
<1>2. \A c \in {"emit", "each_emit", "each_unit", "emit_modules", "c_sources", "cxx_sources", "extract", "extracted"} :
        Rank(c) \in 0 .. 3
  BY DEF Rank, UnitCalls, Links
<1>3. ASSUME NEW x \in Left
      PROVE  x.call \notin {"emit", "each_emit", "each_unit", "emit_modules", "c_sources", "cxx_sources", "extract", "extracted"}
  <2>1. Rank(x.call) \notin 0 .. 3
    BY <1>1
  <2>. QED
    BY <1>2, <2>1
<1>4. ASSUME NEW u \in Units PROVE u \in objects
  <2>1. Call("emit", u) \notin Left
    BY <1>3 DEF Call
  <2>2. ~Ahead(Left, u, {"each_emit", "each_unit", "emit_modules"})
    BY <1>3 DEF Ahead
  <2>. QED
    BY <2>1, <2>2 DEF ObjectsInv
<1>5. ~Named(Left, {"c_sources"}) /\ ~Named(Left, {"cxx_sources"}) /\ ~Named(Left, {"extract"}) /\ ~Named(Left, {"extracted"})
  BY <1>3 DEF Named
<1>. QED
  BY <1>4, <1>5 DEF SourcesInv, RuntimeInv

\* What the calls that make the product leave at its path, and what becomes of
\* the PDB.
LEMMA DiskWrites ==
  ASSUME ProductsApart, ControlInv, MetricsInv, DriverNext, exit = None, exit' = None, Going,
         ObjectsInv, SourcesInv, RuntimeInv
  PROVE  LET path == outputPath(opts) IN
         /\ Now.call \in Makers(opts.crateType) \ {"emit_input"} => Whole(disk'[path])
         /\ Now.call \notin Makers(opts.crateType) => disk'[path] = disk[path]
         /\ Now.call \notin Links \cup Removes => disk'["pdb"] = disk["pdb"]
         /\ emitWindowsPdb /\ Now.call \in Removes => disk'["pdb"].what = "nothing"
         /\ emitWindowsPdb /\ Now.call \in Links => disk'["pdb"] \in {disk["pdb"], disk'[path]}
<1>. DEFINE path == outputPath(opts)
<1>1. /\ Native /\ Inside(Left) /\ todo # << >> /\ ~Failing' /\ UNCHANGED <<args, parse, env, opts>> /\ Untouched
      /\ OptionsKept
  BY DEF Going, ControlInv
<1>2. \A stage : ~Fail(stage)
  BY <1>1 DEF Fail, Failing
<1>3. path \in Paths /\ path # "pdb" /\ "pdb" \in Paths /\ DOMAIN disk = Paths
  BY <1>1, ProductPath DEF Paths, MetricsInv
<1>4. opts.crateType \in {"bin", "object", "staticlib"}
  BY <1>1 DEF OptionsKept, ReadFrom
<1>5. CASE Now.call \in Links
  <2>1. opts.crateType = "bin"
    BY <1>1, <1>5, NowLeft DEF ControlInv, Belong, BinCalls
  <2>2. LinkExecutable \/ LinkMixedExecutable
    BY <1>5, Acts DEF Links
  <2>3. LET written == [what |-> "executable", parts |-> linkedParts] IN
          \/ disk' = [disk EXCEPT ![path] = written]
          \/ emitWindowsPdb /\ disk' = [disk EXCEPT ![path] = written, !["pdb"] = written]
    BY <1>2, <2>2 DEF LinkExecutable, LinkMixedExecutable, Link
  <2>4. Rank(Now.call) = 4
    BY <1>5 DEF Rank, UnitCalls, Links
  <2>5. objects \subseteq linkedParts /\ "runtime" \in linkedParts
    BY DEF linkedParts
  <2>6. Whole([what |-> "executable", parts |-> linkedParts])
    BY <1>1, <2>1, <2>4, <2>5, AllThere DEF Whole
  <2>7. /\ disk'[path] = [what |-> "executable", parts |-> linkedParts]
        /\ disk'["pdb"] \in {disk["pdb"], disk'[path]}
    BY <1>3, <2>3
  <2>8. Now.call \in Makers(opts.crateType) /\ Now.call \notin Removes
    BY <1>5, <2>1 DEF Makers, Links, Removes
  <2>. QED
    BY <1>5, <2>6, <2>7, <2>8
<1>6. CASE Now.call \in Removes
  <2>1. Now.call \notin Makers(opts.crateType) /\ Now.call \notin Links
    BY <1>4, <1>6 DEF Makers, Links, Removes
  <2>2. removePdb
    BY <1>6, Acts DEF Removes
  <2>3. disk' = IF emitWindowsPdb THEN [disk EXCEPT !["pdb"] = [what |-> "nothing", parts |-> {}]] ELSE disk
    BY <1>2, <2>2 DEF removePdb
  <2>. QED
    BY <1>3, <1>6, <2>1, <2>3
<1>7. CASE Now.call = "copy_archive"
  <2>1. opts.crateType = "staticlib"
    BY <1>1, <1>7, NowLeft DEF ControlInv, Belong
  <2>2. copyArchive
    BY <1>7, Acts
  <2>3. disk' = [disk EXCEPT ![path] = [what |-> "archive", parts |-> objects]]
    BY <1>2, <2>2 DEF copyArchive
  <2>4. Rank(Now.call) = 4
    BY <1>7 DEF Rank, UnitCalls, Links
  <2>5. Whole([what |-> "archive", parts |-> objects])
    BY <1>1, <2>1, <2>4, AllThere DEF Whole
  <2>6. disk'[path] = [what |-> "archive", parts |-> objects] /\ disk'["pdb"] = disk["pdb"]
    BY <1>3, <2>3
  <2>7. Now.call \in Makers(opts.crateType) /\ Now.call \notin Links \cup Removes
    BY <1>7, <2>1 DEF Makers, Links, Removes
  <2>. QED
    BY <1>7, <2>5, <2>6, <2>7
<1>8. CASE Now.call = "emit" /\ opts.crateType = "object"
  <2>1. emitObjectFile
    BY <1>8, Acts
  <2>2. disk' = [disk EXCEPT ![path] = [what |-> "object", parts |-> objects \cup {Now.of}]]
    BY <1>2, <1>8, <2>1 DEF emitObjectFile, Now
  <2>3. Now \in Left /\ Now.of = inputs(opts)[1] /\ ToSet(requiredModules(opts)) \subseteq objects
    <3>1. Now \in Left /\ Named(Left, Emits)
      BY <1>1, <1>8, NowLeft DEF Emits
    <3>2. ~Named(Left, {"merge"})
      <4>1. Rank("merge") = 1 /\ "merge" \notin Emits
        BY DEF Rank, UnitCalls, Links, Emits
      <4>2. ASSUME NEW x \in Left, x.call = "merge" PROVE FALSE
        BY <1>8, <3>1, <4>1, <4>2 DEF ObjectsInv
      <4>. QED
        BY <4>2 DEF Named
    <3>. QED
      BY <1>8, <3>1, <3>2 DEF ObjectsInv
  <2>4. Units \subseteq objects \cup {Now.of}
    <3>1. ToSet(inputs(opts)) \cup ToSet(requiredModules(opts)) = Units /\ inputs(opts) \in Seq(ToSet(inputs(opts)))
      BY <1>1, LoopRanges
    <3>2. Len(opts.inputs) = 1
      BY <1>1, <1>8 DEF ControlInv, Belong, Granted, Native
    <3>3. ToSet(inputs(opts)) = {inputs(opts)[1]}
      BY <1>1, <3>1, <3>2 DEF ToSet, inputs, OptionsKept, ReadFrom
    <3>. QED
      BY <2>3, <3>1, <3>3
  <2>5. Whole([what |-> "object", parts |-> objects \cup {Now.of}])
    BY <1>1, <1>8, <2>4, SourcesInBin DEF Whole
  <2>6. disk'[path] = [what |-> "object", parts |-> objects \cup {Now.of}] /\ disk'["pdb"] = disk["pdb"]
    BY <1>3, <2>2
  <2>7. Now.call \in Makers(opts.crateType) /\ Now.call \notin Links \cup Removes
    BY <1>8 DEF Makers, Links, Removes
  <2>. QED
    BY <1>8, <2>5, <2>6, <2>7
<1>9. CASE ~(Now.call \in Links \cup Removes \cup {"copy_archive"}) /\ ~(Now.call = "emit" /\ opts.crateType = "object")
  <2>1. disk' = disk
    <3>1. CASE Now.call = "emit"
      <4>1. emitObjectFile
        BY <3>1, Acts
      <4>. QED
        BY <1>2, <1>9, <3>1, <4>1 DEF emitObjectFile
    <3>2. Now.call \notin {"remarks", "--preprocess-only"}
      BY <1>1, Remains DEF Going, Outside, ActionCalls
    <3>3. Now.call # "write_ir"
      BY <1>1, NowLeft DEF ControlInv, Belong, Native
    <3>. QED
      BY <1>1, <1>9, <3>1, <3>2, <3>3 DEF Untouched, DiskCalls, Removes
  <2>2. Now.call \notin Makers(opts.crateType) \ {"emit_input"}
    BY <1>4, <1>9 DEF Makers, Removes, Links
  <2>. QED
    BY <1>9, <2>1, <2>2
<1>. QED
  BY <1>5, <1>6, <1>7, <1>8, <1>9

\* The product is whole once nothing that makes it remains to be called.
LEMMA ProductStill ==
  ASSUME ProductsApart, ControlInv, MetricsInv, DriverNext, exit = None, exit' = None, Native', Inside(Left'),
         Inside(Left) => ObjectsInv /\ SourcesInv /\ RuntimeInv /\ ProductInv
  PROVE  ProductInv'
<1>1. /\ Native /\ Units' = Units /\ UNCHANGED <<args, parse, env, opts>>
      /\ UNCHANGED driverVars \/ (Chooses /\ UNCHANGED <<units, objects, disk, child>>) \/ Going
  BY Progress
<1>2. outputPath(opts)' = outputPath(opts) /\ Makers(opts.crateType)' = Makers(opts.crateType)
  BY <1>1 DEF outputPath, executableDefault, inputs, Makers
<1>3. opts.crateType \in {"bin", "object", "staticlib"}
  BY DEF ControlInv, OptionsKept, ReadFrom
<1>4. CASE UNCHANGED driverVars
  <2>1. Left' = Left /\ disk' = disk
    BY <1>4 DEF driverVars, run, Left
  <2>2. Inside(Left)
    BY <2>1
  <2>. QED
    BY <1>1, <1>2, <2>1, <2>2 DEF ProductInv, Whole
<1>5. CASE Chooses
  <2>1. ASSUME NEW s, NEW n \in ToSet(s), Left' = NamesOf(s), n \in Makers(opts.crateType) PROVE ProductInv'
    <3>1. Call(n, None) \in Left' /\ Call(n, None).call = n
      BY <2>1 DEF NamesOf, Call
    <3>. QED
      BY <1>2, <2>1, <3>1 DEF ProductInv, Named
  <2>2. /\ opts.crateType = "object" => "emit_input" \in Makers(opts.crateType)
        /\ opts.crateType = "staticlib" => "copy_archive" \in Makers(opts.crateType)
        /\ opts.crateType = "bin" => {"link", "mixed_link"} \subseteq Makers(opts.crateType)
    BY DEF Makers, Links
  <2>. QED
    BY <1>1, <1>5, <2>1, <2>2, Enters, NameSets
<1>6. CASE Going
  <2>1. ObjectsInv /\ SourcesInv /\ RuntimeInv /\ ProductInv
    BY <1>6 DEF Going
  <2>2. CASE Now.call \in Makers(opts.crateType) \ {"emit_input"}
    <3>1. Whole(disk'[outputPath(opts)])
      BY <1>6, <2>1, <2>2, DiskWrites
    <3>. QED
      BY <1>1, <1>2, <3>1 DEF ProductInv, Whole
  <2>3. CASE Now.call = "emit_input"
    <3>1. opts.crateType = "object"
      BY <1>6, <2>3, NowLeft DEF ControlInv, Belong, Going
    <3>2. Loop
      BY <1>6, <2>3, LoopCalls DEF Going, Aborts
    <3>3. Call("emit", inputs(opts)[1]) \in Left'
      BY <2>3, <3>2, Turning
    <3>4. Call("emit", inputs(opts)[1]).call = "emit" /\ "emit" \in Makers(opts.crateType)
      BY <3>1 DEF Call, Makers
    <3>. QED
      BY <1>2, <3>3, <3>4 DEF ProductInv, Named
  <2>4. CASE Now.call \notin Makers(opts.crateType)
    <3>1. disk'[outputPath(opts)] = disk[outputPath(opts)]
      BY <1>6, <2>1, <2>4, DiskWrites
    <3>2. CASE Named(Left, Makers(opts.crateType))
      BY <1>2, <1>6, <2>4, <3>2, Remains DEF ProductInv
    <3>3. CASE Whole(disk[outputPath(opts)])
      BY <1>1, <1>2, <3>1, <3>3 DEF ProductInv, Whole
    <3>. QED
      BY <2>1, <3>2, <3>3 DEF ProductInv
  <2>. QED
    BY <2>2, <2>3, <2>4
<1>. QED
  BY <1>1, <1>4, <1>5, <1>6

\* The PDB beside the executable is never the one of an earlier build.
LEMMA PdbStill ==
  ASSUME ProductsApart, ControlInv, MetricsInv, DriverNext, exit = None, exit' = None, Native', Inside(Left'),
         Inside(Left) => ObjectsInv /\ SourcesInv /\ RuntimeInv /\ PdbInv
  PROVE  PdbInv'
<1>1. /\ Native /\ Units' = Units /\ UNCHANGED <<args, parse, env, opts>>
      /\ UNCHANGED driverVars \/ (Chooses /\ UNCHANGED <<units, objects, disk, child>>) \/ Going
  BY Progress
<1>2. outputPath(opts)' = outputPath(opts) /\ emitWindowsPdb' = emitWindowsPdb
  BY <1>1 DEF outputPath, executableDefault, inputs, emitWindowsPdb
<1>. SUFFICES ASSUME emitWindowsPdb, opts.crateType = "bin"
              PROVE  \/ /\ Named(Left', Links) /\ Named(Left', {"check_pdb"})
                        /\ ~(Named(Left', {"link"}) /\ Named(Left', {"mixed_link"}))
                        /\ Named(Left', Removes) \/ disk'["pdb"].what = "nothing"
                     \/ /\ ~Named(Left', Links) /\ ~Named(Left', Removes)
                        /\ \/ Named(Left', {"check_pdb"}) /\ disk'["pdb"].what = "nothing"
                           \/ disk'["pdb"] = disk'[outputPath(opts)]
  BY <1>1, <1>2 DEF PdbInv
<1>4. CASE UNCHANGED driverVars
  <2>1. Left' = Left /\ disk' = disk
    BY <1>4 DEF driverVars, run, Left
  <2>2. PdbInv
    BY <2>1
  <2>. QED
    BY <2>1, <2>2 DEF PdbInv
<1>5. CASE Chooses
  <2>1. ASSUME NEW s, NEW n \in Links, NEW m \in Links, n # m, NEW r \in Removes, Left' = NamesOf(s),
               n \in ToSet(s), r \in ToSet(s), "check_pdb" \in ToSet(s), m \notin ToSet(s)
        PROVE  /\ Named(Left', Links) /\ Named(Left', {"check_pdb"}) /\ Named(Left', Removes)
               /\ ~Named(Left', {m})
    <3>1. /\ Call(n, None) \in Left' /\ Call(r, None) \in Left' /\ Call("check_pdb", None) \in Left'
          /\ Call(n, None).call = n /\ Call(r, None).call = r /\ Call("check_pdb", None).call = "check_pdb"
      BY <2>1 DEF NamesOf, Call
    <3>2. \A x \in Left' : x.call \in ToSet(s)
      BY <2>1 DEF NamesOf, Call
    <3>3. ASSUME NEW x \in Left', x.call = m PROVE FALSE
      BY <2>1, <3>2, <3>3
    <3>. QED
      BY <3>1, <3>3 DEF Named
  <2>2. Left' = NamesOf(ExecutableNames) \/ Left' = NamesOf(MixedNames)
    BY <1>1, <1>5, Enters
  <2>3. CASE Left' = NamesOf(ExecutableNames)
    <3>1. "link" \in Links /\ "mixed_link" \in Links /\ "remove_pdb" \in Removes
      BY DEF Links, Removes
    <3>. QED
      BY <2>1, <2>3, <3>1, NameSets
  <2>4. CASE Left' = NamesOf(MixedNames)
    <3>1. "link" \in Links /\ "mixed_link" \in Links /\ "remove_mixed_pdb" \in Removes
      BY DEF Links, Removes
    <3>2. /\ {"mixed_link", "remove_mixed_pdb", "check_pdb"} \subseteq ToSet(MixedNames)
          /\ "link" \notin ToSet(MixedNames)
      BY NameSets
    <3>. QED
      BY <2>1, <2>4, <3>1, <3>2
  <2>. QED
    BY <2>2, <2>3, <2>4
<1>6. CASE Going
  <2>1. ObjectsInv /\ SourcesInv /\ RuntimeInv /\ PdbInv
    BY <1>6 DEF Going
  <2>2. Makers(opts.crateType) = Links
    BY DEF Makers
  <2>3. \A X : X \cap UnitCalls = {} /\ Named(Left', X) => Named(Left, X)
    BY <1>6, Remains
  <2>4. /\ Named(Left', Links) => Named(Left, Links)
        /\ Named(Left', Removes) => Named(Left, Removes)
        /\ Named(Left', {"link"}) => Named(Left, {"link"})
        /\ Named(Left', {"mixed_link"}) => Named(Left, {"mixed_link"})
    <3>1. Links \cap UnitCalls = {} /\ Removes \cap UnitCalls = {} /\ {"link"} \cap UnitCalls = {} /\ {"mixed_link"} \cap UnitCalls = {}
      BY DEF Links, Removes, UnitCalls
    <3>. QED
      BY <2>3, <3>1
  <2>5. Now.call \notin UnitCalls \cup Loops => ~Named(Left', {Now.call})
    BY <1>6, Remains
  <2>6. \A X : Now.call \in X => Named(Left, X)
    BY <1>6, NowLeft DEF Going
  <2>7. CASE Now.call \in Removes
    <3>1. disk'["pdb"].what = "nothing"
      BY <1>6, <2>1, <2>7, DiskWrites
    <3>2. Now.call \notin Links /\ Now.call # "check_pdb" /\ Named(Left, Removes)
      BY <2>6, <2>7 DEF Removes, Links
    <3>3. Named(Left, Links) /\ Named(Left, {"check_pdb"}) /\ ~(Named(Left, {"link"}) /\ Named(Left, {"mixed_link"}))
      BY <2>1, <3>2 DEF PdbInv
    <3>4. Named(Left', Links) /\ Named(Left', {"check_pdb"})
      BY <1>6, <3>2, <3>3, Remains
    <3>. QED
      BY <2>4, <3>1, <3>3, <3>4
  <2>8. CASE Now.call \in Links
    <3>1. Named(Left, Links)
      BY <2>6, <2>8
    <3>2. ~Named(Left, Removes)
      <4>1. Rank(Now.call) = 4 /\ \A r \in Removes : Rank(r) \in 0 .. 3
        BY <2>8 DEF Rank, UnitCalls, Links, Removes
      <4>2. ASSUME NEW x \in Left, x.call \in Removes PROVE FALSE
        <5>1. 4 <= Rank(x.call)
          BY <1>6, <4>1, Remains
        <5>. QED
          BY <4>1, <4>2, <5>1
      <4>. QED
        BY <4>2 DEF Named
    <3>3. /\ disk["pdb"].what = "nothing" /\ Named(Left, {"check_pdb"})
          /\ ~(Named(Left, {"link"}) /\ Named(Left, {"mixed_link"}))
      BY <2>1, <3>1, <3>2 DEF PdbInv
    <3>4. ~Named(Left', Links)
      <4>1. Named(Left, {Now.call}) /\ ~Named(Left', {Now.call})
        <5>1. Now.call \notin UnitCalls \cup Loops
          BY <2>8 DEF Links, UnitCalls, Loops
        <5>. QED
          BY <2>5, <2>6, <5>1
      <4>2. ~Named(Left', {"link"}) /\ ~Named(Left', {"mixed_link"})
        BY <2>4, <2>8, <3>3, <4>1 DEF Links
      <4>. QED
        BY <4>2 DEF Named, Links
    <3>5. Named(Left', {"check_pdb"})
      BY <1>6, <2>8, <3>3, Remains DEF Links
    <3>6. disk'["pdb"] \in {disk["pdb"], disk'[outputPath(opts)]}
      BY <1>6, <2>1, <2>8, DiskWrites
    <3>. QED
      BY <2>4, <3>2, <3>3, <3>4, <3>5, <3>6
  <2>9. CASE Now.call \notin Links \cup Removes
    <3>1. disk'["pdb"] = disk["pdb"] /\ disk'[outputPath(opts)] = disk[outputPath(opts)]
      BY <1>6, <2>1, <2>2, <2>9, DiskWrites
    <3>2. \/ /\ Named(Left, Links) /\ Named(Left, {"check_pdb"})
             /\ ~(Named(Left, {"link"}) /\ Named(Left, {"mixed_link"}))
             /\ Named(Left, Removes) \/ disk["pdb"].what = "nothing"
          \/ /\ ~Named(Left, Links) /\ ~Named(Left, Removes)
             /\ \/ Named(Left, {"check_pdb"}) /\ disk["pdb"].what = "nothing"
                \/ disk["pdb"] = disk[outputPath(opts)]
      BY <2>1 DEF PdbInv
    <3>3. /\ Named(Left, Links) => Named(Left', Links)
          /\ Named(Left, Removes) => Named(Left', Removes)
          /\ Now.call # "check_pdb" /\ Named(Left, {"check_pdb"}) => Named(Left', {"check_pdb"})
      BY <1>6, <2>9, Remains
    <3>4. CASE Now.call = "check_pdb"
      <4>1. ~Named(Left, Links)
        <5>1. Rank(Now.call) = 6 /\ \A r \in Links : Rank(r) = 4
          BY <3>4 DEF Rank, UnitCalls, Links
        <5>2. ASSUME NEW x \in Left, x.call \in Links PROVE FALSE
          <6>1. 6 <= Rank(x.call)
            BY <1>6, <5>1, Remains
          <6>. QED
            BY <5>1, <5>2, <6>1
        <5>. QED
          BY <5>2 DEF Named
      <4>2. disk["pdb"].what # "nothing"
        <5>1. checkPdb /\ ~Failing'
          BY <1>6, <3>4, Acts DEF Going
        <5>. QED
          BY <5>1 DEF checkPdb, Fail, Failing
      <4>. QED
        BY <2>4, <3>1, <3>2, <4>1, <4>2
    <3>. QED
      BY <2>4, <3>1, <3>2, <3>3, <3>4
  <2>. QED
    BY <2>7, <2>8, <2>9
<1>. QED
  BY <1>1, <1>4, <1>5, <1>6

\* The check of --timing-json comes before the product is made.
LEMMA TimingStill ==
  ASSUME ProductsApart, ControlInv, TimingApart, DriverNext, exit = None, exit' = None
  PROVE  TimingApart'
<1>. SUFFICES ASSUME Native', ~Named(Left', {"command_line", "timing_path"}), ~Failing'
              PROVE  (opts.timingJson = None \/ opts.timingJson # outputPath(opts))'
  BY DEF TimingApart
<1>1. UNCHANGED driverVars \/ (OptionsStep /\ UNCHANGED <<args, parse, env>> /\ (Pops \/ Chooses \/ Loop))
  BY Steps DEF ControlInv, Ends, Aborts, None
<1>2. CASE UNCHANGED driverVars
  <2>1. /\ Left' = Left /\ Native /\ opts' = opts /\ outputPath(opts)' = outputPath(opts) /\ ~Failing
    BY <1>2 DEF driverVars, run, parserVars, Left, Native, outputPath, executableDefault, inputs, Failing
  <2>2. ~Named(Left, {"command_line", "timing_path"})
    BY <2>1
  <2>. QED
    BY <2>1, <2>2 DEF TimingApart
<1>3. CASE OptionsStep /\ UNCHANGED <<args, parse, env>> /\ (Pops \/ Chooses \/ Loop)
  <2>1. /\ opts'.inputs = opts.inputs /\ opts'.crateType = opts.crateType /\ opts'.actions = opts.actions
        /\ opts'.output = opts.output /\ OptionsKept
    BY <1>3, OptionsStepKeeps DEF ControlInv
  <2>2. opts'.timingJson = opts.timingJson
    BY <1>3, <2>1 DEF OptionsStep, OptionsKept, ReadFrom, DefaultOptions
  <2>3. Native /\ outputPath(opts)' = outputPath(opts)
    BY <1>3, <2>1 DEF Native, outputPath, executableDefault, inputs, Outcome
  <2>. SUFFICES opts.timingJson = None \/ opts.timingJson # outputPath(opts)
    BY <2>2, <2>3
  <2>4. todo # << >> /\ Now \in Left /\ ~Failing
    BY <1>3, After, NowLeft DEF Pops, Chooses, Loop, Turns, Replaced, Running
  <2>5. CASE Now.call = "timing_path"
    <3>1. CheckTimingPath /\ ~Failing'
      BY <2>5, Acts
    <3>. DEFINE path == opts.timingJson
                conflict == \/ opts.output # Absent /\ opts.output.val = path
                            \/ opts.remarks = path
                            \/ opts.output = Absent /\ opts.actions = {} /\ selectedOutputPath(opts) = path
    <3>2. path = None \/ ~conflict
      BY <3>1 DEF CheckTimingPath, Fail, Failing
    <3>3. CASE opts.output = Absent /\ opts.crateType = "object"
      <4>1. outputPath(opts) = ObjectPath[Head(inputs(opts))] /\ Head(inputs(opts)) \in DOMAIN ObjectPath
        BY <2>1, <2>3, <3>3, ObjectNamed DEF outputPath
      <4>. QED
        BY <2>1, <4>1 DEF ProductsApart, OptionsKept
    <3>4. CASE opts.output # Absent
      BY <3>2, <3>4 DEF outputPath
    <3>5. CASE opts.output = Absent /\ opts.crateType \in {"bin", "staticlib"}
      <4>1. opts.actions = {}
        BY <2>3 DEF Native
      <4>. QED
        BY <3>2, <3>5, <4>1 DEF outputPath, selectedOutputPath
    <3>. QED
      BY <2>1, <3>3, <3>4, <3>5 DEF OptionsKept, ReadFrom
  <2>6. CASE Now.call = "command_line"
    <3>1. Chooses
      <4>1. Now.call \in Final /\ Now.call \notin Loops \cup {"emit_input"}
        BY <2>6 DEF Final, Loops
      <4>. QED
        BY <1>3, <4>1, Looped DEF Pops
    <3>2. Replaced(Calls(<<"profile", "timing_path", "dispatch">>))
      BY <2>3, <2>6, <3>1 DEF Chooses, Native, ActionCalls
    <3>. DEFINE c == Calls(<<"profile", "timing_path", "dispatch">>)
                S == {Call("profile", None), Call("timing_path", None), Call("dispatch", None)} \cup CallsFor(Units)
    <3>3. c \in Seq(S) /\ Len(c) = 3 /\ c[2] = Call("timing_path", None) /\ Tail(todo) \in Seq(S)
      <4>1. c = <<Call("profile", None), Call("timing_path", None), Call("dispatch", None)>>
        BY DEF Calls
      <4>2. ASSUME NEW A, NEW x \in A, NEW y \in A, NEW z \in A
            PROVE  <<x, y, z>> \in Seq(A) /\ Len(<<x, y, z>>) = 3 /\ <<x, y, z>>[2] = y
        OBVIOUS
      <4>3. Tail(todo) \in Seq(CallsFor(Units))
        BY <2>4, NowLeft
      <4>4. ASSUME NEW A, NEW B, A \subseteq B, NEW s \in Seq(A) PROVE s \in Seq(B)
        BY <4>4
      <4>5. CallsFor(Units) \subseteq S /\ Call("profile", None) \in S /\ Call("timing_path", None) \in S /\ Call("dispatch", None) \in S
        OBVIOUS
      <4>. HIDE DEF S, c
      <4>6. c \in Seq(S) /\ Len(c) = 3 /\ c[2] = Call("timing_path", None)
        BY <4>1, <4>2, <4>5
      <4>. QED
        BY <4>3, <4>4, <4>5, <4>6
    <3>4. todo' = c \o Tail(todo)
      BY <3>2 DEF Replaced
    <3>. HIDE DEF c, S
    <3>5. ASSUME NEW t \in Seq(S) PROVE 2 \in DOMAIN (c \o t) /\ (c \o t)[2] = c[2]
      <4>1. /\ c \o t \in Seq(S) /\ Len(c \o t) = Len(c) + Len(t)
            /\ \A i \in 1 .. Len(c \o t) : (c \o t)[i] = IF i <= Len(c) THEN c[i] ELSE t[i - Len(c)]
        BY <3>3, Joined
      <4>2. Len(t) \in Nat /\ Len(c) = 3
        BY <3>3
      <4>3. 2 \in 1 .. Len(c \o t)
        BY <4>1, <4>2
      <4>4. DOMAIN (c \o t) = 1 .. Len(c \o t)
        BY <4>1
      <4>. QED
        BY <4>1, <4>2, <4>3, <4>4
    <3>6. Call("timing_path", None) \in Left' /\ Call("timing_path", None).call = "timing_path"
      BY <3>3, <3>4, <3>5 DEF Left, ToSet, Call
    <3>. QED
      BY <3>6 DEF Named
  <2>7. CASE Now.call \notin {"command_line", "timing_path"}
    <3>1. ~Named(Left, {"command_line", "timing_path"})
      <4>1. CASE Chooses
        BY <2>7, <4>1, Opened DEF Named
      <4>2. CASE Pops \/ Loop
        BY <2>7, <4>2, Moved DEF Named
      <4>. QED
        BY <1>3, <4>1, <4>2
    <3>. QED
      BY <2>3, <2>4, <3>1 DEF TimingApart
  <2>. QED
    BY <2>5, <2>6, <2>7
<1>. QED
  BY <1>1, <1>2, <1>3

\* Before its first call nothing of a run is done.
LEMMA WorkStarts == ASSUME DriverInit PROVE WorkInv
<1>1. todo = <<Call("command_line", None)>> /\ units = << >>
  BY DEF DriverInit
<1>2. Call("command_line", None) \in Left /\ Call("command_line", None).call = "command_line"
      /\ \A x \in Left : x.call = "command_line"
  BY <1>1 DEF Left, ToSet, Call
<1>3. Named(Left, {"command_line", "timing_path"}) /\ Named(Left, Outside)
  BY <1>2 DEF Named, Outside
<1>4. Fronted = {}
  BY <1>1 DEF Fronted
<1>5. ~Named(Left, UnitCalls \cup Loops \cup {"emit_input"})
  BY <1>2 DEF Named, UnitCalls, Loops
<1>. QED
  BY <1>2, <1>3, <1>4, <1>5 DEF WorkInv, UnitsBelong, TimingApart, Inside, UnitCalls

\* Every step keeps what is done towards the product, and what is to come.
LEMMA WorkStep ==
  ASSUME ProductsApart, ControlInv, MetricsInv, WorkInv, DriverNext, exit = None, exit' = None
  PROVE  WorkInv'
<1>1. UnitsBelong'
  BY UnitsStill DEF WorkInv
<1>2. TimingApart'
  BY TimingStill DEF WorkInv
<1>3. ASSUME Native', Inside(Left')
      PROVE  FrontInv' /\ ObjectsInv' /\ SourcesInv' /\ RuntimeInv' /\ ProductInv' /\ PdbInv'
  <2>1. Inside(Left) => FrontInv /\ ObjectsInv /\ SourcesInv /\ RuntimeInv /\ ProductInv /\ PdbInv
    BY <1>3, Progress DEF WorkInv
  <2>2. FrontInv'
    BY <1>3, <2>1, FrontStill
  <2>3. ObjectsInv'
    BY <1>3, <2>1, UnitObjects, MergedObject
  <2>4. SourcesInv'
    BY <1>3, <2>1, SourcesStill
  <2>5. RuntimeInv'
    BY <1>3, <2>1, RuntimeStill
  <2>6. ProductInv'
    BY <1>3, <2>1, ProductStill
  <2>7. PdbInv'
    BY <1>3, <2>1, PdbStill
  <2>. QED
    BY <2>2, <2>3, <2>4, <2>5, <2>6, <2>7
<1>. QED
  BY <1>1, <1>2, <1>3 DEF WorkInv

\* A run that reports success has nothing left to do.
LEMMA NothingLeft ==
  ASSUME ControlInv, todo # << >>, Now.call = "finish_success"
  PROVE  Inside(Left) /\ ~Named(Left, Links \cup Removes \cup {"copy_archive", "emit_input", "emit", "check_pdb",
                                                               "command_line", "timing_path"})
<1>1. Rank(Now.call) = 7
  BY DEF Rank, UnitCalls, Links
<1>2. \A x \in Left : 7 <= Rank(x.call)
  BY <1>1, First
<1>3. \A c \in (Outside \ {"finish_failure"}) \cup Links \cup Removes \cup
              {"copy_archive", "emit_input", "emit", "check_pdb", "command_line", "timing_path"} : Rank(c) \in 0 .. 6
  BY DEF Rank, UnitCalls, Links, Removes, Outside, ActionCalls
<1>4. ASSUME NEW x \in Left
      PROVE  x.call \notin (Outside \ {"finish_failure"}) \cup Links \cup Removes \cup
                           {"copy_archive", "emit_input", "emit", "check_pdb", "command_line", "timing_path"}
  <2>1. Rank(x.call) \notin 0 .. 6
    BY <1>2
  <2>. QED
    BY <1>3, <2>1
<1>5. ~Failing
  BY DEF Failing, Now, Call
<1>6. ~Named(Left, {"finish_failure"})
  BY <1>5 DEF ControlInv
<1>. QED
  BY <1>4, <1>6 DEF Inside, Named

\* What a run that reports success has made.
ProductDone == SuccessMeansProduct /\ RuntimePackaged

\* What is there when the run ends well is the product, and the record is not
\* written over it.
LEMMA ProductMade ==
  ASSUME ProductsApart, ControlInv, MetricsInv, WorkInv, DriverNext, exit = None, exit' # None
  PROVE  ProductDone'
<1>. SUFFICES ASSUME exit' = "success", Native'
              PROVE  /\ Whole(disk[outputPath(opts)])'
                     /\ (emitWindowsPdb /\ opts.crateType = "bin" => disk["pdb"] = disk[outputPath(opts)])'
  BY DEF ProductDone, SuccessMeansProduct, RuntimePackaged, Whole
<1>1. finish /\ todo # << >> /\ Now.call = "finish_success"
  <2>1. finish /\ todo # << >>
    BY LastStep
  <2>2. Now.call = "finish_success"
    BY <2>1 DEF finish, At, Now
  <2>. QED
    BY <2>1, <2>2
<1>2. /\ UNCHANGED <<args, parse, env, opts>>
      /\ disk' = disk \/ disk' = [disk EXCEPT ![opts.timingJson] = record(TRUE, None)]
      /\ opts.timingJson = None => disk' = disk
  BY <1>1 DEF finish, At, Now, parserVars
<1>3. /\ Native /\ Units' = Units /\ outputPath(opts)' = outputPath(opts) /\ emitWindowsPdb' = emitWindowsPdb
  BY <1>2 DEF Native, Outcome, Units, inputs, outputPath, executableDefault, emitWindowsPdb
<1>. DEFINE path == outputPath(opts)
<1>4. /\ Inside(Left) /\ ~Failing
      /\ ~Named(Left, Links \cup Removes \cup {"copy_archive", "emit_input", "emit", "check_pdb", "command_line", "timing_path"})
  BY <1>1, NothingLeft DEF Failing, Now, Call
<1>5. /\ ~Named(Left, {"command_line", "timing_path"}) /\ ~Named(Left, Links) /\ ~Named(Left, {"check_pdb"})
      /\ ~Named(Left, {"copy_archive"}) /\ ~Named(Left, {"emit_input", "emit"})
  BY <1>4 DEF Named
<1>6. OptionsKept /\ opts.crateType \in {"bin", "object", "staticlib"}
  BY DEF ControlInv, OptionsKept, ReadFrom
<1>7. Whole(disk[path])
  <2>1. ~Named(Left, Makers(opts.crateType))
    BY <1>5, <1>6 DEF Makers
  <2>. QED
    BY <1>3, <1>4, <2>1 DEF WorkInv, ProductInv
<1>8. emitWindowsPdb /\ opts.crateType = "bin" => disk["pdb"] = disk[path]
  BY <1>3, <1>4, <1>5 DEF WorkInv, PdbInv
<1>9. opts.timingJson = None \/ (opts.timingJson # path /\ opts.timingJson # "pdb")
  <2>1. opts.timingJson = None \/ opts.timingJson # path
    BY <1>3, <1>4, <1>5 DEF WorkInv, TimingApart
  <2>2. opts.timingJson \in {args[i].val : i \in DOMAIN args} \cup {None} /\ args \in Builds
    BY <1>6 DEF OptionsKept, ReadFrom
  <2>3. opts.timingJson = None \/ opts.timingJson # "pdb"
    BY <2>2 DEF ProductsApart
  <2>. QED
    BY <2>1, <2>3
<1>10. disk'[path] = disk[path] /\ disk'["pdb"] = disk["pdb"]
  <2>1. path \in DOMAIN disk /\ "pdb" \in DOMAIN disk
    BY <1>3, <1>6, ProductPath DEF MetricsInv, Paths
  <2>. QED
    BY <1>2, <1>9, <2>1
<1>. QED
  BY <1>2, <1>3, <1>7, <1>8, <1>10 DEF Whole

\* Only the calls that make the product write to its path.
LEMMA ProductWrites ==
  ASSUME ProductsApart, ControlInv, MetricsInv, DriverNext, exit = None, exit' = None, Native,
         disk'[outputPath(opts)] # disk[outputPath(opts)]
  PROVE  todo # << >> /\ (Rank(Now.call) = 4 \/ (Now.call = "emit" /\ opts.crateType = "object"))
<1>. DEFINE path == outputPath(opts)
<1>1. UNCHANGED driverVars \/ (Untouched /\ (Pops \/ Aborts \/ Chooses \/ Loop))
  BY Steps DEF ControlInv, Ends, None
<1>2. Untouched /\ todo # << >>
  BY <1>1 DEF driverVars, run, Pops, Aborts, Chooses, Loop, Turns, Replaced, Running
<1>3. Now.call \in DiskCalls
  BY <1>2 DEF Untouched
<1>4. path \in DOMAIN disk /\ path # "pdb"
  BY ProductPath DEF ControlInv, MetricsInv
<1>5. CASE Now.call = "remarks"
  <2>1. PrepareRemarks
    BY <1>5, Acts
  <2>. QED
    BY <1>4, <2>1 DEF PrepareRemarks
<1>6. CASE Now.call \in {"write_ir", "--preprocess-only"}
  BY <1>2, <1>6, NowLeft DEF ControlInv, Belong, ActionCalls, Native
<1>7. CASE Now.call \in Removes
  <2>1. removePdb
    BY <1>7, Acts DEF Removes
  <2>. QED
    BY <1>4, <2>1 DEF removePdb
<1>8. CASE Now.call = "emit"
  <2>1. emitObjectFile
    BY <1>8, Acts
  <2>. QED
    BY <1>2, <1>8, <2>1 DEF emitObjectFile
<1>9. CASE Now.call \in Links \cup {"copy_archive"}
  BY <1>2, <1>9 DEF Rank, UnitCalls, Links
<1>. QED
  BY <1>3, <1>5, <1>6, <1>7, <1>8, <1>9 DEF DiskCalls, Removes

\* When nothing of the front end remains to be called, every unit is through it.
LEMMA FrontDone ==
  ASSUME ControlInv, MetricsInv, UnitsBelong, FrontInv, todo # << >>, Now.call \notin StageCalls,
         Inside(Left), ~Named(Left, {"preprocess", "each_frontend", "each_unit", "source_modules"})
  PROVE  /\ Fronted = Units
         /\ \A i \in DOMAIN units : units[i].stages["llvm_emission"] = "completed"
<1>1. ASSUME NEW u \in Units PROVE u \in Fronted
  <2>1. Call("preprocess", u) \notin Left
    BY DEF Named, Call
  <2>2. ~Ahead(Left, u, {"each_frontend", "each_unit", "source_modules"})
    BY DEF Named, Ahead
  <2>. QED
    BY <2>1, <2>2 DEF FrontInv
<1>2. ~Failing
  <2>1. Failing => Now.call = "finish_failure"
    BY DEF Failing, Now, Call
  <2>. QED
    BY <2>1, NowLeft DEF Inside, Outside
<1>3. Reached(todo) = 5
  BY DEF Reached, Now, StageNumber, StageCalls
<1>4. units \in Seq(UnitRecords) /\ \A i \in DOMAIN units : i < Len(units) => UpTo(units[i], 5)
  BY DEF MetricsInv
<1>5. units # << >> => UpTo(units[Len(units)], 5)
  BY <1>2, <1>3 DEF MetricsInv
<1>6. ASSUME NEW i \in DOMAIN units PROVE UpTo(units[i], 5)
  <2>1. i < Len(units) \/ i = Len(units)
    BY <1>4
  <2>2. units # << >>
    BY <1>4
  <2>. QED
    BY <1>4, <1>5, <2>1, <2>2
<1>. QED
  BY <1>1, <1>6 DEF UnitsBelong, UpTo

\* The product is not touched before every unit is through the front end.
LEMMA ProductAfter ==
  ASSUME ProductsApart, ControlInv, MetricsInv, WorkInv, DriverNext, exit = None, exit' = None, Native,
         disk'[outputPath(opts)] # disk[outputPath(opts)]
  PROVE  /\ {units[i].input : i \in DOMAIN units} = Units
         /\ \A i \in DOMAIN units : units[i].stages["llvm_emission"] = "completed"
<1>. DEFINE Fore == {"preprocess", "each_frontend", "each_unit", "source_modules"}
<1>1. todo # << >> /\ (Rank(Now.call) = 4 \/ (Now.call = "emit" /\ opts.crateType = "object"))
  BY ProductWrites
<1>2. Inside(Left) /\ Now \in Left
  <2>1. CASE Rank(Now.call) = 4
    BY <1>1, <2>1, First, NowLeft
  <2>2. CASE Now.call = "emit"
    BY <1>1, <2>2, NowLeft DEF WorkInv, UnitsBelong, UnitCalls
  <2>. QED
    BY <1>1, <2>1, <2>2
<1>3. FrontInv /\ ObjectsInv /\ UnitsBelong
  BY <1>2 DEF WorkInv
<1>4. \A c \in Fore : Rank(c) \in 0 .. 1 /\ c \notin Emits
  BY DEF Rank, UnitCalls, Links, Emits
<1>5. ASSUME NEW x \in Left, x.call \in Fore PROVE FALSE
  <2>1. CASE Rank(Now.call) = 4
    <3>1. 4 <= Rank(x.call)
      BY <1>1, <2>1, First
    <3>. QED
      BY <1>4, <1>5, <3>1
  <2>2. CASE Now.call = "emit" /\ opts.crateType = "object"
    <3>1. Named(Left, Emits)
      BY <1>2, <2>2 DEF Named, Emits
    <3>2. x.call \in Emits \/ Rank(x.call) >= 4
      BY <1>3, <2>2, <3>1 DEF ObjectsInv
    <3>. QED
      BY <1>4, <1>5, <3>2
  <2>. QED
    BY <1>1, <2>1, <2>2
<1>6. Now.call \notin StageCalls
  BY <1>1 DEF Rank, UnitCalls, Links, StageCalls
<1>. QED
  BY <1>1, <1>2, <1>3, <1>5, <1>6, FrontDone DEF Named, Fronted

-----------------------------------------------------------------------------
(* The theorems.                                                           *)

\* What holds of a run of the driver; the other parts leave it idle.
RunInv == IF part = "build" THEN ControlInv /\ RecordInv /\ PlaceInv ELSE BuildIdle

\* It holds before the first call.
LEMMA RunStarts == ASSUME Init PROVE RunInv
<1>1. CASE part = "build"
  <2>1. DriverInit
    BY <1>1 DEF Init
  <2>. QED
    BY <1>1, <2>1, ControlStarts, RecordStarts, PlaceStarts DEF RunInv
<1>2. CASE part # "build"
  BY <1>2 DEF Init, RunInv
<1>. QED
  BY <1>1, <1>2

\* Each step of the driver keeps it, and the other parts of the system do not touch
\* the run.
LEMMA RunSteps == ASSUME RunInv, [Next]_mcVars PROVE RunInv'
<1>1. part' = part /\ (UNCHANGED run \/ part = "build")
  BY DEF Next, LineStep, PlanStep, BuildStep, CargoStep, QuoteStep, Finished, mcVars
<1>2. part = "build" => [DriverNext]_driverVars
  BY DEF Next, LineStep, PlanStep, BuildStep, CargoStep, QuoteStep, Finished, mcVars, driverVars
<1>3. CASE part = "build"
  BY <1>1, <1>2, <1>3, ControlStep, RecordStep, PlaceStep DEF RunInv
<1>4. CASE part # "build"
  BY <1>1, <1>4 DEF RunInv, BuildIdle, run
<1>. QED
  BY <1>3, <1>4

\* A run of hsc keeps to its calls, and its metrics to the run
\* (runHsc, CompilationMetrics).
THEOREM RunInvariance == Spec => []RunInv
<1>1. Init => RunInv
  BY RunStarts
<1>2. RunInv /\ [Next]_mcVars => RunInv'
  BY RunSteps
<1>. QED
  BY <1>1, <1>2, PTL DEF Spec

\* The timing record agrees with the exit code and names the stage that failed
\* (finishRun, CompilationMetrics::toJson), for every command line and
\* environment.
THEOREM RecordIsTrue == Spec => []RecordTellsOutcome
<1>1. RunInv => RecordTellsOutcome
  BY DEF RunInv, BuildIdle, RecordInv, RecordTellsOutcome
<1>. QED
  BY <1>1, RunInvariance, PTL

\* No temporary directory outlives the run, and a successful run is back where
\* it started (TemporaryDirectory, compileStaticLibrary).
THEOREM NothingIsLeft == Spec => []DriverTypeOK
<1>1. RunInv => DriverTypeOK
  <2>1. CASE part = "build"
    BY <2>1 DEF RunInv, PlaceInv, ControlInv, DriverTypeOK, Statuses, Tools
  <2>2. CASE part # "build"
    BY <2>2 DEF RunInv, BuildIdle, DriverTypeOK, None
  <2>. QED
    BY <2>1, <2>2
<1>. QED
  BY <1>1, RunInvariance, PTL

\* No child process is started from a tool that was not found
\* (resolveClang, resolveLlvmAr).
THEOREM ToolsAreFound == Spec => []ToolsAreResolved
<1>1. RunInv => ToolsAreResolved
  BY DEF RunInv, PlaceInv, BuildIdle, ToolsAreResolved
<1>. QED
  BY <1>1, RunInvariance, PTL

\* The product's part of the invariant, while hsc runs and after it.
ProductRun == part = "build" => IF exit = None THEN WorkInv ELSE ProductDone

\* A build of hsc makes the product step by step, and the record is not written
\* over it (runHsc, buildNativeArtifact).
THEOREM ProductInvariance ==
  ASSUME ProductsApart
  PROVE  Spec => []ProductRun
<1>1. Init => ProductRun
  BY WorkStarts DEF Init, ProductRun, DriverInit
<1>2. RunInv /\ ProductRun /\ [Next]_mcVars => ProductRun'
  <2>. SUFFICES ASSUME RunInv, ProductRun, [Next]_mcVars, part' = "build" PROVE ProductRun'
    BY DEF ProductRun
  <2>1. part = "build" /\ [DriverNext]_driverVars
    BY DEF Next, LineStep, PlanStep, BuildStep, CargoStep, QuoteStep, Finished, mcVars, driverVars
  <2>2. ControlInv /\ (exit = None => MetricsInv /\ WorkInv) /\ (exit # None => ProductDone)
    BY <2>1 DEF RunInv, RecordInv, ProductRun
  <2>3. CASE UNCHANGED driverVars
    <3>1. exit' = exit /\ WorkInv' = WorkInv /\ ProductDone' = ProductDone
      <4>. USE <2>3 DEF driverVars, run, parserVars
      <4>1. Left' = Left /\ Native' = Native /\ Units' = Units /\ Fronted' = Fronted /\ emitWindowsPdb' = emitWindowsPdb
            /\ outputPath(opts)' = outputPath(opts) /\ inputs(opts)' = inputs(opts)
            /\ requiredModules(opts)' = requiredModules(opts)
        BY DEF Left, Native, Units, Fronted, emitWindowsPdb, outputPath, executableDefault, inputs
      <4>2. FrontInv' = FrontInv /\ ObjectsInv' = ObjectsInv
        BY <4>1 DEF FrontInv, ObjectsInv, Ahead, Over
      <4>3. SourcesInv' = SourcesInv /\ RuntimeInv' = RuntimeInv /\ ProductInv' = ProductInv /\ PdbInv' = PdbInv
        BY <4>1 DEF SourcesInv, RuntimeInv, ProductInv, Makers, Whole, PdbInv
      <4>4. UnitsBelong' = UnitsBelong /\ TimingApart' = TimingApart
        BY <4>1 DEF UnitsBelong, TimingApart, Failing
      <4>. QED
        BY <4>1, <4>2, <4>3, <4>4 DEF WorkInv, ProductDone, SuccessMeansProduct, RuntimePackaged
    <3>. QED
      BY <2>2, <3>1 DEF ProductRun
  <2>4. CASE DriverNext /\ exit = None
    BY <2>2, <2>4, WorkStep, ProductMade DEF ProductRun
  <2>. QED
    BY <2>1, <2>2, <2>3, <2>4, LastStep
<1>. QED
  BY <1>1, <1>2, RunInvariance, PTL DEF Spec

\* A build that succeeds left the product that was asked for, at the output
\* path, from every input, every module any of them needs and every native
\* source, with the runtime in it and this build's PDB beside it; and no child
\* process was started from a tool that was not found (buildNativeArtifact,
\* linkExecutable, compileStaticLibrary).
THEOREM BuildsAreWhole ==
  ASSUME ProductsApart
  PROVE  Spec => []BuildIsWhole
<1>1. RunInv /\ ProductRun => BuildIsWhole
  <2>. SUFFICES ASSUME RunInv, ProductRun PROVE BuildIsWhole
    OBVIOUS
  <2>1. CASE part = "build"
    <3>1. ToolsAreResolved
      BY <2>1 DEF RunInv, PlaceInv, ToolsAreResolved
    <3>2. CASE exit = None
      <4>1. ~(exit = "success")
        BY <3>2 DEF None
      <4>. QED
        BY <3>1, <4>1 DEF BuildIsWhole, SuccessMeansProduct, RuntimePackaged
    <3>3. CASE exit # None
      BY <2>1, <3>1, <3>3 DEF ProductRun, ProductDone, BuildIsWhole
    <3>. QED
      BY <3>2, <3>3
  <2>2. CASE part # "build"
    BY <2>2 DEF RunInv, BuildIdle, BuildIsWhole, SuccessMeansProduct, RuntimePackaged,
       ToolsAreResolved, None
  <2>. QED
    BY <2>1, <2>2
<1>. QED
  BY <1>1, RunInvariance, ProductInvariance, PTL

\* A step that writes the product's path comes after every unit, modules
\* included, has passed the front end: no half-checked program is written
\* (compileObject, compileStaticLibrary, compileExecutable).
THEOREM ProductsComeAfter ==
  ASSUME ProductsApart
  PROVE  Spec => ProductAfterFrontend
<1>1. ASSUME RunInv, ProductRun, [Next]_mcVars, Native, exit' = None,
             disk'[outputPath(opts)] # disk[outputPath(opts)]
      PROVE  /\ {units[i].input : i \in DOMAIN units} = Units
             /\ \A i \in DOMAIN units : units[i].stages["llvm_emission"] = "completed"
  <2>1. disk' # disk
    BY <1>1
  <2>2. part = "build" /\ DriverNext /\ ~UNCHANGED driverVars
    BY <1>1, <2>1 DEF Next, LineStep, PlanStep, BuildStep, CargoStep, QuoteStep, Finished, mcVars,
       driverVars, run
  <2>3. ControlInv /\ (exit = None => MetricsInv /\ WorkInv)
    BY <1>1, <2>2 DEF RunInv, RecordInv, ProductRun
  <2>4. exit = None
    BY <2>2, <2>3, LastStep
  <2>. QED
    BY <1>1, <2>2, <2>3, <2>4, ProductAfter
<1>2. RunInv /\ ProductRun /\ [Next]_mcVars =>
        [(Native /\ exit' = None /\ disk'[outputPath(opts)] # disk[outputPath(opts)]) =>
           /\ {units[i].input : i \in DOMAIN units} = Units
           /\ \A i \in DOMAIN units : units[i].stages["llvm_emission"] = "completed"]_driverVars
  BY <1>1
<1>. QED
  BY <1>2, RunInvariance, ProductInvariance, PTL DEF Spec, ProductAfterFrontend

-----------------------------------------------------------------------------
(* The command line, argument by argument.                                 *)

\* Every command line is read from left to right.
LineInv ==
    /\ args \in CommandLines
    /\ next \in 1 .. (Len(args) + 1)
    /\ parse \in LineParses(ToSet(args))

\* Where the mode is in a line of the extension.
ModePlace == IF debugInfo THEN 3 ELSE 1

\* What hsc has read of a line of the extension.
PlanInv ==
    /\ mode \in {"unchecked", "static-checked", "checked"}
    /\ debugInfo \in BOOLEAN /\ refused \in BOOLEAN
    /\ \E W : args \in Seq(W)
    /\ next \in 1 .. (Len(args) + 1)
    /\ parse \in LineParses(ToSet(args))
    /\ ~refused => /\ Planned(args, mode, ModePlace)
                   /\ debugInfo => Debugged(args)
                   /\ AsPlanned(parse, args, mode, ModePlace, debugInfo, next - 1)

\* What hsc has read of a line, for each part of the system.
ParseInv ==
    /\ part # "plan" => PlanIdle
    /\ part \in {"line", "plan", "build", "cargo", "quote"}
    /\ part = "line" => LineInv
    /\ part = "plan" => PlanInv
    /\ part = "build" => next = Len(args) + 1
    /\ part \in {"cargo", "quote"} => ParserIdle

\* Nothing is read at the start; the line of the extension is as planned.
LEMMA ParseStarts == ASSUME Init PROVE ParseInv
<1>1. /\ part \in {"line", "plan", "build", "cargo", "quote"} /\ (part # "plan" => PlanIdle)
      /\ part = "line" => ParserInit
      /\ part = "plan" => EditorInit
      /\ part = "build" => DriverInit
      /\ part \in {"cargo", "quote"} => ParserIdle
  BY PartsAssumption DEF Init
<1>2. CASE part = "line"
  <2>1. Len(args) \in Nat
    BY <1>1, <1>2, LinesAssumption DEF ParserInit
  <2>2. LineInv
    BY <1>1, <1>2, <2>1, StartRead DEF LineInv, ParserInit
  <2>. QED
    BY <1>1, <1>2, <2>2 DEF ParseInv
<1>3. CASE part = "plan"
  <2>1. /\ mode \in {"unchecked", "static-checked", "checked"} /\ additional \in Seq(Arguments)
        /\ debugInfo \in BOOLEAN /\ refused = ~validateAdditionalArgs(additional)
        /\ args = IF refused THEN << >> ELSE planForContext(mode, additional, debugInfo)
        /\ next = 1 /\ parse = StartParse
    BY <1>1, <1>3, PlanAssumption DEF EditorInit
  <2>2. CASE refused
    <3>1. << >> \in Seq({}) /\ Len(<< >>) = 0
      OBVIOUS
    <3>2. \E W : args \in Seq(W)
      BY <2>1, <2>2, <3>1
    <3>3. PlanInv
      BY <2>1, <2>2, <3>1, <3>2, StartRead DEF PlanInv
    <3>. QED
      BY <1>1, <1>3, <3>3 DEF ParseInv
  <2>3. CASE ~refused
    <3> DEFINE l == createBuildPlan(mode, additional)
    <3>1. Planned(l, mode, 1)
      BY <2>1, <2>3, PlainLine
    <3>2. Planned(normalizeDebugBuildArgs(l), mode, 3) /\ Debugged(normalizeDebugBuildArgs(l))
      BY <2>1, <3>1, DebugLine
    <3>3. Planned(args, mode, ModePlace) /\ (debugInfo => Debugged(args))
      BY <2>1, <2>3, <3>1, <3>2 DEF planForContext, ModePlace
    <3>4. (\E W : args \in Seq(W)) /\ Len(args) \in Nat /\ Len(args) >= ModePlace + 3 /\ ModePlace \in {1, 3}
      BY <3>3 DEF Planned, ModePlace
    <3>5. AsPlanned(parse, args, mode, ModePlace, debugInfo, next - 1)
      <4>1. /\ parse.state = "reading" /\ parse.pending = None
            /\ parse.options.actions = {} /\ parse.options.show = None
        BY <2>1 DEF StartParse, DefaultOptions
      <4>2. ModePlace \in {1, 3} /\ Len(args) \in Nat /\ Len(args) >= ModePlace + 3 /\ next = 1
        BY <2>1, <3>4
      <4>5. \A k \in Nat : k >= ModePlace + 3 => 0 # k /\ 0 # k - 1 /\ 0 # k - 2
        BY <4>2
      <4>6. next - 1 = 0 /\ 0 < ModePlace
        BY <4>2
      <4>7. 0 # Len(args) /\ 0 # Len(args) - 1 /\ 0 # Len(args) - 2
        BY <4>2, <4>5
      <4>3. AsPlanned(parse, args, mode, ModePlace, debugInfo, 0)
        BY <4>1, <4>2, <4>6, <4>7 DEF AsPlanned, None
      <4>. QED
        BY <4>3, <4>6
    <3>6. PlanInv
      BY <2>1, <3>3, <3>4, <3>5, StartRead DEF PlanInv
    <3>. QED
      BY <1>1, <1>3, <3>6 DEF ParseInv
  <2>. QED
    BY <2>2, <2>3
<1>4. CASE part \in {"build", "cargo", "quote"}
  BY <1>1, <1>4 DEF ParseInv, DriverInit
<1>. QED
  BY <1>1, <1>2, <1>3, <1>4

\* One turn of the loop over the arguments keeps the kinds of what is read.
LEMMA ReadStep ==
  ASSUME NEW W, args \in Seq(W), next \in 1 .. (Len(args) + 1), parse \in LineParses(ToSet(args)),
         Read
  PROVE  /\ next \in 1 .. Len(args) /\ args' = args /\ next' = next + 1 /\ next' \in 1 .. (Len(args) + 1)
         /\ parse' = ReadArgument(parse, args[next]) /\ parse' \in LineParses(ToSet(args))
<1>1. /\ Len(args) \in Nat /\ next \in 1 .. Len(args) /\ args' = args /\ next' = next + 1
      /\ parse' = ReadArgument(parse, args[next])
  BY DEF Read
<1>2. args[next] \in ToSet(args)
  BY <1>1 DEF ToSet
<1>. QED
  BY <1>1, <1>2, ArgumentKept

\* Every step of the driver keeps what is known of its command line.
LEMMA ParseSteps == ASSUME ParseInv, RunInv, [Next]_mcVars PROVE ParseInv'
<1> USE DEF Next, LineStep, PlanStep, BuildStep, CargoStep, QuoteStep, Finished, mcVars
<1>1. part' = part
  OBVIOUS
<1>2. CASE part = "line"
  <2>1. PICK W : args \in Seq(W)
    BY <1>2, LinesAssumption DEF ParseInv, LineInv
  <2>2. UNCHANGED editorVars /\ (Read \/ UNCHANGED parserVars)
    BY <1>2 DEF ParserNext, Parsed
  <2>3. LineInv'
    <3>1. CASE Read
      BY <1>2, <2>1, <3>1, ReadStep DEF ParseInv, LineInv
    <3>2. CASE UNCHANGED parserVars
      BY <1>2, <3>2 DEF ParseInv, LineInv, parserVars
    <3>. QED
      BY <2>2, <3>1, <3>2
  <2>. QED
    BY <1>1, <1>2, <2>2, <2>3 DEF ParseInv, PlanIdle, editorVars
<1>3. CASE part = "plan"
  <2>1. PlanInv
    BY <1>3 DEF ParseInv
  <2>2. UNCHANGED editorVars /\ (Read \/ UNCHANGED parserVars)
    BY <1>3 DEF EditorNext, ParserNext, Parsed
  <2>3. PlanInv'
    <3>1. CASE Read
      <4>1. PICK W : args \in Seq(W)
        BY <2>1 DEF PlanInv
      <4>2. /\ next \in 1 .. Len(args) /\ args' = args /\ next' = next + 1 /\ next' \in 1 .. (Len(args) + 1)
            /\ parse' = ReadArgument(parse, args[next]) /\ parse' \in LineParses(ToSet(args))
        BY <2>1, <3>1, <4>1, ReadStep DEF PlanInv
      <4>3. ASSUME ~refused PROVE AsPlanned(parse', args, mode, ModePlace, debugInfo, next)
        <5>1. /\ Planned(args, mode, ModePlace) /\ AsPlanned(parse, args, mode, ModePlace, debugInfo, next - 1)
              /\ ModePlace \in {1, 3} /\ (debugInfo => ModePlace = 3 /\ Debugged(args))
              /\ (~debugInfo => ModePlace = 1)
              /\ mode \in {"unchecked", "static-checked", "checked"} /\ debugInfo \in BOOLEAN
              /\ parse \in LineParses(ToSet(args))
          BY <2>1, <4>3 DEF PlanInv, ModePlace
        <5>2. AsPlanned(ReadArgument(parse, args[next]), args, mode, ModePlace, debugInfo, next)
          BY <4>2, <5>1, PlannedStep
        <5>. QED
          BY <4>2, <5>2
      <4>4. next' - 1 = next /\ ModePlace' = ModePlace
        BY <2>2, <4>2 DEF ModePlace, editorVars
      <4>. QED
        BY <2>1, <2>2, <4>1, <4>2, <4>3, <4>4 DEF PlanInv, editorVars
    <3>2. CASE UNCHANGED parserVars
      BY <2>1, <2>2, <3>2 DEF PlanInv, ModePlace, parserVars, editorVars
    <3>. QED
      BY <2>2, <3>1, <3>2
  <2>. QED
    BY <1>1, <1>3, <2>3 DEF ParseInv
<1>4. CASE part = "build"
  <2>1. OptionsKept /\ UNCHANGED editorVars /\ (DriverNext \/ UNCHANGED parserVars)
    BY <1>4 DEF RunInv, ControlInv
  <2>2. args' = args /\ next' = next
    BY <2>1, Steps DEF parserVars
  <2>. QED
    BY <1>1, <1>4, <2>1, <2>2 DEF ParseInv, PlanIdle, editorVars
<1>5. CASE part \in {"cargo", "quote"}
  BY <1>1, <1>5 DEF ParseInv, PlanIdle, ParserIdle, editorVars, parserVars
<1>. QED
  BY <1>2, <1>3, <1>4, <1>5 DEF ParseInv

\* A command line is read from left to right, and a line of the extension as it
\* was planned (parseDriverOptions, createBuildPlan).
THEOREM ParseInvariance == Spec => []ParseInv
<1>1. Init => ParseInv
  BY ParseStarts
<1>2. ParseInv /\ RunInv /\ [Next]_mcVars => ParseInv'
  BY ParseSteps
<1>. QED
  BY <1>1, <1>2, RunInvariance, PTL DEF Spec

\* For command lines of any length: two neighbouring flags that are independent may be
\* exchanged, whatever the rest of the line is, and an accepted line asks for one thing
\* (parseDriverOptions).
THEOREM LinesMeanOneThing == Spec => []LineMeansOneThing
<1>1. ParseInv => LineMeansOneThing
  <2>. SUFFICES ASSUME ParseInv, part = "line" PROVE OrderIrrelevant /\ AcceptedIsConsistent
    BY DEF LineMeansOneThing
  <2>1. args \in Seq(Arguments)
    BY LinesAssumption DEF ParseInv, LineInv
  <2>. QED
    BY <2>1, MeansOneThing
<1>. QED
  BY <1>1, ParseInvariance, PTL

\* For additional arguments of any number that the extension lets through: hsc, if it
\* accepts the line, writes the planned output in the planned mode, and a debug build
\* has debug information and no optimization (createBuildPlan, normalizeDebugBuildArgs).
THEOREM ExtensionLinesAreKept == Spec => []ExtensionLineIsKept
<1>1. ParseInv => ExtensionLineIsKept
  <2>. SUFFICES ASSUME ParseInv, Accepted
                PROVE  /\ parse.options.output = OutputPath /\ parse.options.safety = mode
                       /\ parse.options.actions = {} /\ parse.options.show = None
                       /\ debugInfo => parse.options.debug /\ parse.options.optimization = "O0"
    BY DEF ExtensionLineIsKept, PlanIsKept, DebugIsUnoptimized
  <2>1. PlanInv /\ ~refused /\ next > Len(args) /\ Outcome(parse) = "ok"
    BY DEF ParseInv, PlanIdle, Accepted
  <2>2. /\ AsPlanned(parse, args, mode, ModePlace, debugInfo, next - 1)
        /\ Planned(args, mode, ModePlace) /\ ModePlace \in {1, 3}
    BY <2>1 DEF PlanInv, ModePlace
  <2>3. Len(args) \in Nat /\ next - 1 = Len(args) /\ Len(args) >= ModePlace + 3
    BY <2>1, <2>2 DEF PlanInv, Planned
  <2>4. parse.state = "reading"
    BY <2>1, <2>2 DEF Outcome, AsPlanned, PlanInv, LineParses
  <2>. QED
    BY <2>2, <2>3, <2>4 DEF AsPlanned
<1>. QED
  BY <1>1, ParseInvariance, PTL

\* The types of all parts: what is read of a line is complete and consistent at every
\* argument, hsc leaves no temporary directory and no child, and a call of Cargo that has
\* returned left neither (parseDriverOptions, TemporaryDirectory, buildCargoStaticLibrary).
THEOREM TypesHold == Spec => []AllTypeOK
<1>1. ParseInv /\ RunInv => ParserTypeOK
  <2>. SUFFICES ASSUME ParseInv, RunInv PROVE ParserTypeOK
    OBVIOUS
  <2>1. /\ \E W : args \in Seq(W)
        /\ next \in 1 .. (Len(args) + 1) /\ parse \in LineParses(ToSet(args))
    <3>1. CASE part = "line"
      BY <3>1, LinesAssumption DEF ParseInv, LineInv
    <3>2. CASE part = "plan"
      BY <3>2 DEF ParseInv, PlanInv
    <3>3. CASE part = "build"
      <4>1. args \in Seq(Arguments) /\ parse = parseDriverOptions(args) /\ next = Len(args) + 1
        BY <3>3, DriverAssumption DEF ParseInv, RunInv, ControlInv, OptionsKept
      <4>2. parse \in LineParses(ToSet(args))
        BY <4>1, LineRead
      <4>. QED
        BY <4>1, <4>2
    <3>4. CASE part \in {"cargo", "quote"}
      <4>1. args = << >> /\ next = 1 /\ parse = StartParse /\ << >> \in Seq({}) /\ Len(<< >>) = 0
        BY <3>4 DEF ParseInv, ParserIdle
      <4>2. \E W : args \in Seq(W)
        BY <4>1
      <4>. QED
        BY <4>1, <4>2, StartRead
    <3>. QED
      BY <3>1, <3>2, <3>3, <3>4 DEF ParseInv
  <2>2. /\ parse.options \in LineOptions(ToSet(args)) /\ parse.pending \in ValueOptions \cup {None}
        /\ parse.state \in {"reading", "shown", "error"}
    BY <2>1 DEF LineParses
  <2>3. DOMAIN parse.options = DOMAIN DefaultOptions /\ SetTogether(parse.options)
    BY <2>2, OptionMembers DEF LineOptions, Members
  <2>. QED
    BY <2>1, <2>2, <2>3 DEF ParserTypeOK, SetTogether
<1>2. ParserTypeOK /\ DriverTypeOK /\ Cargo!TypeOK => AllTypeOK
  BY DEF AllTypeOK
<1>. QED
  BY <1>1, <1>2, ParseInvariance, RunInvariance, NothingIsLeft, CargoTypeCorrect, PTL
=============================================================================
