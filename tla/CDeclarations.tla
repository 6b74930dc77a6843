---------------------------- MODULE CDeclarations ----------------------------
(***************************************************************************)
(* The top-level declarations of C translation units on their way through  *)
(* hsc --c: the compatibility lowering (src/src/compat/CCompatLowering.cpp *)
(* and CCompatLoweringStatements.cpp), semantic analysis of the core       *)
(* declarations it makes (src/src/sema), and the linkage and ABI metadata  *)
(* put back on the HIR (src/src/driver/FrontendPipeline.cpp, HIR.cpp).     *)
(* Function bodies, initializer values and names of fields are left out.   *)
(*                                                                         *)
(* A C type is [base, name], a declarator [ptr, arr]: the pointer depth    *)
(* and the element count, 0 when the object is no array.  An optional is a *)
(* sequence of length 0 or 1.                                              *)
(***************************************************************************)
EXTENDS Integers, Sequences, FiniteSets, TLC
LOCAL INSTANCE SequencesExt

CONSTANTS Jobs,          \* the lists of translation units given to hsc
          PointerBytes   \* sizeof(void*) of hsc, the target's too

VARIABLES job, u,        \* the units and the one in work
          pass, i,       \* the pass over its declarations, and where it is
          w,             \* the Lowerer
          hir,           \* the HIR of the unit after semantic analysis
          compiled,      \* the units that compiled: [link, hir, structs]
          outcome        \* "none", "built" or the stage that refused

vars == <<job, u, pass, i, w, hir, compiled, outcome>>

(***************************************************************************)
(* Types.                                                                  *)
(***************************************************************************)
Abi(kind, len, signed, agg, align) ==
    [kind |-> kind, len |-> len, signed |-> signed, agg |-> agg, align |-> align,
     count |-> 1, fields |-> <<>>, offsets |-> <<>>]
Type(abi, pointee) == [abi |-> abi, pointee |-> pointee]
Scalars ==
    [char |-> Abi("Integer", 1, FALSE, "", 1), short |-> Abi("Integer", 2, TRUE, "", 2),
     int |-> Abi("Integer", 4, TRUE, "", 4), uint |-> Abi("Integer", 4, FALSE, "", 4),
     long |-> Abi("Integer", 8, TRUE, "", 8), void |-> Abi("Void", 0, FALSE, "", 0)]
makePointer(type) == Type(Abi("Pointer", PointerBytes, FALSE, "", PointerBytes), <<type>>)

RECURSIVE sameType(_, _)
sameType(l, r) ==
    /\ l.abi.kind = r.abi.kind /\ l.abi.len = r.abi.len
    /\ l.abi.signed = r.abi.signed /\ l.abi.agg = r.abi.agg
    /\ Len(l.pointee) = Len(r.pointee)
    /\ l.pointee # <<>> => sameType(l.pointee[1], r.pointee[1])

Object(type, arr) == [type |-> type, arr |-> arr]
byteLength(o) == IF o.arr = 0 THEN o.type.abi.len ELSE o.type.abi.len * o.arr

\* Mutant: the next multiple also when the offset already is one.
alignUp_Always(value, alignment) == value + (alignment - (value % alignment))

alignUp(value, alignment) ==
    IF value % alignment = 0 THEN value ELSE value + (alignment - (value % alignment))

(***************************************************************************)
(* Resolution.  A result is the Lowerer afterwards and an optional value.  *)
(***************************************************************************)
Some(lw, v) == [w |-> lw, v |-> <<v>>]
Fail(lw, what) == [w |-> [lw EXCEPT !.diags = @ \cup {what}], v |-> <<>>]
Pass(r) == [w |-> r.w, v |-> <<>>]
Update(map, n, v) == (n :> v) @@ map

\* Mutant: a failed resolution stays in progress.
Released_Busy(info) == [info EXCEPT !.st = "resolving"]

(* A failed resolution may be tried again. *)
Released(info) == [info EXCEPT !.st = "new"]

RECURSIVE resolveObject(_, _, _), resolveStruct(_, _), Fields(_, _, _, _)

(* resolveAliasObject: a typedef is in progress while its object is resolved. *)
AliasResolved(r, n, a) ==
    [r EXCEPT !.w.aliases = Update(@, n,
        IF r.v = <<>> THEN Released(a) ELSE [a EXCEPT !.st = "resolved", !.object = r.v[1]])]
ResolveAlias(lw, n, a) ==
    CASE a.st = "resolved" -> Some(lw, a.object)
      [] a.st = "resolving" -> Fail(lw, "cyclic typedef")
      [] OTHER ->
            AliasResolved(
                resolveObject([lw EXCEPT !.aliases = Update(@, n, [a EXCEPT !.st = "resolving"])],
                              a.decl.type, a.decl.declarator), n, a)
resolveAliasObject(lw, n) ==
    IF n \notin DOMAIN lw.aliases THEN Fail(lw, "unknown typedef")
    ELSE ResolveAlias(lw, n, lw.aliases[n])

AliasType(r) ==
    IF r.v = <<>> THEN r
    ELSE IF r.v[1].arr # 0 THEN Fail(r.w, "array typedef") ELSE Some(r.w, r.v[1].type)
resolveBaseType(lw, t) ==
    CASE t.base \in DOMAIN Scalars -> Some(lw, Type(Scalars[t.base], <<>>))
      [] t.base = "struct" -> Some(lw, Type(Abi("Aggregate", 0, FALSE, t.name, 1), <<>>))
      [] t.base = "alias" -> AliasType(resolveAliasObject(lw, t.name))

Pointed(r, ptr) ==
    IF r.v = <<>> \/ ptr = 0 THEN r
    ELSE Some(r.w, IF ptr = 1 THEN makePointer(r.v[1]) ELSE makePointer(makePointer(r.v[1])))
resolveType(lw, t, ptr) == Pointed(resolveBaseType(lw, t), ptr)

Completed(r, type) ==
    IF r.v = <<>> THEN r
    ELSE Some(r.w, [type EXCEPT !.abi = r.w.structs[type.abi.agg].abi])
ensureStructComplete(lw, type) ==
    IF type.abi.kind # "Aggregate" THEN Some(lw, type)
    ELSE Completed(resolveStruct(lw, type.abi.agg), type)

(* resolveObject: the type, then its completion, then its length; a typedef of
   an array takes no further declarator. *)
SizedObject(r, d) ==
    IF r.v = <<>> THEN r
    ELSE IF r.v[1].abi.len = 0 THEN Fail(r.w, "no byte length")
    ELSE Some(r.w, Object(r.v[1], d.arr))
TypedObject(r, d) ==
    IF r.v = <<>> THEN r
    ELSE IF r.v[1].abi.kind = "Void" THEN Fail(r.w, "void object")
    ELSE SizedObject(ensureStructComplete(r.w, r.v[1]), d)
AliasedObject(r, t, d) ==
    CASE r.v = <<>> -> r
      [] r.v # <<>> /\ r.v[1].arr = 0 -> TypedObject(resolveType(r.w, t, d.ptr), d)
      [] OTHER -> IF d.ptr # 0 THEN Fail(r.w, "pointer to array typedef")
                  ELSE IF d.arr # 0 THEN Fail(r.w, "array of array typedef")
                  ELSE r
resolveObject(lw, t, d) ==
    IF t.base = "alias" THEN AliasedObject(resolveAliasObject(lw, t.name), t, d)
    ELSE TypedObject(resolveType(lw, t, d.ptr), d)

resolveStruct(lw, n) ==
    IF n \notin DOMAIN lw.structs THEN Fail(lw, "unknown struct")
    ELSE LET s == lw.structs[n] IN
         CASE s.st = "resolved" -> Some(lw, n)
           [] s.st = "resolving" -> Fail(lw, "struct contains itself")
           [] OTHER ->
                Fields([lw EXCEPT !.structs = Update(@, n, [s EXCEPT !.st = "resolving"])],
                       n, s.decl.fields, 0)

(* resolveStruct's loop over the fields left, then the aggregate. *)
\* Mutant: the element count of an array is forgotten.
FieldAbi_One(o) == o.type.abi

FieldAbi(o) == [o.type.abi EXCEPT !.count = IF o.arr = 0 THEN 1 ELSE o.arr]
LargestAlign(fields) ==
    FoldLeft(LAMBDA a, f : IF f.object.type.abi.align > a
                           THEN f.object.type.abi.align ELSE a, 1, fields)
AggregateAbi(n, fields, end) ==
    [Abi("Aggregate", alignUp(end, LargestAlign(fields)), FALSE, n, LargestAlign(fields)) EXCEPT
        !.fields = [k \in DOMAIN fields |-> FieldAbi(fields[k].object)],
        !.offsets = [k \in DOMAIN fields |-> fields[k].offset]]
SetStruct(lw, n, v) == [lw EXCEPT !.structs = Update(@, n, v)]

NextField(lw, n, object, at, left) ==
    Fields(SetStruct(lw, n, [lw.structs[n] EXCEPT
                                !.fields = Append(@, [object |-> object, offset |-> at])]),
           n, left, at + byteLength(object))
FieldResolved(r, n, left, offset) ==
    IF r.v = <<>>
    THEN Pass([r EXCEPT !.w = SetStruct(@, n, Released(r.w.structs[n]))])
    ELSE NextField(r.w, n, r.v[1], alignUp(offset, r.v[1].type.abi.align), left)
Fields(lw, n, left, offset) ==
    LET s == lw.structs[n] IN
    IF left = <<>>
    THEN Some(SetStruct(lw, n, [s EXCEPT !.st = "resolved",
                                         !.abi = AggregateAbi(n, s.fields, offset)]), n)
    ELSE FieldResolved(resolveObject(lw, Head(left).type, Head(left).declarator),
                       n, Tail(left), offset)

(***************************************************************************)
(* collectDeclarations, one declaration of one of its passes.              *)
(***************************************************************************)
Diagnosed(lw, what) == [lw EXCEPT !.diags = @ \cup {what}]

collectNames(lw, d) ==
    CASE d.k = "struct" ->
            IF d.name \in DOMAIN lw.structs THEN Diagnosed(lw, "duplicate struct")
            ELSE [lw EXCEPT !.structs = Update(@, d.name,
                     [decl |-> d, st |-> "new", fields |-> <<>>,
                      abi |-> Abi("Aggregate", 0, FALSE, d.name, 1)])]
      [] d.k = "typedef" ->
            IF d.name \in DOMAIN lw.aliases THEN Diagnosed(lw, "duplicate typedef")
            ELSE [lw EXCEPT !.aliases = Update(@, d.name,
                     [decl |-> d, st |-> "new", object |-> Object(Type(Scalars.int, <<>>), 0)])]
      [] OTHER -> lw

collectAlias(lw, d) ==
    IF d.k = "typedef" THEN resolveAliasObject(lw, d.name).w ELSE lw

(* The types of the parameters, an array as a pointer to its elements. *)
Decayed(o) == IF o.arr = 0 THEN o.type ELSE makePointer(o.type)
AddParameter(r, o) ==
    [w |-> o.w, valid |-> r.valid /\ o.v # <<>>,
     types |-> IF o.v = <<>> THEN r.types ELSE Append(r.types, Decayed(o.v[1]))]
Parameters(lw, params) ==
    FoldLeft(LAMBDA r, p : AddParameter(r, resolveObject(r.w, p.type, p.declarator)),
             [w |-> lw, valid |-> TRUE, types |-> <<>>], params)

CompleteReturn(r) == IF r.v = <<>> THEN r ELSE ensureStructComplete(r.w, r.v[1])
ReturnType(lw, d) == CompleteReturn(resolveType(lw, d.type, d.declarator.ptr))

sameFunctionSignature(l, r) ==
    /\ sameType(l.ret, r.ret)
    /\ Len(l.params) = Len(r.params)
    /\ \A k \in DOMAIN l.params : sameType(l.params[k], r.params[k])

(* A function is declared first, or again with the signature it has. *)
DeclareFunction(lw, d, info) ==
    LET found == lw.functions[d.name] IN
    CASE d.name \notin DOMAIN lw.functions ->
            [lw EXCEPT !.functions = Update(@, d.name, info)]
      [] OTHER ->
            IF ~sameFunctionSignature(found, info) THEN Diagnosed(lw, "conflicting function")
            ELSE IF found.link = "External" /\ info.link = "Internal"
            THEN Diagnosed(lw, "static after non-static")
            ELSE IF found.def /\ d.def THEN Diagnosed(lw, "duplicate definition")
            ELSE [lw EXCEPT !.functions = Update(@, d.name, [found EXCEPT !.def = @ \/ d.def])]
WithParameters(pars, ret, d) ==
    IF ~pars.valid THEN pars.w
    ELSE DeclareFunction(pars.w, d,
            [ret |-> ret, params |-> pars.types, def |-> d.def,
             link |-> IF d.storage = "static" THEN "Internal" ELSE "External"])
WithReturn(ret, d) ==
    IF ret.v = <<>> THEN ret.w ELSE WithParameters(Parameters(ret.w, d.params), ret.v[1], d)
collectFunction(lw, d) == IF d.k = "func" THEN WithReturn(ReturnType(lw, d), d) ELSE lw

checkStaticPrototype(lw, d) ==
    IF /\ d.k = "func" /\ ~d.def /\ d.storage = "static"
       /\ \/ d.name \notin DOMAIN lw.functions
          \/ ~lw.functions[d.name].def
          \/ lw.functions[d.name].link # "Internal"
    THEN Diagnosed(lw, "static prototype without definition") ELSE lw

(***************************************************************************)
(* lowerTopLevel: core declarations and linkage metadata.  The text of a   *)
(* length is <<>> for P, the pointer's, and <<n>> otherwise.               *)
(***************************************************************************)
byteLengthText(n) == IF n = PointerBytes THEN <<>> ELSE <<n>>
coreTemplate(type) == IF type.abi.kind = "Aggregate" THEN type.abi.agg ELSE type.abi.kind

(* lowerStruct: the members of the template, padding included. *)
Member(len, template) == [len |-> len, template |-> template]
FieldMember(f) == Member(byteLength(f.object),
                         IF f.object.arr # 0 THEN "bytes" ELSE coreTemplate(f.object.type))
Members(s) ==
    LET End(k) == s.fields[k].offset + byteLength(s.fields[k].object)
        Before(k) == IF k = 1 THEN 0 ELSE End(k - 1)
        Pad(from, to) == IF to > from THEN <<Member(to - from, "bytes")>> ELSE <<>>
        n == Len(s.fields)
    IN  FlattenSeq([k \in 1..n |-> Pad(Before(k), s.fields[k].offset)
                                    \o <<FieldMember(s.fields[k])>>])
        \o Pad(IF n = 0 THEN 0 ELSE End(n), s.abi.len)

TemplateOf(r, d) ==
    IF r.v = <<>> THEN r.w
    ELSE [r.w EXCEPT !.core = Append(@, [k |-> "template", name |-> d.name,
                                         members |-> Members(r.w.structs[d.name])])]
lowerStruct(lw, d) == TemplateOf(resolveStruct(lw, d.name), d)

Metadata(n, link, isFunction, def, object, params, ret) ==
    [name |-> n, link |-> link, fn |-> isFunction, def |-> def,
     object |-> object, params |-> params, ret |-> ret]

ObjectText(o) == IF o.arr # 0 THEN <<byteLength(o)>> ELSE byteLengthText(o.type.abi.len)
ObjectTemplate(o) == IF o.arr # 0 THEN "bytes" ELSE coreTemplate(o.type)
LowerObject(lw, o, d) ==
    LET extern == d.storage = "extern"
        link == IF d.storage = "static" THEN "Internal" ELSE "External"
    IN  CASE extern /\ d.init -> Diagnosed(lw, "extern initializer")
          [] ~extern /\ d.init /\ (o.arr # 0 \/ o.type.abi.kind = "Aggregate") ->
                Diagnosed(lw, "aggregate initializer")
          [] OTHER ->
                [lw EXCEPT
                    !.core = Append(@, [k |-> IF extern THEN "externvar" ELSE "new",
                                        name |-> d.name, len |-> ObjectText(o),
                                        template |-> ObjectTemplate(o)]),
                    !.link = Append(@, Metadata(d.name, link, FALSE, ~extern,
                                                <<FieldAbi(o)>>, <<>>, <<>>))]
GlobalResolved(r, d) == IF r.v = <<>> THEN r.w ELSE LowerObject(r.w, r.v[1], d)
lowerGlobal(lw, d) == GlobalResolved(resolveObject(lw, d.type, d.declarator), d)

(* The core function and its metadata under the given linkage. *)
SignatureAs(pars, ret, d, link) ==
    LET Item(type) == Member(byteLengthText(type.abi.len), coreTemplate(type))
    IN  IF ~pars.valid THEN pars.w
        ELSE [pars.w EXCEPT
                !.core = Append(@, [k |-> IF d.def THEN "func" ELSE "extern", name |-> d.name,
                            params |-> [p \in DOMAIN pars.types |-> Item(pars.types[p])],
                            returns |-> IF ret.abi.kind = "Void" THEN <<>> ELSE <<Item(ret)>>]),
                !.link = Append(@, Metadata(d.name, link, TRUE, d.def, <<>>,
                            [p \in DOMAIN pars.types |-> pars.types[p].abi], <<ret.abi>>))]
FunctionAs(lw, d, link) ==
    SignatureAs(Parameters(lw, d.params), lw.functions[d.name].ret, d, link)

\* Mutant: the storage class of this declaration alone.
lowerFunction_OwnStorage(lw, d) ==
    IF d.name \notin DOMAIN lw.functions THEN lw
    ELSE FunctionAs(lw, d, IF d.storage = "static" THEN "Internal" ELSE "External")

lowerFunction(lw, d) ==
    IF d.name \notin DOMAIN lw.functions THEN lw
    ELSE FunctionAs(lw, d, lw.functions[d.name].link)

(* A prototype is left to its definition. *)
lowerTopLevel(lw, d) ==
    CASE d.k = "struct" -> lowerStruct(lw, d)
      [] d.k = "typedef" -> lw
      [] d.k = "var" -> lowerGlobal(lw, d)
      [] d.k = "func" ->
            IF ~d.def /\ d.name \in DOMAIN lw.functions /\ lw.functions[d.name].def
            THEN lw ELSE lowerFunction(lw, d)

(***************************************************************************)
(* Semantic analysis of the core declarations: the diagnostics it raises,  *)
(* and the HIR of a unit without any.                                      *)
(***************************************************************************)
Of(core, kinds) == SelectSeq(core, LAMBDA c : c.k \in kinds)
parseByteLength(text) == IF text = <<>> THEN PointerBytes ELSE text[1]

(* templateByteLength and the match parseDeclaredLength asks for: a        *)
(* standard template carries the width it is used with, "bytes" any.       *)
StandardTemplates == {"Integer", "Pointer", "bytes"}
DeclaredLengthOK(templates, len, t) ==
    /\ len > 0
    /\ t = "Pointer" => len = PointerBytes
    /\ t \notin StandardTemplates => t \in DOMAIN templates /\ len = templates[t]

(* collectViewTemplates: each template knows the ones before it. *)
collectViewTemplates(decls) ==
    FoldLeft(LAMBDA r, d :
        [ok |-> /\ r.ok /\ d.name \notin DOMAIN r.templates
                /\ \A p \in DOMAIN d.members :
                      DeclaredLengthOK(r.templates, d.members[p].len, d.members[p].template),
         templates |-> Update(r.templates, d.name,
                              FoldLeft(LAMBDA sum, mb : sum + mb.len, 0, d.members))],
        [ok |-> TRUE, templates |-> <<>>], decls)

registerTopLevelNames(core) == \A p, q \in DOMAIN core : core[p].name = core[q].name => p = q

Lengths(items) == [p \in DOMAIN items |-> parseByteLength(items[p].len)]
collectFunctionSignature(c) ==
    [name |-> c.name, params |-> Lengths(c.params),
     returns |-> IF c.name = "main" /\ c.k = "func" /\ c.returns = <<>> THEN <<4>>
                 ELSE Lengths(c.returns),
     link |-> "External", sig |-> <<>>]
GlobalSymbol(c) ==
    [name |-> c.name, len |-> parseByteLength(c.len), ext |-> c.k = "externvar",
     link |-> "External", abi |-> <<>>]

SemaOK(core) ==
    LET ts == collectViewTemplates(Of(core, {"template"}))
        ItemsOK(items) == \A p \in DOMAIN items :
            DeclaredLengthOK(ts.templates, parseByteLength(items[p].len), items[p].template)
    IN  /\ ts.ok /\ registerTopLevelNames(core)
        /\ \A p \in DOMAIN core :
              CASE core[p].k \in {"new", "externvar"} -> ItemsOK(<<core[p]>>)
                [] core[p].k \in {"func", "extern"} ->
                     ItemsOK(core[p].params) /\ ItemsOK(core[p].returns)
                [] OTHER -> TRUE

ToSeqOf(seq, Op(_)) == [p \in DOMAIN seq |-> Op(seq[p])]
analyzeUnit(core) ==
    [globals |-> ToSeqOf(Of(core, {"externvar"}) \o Of(core, {"new"}), GlobalSymbol),
     funcs |-> ToSeqOf(Of(core, {"func"}), collectFunctionSignature),
     externs |-> ToSeqOf(Of(core, {"extern"}), collectFunctionSignature)]

(***************************************************************************)
(* applyCCompatibilityMetadata.                                            *)
(***************************************************************************)
RECURSIVE lowerCAbiType(_), isValidType(_)
lowerCAbiType(t) ==
    CASE t.kind \in {"Integer", "Floating", "Pointer"} -> TRUE
      [] t.kind = "Void" -> FALSE
      [] t.kind = "Aggregate" ->
            /\ t.len > 0 /\ t.align > 0 /\ Len(t.fields) = Len(t.offsets)
            /\ \A p \in DOMAIN t.fields : lowerCAbiType(t.fields[p])

storageByteLength(t) == t.len * t.count
isValidType(t) ==
    /\ t.len > 0 /\ t.count > 0 /\ t.align > 0
    /\ CASE t.kind = "Integer" -> t.len \in {1, 2, 4, 8}
         [] t.kind = "Floating" -> t.len \in {4, 8}
         [] t.kind = "Pointer" -> t.len = PointerBytes
         [] t.kind = "Aggregate" ->
              /\ t.fields # <<>> /\ Len(t.fields) = Len(t.offsets)
              /\ \A p \in DOMAIN t.fields :
                   /\ isValidType(t.fields[p])
                   /\ t.offsets[p] >= (IF p = 1 THEN 0
                          ELSE t.offsets[p - 1] + storageByteLength(t.fields[p - 1]))
                   /\ t.offsets[p] + storageByteLength(t.fields[p]) <= t.len
         [] OTHER -> FALSE

Named(seq, n) == {p \in DOMAIN seq : seq[p].name = n}
Find(seq, n) == seq[CHOOSE p \in Named(seq, n) : \A q \in Named(seq, n) : p <= q]
Has(seq, n) == Named(seq, n) # {}

(* The returns of the signature: none for void. *)
AbiReturns(item) == SelectSeq(item.ret, LAMBDA t : t.kind # "Void")

MetadataLowers(h, item) ==
    IF item.fn
    THEN \A t \in {item.params[p] : p \in DOMAIN item.params}
                  \cup {AbiReturns(item)[p] : p \in DOMAIN AbiReturns(item)} : lowerCAbiType(t)
    ELSE /\ lowerCAbiType(item.object[1])
         /\ Has(h.globals, item.name)
         /\ Find(h.globals, item.name).len = storageByteLength(item.object[1])

Internal(item) == item.def /\ item.link = "Internal"
LinkageOverridable(h, item) ==
    IF item.fn THEN Has(h.funcs, item.name)
    ELSE Has(h.globals, item.name) /\ ~Find(h.globals, item.name).ext

validateSignature(types, lengths) ==
    /\ Len(types) = Len(lengths)
    /\ \A p \in DOMAIN types : isValidType(types[p])
                                /\ storageByteLength(types[p]) = lengths[p]
AbiOverridable(h, item) ==
    IF item.fn
    THEN LET f == IF Has(h.funcs, item.name) THEN Find(h.funcs, item.name)
                  ELSE Find(h.externs, item.name)
         IN  /\ Has(h.funcs, item.name) \/ Has(h.externs, item.name)
             /\ validateSignature(item.params, f.params)
             /\ validateSignature(AbiReturns(item), f.returns)
    ELSE isValidType(item.object[1])
         /\ Find(h.globals, item.name).len = storageByteLength(item.object[1])

DistinctTargets(link) ==
    \A p, q \in DOMAIN link :
        link[p].name = link[q].name /\ link[p].fn = link[q].fn => p = q

(* applyLinkageOverrides and applyAbiOverrides, on a unit they accept. *)
Overridden(h, link) ==
    LET Meta(f, fn) == LET fs == SelectSeq(link, LAMBDA it : it.fn = fn /\ it.name = f.name)
                       IN  fs[1]
        Linked(f, fn) == IF Internal(Meta(f, fn)) THEN "Internal" ELSE f.link
        Signed(f) == [f EXCEPT !.link = Linked(f, TRUE),
                               !.sig = <<Meta(f, TRUE).params, AbiReturns(Meta(f, TRUE))>>]
    IN  [globals |-> ToSeqOf(h.globals, LAMBDA g : [g EXCEPT !.link = Linked(g, FALSE),
                                                          !.abi = Meta(g, FALSE).object]),
         funcs |-> ToSeqOf(h.funcs, Signed), externs |-> ToSeqOf(h.externs, Signed)]

MetadataOK(h, link) ==
    /\ \A p \in DOMAIN link : MetadataLowers(h, link[p])
    /\ \A p \in DOMAIN link : Internal(link[p]) => LinkageOverridable(h, link[p])
    /\ DistinctTargets(link)
    /\ \A p \in DOMAIN link : AbiOverridable(h, link[p])

(***************************************************************************)
(* validateCCompatibilityExternalAbi: the external declarations of all     *)
(* units against the first of their name.                                  *)
(***************************************************************************)
\* Mutant: the layout of an aggregate is not compared, only its name.
sameCAbiType_NameOnly(l, r) ==
    /\ l.kind = r.kind /\ l.signed = r.signed /\ l.agg = r.agg /\ l.count = r.count

RECURSIVE sameCAbiType(_, _)
sameCAbiType(l, r) ==
    /\ l.kind = r.kind /\ l.len = r.len /\ l.signed = r.signed /\ l.agg = r.agg
    /\ l.align = r.align /\ l.count = r.count /\ l.offsets = r.offsets
    /\ Len(l.fields) = Len(r.fields)
    /\ \A p \in DOMAIN l.fields : sameCAbiType(l.fields[p], r.fields[p])

SameTypes(l, r) == Len(l) = Len(r) /\ \A p \in DOMAIN l : sameCAbiType(l[p], r[p])
sameCExternalAbi(l, r) ==
    /\ l.fn = r.fn
    /\ IF l.fn THEN SameTypes(l.params, r.params) /\ SameTypes(l.ret, r.ret)
       ELSE SameTypes(l.object, r.object)

Externals(units) ==
    SelectSeq(FlattenSeq([p \in DOMAIN units |-> units[p].link]),
              LAMBDA item : item.link = "External")
validateCCompatibilityExternalAbi(units) ==
    LET items == Externals(units)
    IN  \A p \in DOMAIN items : sameCExternalAbi(Find(items, items[p].name), items[p])

(***************************************************************************)
(* hsc --c on the units of a job: lowerCCompatToCore, one declaration a    *)
(* step, sema::analyze, the metadata, and the check across the units.      *)
(***************************************************************************)
NewLowerer == [structs |-> <<>>, aliases |-> <<>>, functions |-> <<>>,
               diags |-> {}, core |-> <<>>, link |-> <<>>]
NoHir == [globals |-> <<>>, funcs |-> <<>>, externs |-> <<>>]
Unit == job[u]

Init ==
    /\ job \in Jobs /\ u = 1 /\ pass = "names" /\ i = 1
    /\ w = NewLowerer /\ hir = NoHir /\ compiled = <<>> /\ outcome = "none"

(* One declaration of a pass; the last one leads to the next pass. *)
Declaration(this, next, result) ==
    /\ outcome = "none" /\ pass = this
    /\ w' = result
    /\ IF i < Len(Unit) THEN i' = i + 1 /\ pass' = pass ELSE i' = 1 /\ pass' = next
    /\ UNCHANGED <<job, u, hir, compiled, outcome>>

CollectNames == Declaration("names", "aliases", collectNames(w, Unit[i]))
CollectAliases == Declaration("aliases", "functions", collectAlias(w, Unit[i]))
CollectFunctions == Declaration("functions", "static", collectFunction(w, Unit[i]))
CheckStaticPrototypes == Declaration("static", "lower", checkStaticPrototype(w, Unit[i]))
LowerTopLevels == Declaration("lower", "import", lowerTopLevel(w, Unit[i]))

Refuse(stage) == outcome' = stage /\ UNCHANGED <<job, u, pass, i, w, hir, compiled>>

(* parseInput keeps the unit only without diagnostics. *)
FinishImport ==
    /\ outcome = "none" /\ pass = "import"
    /\ IF w.diags # {} THEN Refuse("import")
       ELSE pass' = "sema" /\ UNCHANGED <<job, u, i, w, hir, compiled, outcome>>

Analyze ==
    /\ outcome = "none" /\ pass = "sema"
    /\ IF ~SemaOK(w.core) THEN Refuse("sema")
       ELSE /\ hir' = analyzeUnit(w.core) /\ pass' = "metadata"
            /\ UNCHANGED <<job, u, i, w, compiled, outcome>>

applyCCompatibilityMetadata ==
    /\ outcome = "none" /\ pass = "metadata"
    /\ IF ~MetadataOK(hir, w.link) THEN Refuse("metadata")
       ELSE /\ compiled' = Append(compiled, [unit |-> Unit, structs |-> w.structs,
                              core |-> w.core, link |-> w.link, hir |-> Overridden(hir, w.link)])
            /\ IF u < Len(job) THEN u' = u + 1 /\ pass' = "names"
               ELSE u' = u /\ pass' = "external"
            /\ w' = NewLowerer /\ hir' = NoHir
            /\ UNCHANGED <<job, i, outcome>>

ValidateExternals ==
    /\ outcome = "none" /\ pass = "external"
    /\ outcome' = IF validateCCompatibilityExternalAbi(compiled) THEN "built" ELSE "external"
    /\ UNCHANGED <<job, u, pass, i, w, hir, compiled>>

Next ==
    \/ CollectNames \/ CollectAliases \/ CollectFunctions \/ CheckStaticPrototypes
    \/ LowerTopLevels \/ FinishImport \/ Analyze \/ applyCCompatibilityMetadata
    \/ ValidateExternals

Spec == Init /\ [][Next]_vars

-----------------------------------------------------------------------------
(***************************************************************************)
(* What C says of the same declarations.  Expand replaces a typedef name   *)
(* by what it stands for; an array of an array is outside of the subset.   *)
(***************************************************************************)
Kind(ds, k) == {p \in DOMAIN ds : ds[p].k = k}
TypedefOf(ds, n) == ds[CHOOSE p \in Kind(ds, "typedef") : ds[p].name = n]
StructAt(ds, n) == CHOOSE p \in Kind(ds, "struct") : ds[p].name = n

RECURSIVE Expand(_, _, _)
Expand(ds, t, d) ==
    IF t.base # "alias" THEN [base |-> t.base, name |-> t.name, ptr |-> d.ptr, arr |-> d.arr]
    ELSE LET a == TypedefOf(ds, t.name)
             e == Expand(ds, a.type, a.declarator)
         IN  [e EXCEPT !.ptr = @ + d.ptr, !.arr = IF d.arr # 0 THEN d.arr ELSE @]

(* A parameter of array type is a pointer. *)
Adjusted(e) == IF e.arr = 0 THEN e ELSE [e EXCEPT !.ptr = @ + 1, !.arr = 0]
ArrayAlias(ds, t) == t.base = "alias" /\ Expand(ds, t, [ptr |-> 0, arr |-> 0]).arr # 0

(* The declarator may follow the type, and the object is complete, its     *)
(* struct declared before declaration p.                                   *)
ObjectOK(ds, p, t, d) ==
    LET e == Expand(ds, t, d)
    IN  /\ ArrayAlias(ds, t) => d.ptr = 0 /\ d.arr = 0
        /\ e.ptr = 0 => /\ e.base # "void"
                        /\ e.base = "struct" => \E q \in Kind(ds, "struct") :
                                                    ds[q].name = e.name /\ q < p

Signature(ds, d) ==
    <<Expand(ds, d.type, d.declarator),
      [p \in DOMAIN d.params |-> Adjusted(Expand(ds, d.params[p].type, d.params[p].declarator))]>>
FunctionsOf(ds, n) == {p \in Kind(ds, "func") : ds[p].name = n}
FirstOf(ds, n) == CHOOSE p \in FunctionsOf(ds, n) : \A q \in FunctionsOf(ds, n) : p <= q

(* One namespace for tags, objects and functions: the core has no other. *)
Ordinary(ds) == Kind(ds, "struct") \cup Kind(ds, "var") \cup Kind(ds, "func")
NamesOK(ds) ==
    /\ \A p, q \in Kind(ds, "typedef") : ds[p].name = ds[q].name => p = q
    /\ \A p, q \in Ordinary(ds) :
          p # q /\ ds[p].name = ds[q].name => ds[p].k = "func" /\ ds[q].k = "func"

(* The declarations of one function: at most one definition, a prototype   *)
(* is repeated only beside a definition, static comes first and needs one. *)
FunctionOK(ds, p) ==
    LET same == FunctionsOf(ds, ds[p].name)
        defs == {q \in same : ds[q].def}
    IN  /\ \A q \in same : Signature(ds, ds[q]) = Signature(ds, ds[p])
        /\ Cardinality(defs) <= 1
        /\ defs = {} => Cardinality(same) = 1
        /\ ds[p].storage = "static" =>
              defs # {} /\ ds[FirstOf(ds, ds[p].name)].storage = "static"
        /\ ds[p].name = "main" /\ ds[p].def => Signature(ds, ds[p])[1].base # "void"

UnitOK(ds) ==
    /\ NamesOK(ds)
    /\ \A p \in DOMAIN ds :
        CASE ds[p].k = "struct" -> \A f \in DOMAIN ds[p].fields :
                ObjectOK(ds, p, ds[p].fields[f].type, ds[p].fields[f].declarator)
          [] ds[p].k = "typedef" -> ObjectOK(ds, Len(ds) + 1, ds[p].type, ds[p].declarator)
          [] ds[p].k = "var" ->
                /\ ObjectOK(ds, Len(ds) + 1, ds[p].type, ds[p].declarator)
                /\ ds[p].init => /\ ds[p].storage # "extern"
                                 /\ LET e == Expand(ds, ds[p].type, ds[p].declarator)
                                    IN  e.arr = 0 /\ (e.base = "struct" => e.ptr # 0)
          [] ds[p].k = "func" ->
                /\ ds[p].type.base = "void" \/ ds[p].declarator.ptr # 0
                   \/ ObjectOK(ds, Len(ds) + 1, ds[p].type, ds[p].declarator)
                /\ ~ArrayAlias(ds, ds[p].type)
                /\ \A q \in DOMAIN ds[p].params :
                     ObjectOK(ds, Len(ds) + 1, ds[p].params[q].type, ds[p].params[q].declarator)
                /\ FunctionOK(ds, p)

(* What two units must agree on: the scalar, pointer or struct down to its *)
(* fields.                                                                 *)
RECURSIVE Shape(_, _)
Shape(ds, e) ==
    [base |-> IF e.ptr # 0 THEN "pointer" ELSE e.base, count |-> e.arr,
     name |-> IF e.base = "struct" /\ e.ptr = 0 THEN e.name ELSE "",
     fields |-> IF e.base # "struct" \/ e.ptr # 0 THEN <<>>
                ELSE LET s == ds[StructAt(ds, e.name)]
                     IN  [f \in DOMAIN s.fields |->
                            Shape(ds, Expand(ds, s.fields[f].type, s.fields[f].declarator))]]
ExternalShape(ds, p) ==
    LET d == ds[p]
        ps == IF d.k = "func" THEN Signature(ds, d)[2] ELSE <<>>
    IN  <<d.k, Shape(ds, Expand(ds, d.type, d.declarator)),
          [q \in DOMAIN ps |-> Shape(ds, ps[q])]>>
IsExternal(ds, p) ==
    \/ ds[p].k = "var" /\ ds[p].storage # "static"
    \/ ds[p].k = "func" /\ ds[FirstOf(ds, ds[p].name)].storage # "static"
AgreeOnExternals(a, b) ==
    \A p \in DOMAIN a, q \in DOMAIN b :
        IsExternal(a, p) /\ IsExternal(b, q) /\ a[p].name = b[q].name
            => ExternalShape(a, p) = ExternalShape(b, q)

WellFormed(units) ==
    /\ \A a \in DOMAIN units : UnitOK(units[a])
    /\ \A a, b \in DOMAIN units : AgreeOnExternals(units[a], units[b])

-----------------------------------------------------------------------------
(* The importer passes its declarations in order and leaves no struct or   *)
(* typedef half resolved between two of them.                              *)
TypeOK ==
    /\ u \in DOMAIN job /\ i \in DOMAIN Unit
    /\ pass \in {"names", "aliases", "functions", "static", "lower", "import",
                  "sema", "metadata", "external"}
    /\ \A n \in DOMAIN w.structs : w.structs[n].st \in {"new", "resolved"}
    /\ \A n \in DOMAIN w.aliases : w.aliases[n].st \in {"new", "resolved"}
    /\ outcome \in {"none", "import", "sema", "metadata", "external", "built"}

(* hsc --c builds exactly the jobs whose units are well formed and agree   *)
(* on their externals: three passes of the importer, the analysis of the   *)
(* core declarations and the check across units together accept no more    *)
(* and refuse no more.                                                     *)
AcceptedExactly == outcome # "none" => (outcome = "built" <=> WellFormed(job))

(* A unit the importer and the analysis accepted takes its metadata: the   *)
(* lengths sema computed from the texts are the sizes of the C types.  The *)
(* exception is a void main, to which sema gives the host's i32.           *)
MetadataApplies ==
    outcome = "metadata" => \E p \in FunctionsOf(Unit, "main") : Unit[p].type.base = "void"

(* The layout of a struct is the one of C's natural alignment: every field *)
(* at the first aligned offset behind its predecessor, the size the first  *)
(* multiple of the largest alignment; and the members of the core template *)
(* place every field at that offset.                                       *)
SizeIn(structs, e) ==
    (CASE e.ptr # 0 -> PointerBytes
       [] e.ptr = 0 /\ e.base = "struct" -> structs[e.name].abi.len
       [] OTHER -> Scalars[e.base].len) * (IF e.arr = 0 THEN 1 ELSE e.arr)
AlignIn(structs, e) ==
    CASE e.ptr # 0 -> PointerBytes
      [] e.ptr = 0 /\ e.base = "struct" -> structs[e.name].abi.align
      [] OTHER -> Scalars[e.base].align
FirstMultiple(x, from, a) == x >= from /\ x - from < a /\ x % a = 0
LayoutOK(c, n) ==
    LET s == c.structs[n]
        e(f) == Expand(c.unit, s.decl.fields[f].type, s.decl.fields[f].declarator)
        End(f) == IF f = 0 THEN 0 ELSE s.abi.offsets[f] + SizeIn(c.structs, e(f))
        template == CHOOSE t \in {c.core[p] : p \in DOMAIN c.core} : t.name = n
        Upto(p) == FoldLeft(LAMBDA sum, mb : sum + mb.len, 0, SubSeq(template.members, 1, p))
        fs == DOMAIN s.decl.fields
    IN  /\ \A f \in fs : FirstMultiple(s.abi.offsets[f], End(f - 1), AlignIn(c.structs, e(f)))
        /\ \A f \in fs : AlignIn(c.structs, e(f)) <= s.abi.align
        /\ \E f \in fs : AlignIn(c.structs, e(f)) = s.abi.align
        /\ FirstMultiple(s.abi.len, End(Len(s.decl.fields)), s.abi.align)
        /\ \A f \in fs : \E p \in DOMAIN template.members :
              /\ Upto(p - 1) = s.abi.offsets[f]
              /\ template.members[p].len = SizeIn(c.structs, e(f))
        /\ Upto(Len(template.members)) = s.abi.len
LayoutMatchesC ==
    \A c \in {compiled[p] : p \in DOMAIN compiled} : \A n \in DOMAIN c.structs : LayoutOK(c, n)

(* A function has internal linkage exactly when its first declaration is   *)
(* static, an object when it is: the linkage survives the importer's pass  *)
(* over the prototypes and the overrides on the HIR.                       *)
LinkageIsC ==
    \A c \in {compiled[p] : p \in DOMAIN compiled} :
        /\ \A p \in DOMAIN c.hir.funcs :
             (c.hir.funcs[p].link = "Internal")
             <=> c.unit[FirstOf(c.unit, c.hir.funcs[p].name)].storage = "static"
        /\ \A p \in DOMAIN c.hir.globals :
             (c.hir.globals[p].link = "Internal")
             <=> \E q \in Kind(c.unit, "var") :
                    c.unit[q].name = c.hir.globals[p].name /\ c.unit[q].storage = "static"

(* A typedef is an entry of the compatibility layer's translation table    *)
(* (Standard.md, 16.1): two declarations of a function conflict only when  *)
(* their types differ once every typedef is replaced by its type.          *)
TypedefIsTransparent ==
    "conflicting function" \in w.diags =>
        \E p, q \in Kind(Unit, "func") :
            /\ Unit[p].name = Unit[q].name
            /\ Signature(Unit, Unit[p]) # Signature(Unit, Unit[q])
=============================================================================
