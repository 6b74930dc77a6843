---------------------------- MODULE CheckedBytes ----------------------------
(***************************************************************************)
(* The memory and string functions of the standard library in checked      *)
(* mode: the tests that the emitted code makes on the operand Views before *)
(* a call (codegen/LLVMCodegenExpressions.cpp, emitCallValue), the tests   *)
(* that the runtime makes against its object registry, and the C library   *)
(* call that is finally made (runtime/hitsimple_runtime.c).  A View is the *)
(* address of its first byte and its visible length; the operand of a      *)
(* memory function may be a bare address, which has no length of its own.  *)
(* The visible length says nothing about the storage behind it: a name     *)
(* that was rebound with &= keeps its declared length, and storage may be  *)
(* released while Views of it remain.                                      *)
(***************************************************************************)
EXTENDS Integers, SequencesExt

CONSTANTS
    MaxAddress,   \* addresses are 1 .. MaxAddress; the null address is 0
    MaxByte,      \* bytes are 0 .. MaxByte (255)
    Objects,      \* registered storage: records [base, size]
    Views,        \* operand Views: records [data, length]
    StringCopies, \* the operands of strcpy, strncpy and strcat: pairs of Views
    Lengths,      \* the len, size and count arguments
    UINT64_MAX,   \* the largest u64
    Files         \* what may be read from a file: sequences of bytes

Byte == 0 .. MaxByte
NullAddress == 0
NoLength == -1    \* the length of a bare address
Stopped == [stopped |-> TRUE, value |-> 0]
Returned(value) == [stopped |-> FALSE, value |-> value]

ByteAssumption == MaxByte \in Nat

ObjectAssumption ==
    /\ MaxAddress \in Nat /\ UINT64_MAX \in Nat
    /\ \A o \in Objects : o.base > 0 /\ o.size > 0 /\ o.base + o.size - 1 <= MaxAddress
    /\ \A v \in Views : v.data \in 0 .. MaxAddress /\ v.length > 0

VARIABLES
    memory,    \* Address -> Byte
    freed,     \* the objects whose registry entry is marked freed
    call,      \* the last call: [op, dst, src, len, arg]
    outcome    \* what it returned, or Stopped when hs_fail ended the program

vars == <<memory, freed, call, outcome>>

Address == 1 .. MaxAddress
Bare == {[data |-> v.data, length |-> NoLength] : v \in Views}
NoView == [data |-> NullAddress, length |-> NoLength]
NoCall == [op |-> "none", dst |-> NoView, src |-> NoView, len |-> 0, arg |-> << >>]

Registered == UNION {o.base .. (o.base + o.size - 1) : o \in Objects}

\* The program has stored anything in its objects; other bytes are not its own.
Init ==
    /\ \E contents \in [Registered -> Byte] :
          memory = [a \in Address |-> IF a \in Registered THEN contents[a] ELSE 0]
    /\ freed = {}
    /\ call = NoCall
    /\ outcome = Returned(0)

-----------------------------------------------------------------------------
(* The tests of the runtime *)

Owner(a) == {o \in Objects \ freed : a \in o.base .. (o.base + o.size - 1)}

\* The bytes from a to the end of its object.
Remaining(a) == LET o == CHOOSE x \in Owner(a) : TRUE IN o.base + o.size - a

hs_check(a, size) == size = 0 \/ (Owner(a) # {} /\ size <= Remaining(a))

hs_checked_product(size, count) == size = 0 \/ count <= UINT64_MAX \div size

hs_check_view_capacity(visible, size, count) ==
    hs_checked_product(size, count) /\ size * count <= visible

\* Mutant: no room is asked for the terminating byte.
hs_check_cstr_capacity_NoTerminator(visible, used, append) ==
    used <= visible /\ append <= visible - used

hs_check_cstr_capacity(visible, used, append) ==
    used < visible /\ append < visible - used

Terminators(a, limit) == {i \in 0 .. (limit - 1) : memory[a + i] = 0}

\* The index of the terminating byte in the object, or -1 when the check fails.
hs_cstr_length(a) ==
    IF Owner(a) = {} \/ Terminators(a, Remaining(a)) = {} THEN -1
    ELSE Min(Terminators(a, Remaining(a)))

hs_check_cstr_view(v) ==
    IF Owner(v.data) = {} THEN -1
    ELSE LET limit == Min({v.length, Remaining(v.data)})
         IN  IF Terminators(v.data, limit) = {} THEN -1 ELSE Min(Terminators(v.data, limit))

Overlap(dst, src, size) == dst < src + size /\ src < dst + size

-----------------------------------------------------------------------------
(* The C library *)

Written(m, a, bytes) ==
    [x \in Address |-> IF x \in a .. (a + Len(bytes) - 1) THEN bytes[x - a + 1] ELSE m[x]]

Contents(m, a, n) == [i \in 1 .. n |-> m[a + i - 1]]

memmove(m, dst, src, n) == Written(m, dst, Contents(m, src, n))

\* A copy byte by byte that starts at the first, or at the last, byte reads
\* what it has already written when the ranges overlap.
CopyUp(m, dst, src, n) ==
    Written(m, dst, [i \in 1 .. n |-> m[src + (IF dst > src THEN (i - 1) % (dst - src) ELSE i - 1)]])

CopyDown(m, dst, src, n) ==
    Written(m, dst, [i \in 1 .. n |->
        m[src + n - 1 - (IF dst < src THEN (n - i) % (src - dst) ELSE n - i)]])

memcpy(m, dst, src, n) == {CopyUp(m, dst, src, n), CopyDown(m, dst, src, n)}

\* The rest of the field is filled before the characters are copied.
strncpy(m, dst, src, n) ==
    LET k == Min({n} \cup Terminators(src, Min({n, Remaining(src)})))
    IN  memcpy(Written(m, dst + k, [i \in 1 .. (n - k) |-> 0]), dst, src, k)

Sign(x) == IF x < 0 THEN -1 ELSE IF x > 0 THEN 1 ELSE 0

\* The sign of the first difference of the two ranges.
memcmp(a, b, n) ==
    LET d == {i \in 0 .. (n - 1) : memory[a + i] # memory[b + i]}
    IN  IF d = {} THEN 0 ELSE Sign(memory[a + Min(d)] - memory[b + Min(d)])

-----------------------------------------------------------------------------
(* The calls *)

\* A bare address has no extent of its own to test.
checkViewCapacity(v, size, count) ==
    v.length # NoLength => hs_check_view_capacity(v.length, size, count)

Perform(c, accepted, memories, value) ==
    /\ call' = c
    /\ \/ ~accepted /\ outcome' = Stopped /\ UNCHANGED memory
       \/ accepted /\ outcome' = Returned(value) /\ memory' \in memories
    /\ UNCHANGED freed

Call(op, dst, src, len, arg) == [op |-> op, dst |-> dst, src |-> src, len |-> len, arg |-> arg]

\* Arguments of more than one byte.
Wide == 0 .. (2 * MaxByte + 1)

\* Mutant: the whole argument is used.
emitViewLowByte_Whole(argument) == argument

emitViewLowByte(argument) == argument % (MaxByte + 1)

Memset ==
    \E dst \in Views \cup Bare, value \in Wide, n \in Lengths :
        Perform(Call("memset", dst, NoView, n, <<value>>),
                checkViewCapacity(dst, n, 1) /\ hs_check(dst.data, n),
                {Written(memory, dst.data, [i \in 1 .. n |-> emitViewLowByte(value)])}, dst.data)

Memcpy ==
    \E dst, src \in Views \cup Bare, n \in Lengths :
        Perform(Call("memcpy", dst, src, n, << >>),
                /\ checkViewCapacity(dst, n, 1) /\ checkViewCapacity(src, n, 1)
                /\ hs_check(dst.data, n) /\ hs_check(src.data, n)
                /\ n # 0 => ~Overlap(dst.data, src.data, n),
                memcpy(memory, dst.data, src.data, n), dst.data)

\* Mutant: memmove hands its operands to memcpy.
Memmove_Memcpy ==
    \E dst, src \in Views \cup Bare, n \in Lengths :
        Perform(Call("memmove", dst, src, n, << >>),
                /\ checkViewCapacity(dst, n, 1) /\ checkViewCapacity(src, n, 1)
                /\ hs_check(dst.data, n) /\ hs_check(src.data, n),
                memcpy(memory, dst.data, src.data, n), dst.data)

Memmove ==
    \E dst, src \in Views \cup Bare, n \in Lengths :
        Perform(Call("memmove", dst, src, n, << >>),
                /\ checkViewCapacity(dst, n, 1) /\ checkViewCapacity(src, n, 1)
                /\ hs_check(dst.data, n) /\ hs_check(src.data, n),
                {memmove(memory, dst.data, src.data, n)}, dst.data)

Memcmp ==
    \E left, right \in Views \cup Bare, n \in Lengths :
        Perform(Call("memcmp", left, right, n, << >>),
                /\ checkViewCapacity(left, n, 1) /\ checkViewCapacity(right, n, 1)
                /\ hs_check(left.data, n) /\ hs_check(right.data, n),
                {memory}, IF n = 0 THEN 0 ELSE memcmp(left.data, right.data, n))

Strlen ==
    \E s \in Views :
        Perform(Call("strlen", NoView, s, 0, << >>),
                hs_check_cstr_view(s) >= 0 /\ hs_cstr_length(s.data) >= 0,
                {memory}, hs_cstr_length(s.data))

hs_strcmp(a, b) ==
    LET leftLength == hs_cstr_length(a)
        rightLength == hs_cstr_length(b)
        result == memcmp(a, b, Min({leftLength, rightLength}))
    IN  IF result # 0 THEN result ELSE Sign(leftLength - rightLength)

Strcmp ==
    \E left, right \in Views :
        Perform(Call("strcmp", left, right, 0, << >>),
                /\ hs_check_cstr_view(left) >= 0 /\ hs_check_cstr_view(right) >= 0
                /\ hs_cstr_length(left.data) >= 0 /\ hs_cstr_length(right.data) >= 0,
                {memory}, hs_strcmp(left.data, right.data))

Strcpy ==
    \E <<dst, src>> \in StringCopies :
        LET n == hs_cstr_length(src.data)
        IN  Perform(Call("strcpy", dst, src, 0, << >>),
                    /\ hs_check_cstr_view(src) >= 0
                    /\ hs_check_cstr_capacity(dst.length, 0, hs_check_cstr_view(src))
                    /\ n >= 0 /\ hs_check(dst.data, n + 1),
                    memcpy(memory, dst.data, src.data, n + 1), dst.data)

Strncpy ==
    \E <<dst, src>> \in StringCopies, n \in Lengths :
        Perform(Call("strncpy", dst, src, n, << >>),
                /\ checkViewCapacity(dst, n, 1) /\ hs_check_cstr_view(src) >= 0
                /\ hs_check(dst.data, n) /\ hs_cstr_length(src.data) >= 0,
                IF n = 0 THEN {memory} ELSE strncpy(memory, dst.data, src.data, n), dst.data)

Strcat ==
    \E <<dst, src>> \in StringCopies :
        LET used == hs_cstr_length(dst.data)
            n == hs_cstr_length(src.data)
        IN  Perform(Call("strcat", dst, src, 0, << >>),
                    /\ hs_check_cstr_view(src) >= 0 /\ hs_check_cstr_view(dst) >= 0
                    /\ hs_check_cstr_capacity(dst.length, hs_check_cstr_view(dst),
                                              hs_check_cstr_view(src))
                    /\ used >= 0 /\ n >= 0 /\ hs_check(dst.data, used + n + 1),
                    memcpy(memory, dst.data + used, src.data, n + 1), dst.data)

\* memchr over the string and its terminating byte.
hs_strchr(a, ch) ==
    LET found == {i \in 0 .. hs_cstr_length(a) : memory[a + i] = ch}
    IN  IF found = {} THEN NullAddress ELSE a + Min(found)

Strchr ==
    \E s \in Views, ch \in Wide :
        Perform(Call("strchr", NoView, s, 0, <<ch>>),
                hs_check_cstr_view(s) >= 0 /\ hs_cstr_length(s.data) >= 0,
                {memory}, hs_strchr(s.data, emitViewLowByte(ch)))

\* The C library stores what the file still holds, a partial element included,
\* and counts the whole elements.
Fread ==
    \E dst \in Views, size, count \in Lengths, file \in Files :
        LET total == size * count
            stored == Min({total, Len(file)})
        IN  Perform(Call("fread", dst, NoView, size, <<count, file>>),
                    /\ checkViewCapacity(dst, size, count)
                    /\ hs_checked_product(size, count) /\ hs_check(dst.data, total),
                    {Written(memory, dst.data, SubSeq(file, 1, stored))},
                    IF total = 0 THEN 0 ELSE stored \div size)

\* The value stands for the elements that reach the file.
Fwrite ==
    \E src \in Views, size, count \in Lengths :
        Perform(Call("fwrite", NoView, src, size, <<count>>),
                /\ checkViewCapacity(src, size, count)
                /\ hs_checked_product(size, count) /\ hs_check(src.data, size * count),
                {memory}, IF size * count = 0 THEN 0 ELSE count)

\* put and fput write the whole View.
Put ==
    \E src \in Views :
        Perform(Call("put", NoView, src, src.length, << >>),
                hs_check(src.data, src.length), {memory}, src.length)

hs_reverse_bytes(bytes) == [i \in 1 .. Len(bytes) |-> bytes[Len(bytes) - i + 1]]

\* The result is a temporary of its own, shown here as the value.
ByteSwap ==
    \E src \in Views :
        Perform(Call("byte_swap", NoView, src, src.length, << >>),
                hs_check(src.data, src.length), {memory},
                hs_reverse_bytes(Contents(memory, src.data, src.length)))

\* A temporary of zero bytes takes the shorter of the two lengths.
ResizeBytes ==
    \E src \in Views, n \in Lengths :
        LET copyLength == Min({src.length, n})
        IN  Perform(Call("resize_bytes", NoView, src, n, << >>),
                    hs_check(src.data, copyLength), {memory},
                    [i \in 1 .. n |-> IF i <= copyLength THEN memory[src.data + i - 1] ELSE 0])

\* free() of a whole object; the Views of it remain.
Release ==
    /\ \E o \in Objects \ freed : freed' = freed \cup {o}
    /\ call' = NoCall
    /\ outcome' = Returned(0)
    /\ UNCHANGED memory

Next ==
    /\ ~outcome.stopped
    /\ \/ Memset \/ Memcpy \/ Memmove \/ Memcmp
       \/ Strlen \/ Strcmp \/ Strcpy \/ Strncpy \/ Strcat \/ Strchr
       \/ Fread \/ Fwrite \/ Put \/ ByteSwap \/ ResizeBytes \/ Release

Spec == Init /\ [][Next]_vars

\* What the next call can depend on.
Storage == <<memory, freed, outcome.stopped>>

-----------------------------------------------------------------------------
(* What chapter 14 of the Standard says, without a registry *)

\* The bytes of a View that the program may use: visible and in live storage.
Extent(v) ==
    LET live == UNION {o.base .. (o.base + o.size - 1) : o \in Objects \ freed}
    IN  {a \in Address :
            /\ v.data # NullAddress /\ v.data <= a
            /\ v.length # NoLength => a < v.data + v.length
            /\ v.data .. a \subseteq live
            /\ \E o \in Objects : v.data .. a \subseteq o.base .. (o.base + o.size - 1)}

Usable(v, n) == v.data .. (v.data + n - 1) \subseteq Extent(v) \/ n = 0

\* The addresses of the characters of a C string, and whether it is one.
Characters(v) == {a \in Extent(v) : \A x \in v.data .. a : memory[x] # 0}

IsString(v) == \E a \in Extent(v) \ Characters(v) : memory[a] = 0

Text(v) == Contents(memory, v.data, Cardinality(Characters(v)))

Terminated(v) == Append(Text(v), 0)

Padded(s, n) == [i \in 1 .. n |-> IF i <= Len(s) THEN s[i] ELSE 0]

\* The order of byte strings: the first difference decides, a prefix is smaller.
Before(s, t) ==
    \E i \in 1 .. (Len(t)) :
        /\ \A j \in 1 .. (i - 1) : j <= Len(s) /\ s[j] = t[j]
        /\ i > Len(s) \/ s[i] < t[i]

Order(s, t) == IF Before(s, t) THEN -1 ELSE IF Before(t, s) THEN 1 ELSE 0

LowByte(c) == CHOOSE b \in Byte : c.arg[1] \in {b, b + MaxByte + 1}

Total(c) == c.len * c.arg[1]

\* Whether chapter 14 asks for an error.
MustReport(c) ==
    \/ c.op \in {"memset", "memcpy", "memmove", "memcmp", "strncpy"} /\ ~Usable(c.dst, c.len)
    \/ c.op \in {"memcpy", "memmove", "memcmp", "put", "byte_swap"} /\ ~Usable(c.src, c.len)
    \/ c.op = "memcpy" /\ (c.dst.data .. (c.dst.data + c.len - 1))
                             \cap (c.src.data .. (c.src.data + c.len - 1)) # {}
    \/ c.op \in {"strlen", "strcmp", "strcpy", "strncpy", "strcat", "strchr"} /\ ~IsString(c.src)
    \/ c.op \in {"strcmp", "strcat"} /\ ~IsString(c.dst)
    \/ c.op = "strcpy" /\ IsString(c.src) /\ ~Usable(c.dst, Len(Terminated(c.src)))
    \/ c.op = "strcat" /\ IsString(c.src) /\ IsString(c.dst)
          /\ ~Usable(c.dst, Len(Text(c.dst) \o Terminated(c.src)))
    \/ c.op = "resize_bytes" /\ ~Usable(c.src, Min({c.len, c.src.length}))
    \/ c.op = "fread" /\ (Total(c) > UINT64_MAX \/ ~Usable(c.dst, Total(c)))
    \/ c.op = "fwrite" /\ (Total(c) > UINT64_MAX \/ ~Usable(c.src, Total(c)))

\* The bytes a call stores, from the first byte of its destination.
Stored(c) ==
    CASE c.op = "memset" -> [i \in 1 .. c.len |-> LowByte(c)]
      [] c.op \in {"memcpy", "memmove"} -> Contents(memory, c.src.data, c.len)
      [] c.op = "strcpy" -> Terminated(c.src)
      [] c.op = "strncpy" -> Padded(Text(c.src), c.len)
      [] c.op = "strcat" -> Text(c.dst) \o Terminated(c.src)
      [] c.op = "fread" -> SubSeq(c.arg[2], 1, Min({Total(c), Len(c.arg[2])}))
      [] OTHER -> << >>

\* Where strchr finds its byte; the terminating byte can be found too.
Matches(c) ==
    {a \in c.src.data .. (c.src.data + Len(Text(c.src))) : memory[a] = LowByte(c)}

Value(c) ==
    CASE c.op \in {"memset", "memcpy", "memmove", "strcpy", "strncpy", "strcat"} ->
            c.dst.data
      [] c.op = "memcmp" ->
            Order(Contents(memory, c.dst.data, c.len), Contents(memory, c.src.data, c.len))
      [] c.op = "strcmp" -> Order(Text(c.dst), Text(c.src))
      [] c.op = "strlen" -> Len(Text(c.src))
      [] c.op = "strchr" -> IF Matches(c) = {} THEN NullAddress ELSE Min(Matches(c))
      [] c.op = "fread" -> IF c.len = 0 THEN 0 ELSE Len(Stored(c)) \div c.len
      [] c.op = "fwrite" -> IF c.len = 0 THEN 0 ELSE c.arg[1]
      [] c.op = "put" -> c.len
      [] c.op = "byte_swap" -> Reverse(Contents(memory, c.src.data, c.len))
      [] c.op = "resize_bytes" ->
            Padded(Contents(memory, c.src.data, Min({c.len, c.src.length})), c.len)
      [] OTHER -> 0

\* Every byte of the storage stays a byte (what memset and fread store).
TypeOK ==
    /\ memory \in [Address -> Byte]
    /\ freed \subseteq Objects
    /\ outcome.stopped \in BOOLEAN
    /\ call.len \in Lengths \cup {v.length : v \in Views} \cup {0}

\* A call is stopped exactly when chapter 14 asks for an error: an operand that
\* is longer than its View or than the storage behind it, a string without a
\* terminating byte in its View, storage that was released, overlapping memcpy
\* operands or a product size * count that overflows (emitCallValue and hs_*).
StopsIfRequired == outcome'.stopped = MustReport(call')

\* A call that returns has stored the bytes and yields the value that chapter
\* 14 describes, and has changed no other byte (emitCallValue and hs_*).
StoresIfReturned ==
    ~outcome'.stopped =>
        /\ memory' = Written(memory, call'.dst.data, Stored(call'))
        /\ outcome'.value = Value(call')
=============================================================================
