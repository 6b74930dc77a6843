------------------------------ MODULE HalfFloats ------------------------------
(***************************************************************************)
(* The conversions between f16 and f32 of runtime/hitsimple_runtime.c, bit *)
(* by bit and in their real widths.  A number is its sign and the rest of  *)
(* its bits: 15 for a half, 31 for a single.  The bits of nonnegative      *)
(* numbers are ordered like their values, and the point in the middle of   *)
(* two neighbouring halves is a single, so that rounding can be stated on  *)
(* the bits alone: a single goes to the half whose neighbouring middles    *)
(* enclose it.                                                             *)
(***************************************************************************)
EXTENDS Integers

CONSTANT Halves     \* the half patterns whose neighbourhood is visited

HalfInfinity == 31 * 2 ^ 10
SingleInfinity == 255 * 2 ^ 23

HalvesAssumption == Halves \subseteq 0 .. (2 ^ 15 - 1)

VARIABLES
    single,    \* the single being converted: [sign, bits]
    half,      \* its conversion
    back,      \* the conversion of that
    phase      \* the conversions made

vars == <<single, half, back, phase>>

Number(sign, bits) == [sign |-> sign, bits |-> bits]

-----------------------------------------------------------------------------
(* The code *)

\* How far a fraction of ten bits is shifted until its leading bit is the implicit one.
LeadingShift(fraction) == CHOOSE k \in 1 .. 10 : fraction * 2 ^ k \in (2 ^ 10) .. (2 ^ 11 - 1)

\* Mutant: the fraction of a NaN is dropped, so that it reads as infinity.
hs_f16_to_f32_Infinity(value) ==
    LET exponent == value.bits \div 2 ^ 10
        fraction == value.bits % 2 ^ 10
    IN  Number(value.sign,
            IF exponent = 0 THEN 0
            ELSE IF exponent = 31 THEN SingleInfinity
            ELSE (exponent + 112) * 2 ^ 23 + fraction * 2 ^ 13)

\* The loop starts from -1 and counts the shifts down.
hs_f16_to_f32(value) ==
    LET exponent == value.bits \div 2 ^ 10
        fraction == value.bits % 2 ^ 10
        k == LeadingShift(fraction)
    IN  Number(value.sign,
            IF exponent = 0
            THEN IF fraction = 0 THEN 0
                 ELSE (127 - 15 + 1 + (-1 - k)) * 2 ^ 23
                        + ((fraction * 2 ^ k) % 2 ^ 10) * 2 ^ 13
            ELSE IF exponent = 31 THEN SingleInfinity + fraction * 2 ^ 13
            ELSE (exponent + 112) * 2 ^ 23 + fraction * 2 ^ 13)

\* Mutant: a tie is always rounded up.
RoundTies_Up(result, remainder, halfway) == IF remainder >= halfway THEN result + 1 ELSE result

RoundTies(result, remainder, halfway) ==
    IF remainder > halfway \/ (remainder = halfway /\ result % 2 # 0) THEN result + 1 ELSE result

\* Mutant: the payload of a NaN is shifted by one bit too few.
NaNBits_Wide(fraction) == IF fraction = 0 THEN HalfInfinity ELSE HalfInfinity + (fraction \div 2 ^ 12)

\* Infinity stays; a NaN keeps its high bits and one more, so that it is not infinity.
NaNBits(fraction) ==
    IF fraction = 0 THEN HalfInfinity
    ELSE LET high == fraction \div 2 ^ 13 IN HalfInfinity + high + (1 - (high % 2))

hs_f32_to_f16(value) ==
    LET exponent == value.bits \div 2 ^ 23
        fraction == value.bits % 2 ^ 23
        halfExponent == exponent - 127 + 15
        mantissa == fraction + 2 ^ 23
        shift == 14 - halfExponent
    IN  Number(value.sign,
            IF exponent = 255 THEN NaNBits(fraction)
            ELSE IF halfExponent >= 31 THEN HalfInfinity
            ELSE IF halfExponent < -10 THEN 0
            ELSE IF halfExponent <= 0
            THEN RoundTies(mantissa \div 2 ^ shift, mantissa % 2 ^ shift, 2 ^ (shift - 1))
            ELSE RoundTies(halfExponent * 2 ^ 10 + (fraction \div 2 ^ 13), fraction % 2 ^ 13, 2 ^ 12))

-----------------------------------------------------------------------------
(* What binary16 and binary32 numbers denote *)

\* The single n * 2^e, for 0 < n < 2^12 and an exponent that is in range.
Single(n, e) ==
    LET k == CHOOSE j \in 0 .. 11 : n \in (2 ^ j) .. (2 ^ (j + 1) - 1)
    IN  (k + e + 127) * 2 ^ 23 + (n * 2 ^ (23 - k) - 2 ^ 23)

\* The single that a finite half denotes: subnormals count in units of 2^-24.
Denoted(h) ==
    LET exponent == h \div 2 ^ 10
        fraction == h % 2 ^ 10
    IN  IF h = 0 THEN 0
        ELSE IF exponent = 0 THEN Single(fraction, -24)
        ELSE Single(2 ^ 10 + fraction, exponent - 25)

\* The middle of a finite half and the next one; after the largest half comes
\* the value that the next exponent would denote.
Middle(h) ==
    LET exponent == h \div 2 ^ 10
        fraction == h % 2 ^ 10
    IN  IF exponent = 0 THEN Single(2 * fraction + 1, -25)
        ELSE Single(2 * (2 ^ 10 + fraction) + 1, exponent - 26)

IsNaN(bits, infinity) == bits > infinity

\* The singles that are interesting for a half: the one it denotes, the ends of
\* its rounding interval and their neighbours; at infinity, the NaNs.
Near(h) ==
    IF h < HalfInfinity
    THEN {b \in {Denoted(h)} \cup ((Middle(h) - 1) .. (Middle(h) + 1)) : b >= 0}
            \cup (IF h = 0 THEN {1, 2 ^ 23} ELSE {})
    ELSE {SingleInfinity, SingleInfinity - 1, SingleInfinity + 1, SingleInfinity + 2 ^ 13,
          SingleInfinity + 2 ^ 22, SingleInfinity + 2 ^ 23 - 1}

Init ==
    /\ \E h \in Halves, sign \in {0, 1} : \E b \in Near(h) : single = Number(sign, b)
    /\ half = Number(0, 0)
    /\ back = Number(0, 0)
    /\ phase = 0

Narrow ==
    /\ phase = 0
    /\ half' = hs_f32_to_f16(single)
    /\ phase' = 1
    /\ UNCHANGED <<single, back>>

Widen ==
    /\ phase = 1
    /\ back' = hs_f16_to_f32(half)
    /\ phase' = 2
    /\ UNCHANGED <<single, half>>

Next == Narrow \/ Widen

Spec == Init /\ [][Next]_vars

-----------------------------------------------------------------------------

\* A converted number has the bits of its format.
TypeOK ==
    /\ single.sign \in {0, 1} /\ single.bits \in Nat
    /\ half.sign \in {0, 1} /\ half.bits \in 0 .. (2 ^ 15 - 1)
    /\ back.sign \in {0, 1} /\ back.bits \in Nat
    /\ phase \in 0 .. 2

\* A single becomes the nearest half, the even one of two that are equally
\* near, infinity from the middle above the largest half on, and a NaN stays
\* a NaN; the sign is kept (hs_f32_to_f16).
RoundsToNearest ==
    phase > 0 =>
        /\ half.sign = single.sign
        /\ IsNaN(half.bits, HalfInfinity) = IsNaN(single.bits, SingleInfinity)
        /\ half.bits < HalfInfinity =>
              \/ single.bits < Middle(half.bits)
              \/ single.bits = Middle(half.bits) /\ half.bits % 2 = 0
        /\ half.bits \in 1 .. HalfInfinity =>
              \/ single.bits > Middle(half.bits - 1)
              \/ single.bits = Middle(half.bits - 1) /\ half.bits % 2 = 0

\* A half becomes the single it denotes, and comes back unchanged, the
\* subnormals included (hs_f16_to_f32, which hs_format_output calls).
WidensExactly ==
    phase = 2 =>
        /\ back.sign = half.sign
        /\ half.bits < HalfInfinity => back.bits = Denoted(half.bits)
        /\ half.bits = HalfInfinity => back.bits = SingleInfinity
        /\ IsNaN(back.bits, SingleInfinity) = IsNaN(half.bits, HalfInfinity)
        /\ hs_f32_to_f16(back) = half

\* The same of the halves that are not subnormal: zero, the normal numbers,
\* infinity and the NaNs.
NormalsWidenExactly == half.bits \notin 1 .. (2 ^ 10 - 1) => WidensExactly
=============================================================================
