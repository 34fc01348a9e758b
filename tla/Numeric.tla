------------------------------- MODULE Numeric -------------------------------
(***************************************************************************)
(* The numeric instructions whose three implementations differ in          *)
(* algorithm: the interpreter (include/executor/engine/*_numeric.ipp), the *)
(* code the LLVM compiler emits (lib/llvm/compiler.cpp), used by tier 2,   *)
(* and the code the tier-1 builder emits (lib/vm/ir_builder.cpp).  A       *)
(* function may move from one to another in the middle of a loop, so they  *)
(* have to compute the same values and trap on the same operands.          *)
(*                                                                         *)
(* The widths are parameters: an integer type is its width, a float type   *)
(* its width and its precision, as i32/i64 and f32/f64 are in the code.    *)
(* Integers are bit patterns 0 .. 2^w - 1.  A float is a count of halves   *)
(* (enough to tell rounding towards zero from other roundings), a negative *)
(* zero, an infinity or a NaN; payloads of NaNs are left out.              *)
(***************************************************************************)
EXTENDS Integers, FiniteSets, Sequences, Bitwise

CONSTANTS
    Width,      \* type name |-> width in bits
    Precision,  \* float type name |-> bits of its significand
    Seeds,      \* the cells a sequence of instructions starts from
    Patterns,   \* integer type |-> the right operands given to it
    Floats,     \* float type |-> the right operands given to it
    MaxSteps    \* bound on the length of a sequence of instructions

IntTypes == {"i32", "i64"}
FloatTypes == {"f32", "f64"}

VARIABLES
    cell,       \* the value on top of the stack, or the trap that ended the run
    steps       \* instructions left

numVars == <<cell, steps>>

-----------------------------------------------------------------------------
(* Values *)

IntOf(ty, n) == [ty |-> ty, k |-> "int", n |-> n % 2^Width[ty]]
FloatOf(ty, n) == [ty |-> ty, k |-> "num", n |-> n]
Special(ty, k) == [ty |-> ty, k |-> k, n |-> 0]
Trapped(err) == [ty |-> "trap", k |-> err, n |-> 0]

(* What static_cast<int> makes of the pattern. *)
Signed(ty, n) == IF n >= 2^(Width[ty] - 1) THEN n - 2^Width[ty] ELSE n
Read(ty, s, n) == IF s THEN Signed(ty, n) ELSE n

(* std::numeric_limits<TOut>::min() and max(). *)
MinOf(ty, s) == IF s THEN -(2^(Width[ty] - 1)) ELSE 0
MaxOf(ty, s) == IF s THEN 2^(Width[ty] - 1) - 1 ELSE 2^Width[ty] - 1

(* C++ integer division: truncated towards zero. *)
AbsOf(n) == IF n < 0 THEN -n ELSE n
Quot(a, b) ==
    IF (a < 0) = (b < 0) THEN AbsOf(a) \div AbsOf(b) ELSE -(AbsOf(a) \div AbsOf(b))

(* Number of significant bits of n. *)
BitLength(n) == CHOOSE l \in 0 .. 64 : 2^l > n /\ (l = 0 \/ 2^(l - 1) <= n)

(* Conversion to a float of precision p: to nearest, ties to even. *)
RoundTo(p, n) ==
    LET m == AbsOf(n)
        l == BitLength(m)
        unit == 2^(l - p)
        q == m \div unit
        r == 2 * (m % unit)
        up == r > unit \/ (r = unit /\ q % 2 = 1)
        v == (IF up THEN q + 1 ELSE q) * unit
    IN  IF l <= p THEN n ELSE IF n < 0 THEN -v ELSE v

(* std::trunc of a count of halves, as an integer. *)
Whole(n) == Quot(n, 2)

-----------------------------------------------------------------------------
(* The interpreter *)

runDivOp(ty, s, a, b) ==
    LET v1 == Read(ty, s, a)
        v2 == Read(ty, s, b)
    IN  CASE v2 = 0 -> Trapped("DivideByZero")
          [] s /\ v1 = MinOf(ty, TRUE) /\ v2 = -1 -> Trapped("IntegerOverflow")
          [] OTHER -> IntOf(ty, Quot(v1, v2))

runRemOp(ty, s, a, b) ==
    LET i1 == Read(ty, s, a)
        i2 == Read(ty, s, b)
    IN  CASE i2 = 0 -> Trapped("DivideByZero")
          [] s /\ i2 = -1 -> IntOf(ty, 0)
          [] OTHER -> IntOf(ty, i1 - i2 * Quot(i1, i2))

runShlOp(ty, a, b) == IntOf(ty, a * 2^(b % Width[ty]))

(* The shift count is read unsigned whatever the type of the value. *)
runShrOp(ty, s, a, b) == IntOf(ty, Read(ty, s, a) \div 2^(b % Width[ty]))

runRotlOp(ty, a, b) ==
    LET w == Width[ty]
        k == b % w
    IN  IF k = 0 THEN IntOf(ty, a)
        ELSE IntOf(ty, ((a * 2^k) % 2^w) | (a \div 2^(w - k)))

runRotrOp(ty, a, b) ==
    LET w == Width[ty]
        k == b % w
    IN  IF k = 0 THEN IntOf(ty, a)
        ELSE IntOf(ty, (a \div 2^k) | ((a * 2^(w - k)) % 2^w))

(* The counting loops: while no bit under the mask, shift and count. *)
runClzOp(ty, a) ==
    LET w == Width[ty]
        count[n \in 0 .. w] ==
            IF ((a * 2^n) % 2^w) & 2^(w - 1) # 0 THEN n ELSE count[n + 1]
    IN  IF a = 0 THEN IntOf(ty, w) ELSE IntOf(ty, count[0])

runCtzOp(ty, a) ==
    LET count[n \in 0 .. Width[ty]] ==
            IF (a \div 2^n) & 1 # 0 THEN n ELSE count[n + 1]
    IN  IF a = 0 THEN IntOf(ty, Width[ty]) ELSE IntOf(ty, count[0])

runPopcntOp(ty, a) ==
    LET count[n \in 0 .. Width[ty]] ==
            IF a \div 2^n = 0 THEN 0
            ELSE (IF (a \div 2^n) & 1 # 0 THEN 1 ELSE 0) + count[n + 1]
    IN  IntOf(ty, count[0])

(* Conversion of the low half of the type, read signed, to the full width. *)
runExtendOp(ty, a) ==
    LET h == 2^(Width[ty] \div 2)
        low == a % h
    IN  IntOf(ty, IF low >= h \div 2 THEN low - h ELSE low)

(* Mutant: one comparison for all pairs of types. *)
OutOfRangeInclusive(fty, ty, s, t) ==
    \/ t < RoundTo(Precision[fty], MinOf(ty, s))
    \/ t > RoundTo(Precision[fty], MaxOf(ty, s))

(* The limits of the integer type, converted to the float type, may be     *)
(* rounded up: then the upper one is outside the range.                    *)
OutOfRange(fty, ty, s, t) ==
    LET min == RoundTo(Precision[fty], MinOf(ty, s))
        max == RoundTo(Precision[fty], MaxOf(ty, s))
    IN  \/ t < min
        \/ IF Width[fty] > Width[ty] THEN t > max ELSE t >= max

runTruncateOp(x, ty, s) ==
    CASE x.k = "nan" -> Trapped("InvalidConvToInt")
      [] x.k \in {"inf", "ninf"} -> Trapped("IntegerOverflow")
      [] OTHER -> IF OutOfRange(x.ty, ty, s, Whole(x.n)) THEN Trapped("IntegerOverflow")
                  ELSE IntOf(ty, Whole(x.n))

runTruncateSatOp(x, ty, s) ==
    CASE x.k = "nan" -> IntOf(ty, 0)
      [] x.k = "ninf" -> IntOf(ty, MinOf(ty, s))
      [] x.k = "inf" -> IntOf(ty, MaxOf(ty, s))
      [] OTHER ->
           LET t == Whole(x.n)
           IN  CASE t < RoundTo(Precision[x.ty], MinOf(ty, s)) -> IntOf(ty, MinOf(ty, s))
                 [] OutOfRange(x.ty, ty, s, t) /\ t >= 0 -> IntOf(ty, MaxOf(ty, s))
                 [] OTHER -> IntOf(ty, t)

runConvertOp(x, fty, s) == FloatOf(fty, 2 * RoundTo(Precision[fty], Read(x.ty, s, x.n)))

(* Order of floats that are not NaN; the zeros are equal. *)
Below(x, y) ==
    CASE x.k = "ninf" -> y.k # "ninf"
      [] x.k = "inf" -> FALSE
      [] y.k = "inf" -> TRUE
      [] y.k = "ninf" -> FALSE
      [] OTHER -> x.n < y.n

IsZero(x) == x.n = 0 /\ x.k \in {"num", "nzero"}
SignBit(x) == x.k \in {"ninf", "nzero"} \/ x.n < 0

(* std::min(Z1, Z2) returns Z1 unless Z2 < Z1. *)
runMinOp(x, y) ==
    CASE x.k = "nan" \/ y.k = "nan" -> Special(x.ty, "nan")
      [] IsZero(x) /\ IsZero(y) /\ SignBit(x) # SignBit(y) -> Special(x.ty, "nzero")
      [] OTHER -> IF Below(y, x) THEN y ELSE x

runMaxOp(x, y) ==
    CASE x.k = "nan" \/ y.k = "nan" -> Special(x.ty, "nan")
      [] IsZero(x) /\ IsZero(y) /\ SignBit(x) # SignBit(y) -> FloatOf(x.ty, 0)
      [] OTHER -> IF Below(x, y) THEN y ELSE x

-----------------------------------------------------------------------------
(* The code the LLVM compiler emits: explicit checks (kForceDivCheck), then *)
(* the instruction, which is undefined on the operands the checks exclude.  *)

(* Any value or fault, as the machine has it. *)
Undefined == Trapped("Undefined")

SDiv(ty, a, b) ==
    LET v1 == Signed(ty, a)
        v2 == Signed(ty, b)
    IN  IF v2 = 0 \/ (v1 = MinOf(ty, TRUE) /\ v2 = -1) THEN Undefined
        ELSE IntOf(ty, Quot(v1, v2))

SRem(ty, a, b) ==
    LET v1 == Signed(ty, a)
        v2 == Signed(ty, b)
    IN  IF v2 = 0 \/ (v1 = MinOf(ty, TRUE) /\ v2 = -1) THEN Undefined
        ELSE IntOf(ty, v1 - v2 * Quot(v1, v2))

CompiledDivS(ty, a, b) ==
    CASE b = 0 -> Trapped("DivideByZero")
      [] ~(a # 2^(Width[ty] - 1) \/ b # 2^Width[ty] - 1) -> Trapped("IntegerOverflow")
      [] OTHER -> SDiv(ty, a, b)

CompiledDivU(ty, a, b) ==
    IF b = 0 THEN Trapped("DivideByZero") ELSE IntOf(ty, a \div b)

CompiledRemS(ty, a, b) ==
    CASE b = 0 -> Trapped("DivideByZero")
      [] ~(a # 2^(Width[ty] - 1) \/ b # 2^Width[ty] - 1) -> IntOf(ty, 0)
      [] OTHER -> SRem(ty, a, b)

CompiledRemU(ty, a, b) ==
    IF b = 0 THEN Trapped("DivideByZero") ELSE IntOf(ty, a % b)

(* The count is masked with 31 or 63; a count of the width is poison. *)
CompiledShift(ty, op, a, b) ==
    LET k == b & (Width[ty] - 1)
    IN  CASE op = "shl" -> IntOf(ty, a * 2^k)
          [] op = "shr_s" -> IntOf(ty, Signed(ty, a) \div 2^k)
          [] op = "shr_u" -> IntOf(ty, a \div 2^k)

(* llvm.fshl and llvm.fshr of a value with itself: a rotation by the count *)
(* modulo the width.                                                       *)
FShl(ty, a, b) ==
    LET w == Width[ty]
        k == b % w
    IN  IntOf(ty, ((a * 2^k) % 2^w) + (a \div 2^(w - k)))
FShr(ty, a, b) == FShl(ty, a, Width[ty] - (b % Width[ty]))

(* llvm.ctlz and llvm.cttz, which are told that 0 is defined, llvm.ctpop,  *)
(* and the truncation to half the width followed by a sign extension.      *)
CompiledUnary(ty, op, a) ==
    LET w == Width[ty]
        ones == {n \in 0 .. w - 1 : (a \div 2^n) % 2 = 1}
    IN  CASE op = "clz" -> IntOf(ty, w - BitLength(a))
          [] op = "ctz" -> IntOf(ty, CHOOSE n \in 0 .. w : (n = w \/ n \in ones)
                                          /\ \A m \in ones : n <= m)
          [] op = "popcnt" -> IntOf(ty, Cardinality(ones))
          [] op = "extend" -> runExtendOp(ty, a)

(* Precise compares the width with the significand, not with the size of   *)
(* the float type as the interpreter does.                                 *)
NotOverflow(fty, ty, s, t) ==
    LET max == RoundTo(Precision[fty], MaxOf(ty, s))
    IN  IF Width[ty] <= Precision[fty] THEN t <= max ELSE t < max

NotUnderflow(fty, ty, s, t) == t >= RoundTo(Precision[fty], MinOf(ty, s))

compileTrunc(x, ty, s) ==
    CASE x.k = "nan" -> Trapped("InvalidConvToInt")
      [] x.k \in {"inf", "ninf"} -> Trapped("IntegerOverflow")
      [] OTHER -> IF /\ NotUnderflow(x.ty, ty, s, Whole(x.n))
                     /\ NotOverflow(x.ty, ty, s, Whole(x.n))
                  THEN IntOf(ty, Whole(x.n)) ELSE Trapped("IntegerOverflow")

compileSignedTruncSat(x, ty) ==
    CASE x.k = "nan" -> IntOf(ty, 0)
      [] x.k = "ninf" \/ ~NotUnderflow(x.ty, ty, TRUE, Whole(x.n)) ->
           IntOf(ty, MinOf(ty, TRUE))
      [] x.k = "inf" \/ ~NotOverflow(x.ty, ty, TRUE, Whole(x.n)) ->
           IntOf(ty, MaxOf(ty, TRUE))
      [] OTHER -> IntOf(ty, Whole(x.n))

(* There is no test for NaN: the ordered comparison with the minimum is    *)
(* false, and the result is the minimum, which is 0.                       *)
compileUnsignedTruncSat(x, ty) ==
    CASE x.k \in {"nan", "ninf"} \/ ~NotUnderflow(x.ty, ty, FALSE, Whole(x.n)) ->
           IntOf(ty, MinOf(ty, FALSE))
      [] x.k = "inf" \/ ~NotOverflow(x.ty, ty, FALSE, Whole(x.n)) ->
           IntOf(ty, MaxOf(ty, FALSE))
      [] OTHER -> IntOf(ty, Whole(x.n))

(* select(UEQ, select(UNO, x + y, bits of x or bits of y), minnum(x, y)):   *)
(* equal operands have equal bits, but for the zeros.                      *)
CompiledMin(x, y) ==
    CASE x.k = "nan" \/ y.k = "nan" -> Special(x.ty, "nan")
      [] IsZero(x) /\ IsZero(y) ->
           IF SignBit(x) \/ SignBit(y) THEN Special(x.ty, "nzero") ELSE FloatOf(x.ty, 0)
      [] OTHER -> IF Below(x, y) THEN x ELSE y

CompiledMax(x, y) ==
    CASE x.k = "nan" \/ y.k = "nan" -> Special(x.ty, "nan")
      [] IsZero(x) /\ IsZero(y) ->
           IF SignBit(x) /\ SignBit(y) THEN Special(x.ty, "nzero") ELSE FloatOf(x.ty, 0)
      [] OTHER -> IF Below(x, y) THEN y ELSE x

-----------------------------------------------------------------------------
(* The code the tier-1 builder emits.  The IR's own operations are undefined *)
(* where the machine's are; its shifts take the count modulo the width.     *)

\* wasm_i32_div_u and its kin are C functions that the code calls.
wasm_div_u(ty, a, b) == IntOf(ty, IF b # 0 THEN a \div b ELSE 0)
wasm_rem_u(ty, a, b) == IntOf(ty, IF b # 0 THEN a % b ELSE 0)

TierOneBinary(ty, op, a, b) ==
    CASE op = "div_s" -> SDiv(ty, a, b)
      [] op = "rem_s" -> SRem(ty, a, b)
      [] op = "div_u" -> wasm_div_u(ty, a, b)
      [] op = "rem_u" -> wasm_rem_u(ty, a, b)
      [] op \in {"shl", "shr_s", "shr_u"} -> CompiledShift(ty, op, a, b)
      [] op = "rotl" -> FShl(ty, a, b)
      [] op = "rotr" -> FShr(ty, a, b)

\* One byte of the mask repeated over the width.
Mask(ty, byte) == (byte * ((2^Width[ty] - 1) \div 255)) % 2^Width[ty]

TierOnePopcnt(ty, a) ==
    LET w == Width[ty]
        x1 == (a - ((a \div 2) & Mask(ty, 85))) % 2^w
        x2 == (x1 & Mask(ty, 51)) + ((x1 \div 4) & Mask(ty, 51))
        x3 == (x2 + (x2 \div 16)) & Mask(ty, 15)
    IN  IntOf(ty, ((x3 * Mask(ty, 1)) % 2^w) \div 2^(w - 8))

\* The IR's CTLZ and CTTZ are undefined on 0; a COND around them picks the
\* width.  The extension is a shift to the left and an arithmetic one back.
TierOneUnary(ty, op, a) ==
    CASE op \in {"clz", "ctz"} ->
           IF a = 0 THEN IntOf(ty, Width[ty]) ELSE CompiledUnary(ty, op, a)
      [] op = "popcnt" -> TierOnePopcnt(ty, a)
      [] op = "extend" ->
           LET h == Width[ty] \div 2
           IN  IntOf(ty, Signed(ty, (a * 2^h) % 2^Width[ty]) \div 2^h)

\* FP2I32 and FP2I64, signed, for all eight truncations to a type.
TierOneTrunc(x, ty) ==
    IF x.k \in {"num", "nzero"} /\ Whole(x.n) \in MinOf(ty, TRUE) .. MaxOf(ty, TRUE)
    THEN IntOf(ty, Whole(x.n)) ELSE Undefined

\* Mutant: nothing is zero-extended.
TierOneConvertSigned(x, fty, s) == runConvertOp(x, fty, TRUE)

\* i32 is zero-extended before an unsigned conversion, i64 is not.
TierOneConvert(x, fty, s) ==
    runConvertOp(x, fty, s \/ x.ty = "i64")

\* MIN and MAX are the machine's, which look neither for NaN nor for zeros.
TierOneMinMax(op, x, y) ==
    CASE x.k = "nan" \/ y.k = "nan" \/ (IsZero(x) /\ IsZero(y) /\ x # y) -> Undefined
      [] op = "min" -> IF Below(x, y) THEN x ELSE y
      [] OTHER -> IF Below(x, y) THEN y ELSE x

-----------------------------------------------------------------------------
(* What an instruction computes, by the meaning of its operands *)

Bits(ty, a) == {n \in 0 .. Width[ty] - 1 : (a \div 2^n) % 2 = 1}
OfBits(ty, B) ==
    LET sum[n \in 0 .. Width[ty]] ==
            IF n = 0 THEN 0 ELSE sum[n - 1] + IF n - 1 \in B THEN 2^(n - 1) ELSE 0
    IN  IntOf(ty, sum[Width[ty]])

\* The quotient truncated towards zero, and the remainder that goes with it.
IsQuotient(q, a, b) ==
    /\ AbsOf(b * q) <= AbsOf(a)
    /\ AbsOf(a) < AbsOf(b * q) + AbsOf(b)
    /\ q # 0 => (q < 0) = ((a < 0) # (b < 0))
IsRemainder(r, a, b) ==
    /\ AbsOf(r) < AbsOf(b)
    /\ (a - r) % AbsOf(b) = 0
    /\ r # 0 => (r < 0) = (a < 0)

MeansBinary(ty, op, a, b, res) ==
    LET w == Width[ty]
        s == op \in {"div_s", "rem_s"}
        va == Read(ty, s, a)
        vb == Read(ty, s, b)
        v == Read(ty, s, res.n)
        k == b % w
        A == Bits(ty, a)
    IN  CASE op \in {"div_s", "div_u", "rem_s", "rem_u"} /\ vb = 0 ->
               res = Trapped("DivideByZero")
          [] op \in {"div_s", "div_u"} /\ vb # 0 ->
               IF s /\ va = MinOf(ty, s) /\ vb = -1 THEN res = Trapped("IntegerOverflow")
               ELSE res.ty = ty /\ IsQuotient(v, va, vb)
          [] op \in {"rem_s", "rem_u"} /\ vb # 0 ->
               res.ty = ty /\ IsRemainder(v, va, vb)
          [] op = "shl" -> res = OfBits(ty, {n + k : n \in A})
          [] op = "shr_u" -> res = OfBits(ty, {n - k : n \in A})
          [] op = "shr_s" ->
               res = OfBits(ty, {n \in 0 .. w - 1 :
                        IF n + k < w THEN n + k \in A ELSE w - 1 \in A})
          [] op = "rotl" -> res = OfBits(ty, {(n + b) % w : n \in A})
          [] op = "rotr" -> res = OfBits(ty, {(n - b) % w : n \in A})

MeansUnary(ty, op, a, res) ==
    LET w == Width[ty]
        A == Bits(ty, a)
    IN  CASE op = "clz" -> res = IntOf(ty, Cardinality({n \in 0 .. w - 1 :
                                    \A m \in n .. w - 1 : m \notin A}))
          [] op = "ctz" -> res = IntOf(ty, Cardinality({n \in 0 .. w - 1 :
                                    \A m \in 0 .. n : m \notin A}))
          [] op = "popcnt" -> res = IntOf(ty, Cardinality(A))
          [] op = "extend" ->
               LET h == w \div 2
               IN  res = OfBits(ty, {n \in 0 .. w - 1 :
                            IF n < h THEN n \in A ELSE h - 1 \in A})

\* The integer nearest to x on the side of zero, when the type has it.
Fits(x, ty, s) == 2 * MinOf(ty, s) - 2 < x.n /\ x.n < 2 * MaxOf(ty, s) + 2

MeansTrunc(x, ty, s, res) ==
    res = CASE x.k = "nan" -> Trapped("InvalidConvToInt")
            [] x.k \in {"inf", "ninf"} -> Trapped("IntegerOverflow")
            [] OTHER -> IF Fits(x, ty, s) THEN IntOf(ty, Whole(x.n))
                        ELSE Trapped("IntegerOverflow")

MeansTruncSat(x, ty, s, res) ==
    res = CASE x.k = "nan" -> IntOf(ty, 0)
            [] x.k \in {"num", "nzero"} /\ Fits(x, ty, s) -> IntOf(ty, Whole(x.n))
            [] OTHER -> IntOf(ty, IF SignBit(x) THEN MinOf(ty, s) ELSE MaxOf(ty, s))

\* Among the floats of the type none is nearer.
MeansConvert(x, fty, s, res) ==
    LET v == Read(x.ty, s, x.n)
        d == AbsOf(res.n \div 2 - v)
        unit == 2^(IF BitLength(AbsOf(v)) > Precision[fty]
                   THEN BitLength(AbsOf(v)) - Precision[fty] ELSE 0)
    IN  /\ (res.n \div 2) % unit = 0
        /\ 2 * d <= unit
        /\ 2 * d = unit => ((res.n \div 2) \div unit) % 2 = 0

\* Minimum and maximum of the two with -0 below +0; NaN wins.
Rank(x) == <<CASE x.k = "ninf" -> -1 [] x.k = "inf" -> 1 [] OTHER -> 0,
             IF x.k = "nzero" THEN -1 ELSE 2 * x.n>>
Precedes(x, y) ==
    \/ Rank(x)[1] < Rank(y)[1]
    \/ Rank(x)[1] = Rank(y)[1] /\ Rank(x)[2] <= Rank(y)[2]

MeansMinMax(op, x, y, res) ==
    IF "nan" \in {x.k, y.k} THEN res.k = "nan"
    ELSE /\ res \in {x, y}
         /\ \A z \in {x, y} : IF op = "min" THEN Precedes(res, z) ELSE Precedes(z, res)

-----------------------------------------------------------------------------
(* Instructions: [op, to, s], and the right operand *)

BinaryOps == {"div_s", "div_u", "rem_s", "rem_u", "shl", "shr_s", "shr_u", "rotl", "rotr"}
UnaryOps == {"clz", "ctz", "popcnt", "extend"}

NumInstr(op, to, s) == [op |-> op, to |-> to, s |-> s]

\* The instructions the validator allows on a value of type ty.
Instructions(ty) ==
    IF ty \in IntTypes
    THEN {NumInstr(op, ty, FALSE) : op \in BinaryOps \cup UnaryOps}
         \cup {NumInstr("convert", f, s) : f \in FloatTypes, s \in BOOLEAN}
    ELSE {NumInstr(op, ty, FALSE) : op \in {"min", "max"}}
         \cup {NumInstr(op, t, s) : op \in {"trunc", "trunc_sat"}, t \in IntTypes, s \in BOOLEAN}

Operands(ty, i) ==
    CASE i.op \in BinaryOps -> {IntOf(ty, n) : n \in Patterns[ty]}
      [] i.op \in {"min", "max"} -> Floats[ty]
      [] OTHER -> {IntOf("i32", 0)}

Interp(i, x, y) ==
    CASE i.op \in {"div_s", "div_u"} -> runDivOp(x.ty, i.op = "div_s", x.n, y.n)
      [] i.op \in {"rem_s", "rem_u"} -> runRemOp(x.ty, i.op = "rem_s", x.n, y.n)
      [] i.op = "shl" -> runShlOp(x.ty, x.n, y.n)
      [] i.op \in {"shr_s", "shr_u"} -> runShrOp(x.ty, i.op = "shr_s", x.n, y.n)
      [] i.op = "rotl" -> runRotlOp(x.ty, x.n, y.n)
      [] i.op = "rotr" -> runRotrOp(x.ty, x.n, y.n)
      [] i.op = "clz" -> runClzOp(x.ty, x.n)
      [] i.op = "ctz" -> runCtzOp(x.ty, x.n)
      [] i.op = "popcnt" -> runPopcntOp(x.ty, x.n)
      [] i.op = "extend" -> runExtendOp(x.ty, x.n)
      [] i.op = "convert" -> runConvertOp(x, i.to, i.s)
      [] i.op = "trunc" -> runTruncateOp(x, i.to, i.s)
      [] i.op = "trunc_sat" -> runTruncateSatOp(x, i.to, i.s)
      [] i.op = "min" -> runMinOp(x, y)
      [] i.op = "max" -> runMaxOp(x, y)

Compiled(i, x, y) ==
    CASE i.op = "div_s" -> CompiledDivS(x.ty, x.n, y.n)
      [] i.op = "div_u" -> CompiledDivU(x.ty, x.n, y.n)
      [] i.op = "rem_s" -> CompiledRemS(x.ty, x.n, y.n)
      [] i.op = "rem_u" -> CompiledRemU(x.ty, x.n, y.n)
      [] i.op \in {"shl", "shr_s", "shr_u"} -> CompiledShift(x.ty, i.op, x.n, y.n)
      [] i.op = "rotl" -> FShl(x.ty, x.n, y.n)
      [] i.op = "rotr" -> FShr(x.ty, x.n, y.n)
      [] i.op \in UnaryOps -> CompiledUnary(x.ty, i.op, x.n)
      [] i.op = "convert" -> runConvertOp(x, i.to, i.s)
      [] i.op = "trunc" -> compileTrunc(x, i.to, i.s)
      [] i.op = "trunc_sat" /\ i.s -> compileSignedTruncSat(x, i.to)
      [] i.op = "trunc_sat" /\ ~i.s -> compileUnsignedTruncSat(x, i.to)
      [] i.op = "min" -> CompiledMin(x, y)
      [] i.op = "max" -> CompiledMax(x, y)

TierOne(i, x, y) ==
    CASE i.op \in BinaryOps -> TierOneBinary(x.ty, i.op, x.n, y.n)
      [] i.op \in UnaryOps -> TierOneUnary(x.ty, i.op, x.n)
      [] i.op = "convert" -> TierOneConvert(x, i.to, i.s)
      [] i.op \in {"trunc", "trunc_sat"} -> TierOneTrunc(x, i.to)
      [] i.op \in {"min", "max"} -> TierOneMinMax(i.op, x, y)

Means(i, x, y, res) ==
    CASE i.op \in BinaryOps -> MeansBinary(x.ty, i.op, x.n, y.n, res)
      [] i.op \in UnaryOps -> MeansUnary(x.ty, i.op, x.n, res)
      [] i.op = "convert" -> MeansConvert(x, i.to, i.s, res)
      [] i.op = "trunc" -> MeansTrunc(x, i.to, i.s, res)
      [] i.op = "trunc_sat" -> MeansTruncSat(x, i.to, i.s, res)
      [] i.op \in {"min", "max"} -> MeansMinMax(i.op, x, y, res)

-----------------------------------------------------------------------------
(* The interpreter executes a sequence of instructions on its stack top. *)

NumInit == cell \in Seeds /\ steps = MaxSteps

Execute(i, y) ==
    /\ steps > 0
    /\ cell' = Interp(i, cell, y)
    /\ steps' = IF cell'.ty = "trap" THEN 0 ELSE steps - 1

NumNext ==
    /\ cell.ty # "trap"
    /\ \E i \in Instructions(cell.ty) : \E y \in Operands(cell.ty, i) : Execute(i, y)

NumSpec == NumInit /\ [][NumNext]_numVars

(***************************************************************************)
(* Both engines that run a function from its first call to its last, the   *)
(* interpreter and the LLVM compiler's code, compute what the instruction   *)
(* means or trap as it does, whatever value an earlier instruction left;    *)
(* the compiled code reaches no division, shift or conversion outside the   *)
(* operands for which LLVM defines it.                                     *)
(***************************************************************************)
EnginesAgree ==
    cell.ty # "trap" =>
        \A i \in Instructions(cell.ty) : \A y \in Operands(cell.ty, i) :
            LET res == Interp(i, cell, y)
            IN  Means(i, cell, y, res) /\ Compiled(i, cell, y) = res

(***************************************************************************)
(* The operands on which tier 1 need not compute what the interpreter does: *)
(* divisors of 0, the signed overflow of a division, floats outside the     *)
(* signed range, large unsigned 64-bit integers that become floats, NaN and *)
(* zeros of different signs in a minimum or maximum.                        *)
(***************************************************************************)
TierOneMayDiffer(i, x, y) ==
    \/ i.op \in {"div_s", "div_u", "rem_s", "rem_u"} /\ y.n = 0
    \/ /\ i.op \in {"div_s", "rem_s"}
       /\ Signed(x.ty, x.n) = MinOf(x.ty, TRUE) /\ Signed(y.ty, y.n) = -1
    \/ i.op \in {"trunc", "trunc_sat"} /\ ~(x.k \in {"num", "nzero"} /\ Fits(x, i.to, TRUE))
    \/ /\ i.op \in {"trunc", "trunc_sat"} /\ ~i.s
       /\ x.n <= -2
    \/ i.op = "convert" /\ x.ty = "i64" /\ ~i.s /\ Signed(x.ty, x.n) < 0
    \/ i.op \in {"min", "max"} /\ "nan" \in {x.k, y.k}
    \/ i.op \in {"min", "max"} /\ IsZero(x) /\ IsZero(y) /\ x # y

(***************************************************************************)
(* On all other operands tier 1 stays within what the IR defines and        *)
(* computes what the interpreter does.  On these either the IR's operation  *)
(* is undefined, and the machine decides (x86-64 raises SIGFPE where        *)
(* AArch64 divides by zero; either may happen to agree), or the builder's   *)
(* own code makes another result: there the list is exact.                  *)
(***************************************************************************)
TierOneDiffersAsListed ==
    cell.ty # "trap" =>
        \A i \in Instructions(cell.ty) : \A y \in Operands(cell.ty, i) :
            LET res == TierOne(i, cell, y)
            IN  /\ ~TierOneMayDiffer(i, cell, y) => res = Interp(i, cell, y)
                /\ TierOneMayDiffer(i, cell, y) /\ res # Undefined => res # Interp(i, cell, y)
=============================================================================
