------------------------------- MODULE IntRange -------------------------------
(***************************************************************************)
(* Closed intervals of integers with an alignment (sl/intrange.cc): the    *)
(* lattice in which the analyzer keeps integral values and pointer         *)
(* offsets.  The two extreme integers of the host stand for an unbounded   *)
(* end.  The operators are the ones the heap and the instruction semantics *)
(* apply to such intervals; the integers have Width bits.                  *)
(***************************************************************************)
EXTENDS Integers, FiniteSetsExt

CONSTANT Width    \* bits of IR::TInt

ASSUME WidthAssumption == Width \in Nat \ {0, 1}

IntMin == -(2 ^ (Width - 1))
IntMax == 2 ^ (Width - 1) - 1

(* The bit next to the sign tells a real number from a mishandled end. *)
RZ_MIN == IntMin \div 2
RZ_MAX == IntMax \div 2
Small(n) == n \in RZ_MIN .. RZ_MAX
RZ_CORRUPTION(n) == n \notin {IntMin, IntMax} /\ ~Small(n)

Abs(n) == IF n < 0 THEN -n ELSE n

rngFromNum(n) == [lo |-> n, hi |-> n, alignment |-> 1]
FullRange == [lo |-> IntMin, hi |-> IntMax, alignment |-> 1]
isSingular(r) == r.lo = r.hi
isAligned(r) == r.alignment > 1

(* The integers an interval stands for. *)
Covers(r, n) == /\ r.lo # IntMin => r.lo <= n
                /\ r.hi # IntMax => n <= r.hi
                /\ n % r.alignment = 0

(* The largest power of two that divides both numbers, 1 if one is zero. *)
approxGCD(a, b) ==
    IF a = 0 \/ b = 0 THEN 1
    ELSE Max({p \in {2 ^ i : i \in 0 .. Width} : a % p = 0 /\ b % p = 0})

IR_join(r1, r2) == [lo |-> Min({r1.lo, r2.lo}), hi |-> Max({r1.hi, r2.hi}), alignment |-> 1]

isRangeByNum(r1, r2) == isSingular(r1) # isSingular(r2)

isCovered(small, big) ==
    /\ big.lo <= small.lo
    /\ small.hi <= big.hi
    /\ big.alignment \in {1, approxGCD(small.alignment, big.alignment)}

adjustAlignment(r) ==
    LET al == IF r.lo = IntMin THEN r.alignment ELSE approxGCD(r.alignment, r.lo)
    IN  [r EXCEPT !.alignment = IF r.hi = IntMax THEN al ELSE approxGCD(al, r.hi)]

invertInt(n) == CASE n = IntMin -> IntMax
                  [] n = IntMax -> IntMin
                  [] OTHER      -> -n

IR_neg(r) == [r EXCEPT !.lo = invertInt(r.hi), !.hi = invertInt(r.lo)]

(* An end that is reached stays; otherwise lower meets lower and upper     *)
(* meets upper end, with lo and hi as the results.                         *)
rngBinOp(r, other, lo, hi) ==
    [r EXCEPT !.lo = IF IntMin \in {r.lo, other.lo} THEN IntMin ELSE lo,
              !.hi = IF IntMax \in {r.hi, other.hi} THEN IntMax ELSE hi]

alignmentOf(r) == IF ~isSingular(r) THEN r.alignment
                  ELSE IF r.lo = 0 THEN 1 ELSE Abs(r.lo)

IR_add(r, other) ==
    LET sum == rngBinOp(r, other, r.lo + other.lo, r.hi + other.hi)
    IN  [sum EXCEPT !.alignment = IF isSingular(sum) THEN 1
                                  ELSE approxGCD(alignmentOf(r), alignmentOf(other))]

IR_sub(r, other) == IR_add(r, IR_neg(other))

IR_lshift(r, n) == [rngBinOp(r, rngFromNum(n), r.lo * 2 ^ n, r.hi * 2 ^ n) EXCEPT !.alignment = 1]
IR_rshift(r, n) == [rngBinOp(r, rngFromNum(n), r.lo \div 2 ^ n, r.hi \div 2 ^ n) EXCEPT !.alignment = 1]

IR_mul(r, other) ==
    LET num  == IF ~isRangeByNum(r, other) THEN 1 ELSE IF isSingular(r) THEN r.lo ELSE other.lo
        coef == IF num = 0 THEN 1 ELSE Abs(num)
        prod == rngBinOp(r, other, r.lo * other.lo, r.hi * other.hi)
    IN  [prod EXCEPT !.alignment = IF prod.lo = prod.hi THEN 1
                                   ELSE r.alignment * other.alignment * coef]

(***************************************************************************)
(* Bit masks, on the two's complement of a number.                         *)
(***************************************************************************)
Bit(n, i) == (n \div 2 ^ i) % 2
Signed(n) == IF n > IntMax THEN n - 2 ^ Width ELSE n
BitAnd(a, b) == Signed(MapThenSumSet(LAMBDA i : 2 ^ i * Bit(a, i) * Bit(b, i), 0 .. Width - 1))

(* The bits of the mask lie below the trailing zeros that the alignment    *)
(* guarantees.                                                             *)
isZeroIntersection(alignment, mask) ==
    \E p \in {2 ^ i : i \in 0 .. Width - 1} : alignment % p = 0 /\ mask \in 0 .. p - 1

maskToAlignment(mask) == Max({p \in {2 ^ i : i \in 0 .. Width - 1} : mask % p = 0})

(* Ones are written from the left until one is there already. *)
extendSignedIntFromLeft(n) ==
    IF n < 0 THEN n ELSE n - 2 ^ (Max({i \in 0 .. Width - 1 : Bit(n, i) = 1}) + 1)

IR_and(r, mask) ==
    LET ext == IF 0 < mask THEN extendSignedIntFromLeft(mask) ELSE mask
    IN  IF isZeroIntersection(r.alignment, mask) THEN rngFromNum(0)
        ELSE [lo |-> BitAnd(r.lo, ext), hi |-> BitAnd(r.hi, ext), alignment |-> maskToAlignment(ext)]

(***************************************************************************)
(* Comparison (sl/symutil.cc).  The answer is TRUE, FALSE or "unknown".    *)
(***************************************************************************)
Truth == {"true", "false", "unknown"}
AsTruth(b) == IF b THEN "true" ELSE "false"

CmpCode == {"EQ", "NE", "LT", "LE", "GT", "GE"}
CmpOpTraits(code) == [leftToRight |-> code \in {"LE", "LT"}, rightToLeft |-> code \in {"GE", "GT"},
                      preserveEq |-> code \in {"EQ", "NE"}, negative |-> code \in {"NE", "LT", "GT"}]

(* Mutant: the strict and the weak comparison of the ends are confused. *)
compareIntRanges_Weak(code, r1, r2) ==
    LET ltr == r1.hi <= r2.lo
        rtl == r2.hi <= r1.lo
    IN  CASE code = "LT" /\ ltr -> "true"  [] code = "LT" /\ rtl -> "false"
          [] code = "GT" /\ rtl -> "true"  [] code = "GT" /\ ltr -> "false"
          [] OTHER -> "unknown"

compareIntRanges(code, r1, r2) ==
    LET ct      == CmpOpTraits(code)
        ltr     == r1.hi < r2.lo
        rtl     == r2.hi < r1.lo
        ltrWeak == r1.hi <= r2.lo
        rtlWeak == r2.hi <= r1.lo
        Along(l, r)   == (l /\ ct.leftToRight) \/ (r /\ ct.rightToLeft)
    IN  CASE isAligned(r1) \/ isAligned(r2) -> "unknown"
          [] ct.preserveEq -> IF ltr \/ rtl THEN AsTruth(ct.negative)
                              ELSE IF isSingular(r1) /\ isSingular(r2) THEN AsTruth(~ct.negative)
                              ELSE "unknown"
          [] ct.negative /\ Along(ltr, rtl) -> "true"
          [] ct.negative /\ Along(rtlWeak, ltrWeak) -> "false"
          [] ~ct.negative /\ ~ct.preserveEq /\ Along(rtl, ltr) -> "false"
          [] ~ct.negative /\ ~ct.preserveEq /\ Along(ltrWeak, rtlWeak) -> "true"
          [] OTHER -> "unknown"

===============================================================================
