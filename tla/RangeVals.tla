------------------------------- MODULE RangeVals -------------------------------
(***************************************************************************)
(* Integral values of a symbolic heap, next to the numbers of one concrete *)
(* execution.  A value starts as unknown, becomes a range when a condition *)
(* trims it, and goes through arithmetic (computeIntRngResult() and its    *)
(* callers), conversions on assignment (integralEncoder()), comparisons    *)
(* (compareValues(), reflectCmpResult()) and joins.  Adding a number to a  *)
(* range creates a value that depends on the same anchor; trimming one     *)
(* trims all of them.                                                      *)
(*                                                                         *)
(* One anchor is followed at a time: the variables in Var hold it or       *)
(* values shifted from it.  An operation whose result is a fresh value     *)
(* starts over with the variable assigned to; values that no variable of   *)
(* Var holds are dead.                                                     *)
(***************************************************************************)
EXTENDS IntRange

CONSTANTS
    Var,        \* program variables that hold the followed values
    Operand,    \* binary operation -> ranges that occur as its other operand
    CmpCodes,   \* comparisons that occur, a subset of CmpCode
    Limits,     \* ranges that the values are compared and joined with
    Types,      \* integral types assigned to: [bits, unsigned]
    IntArithmeticLimit, \* ranges up to this number are not joined, 0 if all are
    Converts,   \* ranges that are wider are not assigned to another type
    Inputs      \* numbers that an unknown value may stand for

ASSUME RangeValsAssumption == /\ CmpCodes \subseteq CmpCode /\ IntArithmeticLimit \in Nat
                              /\ Inputs \subseteq RZ_MIN .. RZ_MAX

VARIABLES
    anchor,     \* range of the anchor
    known,      \* FALSE while the anchor is VT_UNKNOWN
    held,       \* [Var -> value held]: [kind, off, rng]
    num         \* the number the anchor stands for in the concrete execution

vars == <<anchor, known, held, num>>

(* A variable holds the anchor, a value shifted from it, or nothing of     *)
(* interest.                                                               *)
None == [kind |-> "none", off |-> 0, rng |-> FullRange]
TheAnchor == [kind |-> "anchor", off |-> 0, rng |-> FullRange]
Shifted(off, rng) == [kind |-> "shifted", off |-> off, rng |-> rng]

Live == {x \in Var : held[x].kind # "none"}
RngOf(x) == IF held[x].kind = "anchor" THEN anchor ELSE held[x].rng
NumOf(x) == num + held[x].off

(* The concrete numbers of an operand. *)
Numbers(r) == {n \in RZ_MIN .. RZ_MAX : Covers(r, n)}

(* Bound: numbers and alignments stay where the arithmetic of the host     *)
(* does not overflow.                                                      *)
InBounds(r) == ~RZ_CORRUPTION(r.lo) /\ ~RZ_CORRUPTION(r.hi) /\ Small(r.alignment)

(* The variable x becomes the only holder of a fresh value. *)
Fresh(x, r, n) ==
    /\ InBounds(r) /\ Small(n)
    /\ anchor' = r
    /\ known' = TRUE
    /\ held' = [y \in Var |-> IF y = x THEN TheAnchor ELSE None]
    /\ num' = n

Init == /\ anchor = FullRange
        /\ known = FALSE
        /\ held \in {[y \in Var |-> IF y = x THEN TheAnchor ELSE None] : x \in Var}
        /\ num \in Inputs

(***************************************************************************)
(* Arithmetic.                                                             *)
(***************************************************************************)
TruncDiv(a, b) == IF (a < 0) # (b < 0) THEN -(Abs(a) \div Abs(b)) ELSE Abs(a) \div Abs(b)

(* What the operation does to numbers; it is left out where C leaves it    *)
(* undefined.                                                              *)
Defined(code, b) == /\ code \in {"LSHIFT", "RSHIFT"} => b \in 0 .. Width - 1
                    /\ code \in {"TRUNC_DIV", "TRUNC_MOD"} => b # 0
Concrete(code, a, b) ==
    CASE code = "PLUS"      -> a + b
      [] code = "MINUS"     -> a - b
      [] code = "MULT"      -> a * b
      [] code = "LSHIFT"    -> a * 2 ^ b
      [] code = "RSHIFT"    -> a \div 2 ^ b
      [] code = "TRUNC_DIV" -> TruncDiv(a, b)
      [] code = "TRUNC_MOD" -> a - b * TruncDiv(a, b)
      [] code = "BIT_AND"   -> BitAnd(a, b)
      [] code = "MIN"       -> Min({a, b})
      [] code = "MAX"       -> Max({a, b})

(* Operations on proper ranges that are given up: the result is unknown. *)
Supported(code, r1, r2) ==
    CASE code \in {"TRUNC_DIV", "TRUNC_MOD"} -> isSingular(r1) /\ isSingular(r2)
      [] code \in {"LSHIFT", "RSHIFT"} -> isSingular(r2)
      [] code = "BIT_AND" -> \/ isSingular(r1) /\ isSingular(r2)
                             \/ /\ isRangeByNum(r1, r2)
                                /\ r1.lo # IntMin /\ r1.hi # IntMax
                                /\ r2.lo # IntMin /\ r2.hi # IntMax
      [] OTHER -> TRUE

(* Mutant: subtraction combines lower with lower and upper with upper end. *)
computeIntRngResult_NoSwap(code, r1, r2) ==
    CASE code = "MINUS" -> [lo |-> r1.lo - r2.lo, hi |-> r1.hi - r2.hi, alignment |-> 1]
      [] OTHER          -> FullRange

computeIntRngResult(code, r1, r2) ==
    CASE code = "PLUS"      -> IR_add(r1, r2)
      [] code = "MINUS"     -> IR_sub(r1, r2)
      [] code = "MULT"      -> IR_mul(r1, r2)
      [] code = "LSHIFT"    -> IR_lshift(r1, r2.lo)
      [] code = "RSHIFT"    -> IR_rshift(r1, r2.lo)
      [] code \in {"TRUNC_DIV", "TRUNC_MOD"} -> rngFromNum(Concrete(code, r1.lo, r2.lo))
      [] code = "BIT_AND"   -> IF isSingular(r1) /\ isSingular(r2)
                               THEN rngFromNum(BitAnd(r1.lo, r2.lo))
                               ELSE IF isSingular(r2) THEN IR_and(r1, r2.lo)
                                                      ELSE IR_and(r2, r1.lo)
      [] code = "MIN"       -> [lo |-> Min({r1.lo, r2.lo}), hi |-> Min({r1.hi, r2.hi}), alignment |-> 1]
      [] code = "MAX"       -> [lo |-> Max({r1.lo, r2.lo}), hi |-> Max({r1.hi, r2.hi}), alignment |-> 1]

(* y = x + n for a range x: a value that depends on the anchor of x. *)
shiftCustomValue(y, x, n) ==
    LET r == IR_add(RngOf(x), rngFromNum(n))
    IN  /\ InBounds(r)
        /\ Small(NumOf(x) + n) /\ Small(held[x].off + n)
        /\ held' = [held EXCEPT ![y] = Shifted(held[x].off + n, r)]
        /\ UNCHANGED <<anchor, known, num>>

(* y = x op r2, where the other operand stands for n2. *)
handleIntegralOp(y, x, code, r2, n2) ==
    /\ known
    /\ IF Supported(code, RngOf(x), r2)
       THEN IF code = "PLUS" /\ ~isSingular(RngOf(x)) /\ isSingular(r2)
            THEN shiftCustomValue(y, x, n2)
            ELSE Fresh(y, computeIntRngResult(code, RngOf(x), r2), Concrete(code, NumOf(x), n2))
       ELSE /\ anchor' = FullRange /\ known' = FALSE
            /\ held' = [z \in Var |-> IF z = y THEN TheAnchor ELSE None]
            /\ num' = Concrete(code, NumOf(x), n2)
            /\ Small(num')

(***************************************************************************)
(* Conversion to the type of the variable assigned to.                     *)
(***************************************************************************)
uintWrapAround(r, hiLimit) ==
    LET once == IR_sub(r, rngFromNum(hiLimit))
    IN  IF once.hi < hiLimit THEN once
        ELSE IR_sub(once, rngFromNum((1 + once.hi \div hiLimit) * hiLimit))

(* A negative lower bound, moved up for an unsigned type. *)
wrapNegative(r, loLimit) ==
    LET once == IR_add(r, rngFromNum(loLimit))
    IN  IF once.lo >= 0 THEN once
        ELSE IR_add(once, rngFromNum((1 + TruncDiv(once.lo, loLimit)) * loLimit))

integralEncoder(type, r) ==
    LET limit == 2 ^ (IF type.unsigned THEN type.bits ELSE type.bits - 1)
        low   == IF r.lo # IntMin /\ r.lo < 0
                 THEN LET moved == IF type.unsigned THEN wrapNegative(r, limit) ELSE r
                      IN  IF moved.lo < (IF type.unsigned THEN 0 ELSE -limit)
                          THEN FullRange ELSE moved
                 ELSE r
    IN  IF low.hi # IntMax /\ limit <= low.hi
        THEN LET wrapped == IF type.unsigned THEN uintWrapAround(low, limit) ELSE low
             IN  IF limit <= wrapped.hi THEN FullRange ELSE wrapped
        ELSE low

(* The number that the conversion of n to the type yields. *)
Converted(type, n) ==
    LET m == n % 2 ^ type.bits
    IN  IF ~type.unsigned /\ m >= 2 ^ (type.bits - 1) THEN m - 2 ^ type.bits ELSE m

(* Bound: wider ranges than Converts are not converted. *)
Assign(y, x, type) ==
    /\ known
    /\ RngOf(x).hi - RngOf(x).lo <= Converts
    /\ LET r == integralEncoder(type, RngOf(x))
           n == Converted(type, NumOf(x))
       IN  IF r = RngOf(x) /\ n = NumOf(x)
           THEN held' = [held EXCEPT ![y] = held[x]] /\ UNCHANGED <<anchor, known, num>>
           ELSE Fresh(y, r, n)

(***************************************************************************)
(* Comparison.  A comparison that the ranges do not decide splits the      *)
(* analysis; the execution follows the branch of its numbers.              *)
(***************************************************************************)
Holds(code, a, b) ==
    CASE code = "EQ" -> a = b [] code = "NE" -> a # b [] code = "LT" -> a < b
      [] code = "LE" -> a <= b [] code = "GT" -> a > b [] code = "GE" -> a >= b
Outcome(code, right, a, b) == IF right THEN Holds(code, b, a) ELSE Holds(code, a, b)

(* An equality trims only if the number is one of the ends. *)
canTrim(code, r, limit) == CmpOpTraits(code).preserveEq => limit \in {r.lo, r.hi}

(* The window left of r, compared with limit in the given branch, where r  *)
(* is the right or the left operand; r itself if it cannot be trimmed.     *)
trimmed(code, branch, right, r, limit) ==
    LET ct     == CmpOpTraits(code)
        isOpen == IF branch = ct.negative THEN 1 ELSE 0
        trimLo == IF ct.preserveEq THEN limit = r.lo ELSE (branch = right) = ct.leftToRight
    IN  IF ~canTrim(code, r, limit) THEN r
        ELSE adjustAlignment(IF trimLo THEN [r EXCEPT !.lo = limit + isOpen]
                                       ELSE [r EXCEPT !.hi = limit - isOpen])

compareValues(code, right, x, r2) ==
    IF ~known THEN "unknown"
    ELSE IF right THEN compareIntRanges(code, r2, RngOf(x)) ELSE compareIntRanges(code, RngOf(x), r2)

Enlarges(win, r) == win.lo < r.lo \/ r.hi < win.hi

(* The anchor takes the window of the value x, moved back by its offset,   *)
(* and all values shifted from the anchor are computed again.              *)
trimCustomValue(x, win) ==
    LET off == held[x].off
        r   == IR_sub(win, rngFromNum(off))
    IN  IF Enlarges(win, RngOf(x)) THEN UNCHANGED <<anchor, held>>
        ELSE /\ anchor' = r
             /\ held' = [y \in Var |->
                           IF held[y].kind # "shifted" THEN held[y]
                           ELSE [held[y] EXCEPT !.rng = IR_add(r, rngFromNum(off))]]

(* An equality that cannot trim replaces the older of the two values by    *)
(* the younger one, zero being older than all others but never replaced.   *)
(* Values shifted from the replaced one depend on it and not on the number. *)
valMerge(x, r2) ==
    \/ /\ anchor' = r2 /\ known' = TRUE /\ num' = NumOf(x)
       /\ held' = [y \in Var |-> IF held[y] = held[x] THEN TheAnchor ELSE None]
    \/ r2.lo # 0 /\ UNCHANGED <<anchor, known, held, num>>

reflectCmpResult(x, code, right, r2, n2) ==
    /\ compareValues(code, right, x, r2) = "unknown"
    /\ isSingular(r2) /\ ~isSingular(RngOf(x))
    /\ LET branch == Outcome(code, right, NumOf(x), n2)
           win    == trimmed(code, branch, right, RngOf(x), r2.lo)
           equal  == CmpOpTraits(code).preserveEq /\ branch # CmpOpTraits(code).negative
       IN  \/ /\ canTrim(code, RngOf(x), r2.lo) /\ win # RngOf(x)
              /\ IF known THEN trimCustomValue(x, win) /\ UNCHANGED known
                 ELSE anchor' = win /\ known' = TRUE /\ UNCHANGED held
              /\ UNCHANGED num
           \/ /\ ~canTrim(code, RngOf(x), r2.lo) /\ equal
              /\ valMerge(x, r2)

(***************************************************************************)
(* Join of two heaps in which the variable x has different ranges.  The    *)
(* execution may have come with either heap.                               *)
(***************************************************************************)
joinCustomValues(r1, r2) ==
    LET both  == ~isSingular(r1) /\ ~isSingular(r2)
        cover == IR_join(r1, r2)
        up    == IF both THEN [cover EXCEPT !.hi = IntMax] ELSE cover
        wide  == IF both /\ up.hi \in {r1.hi, r2.hi} THEN [up EXCEPT !.lo = IntMin] ELSE up
    IN  CASE r1 = r2 -> r1
          [] r1 # r2 /\ isCovered(wide, r1) -> r1
          [] r1 # r2 /\ ~isCovered(wide, r1) /\ isCovered(wide, r2) -> r2
          [] OTHER -> wide

(* The host leaves the absolute value of the least number as it is. *)
HostAbs(n) == IF n = IntMin THEN n ELSE Abs(n)

(* Integers up to the limit are told apart: the heaps are not joined. *)
Preserved(r) ==
    IntArithmeticLimit # 0 /\ Max({HostAbs(r.lo), HostAbs(r.hi)}) <= IntArithmeticLimit

Join(x, r2, n2) ==
    /\ known
    /\ RngOf(x) # r2 => ~Preserved(IR_join(RngOf(x), r2))
    /\ LET r1 == RngOf(x)
           n  == {NumOf(x), n2}
       IN  IF r1 # r2 /\ isSingular(r1) /\ isSingular(r2)
           THEN /\ anchor' = FullRange /\ known' = FALSE
                /\ held' = [y \in Var |-> IF y = x THEN TheAnchor ELSE None]
                /\ num' \in n
           ELSE \E m \in n : Fresh(x, joinCustomValues(r1, r2), m)

Next ==
    \/ \E x \in Live, y \in Var :
        \/ \E code \in DOMAIN Operand : \E r2 \in Operand[code] : \E n2 \in Numbers(r2) :
             /\ Defined(code, n2)
             /\ handleIntegralOp(y, x, code, r2, n2)
        \/ \E type \in Types : Assign(y, x, type)
    \/ \E x \in Live : \E r2 \in Limits : \E n2 \in Numbers(r2) :
        \/ \E code \in CmpCodes, right \in BOOLEAN : reflectCmpResult(x, code, right, r2, n2)
        \/ Join(x, r2, n2)

RangeSpec == Init /\ [][Next]_vars

(***************************************************************************)
(* Properties.                                                             *)
(***************************************************************************)
(* The range of every live value contains the number that the value has in *)
(* the concrete execution, after any sequence of operations, trimmings and *)
(* joins: what makes verdicts drawn from ranges sound.                     *)
CoversValue == \A x \in Live : Covers(RngOf(x), NumOf(x))

(* What compareIntRanges() decides from two ranges is the outcome of the   *)
(* comparison of the numbers behind them.                                  *)
CompareAgrees ==
    \A x \in Live, code \in CmpCodes, right \in BOOLEAN : \A r2 \in Limits : \A n2 \in Numbers(r2) :
        compareValues(code, right, x, r2) \in {"unknown", AsTruth(Outcome(code, right, NumOf(x), n2))}

(* chkRange(): no operation leaves an empty range behind. *)
NoEmptyRange == \A x \in Live : RngOf(x).lo <= RngOf(x).hi

(* chkValueDeps(): every value shifted from the anchor differs from it by  *)
(* its offset, at both ends.                                               *)
ChkValueDeps ==
    \A x \in Live : held[x].kind = "shifted" =>
        LET r == RngOf(x)
        IN  /\ (anchor.lo = IntMin) = (r.lo = IntMin)
            /\ (anchor.hi = IntMax) = (r.hi = IntMax)
            /\ IntMin # anchor.lo /\ IntMax # anchor.hi =>
                 r.lo - anchor.lo = held[x].off /\ r.hi - anchor.hi = held[x].off

(* trimCustomValue(): a comparison never enlarges the range it is applied  *)
(* to.                                                                     *)
TrimNeverEnlarges ==
    known => \A x \in Live, code \in CmpCodes, right \in BOOLEAN : \A r2 \in Limits :
        isSingular(r2) /\ ~isSingular(RngOf(x)) /\ compareValues(code, right, x, r2) = "unknown" =>
            ~Enlarges(trimmed(code, Outcome(code, right, NumOf(x), r2.lo), right, RngOf(x), r2.lo), RngOf(x))

(* integralEncoder(): a negative number converted to an unsigned type has  *)
(* become non-negative once it has been moved up.                          *)
NegativeIsMovedUp ==
    known => \A x \in Live : \A type \in {t \in Types : t.unsigned} :
        RngOf(x).lo # IntMin /\ RngOf(x).lo < 0 =>
            wrapNegative(RngOf(x), 2 ^ type.bits).lo >= 0

===============================================================================
