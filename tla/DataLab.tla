------------------------------- MODULE DataLab ------------------------------
(***************************************************************************)
(* The data lab: the puzzles of bits.c and fshow.c, and the driver         *)
(* btest.c.                                                                *)
(***************************************************************************)
EXTENDS Integers, SequencesExt, Bitwise, Sequences, FiniteSets, FiniteSetsExt

(***************************************************************************)
(* The puzzles of bits.c and the harness btest.c that compares them with   *)
(* tests.c.  Words have W bits instead of 32; an int is kept as its bits.  *)
(* A float has a sign, EXP bits of exponent and FRAC of fraction, with     *)
(* 1 + EXP + FRAC = W.                                                     *)
(***************************************************************************)

CONSTANTS W, EXP, FRAC

Word == 0..(2^W - 1)
Signed(u) == IF u >= 2^(W - 1) THEN u - 2^W ELSE u
Bits(i) == i % 2^W

\* The operators of C on words
Inv(x) == 2^W - 1 - x
Plus(x, y) == (x + y) % 2^W
Shl(x, n) == (x * 2^n) % 2^W
Sar(x, n) == Bits(Signed(x) \div 2^n)
Bang(x) == IF x = 0 THEN 1 ELSE 0
BitXor(x, y) == x ^^ y
-----------------------------------------------------------------------------
bitXor(x, y) == Inv(x & y) & Inv(Inv(x) & Inv(y))
tmin == Shl(1, W - 1)

\* Mutant: -1 is not excluded.
isTmaxPlain(x) == Bang(BitXor(x, Inv(Plus(x, 1))))

isTmax(x) == LET y == Plus(x, 1) IN Bang(BitXor(x, Inv(y))) & Bang(Bang(y))

\* The mask is built from a quarter of the word by doubling.
allOddBits(x) ==
  LET quarter == FoldLeft(LAMBDA m, i : (m * 4) + 2, 0, [i \in 1..(W \div 8) |-> i])
      mask == FoldLeft(LAMBDA m, s : m | Shl(m, s), quarter, <<W \div 4, W \div 2>>)
  IN  Bang(BitXor(x & mask, mask))

negate(x) == Plus(Inv(x), 1)

isAsciiDigit(x) ==
  LET check_upper == Plus(9, Plus(Inv(x & 15), 1))
  IN  Bang(BitXor(Sar(x, 4), 3)) & Bang(Sar(check_upper, W - 1))

conditional(x, y, z) ==
  LET mask_z == Plus(Inv(Bang(x)), 1) IN (y & Inv(mask_z)) | (z & mask_z)

isLessOrEqual(x, y) ==
  LET x_sign == Sar(x, W - 1) & 1
      y_sign == Sar(y, W - 1) & 1
      sign == Sar(Plus(y, Plus(Inv(x), 1)), W - 1) & 1
  IN  (Inv(y_sign) & x_sign) | (Bang(BitXor(x_sign, y_sign)) & Bang(sign))

logicalNeg(x) == Plus(Sar(x | Plus(Inv(x), 1), W - 1), 1)

\* Halving steps: at each the upper part is tested and shifted down.
howManyBits(x) ==
  LET steps == SelectSeq(<<16, 8, 4, 2, 1>>, LAMBDA s : s < W)
      r == FoldLeft(LAMBDA acc, s : LET b == Bang(Bang(Sar(acc.x, s)))
                                    IN  [x |-> Sar(acc.x, b * s), n |-> acc.n + b * s],
                    [x |-> BitXor(x, Sar(x, W - 1)), n |-> 0], steps)
  IN  r.n + 1 + r.x

Sign(uf) == uf \div 2^(W - 1)
Exponent(uf) == (uf \div 2^FRAC) % 2^EXP
Fraction(uf) == uf % 2^FRAC
Bias == 2^(EXP - 1) - 1
MaxExp == 2^EXP - 1

floatScale2(uf) ==
  CASE Exponent(uf) = MaxExp -> uf
    [] Exponent(uf) = 0 -> Shl(Sign(uf), W - 1) | Shl(Fraction(uf), 1)
    [] OTHER -> Shl(Sign(uf), W - 1) | Shl(Exponent(uf) + 1, FRAC) | Fraction(uf)

\* Mutant: the range ends one exponent late.
TooLargeLate(E) == E > W - 1

TooLarge(E) == E >= W - 1

floatFloat2Int(uf) ==
  LET E == Exponent(uf) - Bias
      one == 2^FRAC | Fraction(uf)
      mantissa == IF E > FRAC THEN Shl(one, E - FRAC) ELSE Sar(one, FRAC - E)
  IN  CASE E < 0 -> 0 [] TooLarge(E) -> tmin
        [] OTHER -> IF Sign(uf) = 1 THEN Plus(Inv(mantissa), 1) ELSE mantissa

floatPower2(x) ==
  LET i == Signed(x) IN
  CASE i >= Bias + 1 -> Shl(MaxExp, FRAC)
    [] i < 1 - Bias - FRAC -> 0
    [] i >= 1 - Bias /\ i < Bias + 1 -> Shl(i + Bias, FRAC)
    [] OTHER -> Shl(1, i + Bias + FRAC - 1)
-----------------------------------------------------------------------------
\* btest.c: the values tried for one argument, with MaxVals for
\* MAX_TEST_VALS; the random ones may be any.
gen_vals(min, max, range, MaxVals) ==
  LET n == 0..(range - 1)
      sign == 2^(W - 1)
      smallest == 2^FRAC
      one == Bias * 2^FRAC
      largest == (MaxExp - 1) * 2^FRAC
      inf == MaxExp * 2^FRAC
      nan == inf + 2^(FRAC - 1)
      pos == UNION {{i, smallest + i, smallest - i, one + i, one - i, largest - i} : i \in n} \cup {inf, nan}
  IN  IF min = 1 /\ max = 1 THEN {u % 2^W : u \in pos \cup {sign | (u % 2^W) : u \in pos}}
      ELSE IF max - MaxVals <= min THEN {Bits(i) : i \in min..max}
      ELSE {Bits(i) : i \in UNION {{min + i, max - i} \cup {k \in {i, -i} : k >= min /\ k <= max} : i \in n}}
-----------------------------------------------------------------------------
DenormExp == 1 - Bias
show_float(uf) ==
  LET denorm == Exponent(uf) = 0
  IN  IF Exponent(uf) = MaxExp THEN [is |-> IF Fraction(uf) = 0 THEN "Infinity" ELSE "NaN", sign |-> Sign(uf)]
      ELSE [is |-> IF denorm THEN "Denormalized" ELSE "Normalized", sign |-> Sign(uf),
            mantissa |-> IF denorm THEN Fraction(uf) ELSE Fraction(uf) + 2^FRAC,
            uexp |-> IF denorm THEN DenormExp ELSE Exponent(uf) - Bias]
-----------------------------------------------------------------------------
\* What a float stands for, in units of the smallest denormal.  The scaled
\* exponent keeps the numbers small enough.
Magnitude(uf) == IF Exponent(uf) = 0 THEN Fraction(uf) ELSE (2^FRAC + Fraction(uf)) * 2^(Exponent(uf) - 1)
Finite(uf) == Exponent(uf) # MaxExp
UnitExp == Bias + FRAC - 1     \* 1.0 is 2^UnitExp units

\* The integer puzzles compute what their names say for every word,
\* including the most negative one, where negation and subtraction wrap.
IntPuzzlesExact(x, y) ==
  LET i == Signed(x)
      j == Signed(y)
      B(p) == IF p THEN 1 ELSE 0 IN
  /\ bitXor(x, y) = BitXor(x, y) /\ tmin = 2^(W - 1) /\ isTmax(x) = B(i = 2^(W - 1) - 1)
  /\ allOddBits(x) = B(\A k \in 0..(W - 1) : k % 2 = 1 => (x \div 2^k) % 2 = 1)
  /\ Signed(negate(x)) = (IF i = -(2^(W - 1)) THEN i ELSE -i)
  /\ isAsciiDigit(x) = B(i \in 48..57)
  /\ conditional(x, y, 7) = (IF x # 0 THEN y ELSE 7)
  /\ isLessOrEqual(x, y) = B(i <= j) /\ logicalNeg(x) = B(x = 0)
  /\ howManyBits(x) = Min({k \in 1..W : i \in (-(2^(k - 1)))..(2^(k - 1) - 1)})

\* The float puzzles: the conversion truncates toward zero and answers tmin
\* out of range, for infinities and for NaN; 2.0^x is exact, through the
\* denormals, zero and infinity; doubling is exact for every float except
\* in the last binade, where the code returns a NaN unless the fraction is
\* 0, and the harness tries no value there.
FloatPuzzlesExact(x) ==
  LET m == Magnitude(x) \div 2^UnitExp
      i == Signed(x) IN
  /\ Signed(floatFloat2Int(x)) = IF ~Finite(x) \/ m >= 2^(W - 1) THEN -(2^(W - 1))
                                 ELSE IF Sign(x) = 1 THEN -m ELSE m
  /\ IF i + UnitExp < 0 THEN floatPower2(x) = 0
     ELSE IF i > Bias THEN floatPower2(x) = MaxExp * 2^FRAC
     ELSE Finite(floatPower2(x)) /\ Magnitude(floatPower2(x)) = 2^(i + UnitExp)
  /\ Sign(floatScale2(x)) = Sign(x)
  /\ CASE ~Finite(x) -> floatScale2(x) = x
       [] Exponent(x) = MaxExp - 1 -> /\ Exponent(floatScale2(x)) = MaxExp
                                      /\ Fraction(floatScale2(x)) = Fraction(x)
                                      /\ x \in gen_vals(1, 1, 2^(FRAC - 1), 0) => Fraction(x) = 0
       [] OTHER -> Magnitude(floatScale2(x)) = 2 * Magnitude(x)

\* fshow prints of every finite float its value, also across the step from
\* denormals to normal numbers, and of floatPower2(x) 1.0 X 2^x while that is
\* a normal number and infinity above.
ShownExact(x) ==
  LET s == show_float(x)
      p == show_float(floatPower2(x)) IN
  /\ Finite(x) => /\ s.mantissa * 2^(s.uexp + Bias - 1) = Magnitude(x)
                  /\ (s.is = "Normalized") = (s.mantissa >= 2^FRAC)
  /\ Signed(x) \in (1 - Bias)..Bias => p.is = "Normalized" /\ p.mantissa = 2^FRAC /\ p.uexp = Signed(x)
  /\ Signed(x) > Bias => p.is = "Infinity" /\ p.sign = 0

-----------------------------------------------------------------------------
(***************************************************************************)
(* The driver of the data lab, btest.c: run_tests calls test_function for  *)
(* every puzzle, test_function tries the puzzle on all combinations of the *)
(* values of its arguments and stops at the first difference.  A puzzle    *)
(* that does not return is left by the alarm, whose handler jumps to the   *)
(* test that called sigsetjmp last.  Nothing cancels the alarm of a test   *)
(* that ends in time: it may ring later, when that test has returned.      *)
(***************************************************************************)

CONSTANTS TestSets     \* sequences of [counts, wrong, loops, rating]
VARIABLES tests, only, timed, at, idx, a, env, alarm, errors, points, verdict

vars == <<tests, only, timed, at, idx, a, env, alarm, errors, points, verdict>>
T == tests[idx]
\* only is the puzzle named with -f, 0 without the option; timed is FALSE
\* when -T sets the limit to 0.
Init == /\ tests \in TestSets /\ only \in 0..1 /\ timed \in BOOLEAN /\ at = "loop" /\ idx = 1 /\ a = <<>> /\ env = 0
        /\ alarm = FALSE /\ errors = 0 /\ points = 0 /\ verdict = [j \in DOMAIN tests |-> "none"]

First(t) == [k \in DOMAIN t.counts |-> 1]
Turns(t, v) == {k \in DOMAIN v : v[k] < t.counts[k]}
Following(t, v) == LET k == Max(Turns(t, v))
                   IN  [j \in DOMAIN v |-> IF j < k THEN v[j] ELSE IF j = k THEN v[j] + 1 ELSE 1]

Return(terrors) ==
  /\ errors' = errors + terrors
  /\ points' = IF terrors = 0 THEN points + T.rating ELSE points
  /\ verdict' = [verdict EXCEPT ![idx] = IF terrors = 0 THEN "ok" ELSE "failed"]
  /\ at' = "loop" /\ idx' = idx + 1 /\ a' = <<>>
NoReturn == UNCHANGED <<errors, points, verdict, idx>>

run_tests == /\ at = "loop"
             /\ \/ idx > Len(tests) /\ at' = "done" /\ UNCHANGED idx
                \/ idx <= Len(tests) /\ only \notin {0, idx} /\ idx' = idx + 1 /\ UNCHANGED at
                \/ idx <= Len(tests) /\ only \in {0, idx} /\ at' = "gen_vals" /\ UNCHANGED idx
             /\ UNCHANGED <<tests, only, timed, a, env, alarm, errors, points, verdict>>
Timed == timed
SetJmp == /\ at = "gen_vals" /\ a' = First(T)
          /\ IF Timed THEN env' = idx /\ at' = "alarm" ELSE UNCHANGED env /\ at' = "call"
          /\ UNCHANGED <<tests, only, timed, alarm>> /\ NoReturn
SetAlarm == /\ at = "alarm" /\ alarm' = TRUE /\ at' = "call"
            /\ UNCHANGED <<tests, only, timed, a, env>> /\ NoReturn
\* test_0_arg, test_1_arg, test_2_arg, test_3_arg
Differs == a \in T.wrong
Compare == /\ at = "call" /\ a \notin T.loops
           /\ \/ Differs /\ Return(1)
              \/ ~Differs /\ Turns(T, a) = {} /\ Return(0)
              \/ ~Differs /\ Turns(T, a) # {} /\ a' = Following(T, a) /\ UNCHANGED at /\ NoReturn
           /\ UNCHANGED <<tests, only, timed, env, alarm>>
\* The frame of sigsetjmp is there while its test runs; a jump to a frame
\* that has returned is undefined.
timeout_handler ==
  /\ alarm /\ at \notin {"done", "undefined"} /\ alarm' = FALSE
  /\ IF env = idx /\ at \in {"alarm", "call"} THEN Return(1)
     ELSE at' = "undefined" /\ UNCHANGED a /\ NoReturn
  /\ UNCHANGED <<tests, only, timed, env>>

Step == run_tests \/ SetJmp \/ SetAlarm \/ Compare
Next == Step \/ timeout_handler
-----------------------------------------------------------------------------
\* The state of run_tests and test_function.
TypeOK == /\ at \in {"loop", "gen_vals", "alarm", "call", "done", "undefined"}
          /\ idx \in 1..(Len(tests) + 1) /\ env \in 0..Len(tests) /\ alarm \in BOOLEAN
          /\ verdict \in [DOMAIN tests -> {"none", "ok", "failed"}]

\* run_tests credits a puzzle only if it returned the right answer for every
\* combination of the values tried, and the points and errors it reports are
\* those of the verdicts, whenever the alarm rings.
CreditEarned ==
  LET ok == {j \in DOMAIN tests : verdict[j] = "ok"}
      failed == {j \in DOMAIN tests : verdict[j] = "failed"} IN
  /\ \A j \in ok : tests[j].wrong = {} /\ tests[j].loops = {}
  /\ points = MapThenSumSet(LAMBDA j : tests[j].rating, ok) /\ errors = Cardinality(failed)
  /\ at = "done" => ok \cup failed = {j \in DOMAIN tests : only \in {0, j}}
=============================================================================
