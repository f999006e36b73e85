-------------------------------- MODULE Int64 --------------------------------
(***************************************************************************)
(* The two-word division of klib (int64.c), which a 32-bit build uses for  *)
(* 64-bit integers.  W is the width of a word (32 in the code); a two-word *)
(* integer is its unsigned value, `Signed' the value the signed functions  *)
(* give it.  Where the code joins two words with |, the bits are disjoint  *)
(* and the model adds.                                                     *)
(***************************************************************************)
EXTENDS Integers

CONSTANT W

VARIABLE dividend   \* of the division under way, or -1

ASSUME WAssumption == W \in {2, 4, 8, 16, 32}

(* The weight of bit k. *)
Power[k \in 0 .. 64] == IF k = 0 THEN 1 ELSE 2 * Power[k - 1]

Word == Power[W]
Dwords == 0 .. Word * Word - 1
High(x) == x \div Word
Low(x) == x % Word
Dword(h, l) == h * Word + l
Wrap64(x) == x % (Word * Word)
Negative(x) == 2 * x >= Word * Word
Signed(x) == IF Negative(x) THEN x - Word * Word ELSE x

Shl(x, k) == (x * Power[k]) % Word
Shr(x, k) == x \div Power[k]

(* x & y: the sum of the bits that both have. *)
Both(x, y, k) == Power[k] * ((Shr(x, k) % 2) * (Shr(y, k) % 2))
And(x, y) ==
  LET sum[k \in 0 .. W] == IF k = 0 THEN 0 ELSE sum[k - 1] + Both(x, y, k - 1)
  IN sum[W]
PowerOfTwo(x) == And(x, x - 1) = 0

Widths == {2, 4, 8, 16, 32, 64}

(* Leading zeros: while the upper half is zero count it, else shift it     *)
(* down; the last two bits x add 2 - x unless x has its upper bit.  With f *)
(* for the zeros of h bits, ClzTwice(h, f) is for those of twice as many.  *)
ClzTwice(h, f) == [x \in Nat |-> IF Shr(x, h) = 0 THEN h + f[x] ELSE f[Shr(x, h)]]

MutClz(w, a) ==
  LET clz[v \in Widths] ==
        IF v = 2 THEN [x \in Nat |-> 2 - x] ELSE ClzTwice(v \div 2, clz[v \div 2])
  IN clz[w][a]

ClzTwo == [x \in Nat |-> IF x >= 2 THEN 0 ELSE 2 - x]
Clz(w, a) ==
  LET clz[v \in Widths] == IF v = 2 THEN ClzTwo ELSE ClzTwice(v \div 2, clz[v \div 2])
  IN clz[w][a]

(* Trailing zeros: a zero lower half is counted and shifted out. *)
CtzTwo == [x \in Nat |-> IF x % 2 = 1 THEN 0 ELSE 2 - Shr(x % 4, 1)]
CtzTwice(h, f) == [x \in Nat |-> IF x % Power[h] = 0 THEN h + f[Shr(x, h)] ELSE f[x]]
Ctz(w, a) ==
  LET ctz[v \in Widths] == IF v = 2 THEN CtzTwo ELSE CtzTwice(v \div 2, ctz[v \div 2])
  IN ctz[w][a]

(* Of two words: the word that is not zero decides. *)
Clz2(x) == IF High(x) = 0 THEN W + Clz(W, Low(x)) ELSE Clz(W, High(x))
Ctz2(x) == IF Low(x) = 0 THEN W + Ctz(W, High(x)) ELSE Ctz(W, Low(x))

(* n shifted so that its upper 2W - sr bits are in r and the others, at    *)
(* the top, in q: a shift by a whole word is undefined in C, hence cases.  *)
Split(n, sr) ==
  IF sr = W
  THEN [q |-> Dword(Low(n), 0), r |-> High(n)]
  ELSE IF sr < W
  THEN [q |-> Dword(Shl(Low(n), W - sr), 0),
        r |-> Dword(Shr(High(n), sr), Shl(High(n), W - sr) + Shr(Low(n), sr))]
  ELSE [q |-> Dword(Shl(High(n), 2 * W - sr) + Shr(Low(n), sr - W), Shl(Low(n), 2 * W - sr)),
        r |-> Shr(High(n), sr - W)]

(* sr rounds of r:q = r:q << 1 | carry.  The comparison of r with d is the *)
(* sign bit of d - r - 1 taken as a signed two-word integer.               *)
Round(d, s) ==
  LET r == Wrap64(2 * s.r + Shr(High(s.q), W - 1))
      fits == Negative(Wrap64(d - r - 1))
  IN [q |-> Wrap64(2 * s.q) + s.carry, r |-> IF fits THEN Wrap64(r - d) ELSE r,
      carry |-> IF fits THEN 1 ELSE 0]

Rounds(n, d, sr) ==
  LET state[i \in 0 .. sr] ==
        IF i = 0 THEN [q |-> Split(n, sr).q, r |-> Split(n, sr).r, carry |-> 0]
        ELSE Round(d, state[i - 1])
      s == state[sr]
  IN [q |-> Wrap64(2 * s.q) + s.carry, r |-> s.r]

Result(q, r) == [q |-> q, r |-> r]

(* sr is unsigned: a negative difference is larger than any limit. *)
Shifted(n, d, diff, limit) ==
  IF diff < 0 \/ diff > limit THEN Result(0, n) ELSE Rounds(n, d, diff + 1)

(* By the words of dividend and divisor that are zero.  d = 0 divides by a *)
(* zero word in the code, a trap: callers must not.                        *)
UDivMod(n, d) ==
  LET nh == High(n)  nl == Low(n)  dh == High(d)  dl == Low(d)
      ClzDiff == Clz(W, dh) - Clz(W, nh)
  IN CASE nh = 0 /\ dh = 0 -> Result(nl \div dl, nl % dl)
       [] nh = 0 /\ dh # 0 -> Result(0, nl)
       [] nh # 0 /\ dl = 0 /\ nl = 0 -> Result(nh \div dh, Dword(nh % dh, 0))
       [] nh # 0 /\ dl = 0 /\ nl # 0 /\ PowerOfTwo(dh) ->
            Result(Shr(nh, Ctz(W, dh)), Dword(And(nh, dh - 1), nl))
       [] nh # 0 /\ dl = 0 /\ nl # 0 /\ ~PowerOfTwo(dh) -> Shifted(n, d, ClzDiff, W - 2)
       [] nh # 0 /\ dl = 1 /\ dh = 0 -> Result(n, 0)
       [] nh # 0 /\ dl > 1 /\ dh = 0 /\ PowerOfTwo(dl) ->
            LET sr == Ctz(W, dl)
            IN Result(Dword(Shr(nh, sr), Shl(nh, W - sr) + Shr(nl, sr)), And(nl, dl - 1))
       [] nh # 0 /\ dl > 1 /\ dh = 0 /\ ~PowerOfTwo(dl) ->
            Rounds(n, d, 1 + W + Clz(W, dl) - Clz(W, nh))
       [] nh # 0 /\ dl # 0 /\ dh # 0 -> Shifted(n, d, ClzDiff, W - 1)

Magnitude(x) == IF Negative(x) THEN Wrap64(-x) ELSE x
WithSign(x, minus) == IF minus THEN Wrap64(-x) ELSE x

Div(a, b) == WithSign(UDivMod(Magnitude(a), Magnitude(b)).q, Negative(a) # Negative(b))
Mod(a, b) == WithSign(UDivMod(Magnitude(a), Magnitude(b)).r, Negative(a))
DivMod(a, b) == LET d == Div(a, b) IN Result(d, Wrap64(a - d * b))

-----------------------------------------------------------------------------
AbsValue(x) == IF x < 0 THEN -x ELSE x

(* What / and % of C mean on these operands: unsigned division is exact    *)
(* with a remainder below the divisor; signed division truncates, takes    *)
(* the sign of the remainder from the dividend and wraps only for the      *)
(* least integer by -1; the bit counts name the first and last bit set.    *)
DivisionRight(a, b) ==
  LET u == UDivMod(a, b)  s == DivMod(a, b)
      q == AbsValue(Signed(a)) \div AbsValue(Signed(b))
      r == AbsValue(Signed(a)) % AbsValue(Signed(b))
  IN b # 0 =>
       /\ a = u.q * b + u.r /\ u.r \in 0 .. b - 1
       /\ s.q = Wrap64(IF Negative(a) # Negative(b) THEN -q ELSE q)
       /\ s.r = Wrap64(IF Negative(a) THEN -r ELSE r) /\ s.r = Mod(a, b)
       /\ Shr(b, 2 * W - 1 - Clz2(b)) = 1 /\ Clz(2 * W, b) = Clz2(b) /\ Ctz(2 * W, b) = Ctz2(b)
       /\ b % Power[Ctz2(b)] = 0 /\ Shr(b, Ctz2(b)) % 2 = 1

-----------------------------------------------------------------------------
(* A program divides one two-word integer by any other.                    *)
Int64Init == dividend = -1
Int64Next == dividend = -1 /\ dividend' \in Dwords
Int64Spec == Int64Init /\ [][Int64Next]_dividend

(* Division of two-word integers is that of C (int64.c). *)
Int64Right == dividend # -1 => \A b \in Dwords : DivisionRight(dividend, b)
=============================================================================
