-------------------------------- MODULE Klib --------------------------------
(***************************************************************************)
(* The C library of the kernel: string.c, and from stdlib.c and stdio.c    *)
(* what prints and reads numbers.  Memory is a function from addresses to  *)
(* characters, 0 being NUL; a function that writes returns the memory it   *)
(* leaves.  printf's lock is in Spinlock; rand is left out, and so are the *)
(* functions that only panic.  A loop is a recursive function of the       *)
(* number of its passes.  Characters are ASCII: the comparisons subtract   *)
(* plain chars, which are signed, so that one above 127 would come before  *)
(* every other.                                                            *)
(***************************************************************************)
EXTENDS Integers, FiniteSets, Sequences

CONSTANTS
  Bits,               \* the width of int
  PBUF_MAX_SIZE,      \* the size of snprintf's pbuf: 1024
  MemorySize, Chars   \* memories to try: their addresses and characters

VARIABLE klib_call    \* the call under way, or <<>>

ASSUME KlibAssumption ==
  /\ Bits \in {8, 16, 32} /\ PBUF_MAX_SIZE \in Nat
  /\ MemorySize \in Nat /\ Chars \subseteq Nat /\ 0 \in Chars

Undefined == "undefined"
Halted == "halted"

Memset(m, s, c, n) ==
  LET set[i \in 0 .. n] == IF i = 0 THEN m ELSE [set[i - 1] EXCEPT ![s + i - 1] = c]
  IN set[n]

Memcpy(m, out, in, n) ==
  LET copied[i \in 0 .. n] ==
        IF i = 0 THEN m
        ELSE LET mem == copied[i - 1] IN [mem EXCEPT ![out + i - 1] = mem[in + i - 1]]
  IN copied[n]

(* Upwards when dst <= src.  For dst > src the loop starts at the last byte *)
(* and increments, so it never ends inside the buffers.                     *)
Memmove(m, dst, src, n) ==
  IF dst > src /\ n > 0 THEN Undefined ELSE Memcpy(m, dst, src, n)

(* The difference at the first place where they differ.  strncmp is the    *)
(* same loop: it does not stop at a NUL.                                   *)
Memcmp(m, s1, s2, n) ==
  LET differ == {i \in 0 .. n - 1 : m[s1 + i] # m[s2 + i]}
      first == CHOOSE i \in differ : \A j \in differ : i <= j
  IN IF differ = {} THEN 0 ELSE m[s1 + first] - m[s2 + first]
Strncmp(m, s1, s2, n) == Memcmp(m, s1, s2, n)

Strlen(m, s) ==
  CHOOSE n \in 0 .. Cardinality(DOMAIN m) :
    m[s + n] = 0 /\ \A i \in 0 .. n - 1 : m[s + i] # 0

(* n characters, whatever they are, and a NUL after them. *)
Strncpy(m, dst, src, n) == [Memcpy(m, dst, src, n) EXCEPT ![dst + n] = 0]
Strcpy(m, dst, src) == Strncpy(m, dst, src, Strlen(m, src))
Strcat(m, dst, src) == Strcpy(m, dst + Strlen(m, dst), src)

Strcmp(m, s1, s2) ==
  LET shorter == IF Strlen(m, s1) < Strlen(m, s2) THEN Strlen(m, s1) ELSE Strlen(m, s2)
  IN Strncmp(m, s1, s2, shorter + 1)

-----------------------------------------------------------------------------
(* Numbers and formats; a text is a sequence of characters without its NUL. *)
Table == <<"0", "1", "2", "3", "4", "5", "6", "7", "8", "9", "A", "B", "C", "D", "E", "F">>
IsDigit(ch) == \E i \in 1 .. 10 : Table[i] = ch
Digit(ch) == (CHOOSE i \in 1 .. 10 : Table[i] = ch) - 1

PutDigit(s, base) ==
  [val |-> s.val \div base, length |-> s.length - 1,
   text |-> <<Table[(s.val % base) + 1]>> \o s.text]

MutPass(s, base) == IF s.val = 0 THEN s ELSE PutDigit(s, base)
MutItos(val, base, length) ==
  LET loop[i \in 0 .. 49] ==
        IF i = 0 THEN [val |-> val, length |-> length, text |-> <<>>]
        ELSE MutPass(loop[i - 1], base)
  IN IF base = 16 THEN <<"0", "x">> \o loop[49].text ELSE loop[49].text

(* At least `length' digits; with a negative length as many as val has,    *)
(* but one for zero would need length 1.  The callers' buffer takes 49.    *)
Pass(s, base) == IF s.val = 0 /\ s.length <= 0 THEN s ELSE PutDigit(s, base)
Itos(val, base, length) ==
  LET loop[i \in 0 .. 49] ==
        IF i = 0 THEN [val |-> val, length |-> length, text |-> <<>>]
        ELSE Pass(loop[i - 1], base)
  IN IF base = 16 THEN <<"0", "x">> \o loop[49].text ELSE loop[49].text

(* i is unsigned, so the branch for i < 0 is never taken. *)
Decimal(i) == IF i = 0 THEN <<"0">> ELSE Itos(i, 10, -1)

(* What a directive writes for the argument a.  After an l any character   *)
(* is skipped; a format that ends inside a directive is read past its end. *)
Directive(ch, a) ==
  CASE ch = "c" -> <<a>>
    [] ch \in {"d", "u"} -> Decimal(a % 2^Bits)
    [] ch = "s" -> a
    [] ch = "p" -> Itos(a, 16, 8)
    [] OTHER -> <<"?">>

TakesArgument == {"c", "d", "u", "s", "p"}

ReadFormat(s, ch) ==
  CASE s.mode = "text" /\ ch = "%" -> [s EXCEPT !.mode = "directive"]
    [] s.mode = "text" /\ ch # "%" -> [s EXCEPT !.out = Append(@, ch)]
    [] s.mode = "directive" /\ ch = "l" -> [s EXCEPT !.mode = "long"]
    [] OTHER ->
         LET d == IF s.mode = "long" THEN "d" ELSE ch
             taken == d \in TakesArgument
         IN [mode |-> "text",
             args |-> IF taken THEN Tail(s.args) ELSE s.args,
             out |-> s.out \o Directive(d, IF taken THEN Head(s.args) ELSE 0)]

Vsprintf(fmt, args) ==
  LET state[i \in 0 .. Len(fmt)] ==
        IF i = 0 THEN [mode |-> "text", args |-> args, out |-> <<>>]
        ELSE ReadFormat(state[i - 1], fmt[i])
      end == state[Len(fmt)]
  IN IF end.mode = "text" THEN end.out ELSE Undefined

(* vsprintf writes to pbuf however much it is and returns the length with  *)
(* the NUL; the copy of that many bytes, or of n, is followed by a NUL.    *)
(* The assertion on their number comes after pbuf was filled.              *)
SnprintfRet(n, text) == IF Len(text) + 1 > n THEN n ELSE Len(text) + 1
SnprintfFits(text) == Len(text) + 1 <= PBUF_MAX_SIZE
SnprintfReturns(n, text) == SnprintfFits(text) /\ SnprintfRet(n, text) < PBUF_MAX_SIZE

Snprintf(m, out, n, text) ==
  LET pbuf == Append(text, 0)
      ret == SnprintfRet(n, text)
  IN CASE ~SnprintfFits(text) -> Undefined
       [] SnprintfReturns(n, text) ->
            [a \in DOMAIN m |-> IF a \in out .. out + ret - 1 THEN pbuf[a - out + 1]
                                ELSE IF a = out + ret THEN 0 ELSE m[a]]
       [] OTHER -> Halted

(* Leading spaces are skipped, the first other character ends the number. *)
ReadNumber(s, ch) ==
  CASE s.mode = "spaces" /\ ch = " " -> s
    [] s.mode # "end" /\ IsDigit(ch) ->
         [mode |-> "digits", x |-> (s.x * 10 + Digit(ch)) % 2^Bits]
    [] OTHER -> [mode |-> "end", x |-> s.x]

Atoi(text) ==
  LET state[i \in 0 .. Len(text)] ==
        IF i = 0 THEN [mode |-> "spaces", x |-> 0] ELSE ReadNumber(state[i - 1], text[i])
  IN state[Len(text)].x

-----------------------------------------------------------------------------
Sign(x) == IF x < 0 THEN -1 ELSE IF x > 0 THEN 1 ELSE 0
StringAt(m, s) == [i \in 1 .. Strlen(m, s) |-> m[s + i - 1]]
Terminated(m, s) == \E a \in DOMAIN m : a >= s /\ m[a] = 0

(* s precedes t in the order of a dictionary. *)
Precedes(s, t) ==
  \E n \in 0 .. Len(s) :
    /\ n <= Len(t) /\ SubSeq(s, 1, n) = SubSeq(t, 1, n)
    /\ n < Len(t) /\ (n = Len(s) \/ s[n + 1] < t[n + 1])

(* Moving down, which is all that tty_upd_scrollup asks of memmove, is a   *)
(* move of the old contents although the ranges overlap; strcpy and strcat *)
(* make the strings they should when the ranges do not meet, and strcmp    *)
(* orders strings as a dictionary does.                                    *)
CopiesRight(m) ==
  LET size == Cardinality(DOMAIN m) IN
  \A dst, src \in DOMAIN m :
    /\ \A n \in 0 .. size - dst :
         Memset(m, dst, 0, n) = [a \in DOMAIN m |-> IF a \in dst .. dst + n - 1 THEN 0 ELSE m[a]]
    /\ \A n \in 0 .. size - src :
         dst <= src => Memmove(m, dst, src, n) =
           [a \in DOMAIN m |-> IF a \in dst .. dst + n - 1 THEN m[src + a - dst] ELSE m[a]]
    /\ Terminated(m, dst) /\ Terminated(m, src) =>
         LET s == StringAt(m, src)  d == StringAt(m, dst)
         IN /\ dst + Len(s) < src => StringAt(Strcpy(m, dst, src), dst) = s
            /\ dst + Len(d) + Len(s) < src => StringAt(Strcat(m, dst, src), dst) = d \o s
            /\ Sign(Strcmp(m, dst, src)) =
                 IF d = s THEN 0 ELSE IF Precedes(d, s) THEN -1 ELSE 1

(* A printed number is read back by atoi, whatever surrounds it in the     *)
(* format, with no leading zero; a negative one comes out as its unsigned  *)
(* value; %p prints eight digits at least.                                 *)
PrintsBack(x) ==
  LET text == Vsprintf(<<" ", "%", "l", "d", ",", "%", "p", "%", "x">>, <<x, x % 2^Bits>>)
      number == Vsprintf(<<"%", "u">>, <<x>>)
      pointer == Vsprintf(<<"%", "p">>, <<x % 2^Bits>>)
  IN /\ Atoi(text) = x % 2^Bits
     /\ text = <<" ">> \o number \o <<",">> \o pointer \o <<"?">>
     /\ Len(number) > 1 => number[1] # "0"
     /\ Len(pointer) = 10

-----------------------------------------------------------------------------
(* A program calls one of the functions, with any memory or any int.       *)
KlibInit == klib_call = <<>>

CopyOrCompare ==
  /\ klib_call = <<>>
  /\ \E m \in [0 .. MemorySize - 1 -> Chars] : klib_call' = [memory |-> m]

PrintAndRead ==
  /\ klib_call = <<>>
  /\ \E x \in -(2^Bits \div 2) .. (2^Bits \div 2) - 1 : klib_call' = [number |-> x]

KlibNext == CopyOrCompare \/ PrintAndRead
KlibSpec == KlibInit /\ [][KlibNext]_klib_call

(* Copies, comparisons and the printing of numbers are right (klib).       *)
KlibRight ==
  /\ "memory" \in DOMAIN klib_call => CopiesRight(klib_call.memory)
  /\ "number" \in DOMAIN klib_call => PrintsBack(klib_call.number)
=============================================================================
