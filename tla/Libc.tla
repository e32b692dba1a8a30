-------------------------------- MODULE Libc --------------------------------
(***************************************************************************)
(* The functions of libc.c that the kernel and the programs build on:      *)
(* copying memory, comparing names, and converting numbers to text and     *)
(* back. A string is the sequence of its characters, one-character strings, *)
(* without the terminating NUL.                                            *)
(*                                                                         *)
(* A right aligned field is printed twice, the second time over the first, *)
(* which leaves what printing it once after the padding leaves.            *)
(***************************************************************************)
EXTENDS Integers, Sequences, FiniteSets

CONSTANT IntWidth  \* bits of an int, 32 in the code

ASSUME IntWidthAssumption == IntWidth \in Nat \ {0}

(* Copies upwards, one element after the other, whether or not the areas   *)
(* overlap: with dest above src, the loop reads elements that it has       *)
(* already written, and the first dest - src of them are repeated. mem is  *)
(* an array, indexed from 0.                                               *)
memmove(mem, dest, src, len) ==
  [k \in DOMAIN mem |->
     IF k < dest \/ k >= dest + len THEN mem[k]
     ELSE IF src < dest THEN mem[src + ((k - dest) % (dest - src))]
     ELSE mem[src + (k - dest)]]

(* strncmp(s1, s2, n) = 0, which is all its callers ask for: n equal       *)
(* characters. A string that ends before n makes the answer nonzero, even  *)
(* if the other is the same string.                                        *)
SameFirst(s1, s2, n) ==
  n <= Len(s1) /\ n <= Len(s2) /\ \A k \in 1 .. n : s1[k] = s2[k]

-----------------------------------------------------------------------------
hexdigits == <<"0", "1", "2", "3", "4", "5", "6", "7", "8", "9",
               "a", "b", "c", "d", "e", "f">>
IsDigit(c) == \E d \in 1 .. 10 : hexdigits[d] = c
DigitValue(c) == (CHOOSE d \in 1 .. 10 : hexdigits[d] = c) - 1

(* Faulty variant: the digits from the lowest up.                          *)
print_num_reversed(val, base) ==
  LET divisions[x \in 0 .. val] == IF x < base THEN 0 ELSE 1 + divisions[x \div base]
      n == divisions[val]
  IN [k \in 1 .. (n + 1) |-> hexdigits[((val \div base ^ (k - 1)) % base) + 1]]

(* The first loop finds how often val can be divided by base (mult is base *)
(* to that power), the second emits the digits from the highest down.      *)
print_num(val, base) ==
  LET divisions[x \in 0 .. val] == IF x < base THEN 0 ELSE 1 + divisions[x \div base]
      n == divisions[val]
  IN [k \in 1 .. (n + 1) |-> hexdigits[((val \div base ^ (n + 1 - k)) % base) + 1]]

(* A conversion of one argument. Negating the smallest int gives the same  *)
(* int, which print_num takes for the unsigned number it means.            *)
print_field(conversion, arg) ==
  CASE conversion = "s" -> arg
    [] conversion = "c" -> <<arg>>
    [] conversion = "d" -> IF arg < 0 THEN <<"-">> \o print_num(- arg, 10)
                                      ELSE print_num(arg, 10)
    [] conversion = "u" -> print_num(arg % 2 ^ IntWidth, 10)
    [] conversion = "x" -> print_num(arg % 2 ^ IntWidth, 16)
    [] conversion = "p" -> <<"0", "x">> \o print_num(arg % 2 ^ IntWidth, 16)
    [] OTHER -> <<"%">>

Conversions == {"s", "c", "d", "u", "x", "p"}

Spaces(n) == IF n > 0 THEN [k \in 1 .. n |-> " "] ELSE <<>>

(* What vsnprintf writes into a buffer that is large enough. Text[<<k, a>>] *)
(* is what comes of the format from position k on with a arguments used.   *)
(* (A format that ends in a lone % would be read past its end; no caller   *)
(* has one.)                                                               *)
vsnprintf(format, args) ==
  LET At(k) == IF k <= Len(format) THEN format[k] ELSE "NUL"
      Width[k \in 1 .. (Len(format) + 1), pad \in 0 .. 99] ==
        IF IsDigit(At(k)) THEN Width[k + 1, pad * 10 + DigitValue(At(k))] ELSE <<k, pad>>
      Text[at \in (1 .. (Len(format) + 2)) \X (0 .. Len(args))] ==
        LET k    == at[1]
            used == at[2]
        IN
        IF k > Len(format) THEN <<>>
        ELSE IF format[k] # "%" THEN <<format[k]>> \o Text[<<k + 1, used>>]
        ELSE LET left  == At(k + 1) = "-"
                 width == Width[IF left THEN k + 2 ELSE k + 1, 0]
                 takes == At(width[1]) \in Conversions
                 field == print_field(At(width[1]), IF takes THEN args[used + 1] ELSE 0)
                 pad   == Spaces(width[2] - Len(field))
             IN (IF left THEN field \o pad ELSE pad \o field)
                  \o Text[<<width[1] + 1, IF takes THEN used + 1 ELSE used>>]
  IN Text[<<1, 0>>]

(* The string snprintf leaves in a buffer of the given size (at least 1).  *)
snprintf(size, format, args) ==
  LET text == vsnprintf(format, args) IN
  SubSeq(text, 1, IF Len(text) < size THEN Len(text) ELSE size - 1)

(* Blanks, a sign, and digits up to the first other character. The value   *)
(* is accumulated in an unsigned int and returned as an int.               *)
atoi(s) ==
  LET Skip(from, set) == CHOOSE k \in from .. (Len(s) + 1) :
        /\ \A j \in from .. (k - 1) : s[j] \in set
        /\ k <= Len(s) => s[k] \notin set
      sign  == Skip(1, {" ", "\t"})
      neg   == sign <= Len(s) /\ s[sign] = "-"
      first == IF sign <= Len(s) /\ s[sign] \in {"-", "+"} THEN sign + 1 ELSE sign
      end   == Skip(first, {hexdigits[d] : d \in 1 .. 10})
      val[k \in first .. end] ==
        IF k = first THEN 0
        ELSE (val[k - 1] * 10 + DigitValue(s[k - 1])) % 2 ^ IntWidth
      word  == (IF neg THEN - val[end] ELSE val[end]) % 2 ^ IntWidth
  IN IF word < 2 ^ (IntWidth - 1) THEN word ELSE word - 2 ^ IntWidth
=============================================================================
