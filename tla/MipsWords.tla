----------------------------- MODULE MipsWords -----------------------------
(***************************************************************************)
(* The machine words of the simulated MIPS, for bytes of any width.  Four   *)
(* bytes make a word and two a half word, as on the real machine, so that   *)
(* with ByteBits = 8 these are the 32-bit words of machine.h; a model with  *)
(* narrow bytes has every carry, sign and alignment case at a size TLC can  *)
(* enumerate.  A word is held as the natural number with its bits.          *)
(***************************************************************************)
EXTENDS Integers, Sequences, Bitwise

CONSTANT ByteBits   \* 8 in the code

HalfBits == 2 * ByteBits
WordBits == 4 * ByteBits
Modulus == 2 ^ WordBits
Word == 0 .. Modulus - 1
Byte == 0 .. 2 ^ ByteBits - 1

SIGN_BIT == 2 ^ (WordBits - 1)

\* C arithmetic on unsigned ints, and the int with the same bits.
Wrap(x) == x % Modulus
Negative(x) == x >= SIGN_BIT
AsInt(x) == IF Negative(x) THEN x - Modulus ELSE x

\* The low n bits, sign extension of an n-bit field, and the three shifts.
Low(x, n) == x % 2 ^ n
Extend(x, n) == IF x >= 2 ^ (n - 1) THEN Wrap(x - 2 ^ n) ELSE x
ShiftLeft(x, n) == Wrap(x * 2 ^ n)
ShiftRight(x, n) == x \div 2 ^ n
ShiftRightSigned(x, n) == Wrap(AsInt(x) \div 2 ^ n)
Complement(x) == Modulus - 1 - x

\* The truth value of C.
Bit(b) == IF b THEN 1 ELSE 0

\* Two's complement of a double word.
NegatedPair(hi, lo) ==
  LET low == Wrap(Complement(lo) + 1)
  IN  <<Wrap(Complement(hi) + Bit(low = 0)), low>>

\* n bytes of a little-endian memory as a number, and the memory after storing one.
Fetched(mem, addr, n) ==
  LET from[k \in 0..n] == IF k = n THEN 0 ELSE mem[addr + k] + 2 ^ ByteBits * from[k + 1]
  IN  from[0]
Stored(mem, addr, n, value) ==
  [a \in DOMAIN mem |-> IF a \in addr .. addr + n - 1
                        THEN (value \div 2 ^ (ByteBits * (a - addr))) % 2 ^ ByteBits
                        ELSE mem[a]]

\* The instruction word at an address; a program is followed by system calls.
Halt == [op |-> 0, rs |-> 0, rt |-> 0, rd |-> 0, shamt |-> 0, funct |-> 12,
         immed |-> 0, target |-> 0]
InstructionAt(program, addr) ==
  IF addr \div 4 < Len(program) THEN program[addr \div 4 + 1] ELSE Halt
=============================================================================
