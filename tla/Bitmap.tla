------------------------------- MODULE Bitmap -------------------------------
(***************************************************************************)
(* common::Bitmap (deps/common/lang/bitmap.cpp), the allocation map of the *)
(* pages of a file and of the record slots of a page.  A bitmap of `size`  *)
(* bits is the set of its set bits.  Both searches go byte by byte; a byte *)
(* with nothing to find is skipped without resetting start_in_byte, so the *)
(* byte after it is searched from the middle.  The loops also look at the  *)
(* byte past the end, but what they find there is cut off by `ret >=       *)
(* size_`.                                                                 *)
(***************************************************************************)
EXTENDS Integers, FiniteSets

CONSTANT ByteBits   \* bits in a byte: 8, smaller in the models

ASSUME ByteBitsAssumption == ByteBits \in Nat \ {0}

NoBit == -1

\* the smallest element of a set of bit numbers
Lowest(bits) == CHOOSE b \in bits : \A c \in bits : b <= c

LowestOrNone(bits) == IF bits = {} THEN NoBit ELSE Lowest(bits)

(* The search for a bit of `bits`: the first byte, from that of `start`    *)
(* on, that has one is searched from start % 8, the bytes after it from    *)
(* their first bit.                                                        *)
SearchFrom(bits, start) ==
  LET ahead == {b \in bits : b \div ByteBits >= start \div ByteBits}
      first == Lowest(ahead) \div ByteBits
      inFirst == {b \in ahead : b \div ByteBits = first
                                /\ b % ByteBits >= start % ByteBits}
  IN  IF ahead = {} THEN NoBit
      ELSE IF inFirst # {} THEN Lowest(inFirst)
      ELSE LowestOrNone({b \in ahead : b \div ByteBits > first})

next_setted_bit(bits, size, start) ==
  SearchFrom(bits \cap 0 .. size - 1, start)

next_unsetted_bit(bits, size, start) ==
  SearchFrom((0 .. size - 1) \ bits, start)

(* What both searches are for: the first such bit, "start included"        *)
(* (bitmap.h:32).                                                          *)
FirstFrom(bits, size, start) ==
  LowestOrNone({b \in bits : start <= b /\ b < size})
=============================================================================
