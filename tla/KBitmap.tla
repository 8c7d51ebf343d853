------------------------------ MODULE KBitmap ------------------------------
(***************************************************************************)
(* src/kbitmap.c: the bitmap the physical page allocator keeps one bit per *)
(* page in.  A byte is the set of its bits that are 1, and a bitmap is a   *)
(* function from byte offsets to bytes, so the split of a bit number into  *)
(* an offset and a bit, and the byte-by-byte scan, are those of the code.  *)
(***************************************************************************)
EXTENDS Integers

Bit  == 0 .. 7
Byte == SUBSET Bit

(* The u32int -1 that first_clear_bit returns when every byte is 0xff.     *)
NoBit == -1

(* Mutant of bitmap_in_bytes: one byte more even for whole bytes.          *)
bitmap_in_bytes_one_more(size) == (size \div 8) + 1

bitmap_in_bytes(size) ==
  IF size % 8 # 0 THEN (size \div 8) + 1 ELSE size \div 8

Bitmap(size) == [0 .. bitmap_in_bytes(size) - 1 -> Byte]

test_bit(bitmap, num) == num % 8 \in bitmap[num \div 8]

set_bit(bitmap, num) ==
  [bitmap EXCEPT ![num \div 8] = bitmap[num \div 8] \cup {num % 8}]

(* Mutant of clear_bit: the whole byte becomes 0.                          *)
clear_bit_clears_byte(bitmap, num) == [bitmap EXCEPT ![num \div 8] = {}]

clear_bit(bitmap, num) ==
  [bitmap EXCEPT ![num \div 8] = bitmap[num \div 8] \ {num % 8}]

(* A loop of set_bit over the numbers of a set.                            *)
set_bits(bitmap, nums) ==
  [offset \in DOMAIN bitmap |->
     bitmap[offset] \cup {bit \in Bit : 8 * offset + bit \in nums}]

Least(S) == CHOOSE n \in S : \A m \in S : n <= m

(* The scan stops at the first byte that is not 0xff and, in it, at the    *)
(* first bit that is 0.  It looks at whole bytes: the bits above size in   *)
(* the last byte are candidates too.                                       *)
first_clear_bit(bitmap, size) ==
  LET open == {offset \in 0 .. bitmap_in_bytes(size) - 1 :
                 bitmap[offset] # Bit}
  IN  IF open = {} THEN NoBit
      ELSE 8 * Least(open) + Least(Bit \ bitmap[Least(open)])

=============================================================================
