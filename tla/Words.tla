------------------------------- MODULE Words -------------------------------
(***************************************************************************)
(* u32int arithmetic, with a word of any size: sums, differences and       *)
(* products wrap.  Addresses and lengths are words; pages and page tables  *)
(* divide the address space as they do in the machine.                     *)
(***************************************************************************)
EXTENDS Integers

CONSTANTS
  PAGE_SIZE,            \* 2^12
  ENTRIES               \* entries of a page directory or table, 2^10

TableSpan == PAGE_SIZE * ENTRIES        \* what one page table maps, 4 MB
MODULUS   == TableSpan * ENTRIES        \* 2^32

ASSUME WordsAssumption ==
  /\ PAGE_SIZE \in Nat \ {0, 1}
  /\ ENTRIES \in Nat \ {0, 1}

Word == 0 .. MODULUS - 1

Add(a, b) == IF a + b < MODULUS THEN a + b ELSE a + b - MODULUS
Sub(a, b) == IF a >= b THEN a - b ELSE a - b + MODULUS
Mul(a, b) == (a * b) % MODULUS

(* a & 0xFFFFF000, and the round-up that the code writes with it.          *)
PageDown(a) == a - (a % PAGE_SIZE)
PageUp(a) == IF a % PAGE_SIZE # 0 THEN Add(PageDown(a), PAGE_SIZE) ELSE a

(* The addresses of n bytes from address a on.                             *)
Span(a, n) == {Add(a, i) : i \in 0 .. n - 1}

=============================================================================
