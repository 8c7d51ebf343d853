------------------------ MODULE MemoryManagerProofs ------------------------
(***************************************************************************)
(* The page allocator's invariants, and its refinement of PageAllocator,   *)
(* for every page size, kernel size and segment size that satisfy          *)
(* SegmentsAssumption.                                                     *)
(***************************************************************************)
EXTENDS MemoryManager, WellFoundedInduction, TLAPS

(* Facts about the operators of KBitmap, for bitmaps of every size.        *)
Below == {pair \in Nat \X Nat : pair[1] < pair[2]}

LEMMA BelowIsWellFounded == IsWellFoundedOn(Below, Nat)
  BY NatLessThanWellFounded DEF OpToRel, Below

(* A nonempty set of naturals has a least element, which Least chooses.    *)
LEMMA LeastExists ==
  ASSUME NEW S, S \subseteq Nat, S # {}
  PROVE  /\ Least(S) \in S
         /\ \A m \in S : Least(S) <= m
<1>1. PICK x \in S : \A y \in S : ~ (<<y, x>> \in Below)
  BY BelowIsWellFounded, WFMin
<1>2. ASSUME NEW y \in S
      PROVE  x <= y
  <2>1. y \in Nat /\ x \in Nat
    OBVIOUS
  <2>2. y < x => <<y, x>> \in Below
    BY <2>1 DEF Below
  <2>. QED  BY <1>1, <2>1, <2>2
<1>. QED  BY <1>2 DEF Least

(* The bits of a bitmap are numbered 8 * offset + bit.                     *)
LEMMA BitNumber ==
  ASSUME NEW offset \in Nat, NEW bit \in Bit
  PROVE  /\ (8 * offset + bit) \div 8 = offset
         /\ (8 * offset + bit) % 8 = bit
         /\ 8 * offset + bit \in Nat
  BY DEF Bit

LEMMA BitOfNumber ==
  ASSUME NEW num \in Nat
  PROVE  /\ num \div 8 \in Nat
         /\ num % 8 \in Bit
         /\ num = 8 * (num \div 8) + (num % 8)
  BY DEF Bit

(* The bitmap has a bit for every one of the size pages, and only those    *)
(* numbers fall into its bytes.                                            *)
LEMMA BytesCoverSize ==
  ASSUME NEW size \in Nat
  PROVE  /\ bitmap_in_bytes(size) \in Nat
         /\ size <= 8 * bitmap_in_bytes(size)
         /\ \A num \in 0 .. 8 * bitmap_in_bytes(size) - 1 :
              num \div 8 \in 0 .. bitmap_in_bytes(size) - 1
<1>1. bitmap_in_bytes(size) \in Nat /\ size <= 8 * bitmap_in_bytes(size)
  BY DEF bitmap_in_bytes
<1>. QED  BY <1>1

(* set_bit and clear_bit keep the shape of the bitmap, and change the      *)
(* answer of test_bit for their own bit number and for no other.           *)
LEMMA SetBit ==
  ASSUME NEW size \in Nat, NEW bm \in Bitmap(size),
         NEW num \in 0 .. 8 * bitmap_in_bytes(size) - 1
  PROVE  /\ set_bit(bm, num) \in Bitmap(size)
         /\ \A n \in 0 .. 8 * bitmap_in_bytes(size) - 1 :
              test_bit(set_bit(bm, num), n) <=> (test_bit(bm, n) \/ n = num)
<1>1. /\ num \div 8 \in 0 .. bitmap_in_bytes(size) - 1
      /\ num % 8 \in Bit
  BY BytesCoverSize, BitOfNumber
<1>2. set_bit(bm, num) \in Bitmap(size)
  BY <1>1 DEF set_bit, Bitmap, Byte
<1>3. ASSUME NEW n \in 0 .. 8 * bitmap_in_bytes(size) - 1
      PROVE  test_bit(set_bit(bm, num), n) <=> (test_bit(bm, n) \/ n = num)
  <2>1. n \div 8 \in 0 .. bitmap_in_bytes(size) - 1
    BY BytesCoverSize
  <2>2. n = num <=> n \div 8 = num \div 8 /\ n % 8 = num % 8
    BY BitOfNumber, BytesCoverSize, SMTT(30)
  <2>. QED  BY <1>1, <2>1, <2>2 DEF set_bit, test_bit, Bitmap
<1>. QED  BY <1>2, <1>3

LEMMA ClearBit ==
  ASSUME NEW size \in Nat, NEW bm \in Bitmap(size),
         NEW num \in 0 .. 8 * bitmap_in_bytes(size) - 1
  PROVE  /\ clear_bit(bm, num) \in Bitmap(size)
         /\ \A n \in 0 .. 8 * bitmap_in_bytes(size) - 1 :
              test_bit(clear_bit(bm, num), n) <=> (test_bit(bm, n) /\ n # num)
<1>1. /\ num \div 8 \in 0 .. bitmap_in_bytes(size) - 1
      /\ num % 8 \in Bit
  BY BytesCoverSize, BitOfNumber
<1>2. clear_bit(bm, num) \in Bitmap(size)
  BY <1>1 DEF clear_bit, Bitmap, Byte
<1>3. ASSUME NEW n \in 0 .. 8 * bitmap_in_bytes(size) - 1
      PROVE  test_bit(clear_bit(bm, num), n) <=> (test_bit(bm, n) /\ n # num)
  <2>1. n \div 8 \in 0 .. bitmap_in_bytes(size) - 1
    BY BytesCoverSize
  <2>2. n = num <=> n \div 8 = num \div 8 /\ n % 8 = num % 8
    BY BitOfNumber, BytesCoverSize, SMTT(30)
  <2>. QED  BY <1>1, <2>1, <2>2 DEF clear_bit, test_bit, Bitmap
<1>. QED  BY <1>2, <1>3

(* The loop of set_bit marks exactly the numbers it is given, and those    *)
(* that were marked.                                                       *)
LEMMA SetBits ==
  ASSUME NEW size \in Nat, NEW bm \in Bitmap(size), NEW nums
  PROVE  /\ set_bits(bm, nums) \in Bitmap(size)
         /\ \A n \in 0 .. 8 * bitmap_in_bytes(size) - 1 :
              test_bit(set_bits(bm, nums), n) <=> (test_bit(bm, n) \/ n \in nums)
<1>1. set_bits(bm, nums) \in Bitmap(size)
  BY DEF set_bits, Bitmap, Byte
<1>2. ASSUME NEW n \in 0 .. 8 * bitmap_in_bytes(size) - 1
      PROVE  test_bit(set_bits(bm, nums), n) <=> (test_bit(bm, n) \/ n \in nums)
  <2>1. /\ n \div 8 \in DOMAIN bm
        /\ n % 8 \in Bit
        /\ 8 * (n \div 8) + (n % 8) = n
    BY BytesCoverSize, BitOfNumber DEF Bitmap
  <2>2. set_bits(bm, nums)[n \div 8] =
          bm[n \div 8] \cup {bit \in Bit : 8 * (n \div 8) + bit \in nums}
    BY <2>1 DEF set_bits
  <2>. QED  BY <2>1, <2>2 DEF test_bit
<1>. QED  BY <1>1, <1>2

(* first_clear_bit returns a clear bit of the bitmap's bytes, and NoBit    *)
(* only when they have none.                                               *)
LEMMA FirstClearBit ==
  ASSUME NEW size \in Nat, NEW bm \in Bitmap(size)
  PROVE  \/ /\ first_clear_bit(bm, size) = NoBit
            /\ \A n \in 0 .. 8 * bitmap_in_bytes(size) - 1 : test_bit(bm, n)
         \/ /\ first_clear_bit(bm, size) \in 0 .. 8 * bitmap_in_bytes(size) - 1
            /\ ~test_bit(bm, first_clear_bit(bm, size))
            /\ \A n \in 0 .. first_clear_bit(bm, size) - 1 : test_bit(bm, n)
<1> DEFINE bytes == bitmap_in_bytes(size)
           open  == {offset \in 0 .. bytes - 1 : bm[offset] # Bit}
<1>1. bytes \in Nat
  BY BytesCoverSize
<1>2. \A offset \in 0 .. bytes - 1 : bm[offset] \subseteq Bit
  BY DEF Bitmap, Byte
<1>3. CASE open = {}
  <2>1. first_clear_bit(bm, size) = NoBit
    BY <1>3 DEF first_clear_bit
  <2>2. \A n \in 0 .. 8 * bytes - 1 : n \div 8 \in 0 .. bytes - 1 /\ n % 8 \in Bit
    BY BytesCoverSize, BitOfNumber, <1>1
  <2>3. \A n \in 0 .. 8 * bytes - 1 : test_bit(bm, n)
    BY <1>3, <2>2 DEF test_bit
  <2>. QED  BY <2>1, <2>3
<1>4. CASE open # {}
  <2> DEFINE offset == Least(open)
             bit    == Least(Bit \ bm[offset])
             num    == 8 * offset + bit
  <2>1. /\ offset \in 0 .. bytes - 1
        /\ bm[offset] # Bit
        /\ \A o \in open : offset <= o
    <3>1. open \subseteq Nat /\ open # {}
      BY <1>1, <1>4
    <3>2. offset \in open /\ \A o \in open : offset <= o
      BY <3>1, LeastExists
    <3>. QED  BY <3>2
  <2>2. /\ bit \in Bit
        /\ bit \notin bm[offset]
        /\ \A b \in Bit \ bm[offset] : bit <= b
    <3>1. Bit \ bm[offset] # {} /\ Bit \ bm[offset] \subseteq Nat
      <4> HIDE DEF offset
      <4>. QED  BY <1>2, <2>1 DEF Bit
    <3>. QED  BY <3>1, LeastExists
  <2>3. first_clear_bit(bm, size) = num
    BY <1>4 DEF first_clear_bit
  <2> HIDE DEF offset, bit
  <2>4. num \in 0 .. 8 * bytes - 1 /\ num \div 8 = offset /\ num % 8 = bit
    BY <1>1, <2>1, <2>2, BitNumber DEF Bit
  <2>5. ~test_bit(bm, num)
    BY <2>2, <2>4 DEF test_bit
  <2>6. ASSUME NEW n \in 0 .. num - 1
        PROVE  test_bit(bm, n)
    <3>1. /\ n \div 8 \in 0 .. bytes - 1
          /\ n % 8 \in Bit
          /\ n \div 8 <= offset
          /\ n \div 8 = offset => n % 8 < bit
      BY <1>1, <2>1, <2>2, <2>4, BitOfNumber, BytesCoverSize DEF Bit
    <3>2. CASE n \div 8 = offset
      BY <2>2, <3>1, <3>2 DEF test_bit, Bit
    <3>3. CASE n \div 8 # offset
      <4>1. bm[n \div 8] = Bit
        BY <2>1, <3>1, <3>3
      <4>. QED  BY <3>1, <4>1 DEF test_bit
    <3>. QED  BY <3>2, <3>3
  <2>. QED  BY <2>3, <2>4, <2>5, <2>6
<1>. QED  BY <1>3, <1>4

-----------------------------------------------------------------------------

(* What every reachable state satisfies.  Before boot nobody holds a page; *)
(* after boot the kernel's pages are marked, and so is what callers hold,  *)
(* which is never a page of the kernel.                                    *)
MarkedPages(p) == {n \in 0 .. bitmap_size(p) - 1 : test_bit(bitmap[p], n)}

IInv ==
  /\ TypeOK
  /\ ~memory_bitmap_initialized => \A p \in Pool : owned[p] = {}
  /\ memory_bitmap_initialized =>
       \A p \in Pool : /\ KernelPages(p) \subseteq MarkedPages(p)
                       /\ owned[p] \subseteq MarkedPages(p) \ KernelPages(p)

(* Page 0 belongs to the kernel in both segments.                          *)
LEMMA Sizes ==
  ASSUME NEW p \in Pool
  PROVE  /\ bitmap_size(p) \in Nat \ {0}
         /\ KernelPages(p) \subseteq 0 .. bitmap_size(p) - 1
         /\ 0 \in KernelPages(p)
         /\ bitmap_in_bytes(bitmap_size(p)) \in Nat
         /\ bitmap_size(p) <= 8 * bitmap_in_bytes(bitmap_size(p))
<1>1. /\ PAGE_SIZE \in Nat \ {0}
      /\ code_segment_len \in Nat /\ data_segment_len \in Nat
      /\ used_pages("code") \in 1 .. bitmap_size("code")
      /\ used_pages("data") \in 1 .. bitmap_size("data") - 1
  BY SegmentsAssumption
<1>2. \A len \in Nat : len \div PAGE_SIZE \in Int
  BY <1>1
<1>3. bitmap_size("code") \in Int /\ bitmap_size("data") \in Int
  BY <1>1, <1>2 DEF bitmap_size
<1>4. bitmap_size(p) \in Nat \ {0}
  BY <1>1, <1>3 DEF Pool
<1>5. KernelPages(p) \subseteq 0 .. bitmap_size(p) - 1 /\ 0 \in KernelPages(p)
  BY <1>1, <1>3 DEF KernelPages, Pool
<1>. QED  BY <1>4, <1>5, BytesCoverSize

(* Pages and the bits that stand for them.                                 *)
LEMMA PageBits ==
  ASSUME NEW p \in Pool
  PROVE  0 .. bitmap_size(p) - 1 \subseteq 0 .. 8 * bitmap_in_bytes(bitmap_size(p)) - 1
  BY Sizes

(* A page handed out was clear; when no page is handed out, none is clear. *)
LEMMA Scan ==
  ASSUME NEW p \in Pool, bitmap[p] \in Bitmap(bitmap_size(p))
  PROVE  LET i == first_clear_bit(bitmap[p], bitmap_size(p))
         IN  /\ i = NoBit \/ i >= bitmap_size(p) => Free(p) = {}
             /\ i # NoBit /\ i < bitmap_size(p) =>
                  i \in 0 .. bitmap_size(p) - 1 /\ i \in Free(p)
<1> DEFINE size == bitmap_size(p)
           i    == first_clear_bit(bitmap[p], size)
<1>1. size \in Nat
  BY Sizes
<1>2. \/ i = NoBit /\ \A n \in 0 .. 8 * bitmap_in_bytes(size) - 1 : test_bit(bitmap[p], n)
      \/ /\ i \in 0 .. 8 * bitmap_in_bytes(size) - 1
         /\ ~test_bit(bitmap[p], i)
         /\ \A n \in 0 .. i - 1 : test_bit(bitmap[p], n)
  BY <1>1, FirstClearBit
<1> HIDE DEF i
<1>3. i = NoBit \/ i >= size => Free(p) = {}
  BY <1>1, <1>2, PageBits, Sizes DEF Free, NoBit
<1>4. i # NoBit /\ i < size => i \in 0 .. size - 1 /\ i \in Free(p)
  BY <1>1, <1>2, Sizes DEF Free
<1>. QED  BY <1>3, <1>4 DEF i

(* Marking or clearing one page changes the bitmap for that page only.     *)
LEMMA MarkPage ==
  ASSUME NEW bytes, NEW p \in Pool, bytes \in Bitmap(bitmap_size(p)),
         NEW n \in 0 .. bitmap_size(p) - 1
  PROVE  /\ set_bit(bytes, n) \in Bitmap(bitmap_size(p))
         /\ clear_bit(bytes, n) \in Bitmap(bitmap_size(p))
         /\ \A m \in 0 .. bitmap_size(p) - 1 :
              /\ test_bit(set_bit(bytes, n), m) <=> (test_bit(bytes, m) \/ m = n)
              /\ test_bit(clear_bit(bytes, n), m) <=> (test_bit(bytes, m) /\ m # n)
<1>1. bitmap_size(p) \in Nat
  BY Sizes
<1>2. n \in 0 .. 8 * bitmap_in_bytes(bitmap_size(p)) - 1
  BY PageBits
<1>. QED  BY <1>1, <1>2, PageBits, SetBit, ClearBit

-----------------------------------------------------------------------------
LEMMA InitIInv == Init => IInv
<1> SUFFICES ASSUME Init
             PROVE  IInv
  OBVIOUS
<1>1. PICK code \in RawBitmap("code"), data \in RawBitmap("data") :
        bitmap = [p \in Pool |-> IF p = "code" THEN code ELSE data]
  BY DEF Init
<1>2. Residue \subseteq Byte
  BY SegmentsAssumption
<1>3. \A p \in Pool : bitmap[p] \in Bitmap(bitmap_size(p))
  BY <1>1, <1>2 DEF RawBitmap, Bitmap, Pool
<1>4. TypeOK
  BY <1>1, <1>3 DEF Init, TypeOK, NULL
<1>. QED  BY <1>4 DEF Init, IInv

(* Boot marks the kernel's pages whatever the memory held.                 *)
LEMMA BootIInv ==
  ASSUME IInv, init_memory_bitmap
  PROVE  IInv'
<1>1. ASSUME NEW p \in Pool
      PROVE  /\ bitmap'[p] \in Bitmap(bitmap_size(p))
             /\ \A n \in KernelPages(p) : test_bit(bitmap'[p], n)
  <2>1. bitmap[p] \in Bitmap(bitmap_size(p))
    BY DEF IInv, TypeOK
  <2>2. cleared(bitmap[p]) \in Bitmap(bitmap_size(p))
    BY <2>1 DEF cleared, Bitmap, Byte
  <2>3. bitmap'[p] = set_bits(cleared(bitmap[p]), KernelPages(p))
    BY DEF init_memory_bitmap
  <2>. QED  BY <2>2, <2>3, SetBits, Sizes, PageBits
<1>2. TypeOK'
  BY <1>1 DEF IInv, TypeOK, init_memory_bitmap
<1>3. \A p \in Pool : KernelPages(p) \subseteq MarkedPages(p)'
  BY <1>1, Sizes DEF MarkedPages
<1>4. \A p \in Pool : owned'[p] = {}
  BY DEF IInv, init_memory_bitmap
<1>. QED  BY <1>2, <1>3, <1>4 DEF IInv, init_memory_bitmap

LEMMA AllocIInv ==
  ASSUME IInv, NEW pool \in Pool, AllocPage(pool)
  PROVE  IInv'
<1> DEFINE i == first_clear_bit(bitmap[pool], bitmap_size(pool))
<1>1. \A p \in Pool : bitmap[p] \in Bitmap(bitmap_size(p))
  BY DEF IInv, TypeOK
<1>2. i \in 0 .. bitmap_size(pool) - 1 /\ i \in Free(pool)
  BY <1>1, Scan DEF AllocPage
<1>3. i \notin KernelPages(pool)
  BY <1>2 DEF IInv, AllocPage, MarkedPages, Free
<1> HIDE DEF i
<1>4. bitmap' = [bitmap EXCEPT ![pool] = set_bit(bitmap[pool], i)]
  BY DEF AllocPage, i
<1>5. \A p \in Pool : bitmap'[p] = IF p = pool THEN set_bit(bitmap[pool], i) ELSE bitmap[p]
  BY <1>4 DEF IInv, TypeOK
<1>6. \A p \in Pool : /\ bitmap'[p] \in Bitmap(bitmap_size(p))
                      /\ MarkedPages(p)' = MarkedPages(p) \cup (IF p = pool THEN {i} ELSE {})
  BY <1>1, <1>2, <1>5, MarkPage DEF MarkedPages
<1>7. owned' = owned \/ owned' = [owned EXCEPT ![pool] = owned[pool] \cup {i}]
  BY DEF AllocPage, i
<1>8. ret' \in Nat
  BY <1>2, SegmentsAssumption DEF AllocPage, i
<1>9. TypeOK'
  BY <1>2, <1>4, <1>6, <1>7, <1>8 DEF IInv, TypeOK, AllocPage
<1>. QED  BY <1>3, <1>6, <1>7, <1>9 DEF IInv, TypeOK, AllocPage

LEMMA FreeIInv ==
  ASSUME IInv, NEW pool \in Pool, free_page(pool)
  PROVE  IInv'
<1>1. PICK i \in owned[pool] :
        /\ bitmap' = IF i < bitmap_size(pool)
                     THEN [bitmap EXCEPT ![pool] = clear_bit(bitmap[pool], i)]
                     ELSE bitmap
        /\ owned' = [owned EXCEPT ![pool] = owned[pool] \ {i}]
  BY DEF free_page
<1>2. i \in 0 .. bitmap_size(pool) - 1
  BY DEF IInv, TypeOK
<1>3. \A p \in Pool : bitmap'[p] = IF p = pool THEN clear_bit(bitmap[pool], i) ELSE bitmap[p]
  BY <1>1, <1>2, Sizes DEF IInv, TypeOK
<1>4. \A p \in Pool : /\ bitmap'[p] \in Bitmap(bitmap_size(p))
                      /\ MarkedPages(p)' = MarkedPages(p) \ (IF p = pool THEN {i} ELSE {})
  BY <1>2, <1>3, MarkPage DEF IInv, TypeOK, MarkedPages
<1>5. i \notin KernelPages(pool)
  BY DEF IInv, free_page
<1>6. TypeOK'
  BY <1>1, <1>4 DEF IInv, TypeOK, free_page
<1>. QED  BY <1>1, <1>4, <1>5, <1>6 DEF IInv, TypeOK, free_page

LEMMA NextIInv == IInv /\ [Next]_vars => IInv'
<1> SUFFICES ASSUME IInv, [Next]_vars
             PROVE  IInv'
  OBVIOUS
<1>1. CASE init_memory_bitmap
  BY <1>1, BootIInv
<1>2. ASSUME NEW pool \in Pool, alloc_page(pool)
      PROVE  IInv'
  <2>1. CASE AllocTooEarly(pool) \/ AllocFull(pool) \/ AllocAssertFails(pool)
    <3>1. /\ memory_bitmap_initialized' = memory_bitmap_initialized
          /\ bitmap' = bitmap
          /\ owned' = owned
      BY <2>1 DEF AllocTooEarly, AllocFull, AllocAssertFails
    <3>2. ret' = ret \/ ret' = 0
      BY <2>1 DEF NULL, AllocTooEarly, AllocFull, AllocAssertFails
    <3>3. panicked' \in BOOLEAN
      BY <2>1 DEF IInv, TypeOK, AllocTooEarly, AllocFull, AllocAssertFails
    <3>4. TypeOK'
      BY <3>1, <3>2, <3>3 DEF IInv, TypeOK
    <3>5. \A p \in Pool : MarkedPages(p)' = MarkedPages(p)
      BY <3>1 DEF MarkedPages
    <3>. QED  BY <3>1, <3>4, <3>5 DEF IInv
  <2>2. CASE AllocPage(pool)
    BY <2>2, AllocIInv
  <2>. QED  BY <1>2, <2>1, <2>2 DEF alloc_page
<1>3. ASSUME NEW pool \in Pool, free_page(pool)
      PROVE  IInv'
  BY <1>3, FreeIInv
<1>4. CASE UNCHANGED vars
  BY <1>4 DEF IInv, TypeOK, MarkedPages, vars
<1>. QED  BY <1>1, <1>2, <1>3, <1>4 DEF Next

LEMMA Invariance == Spec => []IInv
  BY InitIInv, NextIInv, PTL DEF Spec

(* No page is ever handed out twice, nor a page of the kernel's image,     *)
(* bitmaps or stack, whose bits free_page never clears; and memory_bitmap  *)
(* and the globals of memory_manager.c keep their types.                   *)
THEOREM OneUse == Spec => []PagesHaveOneUse
<1>1. IInv => PagesHaveOneUse
  BY DEF IInv, PagesHaveOneUse, MarkedPages, Free
<1>. QED  BY <1>1, Invariance, PTL

LEMMA NotNull == IInv => AllocationIsNotNull
  BY Sizes DEF IInv, AllocationIsNotNull, MarkedPages, Free

(* A successful alloc_page never returns address 0, because page 0 of each *)
(* segment holds the kernel.                                               *)
THEOREM NeverNull == Spec => []AllocationIsNotNull
  BY NotNull, Invariance, PTL

-----------------------------------------------------------------------------
(* Page numbers and page addresses correspond one to one.                  *)
LEMMA PageAddress ==
  /\ \A n \in Nat : n * PAGE_SIZE \in Nat /\ (n * PAGE_SIZE = 0 <=> n = 0)
  /\ \A m, n \in Nat : m * PAGE_SIZE = n * PAGE_SIZE => m = n
<1>1. PAGE_SIZE \in Nat \ {0}
  BY SegmentsAssumption
<1>2. ASSUME NEW m \in Nat, NEW n \in Nat, m < n
      PROVE  m * PAGE_SIZE < n * PAGE_SIZE
  BY <1>1, <1>2
<1>3. \A m, n \in Nat : m < n \/ m = n \/ n < m
  OBVIOUS
<1>4. \A n \in Nat : n * PAGE_SIZE \in Nat
  BY <1>1
<1>5. 0 * PAGE_SIZE = 0
  BY <1>1
<1>6. ASSUME NEW m \in Nat, NEW n \in Nat, m * PAGE_SIZE = n * PAGE_SIZE
      PROVE  m = n
  BY <1>2, <1>3, <1>4, <1>6
<1>. QED  BY <1>4, <1>5, <1>6

LEMMA AddressOfSets ==
  ASSUME NEW pages, pages \subseteq Nat, NEW n \in Nat
  PROVE  /\ Address(pages \cup {n}) = Address(pages) \cup {n * PAGE_SIZE}
         /\ Address(pages \ {n}) = Address(pages) \ {n * PAGE_SIZE}
  BY PageAddress DEF Address

-----------------------------------------------------------------------------
(* What a successful allocation, and a free, do to the pages.              *)
LEMMA AllocStep ==
  ASSUME IInv, NEW pool \in Pool, AllocPage(pool)
  PROVE  \E i \in Free(pool) :
           /\ i \in Nat \ {0}
           /\ ret' = i * PAGE_SIZE
           /\ owned' = [owned EXCEPT ![pool] = owned[pool] \cup {i}]
           /\ \A p \in Pool : Free(p)' = IF p = pool THEN Free(p) \ {i} ELSE Free(p)
<1> DEFINE i == first_clear_bit(bitmap[pool], bitmap_size(pool))
<1>1. \A p \in Pool : bitmap[p] \in Bitmap(bitmap_size(p))
  BY DEF IInv, TypeOK
<1>2. i \in 0 .. bitmap_size(pool) - 1 /\ i \in Free(pool)
  BY <1>1, Scan DEF AllocPage
<1>3. i # 0
  BY <1>2, NotNull DEF AllocationIsNotNull, AllocPage
<1>4. i \in Nat \ {0}
  BY <1>2, <1>3, Sizes
<1> HIDE DEF i
<1>5. ret' = i * PAGE_SIZE
  BY DEF AllocPage, i
<1>6. i * PAGE_SIZE # NULL
  BY <1>4, PageAddress DEF NULL
<1>7. owned' = [owned EXCEPT ![pool] = owned[pool] \cup {i}]
  BY <1>5, <1>6 DEF AllocPage, i
<1>8. bitmap' = [bitmap EXCEPT ![pool] = set_bit(bitmap[pool], i)]
  BY DEF AllocPage, i
<1>9. \A p \in Pool : bitmap'[p] = IF p = pool THEN set_bit(bitmap[pool], i) ELSE bitmap[p]
  BY <1>8 DEF IInv, TypeOK
<1>10. \A p \in Pool : Free(p)' = IF p = pool THEN Free(p) \ {i} ELSE Free(p)
  BY <1>1, <1>2, <1>9, MarkPage DEF Free
<1>. QED  BY <1>2, <1>4, <1>5, <1>7, <1>10

LEMMA FreeStep ==
  ASSUME IInv, NEW pool \in Pool, free_page(pool)
  PROVE  \E i \in owned[pool] :
           /\ i \in 0 .. bitmap_size(pool) - 1
           /\ i \in Nat
           /\ owned' = [owned EXCEPT ![pool] = owned[pool] \ {i}]
           /\ \A p \in Pool : Free(p)' = IF p = pool THEN Free(p) \cup {i} ELSE Free(p)
<1>1. PICK i \in owned[pool] :
        /\ bitmap' = IF i < bitmap_size(pool)
                     THEN [bitmap EXCEPT ![pool] = clear_bit(bitmap[pool], i)]
                     ELSE bitmap
        /\ owned' = [owned EXCEPT ![pool] = owned[pool] \ {i}]
  BY DEF free_page
<1>2. i \in 0 .. bitmap_size(pool) - 1
  BY DEF IInv, TypeOK
<1>3. \A p \in Pool : bitmap'[p] = IF p = pool THEN clear_bit(bitmap[pool], i) ELSE bitmap[p]
  BY <1>1, <1>2, Sizes DEF IInv, TypeOK
<1>4. \A p \in Pool : Free(p)' = IF p = pool THEN Free(p) \cup {i} ELSE Free(p)
  BY <1>2, <1>3, MarkPage DEF IInv, TypeOK, Free
<1>5. i \in Nat
  BY <1>2, Sizes
<1>. QED  BY <1>1, <1>2, <1>4, <1>5

(* A call that fails, and a stuttering step, change neither the bitmaps    *)
(* nor what callers hold.                                                  *)
LEMMA FailStep ==
  ASSUME NEW pool \in Pool,
         \/ AllocTooEarly(pool) \/ AllocFull(pool) \/ AllocAssertFails(pool)
         \/ UNCHANGED vars
  PROVE  /\ memory_bitmap_initialized' = memory_bitmap_initialized
         /\ bitmap' = bitmap
         /\ owned' = owned
         /\ \A p \in Pool : Free(p)' = Free(p)
<1>1. /\ memory_bitmap_initialized' = memory_bitmap_initialized
      /\ bitmap' = bitmap
      /\ owned' = owned
  BY DEF AllocTooEarly, AllocFull, AllocAssertFails, vars
<1>. QED  BY <1>1 DEF Free

LEMMA OwnedDomain == IInv => DOMAIN owned = Pool
  BY DEF IInv, TypeOK

LEMMA ConservedStep ==
  ASSUME IInv, [Next]_vars, memory_bitmap_initialized, NEW p \in Pool
  PROVE  Free(p)' \cup owned'[p] = Free(p) \cup owned[p]
<1>1. CASE init_memory_bitmap
  BY <1>1 DEF init_memory_bitmap
<1>2. ASSUME NEW pool \in Pool, alloc_page(pool)
      PROVE  Free(p)' \cup owned'[p] = Free(p) \cup owned[p]
  <2>1. CASE AllocPage(pool)
    <3>1. PICK i \in Free(pool) :
            /\ owned' = [owned EXCEPT ![pool] = owned[pool] \cup {i}]
            /\ Free(p)' = IF p = pool THEN Free(p) \ {i} ELSE Free(p)
      BY <2>1, AllocStep
    <3>. QED  BY <3>1, OwnedDomain
  <2>2. CASE ~AllocPage(pool)
    BY <1>2, <2>2, FailStep DEF alloc_page
  <2>. QED  BY <2>1, <2>2
<1>3. ASSUME NEW pool \in Pool, free_page(pool)
      PROVE  Free(p)' \cup owned'[p] = Free(p) \cup owned[p]
  <2>1. PICK i \in owned[pool] :
          /\ owned' = [owned EXCEPT ![pool] = owned[pool] \ {i}]
          /\ Free(p)' = IF p = pool THEN Free(p) \cup {i} ELSE Free(p)
    BY <1>3, FreeStep
  <2>. QED  BY <2>1, OwnedDomain
<1>4. CASE UNCHANGED vars
  BY <1>4, FailStep
<1>. QED  BY <1>1, <1>2, <1>3, <1>4 DEF Next

(* A bitmap without spare bits has no bit above its segment.               *)
LEMMA NoSpareBits ==
  ASSUME NEW size \in Nat, size % 8 = 0
  PROVE  8 * bitmap_in_bytes(size) = size
  BY DEF bitmap_in_bytes

LEMMA AssertStep ==
  ASSUME IInv, AssertFailsOnExhaustion, [Next]_vars
  PROVE  AssertFailsOnExhaustion'
<1>1. CASE panicked
  <2>1. UNCHANGED vars
    BY <1>1 DEF Next, init_memory_bitmap, alloc_page, free_page
  <2>. QED  BY <2>1 DEF AssertFailsOnExhaustion, Free, vars
<1>2. ASSUME ~panicked, panicked'
      PROVE  AssertFailsOnExhaustion'
  <2>1. PICK pool \in Pool : AllocAssertFails(pool)
    BY <1>2 DEF Next, vars, init_memory_bitmap, alloc_page, free_page,
                AllocTooEarly, AllocFull, AllocPage
  <2> DEFINE size == bitmap_size(pool)
             i    == first_clear_bit(bitmap[pool], size)
  <2>2. bitmap[pool] \in Bitmap(size)
    BY DEF IInv, TypeOK
  <2>3. Free(pool) = {}
    BY <2>1, <2>2, Scan DEF AllocAssertFails
  <2>4. size \in Nat
    BY Sizes
  <2>5. i \in 0 .. 8 * bitmap_in_bytes(size) - 1 /\ i >= size
    BY <2>1, <2>2, <2>4, FirstClearBit DEF AllocAssertFails
  <2> HIDE DEF i
  <2>6. size % 8 # 0
    BY <2>4, <2>5, NoSpareBits
  <2>7. bitmap' = bitmap
    BY <2>1 DEF AllocAssertFails
  <2>. QED  BY <2>3, <2>6, <2>7 DEF AssertFailsOnExhaustion, Free
<1>. QED  BY <1>1, <1>2 DEF AssertFailsOnExhaustion

(* The assertion of alloc_page stops the machine only when it is asked for *)
(* a page of an exhausted pool whose pages leave spare bits in its bitmap: *)
(* on any other machine alloc_page returns NULL, as its callers expect.    *)
THEOREM AssertionHolds == Spec => []AssertFailsOnExhaustion
<1>1. Init => AssertFailsOnExhaustion
  BY DEF Init, AssertFailsOnExhaustion
<1>2. IInv /\ AssertFailsOnExhaustion /\ [Next]_vars => AssertFailsOnExhaustion'
  BY AssertStep
<1>. QED  BY <1>1, <1>2, Invariance, PTL DEF Spec

(* Once the bitmaps are set up, alloc_page and free_page move pages between *)
(* the bitmap and the callers and neither lose nor invent one.             *)
THEOREM Conserved == Spec => PagesAreConserved
<1> DEFINE Same == memory_bitmap_initialized =>
                     \A p \in Pool : Free(p)' \cup owned'[p] = Free(p) \cup owned[p]
<1>1. IInv /\ [Next]_vars => [Same]_vars
  BY ConservedStep
<1> HIDE DEF Same
<1>2. Spec => [][Same]_vars
  BY <1>1, Invariance, PTL DEF Spec
<1>. QED  BY <1>2 DEF PagesAreConserved, Same

-----------------------------------------------------------------------------
(* The refinement mapping's variables.                                     *)
Avail == [p \in Pool |-> IF memory_bitmap_initialized THEN Address(Free(p)) ELSE {}]
Owned == [p \in Pool |-> Address(owned[p])]

LEMMA FreeIsNat == \A p \in Pool : Free(p) \subseteq Nat
  BY Sizes DEF Free

LEMMA AllocRefines ==
  ASSUME IInv, NEW pool \in Pool, ~panicked, AllocPage(pool)
  PROVE  Abstract!Alloc(pool)
<1>1. PICK i \in Free(pool) :
        /\ i \in Nat
        /\ ret' = i * PAGE_SIZE
        /\ owned' = [owned EXCEPT ![pool] = owned[pool] \cup {i}]
        /\ \A p \in Pool : Free(p)' = IF p = pool THEN Free(p) \ {i} ELSE Free(p)
  BY AllocStep
<1>2. memory_bitmap_initialized /\ memory_bitmap_initialized' /\ panicked' = panicked
  BY DEF AllocPage
<1>3. i * PAGE_SIZE \in Avail[pool]
  BY <1>1, <1>2 DEF Avail, Address
<1>4. \A p \in Pool : owned[p] \subseteq Nat
  BY Sizes DEF IInv, TypeOK
<1>5. Address(Free(pool) \ {i}) = Address(Free(pool)) \ {i * PAGE_SIZE}
  BY <1>1, FreeIsNat, AddressOfSets
<1>6. Address(owned[pool] \cup {i}) = Address(owned[pool]) \cup {i * PAGE_SIZE}
  BY <1>1, <1>4, AddressOfSets
<1>7. Avail' = [Avail EXCEPT ![pool] = Avail[pool] \ {i * PAGE_SIZE}]
  BY <1>1, <1>2, <1>5 DEF Avail
<1>8. Owned' = [Owned EXCEPT ![pool] = Owned[pool] \cup {i * PAGE_SIZE}]
  <2>1. \A p \in Pool : owned'[p] = IF p = pool THEN owned[p] \cup {i} ELSE owned[p]
    BY <1>1, OwnedDomain
  <2>. QED  BY <2>1, <1>6 DEF Owned
<1>. QED  BY <1>1, <1>2, <1>3, <1>7, <1>8 DEF Abstract!Alloc, Avail, Owned

LEMMA FreeRefines ==
  ASSUME IInv, NEW pool \in Pool, free_page(pool)
  PROVE  Abstract!Free(pool)
<1>1. PICK i \in owned[pool] :
        /\ i \in Nat
        /\ owned' = [owned EXCEPT ![pool] = owned[pool] \ {i}]
        /\ \A p \in Pool : Free(p)' = IF p = pool THEN Free(p) \cup {i} ELSE Free(p)
  BY FreeStep
<1>2. /\ memory_bitmap_initialized /\ memory_bitmap_initialized'
      /\ ~panicked /\ panicked' = panicked /\ ret' = ret
  BY DEF free_page
<1>3. i * PAGE_SIZE \in Owned[pool]
  BY <1>1 DEF Owned, Address
<1>4. \A p \in Pool : owned[p] \subseteq Nat
  BY Sizes DEF IInv, TypeOK
<1>5. Address(Free(pool) \cup {i}) = Address(Free(pool)) \cup {i * PAGE_SIZE}
  BY <1>1, FreeIsNat, AddressOfSets
<1>6. Address(owned[pool] \ {i}) = Address(owned[pool]) \ {i * PAGE_SIZE}
  BY <1>1, <1>4, AddressOfSets
<1>7. Avail' = [Avail EXCEPT ![pool] = Avail[pool] \cup {i * PAGE_SIZE}]
  BY <1>1, <1>2, <1>5 DEF Avail
<1>8. Owned' = [Owned EXCEPT ![pool] = Owned[pool] \ {i * PAGE_SIZE}]
  <2>1. \A p \in Pool : owned'[p] = IF p = pool THEN owned[p] \ {i} ELSE owned[p]
    BY <1>1, OwnedDomain
  <2>. QED  BY <2>1, <1>6 DEF Owned
<1>. QED  BY <1>1, <1>2, <1>3, <1>7, <1>8 DEF Abstract!Free, Avail, Owned

LEMMA FailRefines ==
  ASSUME IInv, NEW pool \in Pool, ~panicked,
         AllocTooEarly(pool) \/ AllocFull(pool) \/ AllocAssertFails(pool)
  PROVE  Abstract!AllocFails(pool) \/ Abstract!Halt(pool)
<1>1. /\ memory_bitmap_initialized' = memory_bitmap_initialized
      /\ owned' = owned
      /\ \A p \in Pool : Free(p)' = Free(p)
  BY FailStep
<1>2. Avail' = Avail /\ Owned' = Owned
  BY <1>1 DEF Avail, Owned
<1>3. CASE AllocTooEarly(pool)
  <2>1. Avail[pool] = {}
    BY <1>3 DEF AllocTooEarly, Avail
  <2>. QED  BY <1>1, <1>2, <1>3, <2>1
            DEF AllocTooEarly, Abstract!AllocFails, Avail, Owned
<1>4. CASE AllocFull(pool) \/ AllocAssertFails(pool)
  <2>1. bitmap[pool] \in Bitmap(bitmap_size(pool))
    BY DEF IInv, TypeOK
  <2>2. Free(pool) = {}
    BY <1>4, <2>1, Scan DEF AllocFull, AllocAssertFails
  <2>3. Avail[pool] = {}
    BY <2>2 DEF Avail, Address
  <2>4. CASE AllocFull(pool)
    BY <1>1, <1>2, <2>3, <2>4 DEF AllocFull, Abstract!AllocFails, Avail, Owned
  <2>5. CASE AllocAssertFails(pool)
    BY <1>1, <1>2, <2>3, <2>5 DEF AllocAssertFails, Abstract!Halt, Avail, Owned
  <2>. QED  BY <1>4, <2>4, <2>5
<1>. QED  BY <1>3, <1>4

LEMMA BootRefines ==
  ASSUME IInv, init_memory_bitmap
  PROVE  Abstract!Boot
<1>1. IInv'
  BY BootIInv
<1>2. /\ ~memory_bitmap_initialized /\ memory_bitmap_initialized'
      /\ ~panicked /\ UNCHANGED <<panicked, ret, owned>>
  BY DEF init_memory_bitmap
<1>3. \A p \in Pool : Free(p)' \subseteq 0 .. bitmap_size(p) - 1 /\ 0 \notin Free(p)'
  BY <1>1, <1>2, Sizes DEF IInv, MarkedPages, Free
<1>4. \A p \in Pool : 0 .. bitmap_size(p) - 1 \subseteq Nat
  BY Sizes
<1>5. \A p \in Pool : Address(Free(p))' \subseteq Address(0 .. bitmap_size(p) - 1) \ {NULL}
  BY <1>3, <1>4, PageAddress DEF Address, NULL
<1>6. Avail' = [p \in Pool |-> Address(Free(p))']
  BY <1>2 DEF Avail
<1>7. Owned' = Owned
  BY <1>2 DEF Owned
<1>. QED  BY <1>2, <1>5, <1>6, <1>7 DEF Abstract!Boot, Avail, Owned

LEMMA InitRefines == Init => Abstract!Init
<1> SUFFICES ASSUME Init
             PROVE  Abstract!Init
  OBVIOUS
<1>1. Address({}) = {}
  BY DEF Address
<1>. QED  BY <1>1 DEF Init, Abstract!Init, Abstract!Nothing

LEMMA NextRefines == IInv /\ [Next]_vars => [Abstract!Next]_(Abstract!vars)
<1> SUFFICES ASSUME IInv, [Next]_vars
             PROVE  [Abstract!Next]_(Abstract!vars)
  OBVIOUS
<1>1. CASE init_memory_bitmap
  BY <1>1, BootRefines DEF Abstract!Next
<1>2. ASSUME NEW pool \in Pool, alloc_page(pool)
      PROVE  Abstract!Next
  <2>1. CASE AllocPage(pool)
    BY <1>2, <2>1, AllocRefines DEF alloc_page, Abstract!Next
  <2>2. CASE ~AllocPage(pool)
    BY <1>2, <2>2, FailRefines DEF alloc_page, Abstract!Next
  <2>. QED  BY <2>1, <2>2
<1>3. ASSUME NEW pool \in Pool, free_page(pool)
      PROVE  Abstract!Next
  BY <1>3, FreeRefines DEF Abstract!Next
<1>4. CASE UNCHANGED vars
  <2>1. Avail' = Avail /\ Owned' = Owned
    BY <1>4 DEF vars, Avail, Owned, Free
  <2>. QED  BY <1>4, <2>1 DEF vars, Abstract!vars, Avail, Owned
<1>. QED  BY <1>1, <1>2, <1>3, <1>4 DEF Next

(* The bitmaps of memory_manager.c implement the page allocator its        *)
(* callers were promised.                                                  *)
THEOREM Refinement == Spec => ImplementsPageAllocator
  BY InitRefines, NextRefines, Invariance, PTL
     DEF Spec, ImplementsPageAllocator, Abstract!Spec

=============================================================================
