--------------------------- MODULE MachineProofs ---------------------------
(***************************************************************************)
(* The arithmetic of words, what init_module's conditions imply of a module*)
(* that meets them, the layout that the loader chooses, and invariants of  *)
(* the whole machine: for every map of memory, every header and every size *)
(* of words, pages, entries of a page table, kernel and segments.          *)
(* Then the life of a module, which is started, interrupted, left and      *)
(* started again: the kernel's stack, its registers and the state saved for*)
(* exit_module belong to one another, for every number of interrupts,      *)
(* calls and faults.                                                       *)
(***************************************************************************)
EXTENDS Machine, SequenceTheorems, TLAPS

(* A factor can be taken out of an inequality, and put in.                 *)
LEMMA Monotonic ==
  ASSUME NEW k \in Nat \ {0}, NEW m \in Int, NEW n \in Int
  PROVE  /\ k * m \in Int
         /\ k * m < k * n => m < n
         /\ m <= n => k * m <= k * n
         /\ k * (m + 1) = k * m + k
<1>1. k * m \in Int /\ k * n \in Int
  OBVIOUS
<1>2. m <= n => k * m <= k * n
  OBVIOUS
<1>3. n <= m => k * n <= k * m
  OBVIOUS
<1>4. k * (m + 1) = k * m + k
  OBVIOUS
<1>. QED  BY <1>1, <1>2, <1>3, <1>4

(* Quotient and remainder.                                                 *)
LEMMA Division ==
  ASSUME NEW a \in Nat, NEW k \in Nat \ {0}
  PROVE  /\ a \div k \in Nat
         /\ a % k \in 0 .. k - 1
         /\ a = k * (a \div k) + (a % k)
<1>1. a \div k \in Int /\ a % k \in 0 .. k - 1 /\ a = k * (a \div k) + (a % k)
  OBVIOUS
<1>2. ASSUME a \div k < 0 PROVE FALSE
  <2>1. k * (a \div k) <= k * (-1)
    BY <1>1, <1>2, Monotonic
  <2>2. k * (-1) = -k
    OBVIOUS
  <2>. QED  BY <1>1, <2>1, <2>2
<1>. QED  BY <1>1, <1>2

(* There is no other quotient, and what follows from it.                   *)
LEMMA UniqueQuotient ==
  ASSUME NEW a \in Nat, NEW k \in Nat \ {0}, NEW q \in Nat, NEW r \in 0 .. k - 1, a = k * q + r
  PROVE  a \div k = q /\ a % k = r
<1> DEFINE d == a \div k
           m == a % k
<1>1. d \in Nat /\ m \in 0 .. k - 1 /\ a = k * d + m
  BY Division
<1> HIDE DEF d, m
<1>2. k * d \in Int /\ k * q \in Int
  BY <1>1
<1>3. ~(d < q)
  <2>1. d < q => k * (d + 1) <= k * q /\ k * (d + 1) = k * d + k
    BY <1>1, Monotonic
  <2>. QED  BY <1>1, <1>2, <2>1
<1>4. ~(q < d)
  <2>1. q < d => k * (q + 1) <= k * d /\ k * (q + 1) = k * q + k
    BY <1>1, Monotonic
  <2>. QED  BY <1>1, <1>2, <2>1
<1>5. d = q
  BY <1>1, <1>3, <1>4
<1>6. m = r
  BY <1>1, <1>2, <1>5
<1>. QED  BY <1>5, <1>6 DEF d, m

LEMMA QuotientBelow ==
  ASSUME NEW a \in Nat, NEW k \in Nat \ {0}, NEW n \in Nat, a < k * n
  PROVE  a \div k \in 0 .. n - 1
<1> DEFINE d == a \div k
<1>1. d \in Nat /\ a % k \in 0 .. k - 1 /\ a = k * d + (a % k)
  BY Division
<1> HIDE DEF d
<1>2. k * d \in Int /\ k * n \in Int /\ k * d < k * n
  BY <1>1
<1>3. d < n
  BY <1>1, <1>2, Monotonic
<1>. QED  BY <1>1, <1>3 DEF d

LEMMA SmallRemainder ==
  ASSUME NEW k \in Nat \ {0}, NEW a \in 0 .. k - 1
  PROVE  a % k = a
<1>1. a \in Nat /\ 0 \in Nat /\ a = k * 0 + a
  OBVIOUS
<1>. QED  BY <1>1, UniqueQuotient

LEMMA Multiple ==
  ASSUME NEW k \in Nat \ {0}, NEW q \in Nat
  PROVE  k * q \in Nat /\ (k * q) % k = 0 /\ (k * q) \div k = q
<1>1. k * q \in Nat /\ 0 \in 0 .. k - 1 /\ k * q = k * q + 0
  OBVIOUS
<1>. QED  BY <1>1, UniqueQuotient

(* Pages and page tables divide the address space.                         *)
LEMMA Spans ==
  /\ PAGE_SIZE \in Nat \ {0, 1} /\ TableSpan \in Nat \ {0} /\ MODULUS \in Nat \ {0}
  /\ PAGE_SIZE < TableSpan /\ TableSpan < MODULUS
<1>1. PAGE_SIZE \in Nat \ {0, 1} /\ ENTRIES \in Nat \ {0, 1}
  BY WordsAssumption
<1>2. PAGE_SIZE * 2 <= PAGE_SIZE * ENTRIES
  BY <1>1, Monotonic
<1>3. TableSpan \in Nat /\ PAGE_SIZE < TableSpan
  BY <1>1, <1>2, Monotonic DEF TableSpan
<1>4. TableSpan * 2 <= TableSpan * ENTRIES
  BY <1>1, <1>3, Monotonic
<1>5. MODULUS \in Nat /\ TableSpan < MODULUS
  BY <1>1, <1>3, <1>4, Monotonic DEF MODULUS
<1>. QED  BY <1>1, <1>3, <1>5

LEMMA WordSums ==
  ASSUME NEW a \in Word, NEW b \in Word
  PROVE  Add(a, b) \in Word /\ Sub(a, b) \in Word
  BY Spans DEF Add, Sub, Word

(* Rounding up reaches the next page, and no page further.                 *)
LEMMA RoundedUp ==
  ASSUME NEW a \in Word
  PROVE  /\ PageUp(a) \in Word
         /\ a + PAGE_SIZE <= MODULUS => a <= PageUp(a) /\ PageUp(a) < a + PAGE_SIZE
<1>1. a \in Nat /\ a < MODULUS /\ PAGE_SIZE \in Nat \ {0} /\ MODULUS \in Nat
      /\ PAGE_SIZE < MODULUS
  BY Spans DEF Word
<1>2. a % PAGE_SIZE \in 0 .. PAGE_SIZE - 1 /\ a - (a % PAGE_SIZE) >= 0
  <2>1. a \div PAGE_SIZE \in Nat /\ a % PAGE_SIZE \in 0 .. PAGE_SIZE - 1
        /\ a = PAGE_SIZE * (a \div PAGE_SIZE) + (a % PAGE_SIZE)
    BY <1>1, Division
  <2>2. PAGE_SIZE * (a \div PAGE_SIZE) \in Int /\ PAGE_SIZE * 0 <= PAGE_SIZE * (a \div PAGE_SIZE)
    BY <1>1, <2>1, Monotonic
  <2>. QED  BY <1>1, <2>1, <2>2
<1> DEFINE r == a % PAGE_SIZE
<1> HIDE DEF r
<1>3. r \in 0 .. PAGE_SIZE - 1 /\ a - r >= 0
  BY <1>2 DEF r
<1>4. PageUp(a) = IF r # 0 THEN (IF a - r + PAGE_SIZE < MODULUS THEN a - r + PAGE_SIZE
                                 ELSE a - r + PAGE_SIZE - MODULUS) ELSE a
  BY DEF PageUp, PageDown, Add, r
<1>. QED  BY <1>1, <1>3, <1>4 DEF Word

LEMMA RoundedIsWhole ==
  ASSUME NEW a \in Word
  PROVE  PageUp(a) % PAGE_SIZE = 0
<1>1. PAGE_SIZE \in Nat \ {0} /\ ENTRIES \in Nat /\ MODULUS \in Nat /\ a \in Nat
      /\ ENTRIES * ENTRIES \in Nat
  BY Spans, WordsAssumption DEF Word
<1> DEFINE q == a \div PAGE_SIZE
           r == a % PAGE_SIZE
           n == ENTRIES * ENTRIES
<1>2. q \in Nat /\ r \in 0 .. PAGE_SIZE - 1 /\ a = PAGE_SIZE * q + r
  BY <1>1, Division
<1>3. MODULUS = PAGE_SIZE * n /\ n \in Nat
  BY <1>1 DEF MODULUS, TableSpan
<1>4. PageUp(a) = IF r # 0 THEN (IF a - r + PAGE_SIZE < MODULUS THEN a - r + PAGE_SIZE
                                 ELSE a - r + PAGE_SIZE - MODULUS) ELSE a
  BY DEF PageUp, PageDown, Add
<1> HIDE DEF q, r, n
<1>5. PAGE_SIZE * (q + 1) = PAGE_SIZE * q + PAGE_SIZE /\ PAGE_SIZE * q \in Nat
  BY <1>1, <1>2
<1>6. CASE r = 0
  <2>1. PageUp(a) = PAGE_SIZE * q
    BY <1>2, <1>4, <1>5, <1>6
  <2>. QED  BY <1>1, <1>2, <2>1, Multiple
<1>7. CASE r # 0 /\ a - r + PAGE_SIZE < MODULUS
  <2>1. PageUp(a) = PAGE_SIZE * (q + 1)
    BY <1>1, <1>2, <1>4, <1>5, <1>7
  <2>. QED  BY <1>1, <1>2, <2>1, Multiple
<1>8. CASE r # 0 /\ ~(a - r + PAGE_SIZE < MODULUS)
  <2>1. PageUp(a) = PAGE_SIZE * (q + 1) - PAGE_SIZE * n /\ PAGE_SIZE * n <= PAGE_SIZE * (q + 1)
    BY <1>1, <1>2, <1>3, <1>4, <1>5, <1>8
  <2>2. ~(q + 1 < n)
    <3>1. q + 1 < n => q + 2 <= n /\ PAGE_SIZE * (q + 2) <= PAGE_SIZE * n
                       /\ PAGE_SIZE * (q + 2) = PAGE_SIZE * (q + 1) + PAGE_SIZE
      BY <1>1, <1>2, <1>3, Monotonic
    <3>. QED  BY <1>1, <1>2, <1>3, <1>5, <2>1, <3>1
  <2>3. q + 1 - n \in Nat /\ PAGE_SIZE * (q + 1 - n) = PAGE_SIZE * (q + 1) - PAGE_SIZE * n
    BY <1>1, <1>2, <1>3, <2>2
  <2>. QED  BY <1>1, <2>1, <2>3, Multiple
<1>. QED  BY <1>6, <1>7, <1>8

-----------------------------------------------------------------------------
(* What init_module's conditions imply of a module that meets them all:    *)
(* where the sums that it compares may wrap and where they cannot.         *)
LEMMA PagesCover ==
  ASSUME NEW size \in Word
  PROVE  /\ PageCount(size) \in Nat
         /\ PageCount(size) * PAGE_SIZE < size + PAGE_SIZE
         /\ \A k \in Int : size < PAGE_SIZE * k => PageCount(size) * PAGE_SIZE <= PAGE_SIZE * k
<1> DEFINE q == size \div PAGE_SIZE
           r == size % PAGE_SIZE
<1>1. size \in Nat /\ PAGE_SIZE \in Nat \ {0}
  BY Spans DEF Word
<1>2. q \in Nat /\ r \in 0 .. PAGE_SIZE - 1 /\ size = PAGE_SIZE * q + r
  BY <1>1, Division
<1>3. PageCount(size) = IF r # 0 THEN q + 1 ELSE q
  BY DEF PageCount
<1> HIDE DEF q, r
<1>4. /\ PageCount(size) \in Nat
      /\ PageCount(size) * PAGE_SIZE = IF r # 0 THEN PAGE_SIZE * q + PAGE_SIZE ELSE PAGE_SIZE * q
  <2>1. CASE r = 0
    BY <1>1, <1>2, <1>3, <2>1
  <2>2. CASE r # 0
    <3>1. PageCount(size) * PAGE_SIZE = PAGE_SIZE * (q + 1)
      BY <1>1, <1>2, <1>3, <2>2
    <3>2. PAGE_SIZE * (q + 1) = PAGE_SIZE * q + PAGE_SIZE
      BY <1>1, <1>2, Monotonic
    <3>. QED  BY <1>2, <1>3, <2>2, <3>1, <3>2
  <2>. QED  BY <2>1, <2>2
<1>5. PageCount(size) * PAGE_SIZE < size + PAGE_SIZE
  BY <1>1, <1>2, <1>4, Monotonic
<1>6. ASSUME NEW k \in Int, size < PAGE_SIZE * k
      PROVE  PageCount(size) * PAGE_SIZE <= PAGE_SIZE * k
  <2>1. PAGE_SIZE * q \in Int /\ PAGE_SIZE * k \in Int
    BY <1>1, <1>2, Monotonic
  <2>2. PAGE_SIZE * q < PAGE_SIZE * k
    BY <1>1, <1>2, <1>6, <2>1
  <2>3. q + 1 <= k
    BY <1>1, <1>2, <2>2, Monotonic
  <2>4. PAGE_SIZE * (q + 1) <= PAGE_SIZE * k /\ PAGE_SIZE * (q + 1) = PAGE_SIZE * q + PAGE_SIZE
    BY <1>1, <1>2, <2>3, Monotonic
  <2>. QED  BY <1>1, <1>4, <2>1, <2>4
<1>. QED  BY <1>4, <1>5, <1>6

(* The header of a module and the lengths that it is compared with.        *)
HeaderIsTyped(h) ==
  /\ h.code_offset \in Word /\ h.code_size \in Word
  /\ h.data_offset \in Word /\ h.data_size \in Word /\ h.entry_point \in Word

(* The entry point is compared with the end of the code from both sides,   *)
(* so that the end of the code cannot have wrapped.                        *)
LEMMA CodeDoesNotWrap ==
  ASSUME NEW h, HeaderIsTyped(h), NEW code_len, NEW data_len, NEW module_len,
         Admitted(h, code_len, data_len, module_len)
  PROVE  CodeMax(h) = h.code_offset + h.code_size
<1>1. EntryOffset(h) \in Word /\ h.code_offset <= EntryOffset(h) /\ EntryOffset(h) < CodeMax(h)
  <2>1. MODULE_CODE_LOAD_ADDR \in Word
    BY Spans DEF MODULE_CODE_LOAD_ADDR, Word
  <2>2. EntryOffset(h) \in Word /\ h.code_offset \in Word /\ CodeMax(h) \in Word
    BY <2>1, WordSums DEF EntryOffset, HeaderIsTyped, CodeMax
  <2>. QED  BY <2>2, Spans DEF Admitted, Word
<1>2. h.code_offset < CodeMax(h)
  <2>1. h.code_offset \in Word /\ CodeMax(h) \in Word
    BY WordSums DEF HeaderIsTyped, CodeMax
  <2>. QED  BY <1>1, <2>1, Spans DEF Word
<1>. QED  BY <1>2, Spans DEF HeaderIsTyped, CodeMax, Add, Word

(* What is copied is the whole of the code, and the whole of the data, or  *)
(* nothing of them if their end wraps, and lies in the image.              *)
LEMMA CopiesFromImage ==
  ASSUME NEW h, HeaderIsTyped(h), NEW code_len, NEW data_len, NEW module_len \in Word,
         Admitted(h, code_len, data_len, module_len)
  PROVE  /\ CopiedCode(h) = h.code_offset .. h.code_offset + h.code_size - 1
         /\ \/ CopiedData(h) = h.data_offset .. h.data_offset + h.data_size - 1
            \/ CopiedData(h) = {} /\ h.data_offset + h.data_size >= MODULUS
         /\ CopiedCode(h) \cup CopiedData(h) \subseteq 0 .. module_len - 1
<1>1. /\ h.code_offset \in Nat /\ h.code_size \in Nat
      /\ h.data_offset \in Nat /\ h.data_size \in Nat /\ module_len \in Nat
  BY Spans DEF HeaderIsTyped, Word
<1>2. CodeMax(h) = h.code_offset + h.code_size /\ CodeMax(h) < module_len
  BY CodeDoesNotWrap DEF Admitted
<1>3. DataMax(h) \in Nat /\ DataMax(h) < module_len
  <2>1. DataMax(h) \in Word
    BY WordSums DEF HeaderIsTyped, DataMax
  <2>. QED  BY <2>1, Spans DEF Admitted, Word
<1>4. CopiedCode(h) = h.code_offset .. h.code_offset + h.code_size - 1
  <2>1. ASSUME NEW n \in CopiedCode(h)
        PROVE  n \in h.code_offset .. h.code_offset + h.code_size - 1
    BY <1>1, <2>1 DEF CopiedCode
  <2>2. ASSUME NEW n \in h.code_offset .. h.code_offset + h.code_size - 1
        PROVE  n \in CopiedCode(h)
    <3>1. n - h.code_offset \in 0 .. h.code_size - 1
          /\ h.code_offset + (n - h.code_offset) = n /\ n < CodeMax(h)
      BY <1>1, <1>2
    <3>. QED  BY <3>1 DEF CopiedCode
  <2>. QED  BY <2>1, <2>2
<1>5. CopiedCode(h) \subseteq 0 .. module_len - 1
  BY <1>1, <1>2, <1>4
<1>6. ASSUME NEW n \in CopiedData(h)
      PROVE  n \in 0 .. module_len - 1
  BY <1>1, <1>3 DEF CopiedData
<1>7. CASE h.data_offset + h.data_size < MODULUS
  <2>1. DataMax(h) = h.data_offset + h.data_size
    BY <1>7 DEF DataMax, Add
  <2>2. ASSUME NEW n \in CopiedData(h)
        PROVE  n \in h.data_offset .. h.data_offset + h.data_size - 1
    BY <1>1, <2>2 DEF CopiedData
  <2>3. ASSUME NEW n \in h.data_offset .. h.data_offset + h.data_size - 1
        PROVE  n \in CopiedData(h)
    <3>1. n - h.data_offset \in 0 .. h.data_size - 1
          /\ h.data_offset + (n - h.data_offset) = n /\ n < DataMax(h)
      BY <1>1, <2>1
    <3>. QED  BY <3>1 DEF CopiedData
  <2>4. CopiedData(h) = h.data_offset .. h.data_offset + h.data_size - 1
    BY <2>2, <2>3
  <2>. QED  BY <1>4, <1>5, <1>6, <2>4
<1>8. CASE ~(h.data_offset + h.data_size < MODULUS)
  <2>1. DataMax(h) = h.data_offset + h.data_size - MODULUS /\ h.data_size < MODULUS
        /\ MODULUS \in Nat
    BY <1>8, Spans DEF DataMax, Add, HeaderIsTyped, Word
  <2>2. DataMax(h) <= h.data_offset
    BY <1>1, <2>1
  <2>3. ASSUME NEW n \in CopiedData(h)
        PROVE  FALSE
    <3>1. PICK j \in 0 .. h.data_size - 1 : h.data_offset + j < DataMax(h)
      BY <2>3 DEF CopiedData
    <3>. QED  BY <1>1, <1>3, <2>2, <3>1
  <2>4. CopiedData(h) = {} /\ h.data_offset + h.data_size >= MODULUS
    BY <1>1, <1>8, <2>1, <2>3
  <2>. QED  BY <1>4, <1>5, <1>6, <2>4
<1>. QED  BY <1>7, <1>8

(* The pages for the code end at most a page above the code segment.       *)
LEMMA CodePagesFit ==
  ASSUME NEW h, HeaderIsTyped(h), NEW code_len \in Word, NEW data_len, NEW module_len,
         Admitted(h, code_len, data_len, module_len)
  PROVE  CodeEnd(h) < code_len + PAGE_SIZE
<1>1. h.code_size \in Word /\ h.code_size \in Nat /\ code_len \in Nat
      /\ TableSpan \in Nat /\ PAGE_SIZE \in Nat /\ MODULUS \in Nat
  BY Spans DEF HeaderIsTyped, Word
<1>2. h.code_size < code_len - TableSpan
  BY <1>1 DEF Admitted, FreeCodeSpace, Sub, MODULE_CODE_LOAD_ADDR
<1>3. PageCount(h.code_size) * PAGE_SIZE < h.code_size + PAGE_SIZE
      /\ PageCount(h.code_size) \in Nat
  BY <1>1, PagesCover
<1>4. PageCount(h.code_size) * PAGE_SIZE \in Int
  BY <1>1, <1>3
<1>. QED  BY <1>1, <1>2, <1>3, <1>4 DEF CodeEnd, MODULE_CODE_LOAD_ADDR

(* Data pages end below the stack of the kernel: the loader makes the data *)
(* segment of whole pages.                                                 *)
LEMMA DataPagesFit ==
  ASSUME NEW h, HeaderIsTyped(h), NEW code_len, NEW data_len \in Word, NEW module_len,
         Admitted(h, code_len, data_len, module_len), data_len % PAGE_SIZE = 0
  PROVE  DataEnd(h) + PAGE_SIZE <= data_len
<1>1. h.data_size \in Word /\ h.data_size \in Nat /\ data_len \in Nat
      /\ TableSpan \in Nat /\ PAGE_SIZE \in Nat \ {0} /\ MODULUS \in Nat /\ ENTRIES \in Nat
  BY Spans, WordsAssumption DEF HeaderIsTyped, Word
<1>2. h.data_size < data_len - 3 * TableSpan - PAGE_SIZE
  BY <1>1 DEF Admitted, FreeDataSpace, Sub, MODULE_DATA_LOAD_ADDR
<1> DEFINE q == data_len \div PAGE_SIZE
           k == q - 3 * ENTRIES - 1
<1>3. q \in Nat /\ data_len = PAGE_SIZE * q
  BY <1>1, Division
<1>4. k \in Int
  BY <1>1, <1>3
<1>5. PAGE_SIZE * k = data_len - 3 * TableSpan - PAGE_SIZE
  BY <1>1, <1>3 DEF TableSpan
<1> HIDE DEF k
<1>6. PageCount(h.data_size) * PAGE_SIZE <= PAGE_SIZE * k
  BY <1>1, <1>2, <1>4, <1>5, PagesCover
<1>7. PageCount(h.data_size) * PAGE_SIZE \in Int
  BY <1>1, PagesCover
<1>. QED  BY <1>1, <1>5, <1>6, <1>7 DEF DataEnd, MODULE_DATA_LOAD_ADDR

(* The entry point is an offset of the code, and an address that is less   *)
(* than the offset of the code behind the code that was loaded.            *)
LEMMA EntryInCode ==
  ASSUME NEW h, HeaderIsTyped(h), NEW code_len, NEW data_len, NEW module_len \in Word,
         Admitted(h, code_len, data_len, module_len)
  PROVE  /\ EntryOffset(h) \in CopiedCode(h)
         /\ MODULE_CODE_LOAD_ADDR < h.entry_point
         /\ h.entry_point < MODULE_CODE_LOAD_ADDR + h.code_offset + h.code_size
<1>1. /\ CodeMax(h) = h.code_offset + h.code_size
      /\ h.code_offset \in Nat /\ h.code_size \in Nat /\ h.entry_point \in Nat
      /\ MODULE_CODE_LOAD_ADDR \in Nat
  BY CodeDoesNotWrap, Spans DEF HeaderIsTyped, Word, MODULE_CODE_LOAD_ADDR
<1>2. /\ MODULE_CODE_LOAD_ADDR < h.entry_point /\ EntryOffset(h) < CodeMax(h)
      /\ h.code_offset <= EntryOffset(h)
  BY <1>1, Spans DEF Admitted, EntryOffset, Sub
<1>3. EntryOffset(h) = h.entry_point - MODULE_CODE_LOAD_ADDR
  BY <1>1, <1>2 DEF EntryOffset, Sub
<1>4. CopiedCode(h) = h.code_offset .. h.code_offset + h.code_size - 1
  BY CopiesFromImage
<1>. QED  BY <1>1, <1>2, <1>3, <1>4

-----------------------------------------------------------------------------
(* The segments are where they should be, and the loader's stores hit      *)
(* nothing that is still needed.                                           *)

(* What is always so of the loader's choice: an entry that it took is one  *)
(* of the map, and available.                                              *)
Chosen ==
  /\ mbi \in Boots
  /\ mmap \in Nat \ {0}
  /\ max_mmap \in 0 .. Len(mbi.mmap)
  /\ max_mmap # 0 => mbi.mmap[max_mmap].available

LEMMA Sizes ==
  /\ lma \in Nat \ {0} /\ loader_size \in Nat /\ null_ptr_offset \in Nat
  /\ kernel_code_size \in Nat /\ kernel_data_size \in Nat
  /\ kernel_size = loader_size + kernel_code_size + kernel_data_size
  /\ HalfNeeded = kernel_code_size + kernel_data_size + 12 + PAGE_SIZE
  /\ null_ptr_offset <= kernel_code_size /\ null_ptr_offset <= kernel_data_size
  /\ lma + kernel_size + PAGE_SIZE <= MODULUS
  BY LoaderAssumption, Spans DEF kernel_size, HalfNeeded, GDT_COUNT, ARGS

LEMMA ChunkType ==
  ASSUME Chosen
  PROVE  Chunk.addr \in Nat /\ Chunk.len \in Nat
<1>1. CASE max_mmap = 0
  BY <1>1, BootsAssumption DEF Chunk
<1>2. CASE max_mmap # 0
  <2>1. max_mmap \in 1 .. Len(mbi.mmap) /\ mbi \in Boots
    BY <1>2, BootsAssumption DEF Chosen
  <2>. QED  BY <1>2, <2>1, BootsAssumption DEF Chunk
<1>. QED  BY <1>1, <1>2

LEMMA ModuleType ==
  ASSUME Chosen
  PROVE  /\ module_segment.base \in Word /\ module_segment.len \in Word
         /\ module_segment = Area(module_segment.base, module_segment.len)
         /\ mbi.mod_start \in Word /\ mbi.mod_end \in Word
<1>1. mbi.mod_start \in Word /\ mbi.mod_end \in Word
  BY BootsAssumption DEF Chosen
<1>2. PageUp(Sub(mbi.mod_end, mbi.mod_start)) \in Word /\ 0 \in Word
  <2>1. Sub(mbi.mod_end, mbi.mod_start) \in Word
    BY <1>1, WordSums
  <2>2. 0 \in Word
    BY Spans DEF Word
  <2>. QED  BY <2>1, <2>2, RoundedUp
<1>3. CASE mbi.has_mods
  <2>1. module_segment = Area(mbi.mod_start, PageUp(Sub(mbi.mod_end, mbi.mod_start)))
    BY <1>3 DEF module_segment
  <2>. QED  BY <1>1, <1>2, <2>1 DEF Area
<1>4. CASE ~mbi.has_mods
  <2>1. module_segment = Area(0, 0)
    BY <1>4 DEF module_segment, Nowhere
  <2>. QED  BY <1>1, <1>2, <2>1 DEF Area
<1>. QED  BY <1>3, <1>4

LEMMA LayoutType ==
  ASSUME Chosen
  PROVE  /\ min_load_addr \in Word /\ DataStart \in Word /\ Room \in Word
         /\ DataLen \in Word /\ Layout.code.len \in Word
<1>1. Chunk.addr \in Nat /\ Chunk.len \in Nat /\ MODULUS \in Nat \ {0}
  BY ChunkType, Spans
<1>2. Add(module_segment.base, module_segment.len) \in Word /\ lma + kernel_size \in Word
  <2>1. Add(module_segment.base, module_segment.len) \in Word
    BY ModuleType, WordSums
  <2>2. lma + kernel_size \in Word
    BY Sizes, Spans DEF Word
  <2>. QED  BY <2>1, <2>2
<1>3. min_load_addr \in Word
  BY <1>2, RoundedUp DEF min_load_addr
<1>4. \A n \in Int : n % MODULUS \in Word
  BY <1>1 DEF Word
<1>5. DataStart \in Word
  BY <1>1, <1>3, <1>4 DEF DataStart
<1>6. Room \in Word
  <2>1. min_load_addr \in Int
    BY <1>1, <1>3 DEF Word
  <2>2. CASE Chunk.addr < min_load_addr
    BY <1>1, <1>4, <2>1, <2>2 DEF Room
  <2>3. CASE ~(Chunk.addr < min_load_addr)
    BY <1>1, <1>4, <2>3 DEF Room
  <2>. QED  BY <2>2, <2>3
<1>7. DataLen \in Word
  <2>1. Room \div 2 \in Word
    BY <1>1, <1>6 DEF Word
  <2>. QED  BY <2>1, RoundedUp DEF DataLen
<1>8. Layout.code.len \in Word
  BY <1>6, <1>7, WordSums DEF Layout, Area
<1>. QED  BY <1>3, <1>5, <1>6, <1>7, <1>8

-----------------------------------------------------------------------------
(* A suitable choice: nothing wraps, the module and the image end below    *)
(* the segments.                                                           *)
LEMMA ImageIsBelow ==
  ASSUME Chosen, Suitable
  PROVE  /\ lma + kernel_size <= min_load_addr
         /\ module_segment.len > 0 =>
              /\ lma + kernel_size <= module_segment.base
              /\ module_segment.base + module_segment.len <= min_load_addr
<1>1. PAGE_SIZE \in Nat \ {0} /\ MODULUS \in Nat /\ lma + kernel_size \in Nat
      /\ lma + kernel_size + PAGE_SIZE <= MODULUS
  BY Sizes, Spans
<1>2. CASE module_segment.len > 0
  <2>1. mbi.has_mods
    BY <1>2 DEF module_segment, Nowhere, Area
  <2>2. /\ mbi.mod_start \in Nat /\ mbi.mod_end \in Nat
        /\ mbi.mod_start <= mbi.mod_end /\ mbi.mod_end + 2 * PAGE_SIZE <= MODULUS
        /\ lma + kernel_size <= mbi.mod_start
    BY <2>1, ModuleType, Spans DEF Suitable, Word
  <2> DEFINE n == mbi.mod_end - mbi.mod_start
  <2>3. Sub(mbi.mod_end, mbi.mod_start) = n /\ n \in Word /\ n + PAGE_SIZE <= MODULUS
    BY <1>1, <2>2 DEF Sub, Word
  <2>4. PageUp(n) \in Nat /\ PageUp(n) < n + PAGE_SIZE
    BY <1>1, <2>3, RoundedUp DEF Word
  <2>5. module_segment.base = mbi.mod_start /\ module_segment.len = PageUp(n)
    BY <2>1, <2>3 DEF module_segment, Area
  <2> DEFINE end == module_segment.base + module_segment.len
  <2>6. end + PAGE_SIZE <= MODULUS /\ end \in Word /\ end \in Nat
        /\ Add(module_segment.base, module_segment.len) = end
    BY <1>1, <2>2, <2>4, <2>5 DEF Add, Word
  <2>7. end <= PageUp(end) /\ PageUp(end) \in Nat
    BY <1>1, <2>6, RoundedUp DEF Word
  <2>8. min_load_addr = PageUp(end)
    BY <1>2, <2>6 DEF min_load_addr
  <2>. QED  BY <1>1, <2>2, <2>4, <2>5, <2>7, <2>8
<1>3. CASE ~(module_segment.len > 0)
  <2>1. min_load_addr = PageUp(lma + kernel_size)
    BY <1>3 DEF min_load_addr
  <2>2. lma + kernel_size \in Word
    BY <1>1 DEF Word
  <2>. QED  BY <1>1, <1>3, <2>1, <2>2, RoundedUp
<1>. QED  BY <1>2, <1>3

(* The two segments divide what is left of the chunk, each with room for   *)
(* its part of the kernel, its tables and its stack.                       *)
LEMMA HalvesOfChunk ==
  ASSUME Chosen, Suitable
  PROVE  LET S == DataStart
             D == DataLen
         IN  /\ S \in Nat /\ D \in Nat /\ Room \in Nat
             /\ Chunk.addr <= S /\ min_load_addr <= S
             /\ S + Room = Chunk.addr + Chunk.len /\ S + Room <= MODULUS
             /\ HalfNeeded <= D
             /\ D + kernel_code_size + kernel_data_size + 12 < Room
             /\ Layout.data = Area(S, D) /\ Layout.module = module_segment
             /\ Layout.code = Area(S + D, Room - D)
<1> DEFINE S == DataStart
           D == DataLen
           A == Chunk.addr
           L == Chunk.len
           M == min_load_addr
<1>1. A \in Nat /\ L \in Nat /\ M \in Nat /\ MODULUS \in Nat /\ PAGE_SIZE \in Nat \ {0}
      /\ HalfNeeded \in Nat /\ PAGE_SIZE < HalfNeeded
  BY ChunkType, LayoutType, Sizes, Spans DEF Word
<1>2. A + L <= MODULUS /\ A + 2 * HalfNeeded <= A + L /\ M + 2 * HalfNeeded <= A + L
  BY DEF Suitable
<1>3. \A n \in Nat : n < MODULUS => n % MODULUS = n
  BY <1>1
<1>4. S = IF A < M THEN M ELSE A
  BY <1>1, <1>2, <1>3 DEF DataStart
<1>5. M <= S /\ A <= S /\ S \in Nat /\ 2 * HalfNeeded <= A + L - S
  BY <1>1, <1>2, <1>4
<1>6. Room = A + L - S
  <2>1. CASE A < M
    <3>1. L - (M - A) \in Nat /\ L - (M - A) = A + L - S
      BY <1>1, <1>4, <1>5, <2>1
    <3>2. L - (M - A) < MODULUS \/ (A + L - S = MODULUS /\ S = 0)
      BY <1>1, <1>2, <1>5, <3>1
    <3>3. S # 0
      BY <1>1, <1>4, <2>1
    <3>. QED  BY <1>1, <1>3, <2>1, <3>1, <3>2, <3>3 DEF Room
  <2>2. CASE ~(A < M)
    <3>1. M > 0
      BY <1>1, ImageIsBelow, Sizes
    <3>. QED  BY <1>1, <1>2, <1>3, <1>4, <2>2, <3>1 DEF Room
  <2>. QED  BY <2>1, <2>2
<1>7. DataLen = PageUp(Room \div 2) /\ D \in Nat
  BY LayoutType, Spans DEF DataLen, Word
<1>8. HalfNeeded <= D /\ D < Room \div 2 + PAGE_SIZE
  <2>1. Room \in Nat /\ 2 * HalfNeeded <= Room /\ Room <= MODULUS
    BY <1>1, <1>2, <1>5, <1>6
  <2>2. Room \div 2 \in Nat /\ 2 * (Room \div 2) <= Room /\ HalfNeeded <= Room \div 2
    BY <1>1, <2>1
  <2>3. Room \div 2 + PAGE_SIZE <= MODULUS /\ Room \div 2 \in Word
    BY <1>1, <2>1, <2>2 DEF Word
  <2>. QED  BY <1>1, <1>7, <2>2, <2>3, RoundedUp DEF Word
<1> HIDE DEF S, D, A, L, M
<1>9. D + kernel_code_size + kernel_data_size + 12 < Room
  <2>1. Room \in Nat /\ 2 * HalfNeeded <= Room
    BY <1>1, <1>2, <1>5, <1>6 DEF S, D, A, L, M
  <2>2. 2 * (Room \div 2) <= Room /\ Room \div 2 \in Nat
    BY <2>1
  <2>3. D < Room - HalfNeeded + PAGE_SIZE
    BY <1>1, <1>7, <1>8, <2>1, <2>2 DEF A, L, M
  <2>. QED  BY <1>1, <1>7, <2>1, <2>3, Sizes
<1>10. S + D < MODULUS /\ Add(S, D) = S + D /\ Sub(Room, D) = Room - D
  BY <1>1, <1>2, <1>5, <1>6, <1>7, <1>9, Sizes DEF Add, Sub
<1>. QED  BY <1>1, <1>2, <1>5, <1>6, <1>7, <1>8, <1>9, <1>10 DEF S, D, A, L, M, Layout, Area

-----------------------------------------------------------------------------
(* An area that lies in memory without running over its end.               *)
Plain(a) == a.base \in Nat /\ a.len \in Nat /\ a.base + a.len <= MODULUS

LEMMA ApartDoNotOverlap ==
  ASSUME NEW a, NEW b, Plain(a), Plain(b), Apart(a, b)
  PROVE  ~Overlap(a, b)
  BY Spans DEF Plain, Apart, Overlap, Sub

LEMMA AreaFields ==
  ASSUME NEW base, NEW len
  PROVE  Area(base, len).base = base /\ Area(base, len).len = len
  BY DEF Area

(* What the loader reads lies below the data segment.                      *)
LEMMA SourcesAreBelow ==
  ASSUME Chosen, Suitable, segments = Layout, NEW p \in Image
  PROVE  Plain(Part[p]) /\ (Part[p].len = 0 \/ Part[p].base + Part[p].len <= DataStart)
<1>1. /\ DataStart \in Nat /\ min_load_addr <= DataStart /\ DataStart <= MODULUS
      /\ lma + kernel_size <= min_load_addr /\ min_load_addr \in Nat /\ MODULUS \in Nat
  <2>1. DataStart \in Nat /\ min_load_addr <= DataStart /\ DataStart + Room <= MODULUS /\ Room \in Nat
    BY HalvesOfChunk
  <2>. QED  BY <2>1, ImageIsBelow, LayoutType, Spans DEF Word
<1>2. CASE p = "loader"
  <2>1. Part[p] = Area(lma, loader_size)
    BY <1>2 DEF Part
  <2>. QED  BY <1>1, <2>1, Sizes, AreaFields DEF Plain
<1>3. CASE p = "code_image"
  <2>1. Part[p] = Area(lma + loader_size, kernel_code_size)
    BY <1>3 DEF Part
  <2>. QED  BY <1>1, <2>1, Sizes, AreaFields DEF Plain
<1>4. CASE p = "data_image"
  <2>1. Part[p] = Area(lma + loader_size + kernel_code_size, kernel_data_size)
    BY <1>4 DEF Part
  <2>. QED  BY <1>1, <2>1, Sizes, AreaFields DEF Plain
<1>5. CASE p = "module"
  <2>1. Part[p] = module_segment
    BY <1>5, HalvesOfChunk DEF Part
  <2>2. module_segment.base \in Nat /\ module_segment.len \in Nat /\ module_segment.base < MODULUS
    BY ModuleType, Spans DEF Word
  <2>3. module_segment.len > 0 => module_segment.base + module_segment.len <= min_load_addr
    BY ImageIsBelow
  <2>. QED  BY <1>1, <2>1, <2>2, <2>3 DEF Plain
<1>. QED  BY <1>2, <1>3, <1>4, <1>5 DEF Image

(* What the loader writes lies in the segments, each in its place.         *)
LEMMA TargetsInSegments ==
  ASSUME Chosen, Suitable, segments = Layout
  PROVE  /\ Part["gdt"] = Area(DataStart + kernel_data_size, 5)
         /\ Part["data"] = Area(DataStart + null_ptr_offset, kernel_data_size - null_ptr_offset)
         /\ Part["code"] = Area(DataStart + DataLen + null_ptr_offset,
                               kernel_code_size - null_ptr_offset)
         /\ Part["args"] = Area(DataStart + DataLen - 6, 6)
<1>1. /\ DataStart \in Nat /\ DataLen \in Nat /\ Room \in Nat /\ DataStart + Room <= MODULUS
      /\ HalfNeeded <= DataLen /\ DataLen + kernel_code_size + kernel_data_size + 12 < Room
      /\ segments.data = Area(DataStart, DataLen)
      /\ segments.code = Area(DataStart + DataLen, Room - DataLen)
  BY HalvesOfChunk
<1>2. MODULUS \in Nat /\ PAGE_SIZE \in Nat
  BY Spans
<1>3. Add(DataStart, kernel_data_size) = DataStart + kernel_data_size
  BY <1>1, <1>2, Sizes DEF Add
<1>4. Add(DataStart, null_ptr_offset) = DataStart + null_ptr_offset
  BY <1>1, <1>2, Sizes DEF Add
<1>5. Add(DataStart + DataLen, null_ptr_offset) = DataStart + DataLen + null_ptr_offset
  BY <1>1, <1>2, Sizes DEF Add
<1>6. Add(DataStart, DataLen) = DataStart + DataLen
  BY <1>1, <1>2, Sizes DEF Add
<1>7. Sub(DataStart + DataLen, 6) = DataStart + DataLen - 6
  BY <1>1, <1>2, Sizes DEF Sub
<1>. QED  BY <1>1, <1>3, <1>4, <1>5, <1>6, <1>7, AreaFields DEF Part, GDT_COUNT, ARGS

(* Each store finds RAM and hits nothing that is still needed.             *)
Held == [gdt  |-> Image,
         data |-> Image \cup {"gdt"},
         code |-> {"loader", "code_image", "module", "gdt", "data"},
         args |-> {"loader", "module", "gdt", "data", "code"}]

LEMMA StoresAreSafe ==
  ASSUME Chosen, Suitable, segments = Layout, NEW part \in {"gdt", "data", "code", "args"}
  PROVE  /\ InRam(Part[part])
         /\ \A p \in Held[part] : ~Overlap(Part[p], Part[part])
<1> DEFINE S == DataStart
           D == DataLen
<1>1. /\ S \in Nat /\ D \in Nat /\ Room \in Nat /\ S + Room <= MODULUS
      /\ Chunk.addr <= S /\ S + Room = Chunk.addr + Chunk.len
      /\ HalfNeeded <= D /\ D + kernel_code_size + kernel_data_size + 12 < Room
  BY HalvesOfChunk
<1>2. MODULUS \in Nat /\ PAGE_SIZE \in Nat /\ Chunk.addr \in Nat /\ Chunk.len \in Nat
  BY Spans, ChunkType
<1>3. /\ Part["gdt"] = Area(S + kernel_data_size, 5)
      /\ Part["data"] = Area(S + null_ptr_offset, kernel_data_size - null_ptr_offset)
      /\ Part["code"] = Area(S + D + null_ptr_offset, kernel_code_size - null_ptr_offset)
      /\ Part["args"] = Area(S + D - 6, 6)
  BY TargetsInSegments
<1> HIDE DEF S, D
<1>4. \A t \in {"gdt", "data", "code", "args"} :
        Plain(Part[t]) /\ S <= Part[t].base /\ Part[t].base + Part[t].len <= S + Room
  BY <1>1, <1>2, <1>3, Sizes, AreaFields DEF Plain
<1>5. InRam(Part[part])
  <2>1. Chunk = mbi.mmap[max_mmap] /\ max_mmap \in 1 .. Len(mbi.mmap) /\ mbi.mmap[max_mmap].available
    BY BootsAssumption DEF Chunk, Suitable, Chosen
  <2>2. Within(Part[part], Area(Chunk.addr, Chunk.len))
    BY <1>1, <1>2, <1>4, AreaFields DEF Within, Plain
  <2>. QED  BY <1>4, <2>1, <2>2 DEF InRam, Plain
<1>6. ASSUME NEW p \in Image
      PROVE  ~Overlap(Part[p], Part[part])
  <2>1. Plain(Part[p]) /\ (Part[p].len = 0 \/ Part[p].base + Part[p].len <= S)
    BY SourcesAreBelow DEF S
  <2>2. Apart(Part[p], Part[part])
    BY <1>1, <1>4, <2>1 DEF Apart, Plain
  <2>. QED  BY <1>4, <2>1, <2>2, ApartDoNotOverlap
<1>7. /\ Apart(Part["gdt"], Part["data"]) /\ Apart(Part["gdt"], Part["code"])
      /\ Apart(Part["data"], Part["code"]) /\ Apart(Part["gdt"], Part["args"])
      /\ Apart(Part["data"], Part["args"]) /\ Apart(Part["code"], Part["args"])
  BY <1>1, <1>2, <1>3, Sizes, AreaFields DEF Apart
<1>8. /\ part = "data" => ~Overlap(Part["gdt"], Part[part])
      /\ part = "code" => ~Overlap(Part["gdt"], Part[part]) /\ ~Overlap(Part["data"], Part[part])
      /\ part = "args" => /\ ~Overlap(Part["gdt"], Part[part]) /\ ~Overlap(Part["data"], Part[part])
                          /\ ~Overlap(Part["code"], Part[part])
  BY <1>4, <1>7, ApartDoNotOverlap
<1>. QED  BY <1>5, <1>6, <1>8 DEF Held, Image

-----------------------------------------------------------------------------
(* What every step of the machine keeps of the loader's state.             *)
LoaderInv ==
  /\ Chosen
  /\ LaidOut => segments = Layout
  /\ damaged = {} \/ (LaidOut /\ ~Suitable)
  /\ stage = "init_memory_manager" => args = Arguments

LEMMA InitLoaderInv == Init_loader => LoaderInv
<1> SUFFICES ASSUME Init_loader
             PROVE  LoaderInv
  OBVIOUS
<1>1. Chosen
  <2>1. mbi \in Boots /\ Len(mbi.mmap) \in Nat /\ mmap = 1 /\ max_mmap = 0
    BY BootsAssumption DEF Init_loader
  <2>. QED  BY <2>1 DEF Chosen
<1>2. ~LaidOut /\ damaged = {} /\ stage # "init_memory_manager"
  BY DEF Init_loader, LaidOut
<1>. QED  BY <1>1, <1>2 DEF LoaderInv

(* The choice does not change after the scan, and the layout with it.      *)
LEMMA ChoiceKept ==
  ASSUME mbi' = mbi, max_mmap' = max_mmap
  PROVE  Layout' = Layout /\ (Suitable' <=> Suitable)
<1>1. Chunk' = Chunk /\ module_segment' = module_segment
  BY DEF Chunk, module_segment
<1>2. min_load_addr' = min_load_addr
  BY <1>1 DEF min_load_addr
<1>3. DataStart' = DataStart /\ Room' = Room
  BY <1>1, <1>2 DEF DataStart, Room
<1>4. DataLen' = DataLen
  BY <1>3 DEF DataLen
<1>. QED  BY <1>1, <1>2, <1>3, <1>4 DEF Layout, Suitable

(* The steps after the loader.                                             *)
LEMMA LoaderLeftAlone ==
  ASSUME LoaderInv, UNCHANGED layoutVars, UNCHANGED damaged, LaidOut, LaidOut',
         stage' # "init_memory_manager" \/ UNCHANGED <<stage, args>>
  PROVE  LoaderInv'
<1>1. Layout' = Layout /\ (Suitable' <=> Suitable)
  BY ChoiceKept DEF layoutVars
<1>2. Chosen'
  BY DEF LoaderInv, Chosen, layoutVars
<1>3. stage' = "init_memory_manager" => args' = Arguments'
  BY DEF LoaderInv, Arguments, layoutVars
<1>. QED  BY <1>1, <1>2, <1>3 DEF LoaderInv, layoutVars

LEMMA ScanInv ==
  ASSUME LoaderInv, ScanEntry
  PROVE  LoaderInv'
<1>1. Chosen'
  <2>1. mmap \in Nat \ {0} /\ mmap <= Len(mbi.mmap) /\ mbi' = mbi /\ mmap' = mmap + 1
        /\ mbi \in Boots /\ Len(mbi.mmap) \in Nat
    BY BootsAssumption DEF LoaderInv, Chosen, ScanEntry
  <2>2. max_mmap' = max_mmap \/ (max_mmap' = mmap /\ mbi.mmap[mmap].available)
    BY DEF ScanEntry
  <2>. QED  BY <2>1, <2>2 DEF LoaderInv, Chosen
<1>. QED  BY <1>1 DEF ScanEntry, LoaderInv, LaidOut

(* The stores, one after the other.                                        *)
LEMMA StoreInv ==
  ASSUME LoaderInv, LaidOut, UNCHANGED layoutVars, LaidOut',
         NEW part \in {"gdt", "data", "code", "args"}, Store(part, Held[part])
  PROVE  damaged' = {} \/ ~Suitable'
<1>1. Suitable' <=> Suitable
  BY ChoiceKept DEF layoutVars
<1>2. CASE Suitable
  <2>1. Chosen /\ segments = Layout /\ damaged = {}
    BY <1>2 DEF LoaderInv
  <2>2. {p \in Held[part] : Overlap(Part[p], Part[part])} = {}
    BY <1>2, <2>1, StoresAreSafe
  <2>3. {p \in {part} : ~InRam(Part[p])} = {}
    BY <1>2, <2>1, StoresAreSafe
  <2>. QED  BY <2>1, <2>2, <2>3 DEF Store
<1>. QED  BY <1>1, <1>2

LEMMA NextLoaderInv ==
  ASSUME LoaderInv, Next_loader
  PROVE  LoaderInv'
<1>1. CASE loader_main
  <2>1. UNCHANGED <<layoutVars, damaged>> /\ ~LaidOut /\ ~LaidOut'
        /\ stage' # "init_memory_manager"
    BY <1>1 DEF loader_main, LaidOut
  <2>. QED  BY <2>1 DEF LoaderInv, Chosen, layoutVars
<1>2. CASE ScanEntry
  BY <1>2, ScanInv
<1>3. CASE init_segments_parameters
  <2>1. /\ mbi' = mbi /\ max_mmap' = max_mmap /\ mmap' = mmap /\ damaged' = damaged
        /\ segments' = Layout /\ ~LaidOut /\ LaidOut' /\ stage' = "init_gdt"
    BY <1>3 DEF init_segments_parameters, LaidOut
  <2>2. Chosen' /\ damaged = {}
    BY <2>1 DEF LoaderInv, Chosen
  <2>. QED  BY <2>1, <2>2, ChoiceKept DEF LoaderInv
<1>4. ASSUME NEW part \in {"gdt", "data", "code", "args"}, Store(part, Held[part]),
             LaidOut, LaidOut', UNCHANGED layoutVars,
             stage' = "init_memory_manager" => args' = Arguments
      PROVE  LoaderInv'
  <2>1. Chosen' /\ Arguments' = Arguments
    BY <1>4 DEF LoaderInv, Chosen, Arguments, layoutVars
  <2>2. segments' = Layout'
    BY <1>4, ChoiceKept DEF LoaderInv, layoutVars
  <2>. QED  BY <1>4, <2>1, <2>2, StoreInv DEF LoaderInv
<1>5. CASE init_gdt_loader
  <2>1. Store("gdt", Held["gdt"]) /\ LaidOut /\ LaidOut' /\ UNCHANGED layoutVars
        /\ stage' = "copy_data"
    BY <1>5 DEF init_gdt_loader, Held, LaidOut
  <2>. QED  BY <1>4, <2>1
<1>6. CASE copy_data
  <2>1. Store("data", Held["data"]) /\ LaidOut /\ LaidOut' /\ UNCHANGED layoutVars
        /\ stage' = "copy_code"
    BY <1>6 DEF copy_data, Held, LaidOut
  <2>. QED  BY <1>4, <2>1
<1>7. CASE copy_code
  <2>1. Store("code", Held["code"]) /\ LaidOut /\ LaidOut' /\ UNCHANGED layoutVars
        /\ stage' = "goto_kernel"
    BY <1>7 DEF copy_code, Held, LaidOut
  <2>. QED  BY <1>4, <2>1
<1>8. CASE goto_kernel
  <2>1. Store("args", Held["args"]) /\ LaidOut /\ LaidOut' /\ UNCHANGED layoutVars
        /\ args' = Arguments
    BY <1>8 DEF goto_kernel, Held, LaidOut
  <2>. QED  BY <1>4, <2>1
<1>. QED  BY <1>1, <1>2, <1>3, <1>5, <1>6, <1>7, <1>8 DEF Next_loader

(* The invariant of the loader says that the segments are apart.           *)
LEMMA LayoutIsApart == LoaderInv => SegmentsAreApart
<1> SUFFICES ASSUME LoaderInv, LaidOut, Suitable
             PROVE  LET both == Area(segments.data.base, segments.data.len + segments.code.len)
                    IN  /\ segments.code.base = segments.data.base + segments.data.len
                        /\ Within(both, Area(Chunk.addr, Chunk.len))
                        /\ Apart(both, KernelImage) /\ Apart(both, segments.module)
                        /\ damaged = {}
  BY DEF SegmentsAreApart
<1>1. Chosen /\ segments = Layout /\ damaged = {}
  BY DEF LoaderInv
<1>2. /\ DataStart \in Nat /\ DataLen \in Nat /\ Room \in Nat
      /\ Chunk.addr <= DataStart /\ min_load_addr <= DataStart
      /\ DataStart + Room = Chunk.addr + Chunk.len
      /\ segments.data = Area(DataStart, DataLen) /\ segments.module = module_segment
      /\ segments.code = Area(DataStart + DataLen, Room - DataLen)
  BY <1>1, HalvesOfChunk
<1>3. /\ lma + kernel_size <= min_load_addr
      /\ module_segment.len > 0 => module_segment.base + module_segment.len <= min_load_addr
      /\ module_segment.base \in Nat /\ module_segment.len \in Nat
      /\ min_load_addr \in Nat /\ Chunk.addr \in Nat /\ Chunk.len \in Nat
      /\ lma + kernel_size \in Nat
  BY <1>1, ImageIsBelow, ModuleType, LayoutType, ChunkType, Sizes, Spans DEF Word
<1> DEFINE both == Area(segments.data.base, segments.data.len + segments.code.len)
<1>4. both = Area(DataStart, Room)
  BY <1>2, AreaFields
<1>5. segments.code.base = segments.data.base + segments.data.len
  BY <1>2, AreaFields
<1>6. Within(both, Area(Chunk.addr, Chunk.len))
  BY <1>2, <1>3, <1>4, AreaFields DEF Within
<1>7. Apart(both, KernelImage)
  BY <1>2, <1>3, <1>4, AreaFields DEF Apart, KernelImage
<1>8. Apart(both, segments.module)
  BY <1>2, <1>3, <1>4, AreaFields DEF Apart
<1>. QED  BY <1>1, <1>5, <1>6, <1>7, <1>8

-----------------------------------------------------------------------------
(* The stages of a kernel that has recorded its segments and goes on.      *)
Recorded == {"init_gdt_kernel", "init_idt", "init_paging", "init_heap", "init_keyboard",
             "initialize_syscalls", "IRQ_RES", "init_buf", "running"}
Stops == {"halted", "wrecked"}

InfoHolds ==
  info = [code |-> segments.code, data |-> segments.data, module |-> segments.module]

HeaderAdmitted == Admitted(Header, info.code.len, info.data.len, info.module.len)

(* What the kernel records is what the loader passed, and a module that    *)
(* was admitted was compared with it.                                      *)
KernelInv ==
  /\ stage \in Recorded => InfoHolds
  /\ initialized => stage \in {"running"} \cup Stops /\ InfoHolds /\ HeaderAdmitted

IInv == LoaderInv /\ KernelInv

LEMMA InitIInv == Init => IInv
<1> SUFFICES ASSUME Init
             PROVE  IInv
  OBVIOUS
<1>1. LoaderInv
  BY InitLoaderInv DEF Init
<1>2. stage = "loader_main" /\ ~initialized
  BY DEF Init, Init_loader, Init_module
<1>. QED  BY <1>1, <1>2 DEF IInv, KernelInv, Recorded

-----------------------------------------------------------------------------
(* A step of the kernel that leaves its segments alone and does not go     *)
(* back in the order of its start.                                         *)
KernelStep ==
  /\ UNCHANGED layoutVars /\ UNCHANGED <<damaged, info, initialized>>
  /\ stage \in Recorded
  /\ stage' \in Recorded \cup Stops
  /\ stage = "running" => stage' \in {"running"} \cup Stops

LEMMA KernelStepIInv ==
  ASSUME IInv, KernelStep
  PROVE  IInv'
<1>1. LaidOut /\ LaidOut' /\ stage' # "init_memory_manager"
  BY DEF KernelStep, Recorded, Stops, LaidOut
<1>2. LoaderInv'
  BY <1>1, LoaderLeftAlone DEF IInv, KernelStep
<1>3. InfoHolds /\ InfoHolds'
  BY DEF IInv, KernelInv, KernelStep, InfoHolds, layoutVars
<1>4. HeaderAdmitted => HeaderAdmitted'
  BY DEF KernelStep, HeaderAdmitted, Header, layoutVars
<1>5. initialized => stage = "running"
  BY DEF IInv, KernelInv, KernelStep, Recorded, Stops
<1>. QED  BY <1>2, <1>3, <1>4, <1>5 DEF IInv, KernelInv, KernelStep

LEMMA StartIInv ==
  ASSUME IInv, Next_start, UNCHANGED moduleVars
  PROVE  IInv'
<1>1. CASE init_memory_manager
  <2>1. /\ UNCHANGED layoutVars /\ damaged' = damaged /\ LaidOut /\ LaidOut'
        /\ stage' \in Recorded \cup Stops /\ stage' # "init_memory_manager"
        /\ stage = "init_memory_manager" /\ initialized' = initialized
    BY <1>1 DEF init_memory_manager, LaidOut, Recorded, Stops, moduleVars, flagVars
  <2>2. LoaderInv'
    BY <2>1, LoaderLeftAlone DEF IInv
  <2>3. ~initialized'
    BY <2>1 DEF IInv, KernelInv, Stops
  <2>4. args = Arguments /\ segments = Layout
    BY <2>1 DEF IInv, LoaderInv
  <2>5. info' = [code |-> Area(segments.code.base, segments.code.len),
                 data |-> Area(segments.data.base, segments.data.len),
                 module |-> Area(segments.module.base, segments.module.len)]
    BY <1>1, <2>4 DEF init_memory_manager, init_segments_info, Param, Arguments, ARGS
  <2>6. /\ segments.code = Area(segments.code.base, segments.code.len)
        /\ segments.data = Area(segments.data.base, segments.data.len)
        /\ segments.module = Area(segments.module.base, segments.module.len)
    BY <2>4, ModuleType, AreaFields DEF IInv, LoaderInv, Layout
  <2>7. InfoHolds'
    BY <2>1, <2>5, <2>6 DEF InfoHolds, layoutVars
  <2>. QED  BY <2>2, <2>3, <2>7 DEF IInv, KernelInv
<1>2. CASE init_gdt_kernel
  <2>1. KernelStep
    BY <1>2 DEF init_gdt_kernel, AllocData, NoPage, KernelStep, Recorded, Stops, moduleVars, flagVars
  <2>. QED  BY <2>1, KernelStepIInv
<1>3. CASE init_idt
  <2>1. KernelStep
    BY <1>3 DEF init_idt, AllocData, NoPage, KernelStep, Recorded, Stops, moduleVars, flagVars
  <2>. QED  BY <2>1, KernelStepIInv
<1>4. CASE init_paging
  <2>1. stage' \in {"init_heap", "wrecked", "halted"} /\ stage = "init_paging"
    BY <1>4 DEF init_paging, AllocData, NoPage
  <2>2. KernelStep
    BY <1>4, <2>1 DEF init_paging, KernelStep, Recorded, Stops, moduleVars, flagVars
  <2>. QED  BY <2>2, KernelStepIInv
<1>. QED  BY <1>1, <1>2, <1>3, <1>4 DEF Next_start

(* Whatever sbrk does, the kernel goes on, with the stage that follows, or *)
(* stops.                                                                  *)
LEMMA SbrkStage ==
  ASSUME NEW increment, NEW asked, NEW cleared, NEW next,
         Sbrk(increment, asked, cleared, next)
  PROVE  stage' \in {next} \cup Stops
  BY DEF Sbrk, Stops

(* What a caller asks klmalloc for, of malloc or of calloc.                *)
LEMMA RequestAsks ==
  ASSUME Next_requests
  PROVE  \E size \in Word, asked \in Nat, cleared \in Nat :
           /\ klmalloc(size, asked, cleared)
           /\ size = asked % MODULUS
           /\ cleared = size \/ (cleared = 0 /\ asked = size)
<1>1. MODULUS \in Nat \ {0}
  BY Spans
<1>2. ASSUME NEW r \in Requests, calloc(r[1], r[2])
      PROVE  \E size \in Word, asked \in Nat, cleared \in Nat :
               /\ klmalloc(size, asked, cleared)
               /\ size = asked % MODULUS
               /\ cleared = size \/ (cleared = 0 /\ asked = size)
  <2> DEFINE asked == r[1] * r[2]
             size == asked % MODULUS
  <2>1. r[1] \in Nat /\ r[2] \in Nat
    BY <1>1, HeapAssumption DEF Word
  <2>2. asked \in Nat
    BY <2>1, Monotonic
  <2>3. klmalloc(size, asked, size)
    BY <1>2 DEF calloc, Mul
  <2> HIDE DEF asked
  <2>4. size \in Word /\ size \in Nat
    BY <1>1, <2>2 DEF Word
  <2>. QED  BY <2>2, <2>3, <2>4
<1>3. ASSUME NEW size \in Lengths, malloc(size)
      PROVE  klmalloc(size, size, 0) /\ size \in Word /\ size \in Nat /\ size = size % MODULUS
  <2>1. size \in Word
    BY HeapAssumption
  <2>2. size \in Nat /\ size \in 0 .. MODULUS - 1
    BY <1>1, <2>1 DEF Word
  <2>. QED  BY <1>1, <1>3, <2>1, <2>2, SmallRemainder DEF malloc
<1>4. CASE \E r \in Requests : calloc(r[1], r[2])
  BY <1>2, <1>4
<1>5. CASE \E size \in Lengths : malloc(size)
  BY <1>3, <1>5
<1>. QED  BY <1>4, <1>5 DEF Next_requests

LEMMA BootHeapIInv ==
  ASSUME IInv, Next_boot_heap, UNCHANGED moduleVars
  PROVE  IInv'
<1>1. CASE init_heap
  <2>1. KernelStep
    BY <1>1 DEF init_heap, KernelStep, Recorded, Stops, startVars, moduleVars, flagVars
  <2>. QED  BY <2>1, KernelStepIInv
<1>2. CASE init_keyboard
  <2>1. stage' \in {"initialize_syscalls"} \cup Stops
    BY <1>2, SbrkStage DEF init_keyboard, SmallBin
  <2>2. KernelStep
    BY <1>2, <2>1 DEF init_keyboard, SmallBin, KernelStep, Recorded, Stops, moduleVars, flagVars
  <2>. QED  BY <2>2, KernelStepIInv
<1>3. CASE initialize_syscalls
  <2>1. KernelStep
    BY <1>3 DEF initialize_syscalls, KernelStep, Recorded, Stops, moduleVars, flagVars
  <2>. QED  BY <2>1, KernelStepIInv
<1>4. CASE IRQ_RES
  <2>1. KernelStep
    BY <1>4 DEF IRQ_RES, KernelStep, Recorded, Stops, moduleVars, flagVars
  <2>. QED  BY <2>1, KernelStepIInv
<1>5. CASE init_buf
  <2>1. stage' \in {"running"} \cup Stops
    BY <1>5, SbrkStage DEF init_buf, SmallBin
  <2>2. KernelStep
    BY <1>5, <2>1 DEF init_buf, SmallBin, KernelStep, Recorded, Stops, moduleVars, flagVars
  <2>. QED  BY <2>2, KernelStepIInv
<1>. QED  BY <1>1, <1>2, <1>3, <1>4, <1>5 DEF Next_boot_heap

(* The steps of a kernel that has come to its terminal; those that do not  *)
(* decide whether a module is admitted leave what was recorded alone.      *)
LEMMA RunningStep ==
  ASSUME IInv, UNCHANGED bootVars, initialized' = initialized,
         \/ stage = "running" /\ stage' \in {"running"} \cup Stops
         \/ stage \in {"init_buf", "running"} /\ stage' \in {stage, "halted"}
  PROVE  IInv'
<1>1. KernelStep
  BY DEF KernelStep, bootVars, Recorded, Stops
<1>. QED  BY <1>1, KernelStepIInv

LEMMA RequestIInv ==
  ASSUME IInv, Request
  PROVE  IInv'
<1>1. CASE Next_requests /\ UNCHANGED moduleVars
  <2>1. PICK size \in Word, asked \in Nat, cleared \in Nat : klmalloc(size, asked, cleared)
    BY <1>1, RequestAsks
  <2>2. stage = "running" /\ stage' \in {"running"} \cup Stops
    BY <2>1, SbrkStage DEF klmalloc
  <2>3. KernelStep
    BY <1>1, <2>1, <2>2 DEF klmalloc, KernelStep, Recorded, Stops, moduleVars, flagVars
  <2>. QED  BY <2>3, KernelStepIInv
<1>2. CASE start_module
  <2>1. UNCHANGED layoutVars /\ UNCHANGED <<damaged, info, args, stage>> /\ stage = "running"
    BY <1>2 DEF start_module, At, bootVars
  <2>2. LoaderInv'
    BY <2>1, LoaderLeftAlone DEF IInv, LaidOut
  <2>3. InfoHolds /\ InfoHolds' /\ (HeaderAdmitted => HeaderAdmitted')
    BY <2>1 DEF IInv, KernelInv, InfoHolds, HeaderAdmitted, Header, Recorded, layoutVars
  <2>4. initialized' => HeaderAdmitted
    <3>1. initialized' => initialized \/ HeaderAdmitted
      BY <1>2 DEF start_module, HeaderAdmitted
    <3>. QED  BY <3>1 DEF IInv, KernelInv
  <2>. QED  BY <2>1, <2>2, <2>3, <2>4 DEF IInv, KernelInv
<1>. QED  BY <1>1, <1>2 DEF Request

LEMMA LoadModuleIInv ==
  ASSUME IInv, LoadModule
  PROVE  IInv'
<1>1. CASE load_code_pages
  <2>1. stage = "running" /\ stage' \in {"running"} \cup Stops
    BY <1>1 DEF load_code_pages, At, NoPage, Stops
  <2>. QED  BY <1>1, <2>1, RunningStep DEF load_code_pages, flagVars
<1>2. ASSUME NEW byte, StoreByte(byte), stage = "running"
      PROVE  stage' \in {"running"} \cup Stops
  BY <1>2 DEF StoreByte, AllocData, NoPage, Stops
<1>3. CASE clean_code
  <2>1. stage = "running" /\ stage' \in {"running"} \cup Stops
    BY <1>2, <1>3 DEF clean_code, At
  <2>. QED  BY <1>3, <2>1, RunningStep DEF clean_code, LoopVars, flagVars
<1>4. CASE copy_code_byte
  <2>1. stage = "running" /\ stage' \in {"running"} \cup Stops
    BY <1>2, <1>4 DEF copy_code_byte, At
  <2>. QED  BY <1>4, <2>1, RunningStep DEF copy_code_byte, LoopVars, flagVars
<1>5. ASSUME NEW rel, NEW n, NEW next, MapData(rel, n, next), stage = "running"
      PROVE  stage' \in {"running"} \cup Stops
  BY <1>5 DEF MapData, Stops
<1>6. CASE load_data_and_stack
  <2>1. stage = "running" /\ stage' \in {"running"} \cup Stops
    BY <1>5, <1>6 DEF load_data_and_stack, At
  <2>. QED  BY <1>6, <2>1, RunningStep DEF load_data_and_stack, flagVars
<1>7. CASE load_stack
  <2>1. stage = "running" /\ stage' \in {"running"} \cup Stops
    BY <1>5, <1>7 DEF load_stack, At
  <2>. QED  BY <1>7, <2>1, RunningStep DEF load_stack
<1>8. CASE save_kernel_state
  BY <1>8, RunningStep DEF save_kernel_state, At, flagVars
<1>9. CASE jump_to_module_code
  BY <1>9, RunningStep DEF jump_to_module_code, At
<1>. QED  BY <1>1, <1>3, <1>4, <1>6, <1>7, <1>8, <1>9 DEF LoadModule

LEMMA HandleIInv ==
  ASSUME IInv, Handle
  PROVE  IInv'
<1>1. CASE handler_returns
  BY <1>1, RunningStep DEF handler_returns, InHandler, flagVars
<1>2. CASE exit_module
  BY <1>2, RunningStep DEF exit_module, InHandler
<1>3. CASE panic
  BY <1>3, RunningStep DEF panic, InHandler, moduleVars, flagVars
<1>4. CASE exit_label
  BY <1>4, RunningStep DEF exit_label, At, Stops, flagVars
<1>. QED  BY <1>1, <1>2, <1>3, <1>4 DEF Handle

LEMMA EnterIInv ==
  ASSUME IInv, UseModule \/ Interrupt
  PROVE  IInv'
<1>1. ASSUME NEW vector, NEW eax, Enter(vector, eax), stage \in {"init_buf", "running"}
      PROVE  IInv'
  BY <1>1, RunningStep DEF Enter, flagVars
<1>2. CASE UseModule
  BY <1>1, <1>2 DEF UseModule, ModuleInt, ModulePageFault, At
<1>3. CASE Interrupt
  BY <1>1, <1>3 DEF Interrupt, Irq, NonMaskable
<1>. QED  BY <1>2, <1>3

-----------------------------------------------------------------------------
LEMMA NextIInv == IInv /\ [Next]_vars => IInv'
<1> SUFFICES ASSUME IInv, [Next]_vars
             PROVE  IInv'
  OBVIOUS
<1>1. CASE Next_loader /\ UNCHANGED <<startVars, heapVars, moduleVars>>
  <2>1. LoaderInv'
    BY <1>1, NextLoaderInv DEF IInv
  <2>2. stage \notin Recorded \cup Stops /\ stage' \notin Recorded /\ initialized' = initialized
    BY <1>1 DEF Next_loader, loader_main, ScanEntry, init_segments_parameters, init_gdt_loader,
                copy_data, copy_code, goto_kernel, Recorded, Stops, moduleVars, flagVars
  <2>. QED  BY <2>1, <2>2 DEF IInv, KernelInv, Recorded
<1>2. CASE Next_start /\ UNCHANGED <<heapVars, moduleVars>>
  BY <1>2, StartIInv
<1>3. CASE pc = "terminal" /\ Next_boot_heap /\ UNCHANGED moduleVars
  BY <1>3, BootHeapIInv
<1>4. CASE Request
  BY <1>4, RequestIInv
<1>5. CASE LoadModule
  BY <1>5, LoadModuleIInv
<1>6. CASE Handle
  BY <1>6, HandleIInv
<1>7. CASE UseModule \/ Interrupt
  BY <1>7, EnterIInv
<1>8. CASE UNCHANGED vars
  <2>1. UNCHANGED layoutVars /\ UNCHANGED <<stage, args, damaged, info, initialized>>
    BY <1>8 DEF vars, loaderVars, startVars, moduleVars, flagVars
  <2>2. CASE LaidOut
    <3>1. LoaderInv'
      BY <2>1, <2>2, LoaderLeftAlone DEF IInv, LaidOut
    <3>2. (InfoHolds => InfoHolds') /\ (HeaderAdmitted => HeaderAdmitted')
      BY <2>1 DEF InfoHolds, HeaderAdmitted, Header, layoutVars
    <3>. QED  BY <2>1, <3>1, <3>2 DEF IInv, KernelInv
  <2>3. CASE ~LaidOut
    <3>1. stage \notin Recorded \cup Stops
      BY <2>3 DEF LaidOut, Recorded, Stops
    <3>2. LoaderInv'
      BY <2>1, <2>3 DEF IInv, LoaderInv, Chosen, LaidOut, layoutVars
    <3>. QED  BY <2>1, <3>1, <3>2 DEF IInv, KernelInv, Recorded
  <2>. QED  BY <2>2, <2>3
<1>. QED  BY <1>1, <1>2, <1>3, <1>4, <1>5, <1>6, <1>7, <1>8 DEF Next, Start

LEMMA Invariance == Spec => []IInv
  BY InitIInv, NextIInv, PTL DEF Spec

(* The segments that the loader lays out are inside the chunk it chose,    *)
(* next to each other and clear of the image and the module, and none of   *)
(* its stores hits what is still needed: for every map of memory, every    *)
(* place of the module and every size of the kernel.                       *)
THEOREM SegmentsApart == Spec => []SegmentsAreApart
<1>1. IInv => SegmentsAreApart
  BY LayoutIsApart DEF IInv
<1>. QED  BY <1>1, Invariance, PTL

(* What was admitted fits, in every state the invariant allows.            *)
LEMMA AdmittedHere == IInv => AdmittedModuleFits
<1>1. ASSUME IInv
      PROVE  AdmittedModuleFits
  <2> SUFFICES ASSUME initialized
               PROVE  AdmittedModuleFits
    BY DEF AdmittedModuleFits
  <2>1. Chosen /\ segments = Layout
    BY <1>1 DEF IInv, KernelInv, LoaderInv, LaidOut, Stops
  <2>2. /\ info.code.len = segments.code.len /\ info.data.len = segments.data.len
        /\ info.module.len = segments.module.len
    BY <1>1 DEF IInv, KernelInv, InfoHolds
  <2>3. segments.code.len \in Word /\ segments.data.len \in Word /\ segments.module.len \in Word
    BY <2>1, LayoutType, ModuleType, AreaFields DEF Layout
  <2>4. HeaderIsTyped(Header)
    BY <2>1, HeadersAssumption DEF Chosen, Header, HeaderIsTyped
  <2>5. Admitted(Header, segments.code.len, segments.data.len, segments.module.len)
    BY <1>1, <2>2 DEF IInv, KernelInv, HeaderAdmitted
  <2>6. /\ CopiedCode(Header) = Header.code_offset .. Header.code_offset + Header.code_size - 1
        /\ \/ CopiedData(Header)
                = Header.data_offset .. Header.data_offset + Header.data_size - 1
           \/ CopiedData(Header) = {} /\ Header.data_offset + Header.data_size >= MODULUS
        /\ CopiedCode(Header) \cup CopiedData(Header) \subseteq 0 .. segments.module.len - 1
    BY <2>3, <2>4, <2>5, CopiesFromImage
  <2>7. CodeEnd(Header) < segments.code.len + PAGE_SIZE
    BY <2>3, <2>4, <2>5, CodePagesFit
  <2>8. DataEnd(Header) + PAGE_SIZE <= segments.data.len
    <3>1. Room \in Word /\ Room \div 2 \in Word
      BY <2>1, LayoutType, Spans DEF Word
    <3>2. segments.data.len = PageUp(Room \div 2)
      BY <2>1, AreaFields DEF Layout, DataLen
    <3>. QED  BY <2>3, <2>4, <2>5, <3>1, <3>2, DataPagesFit, RoundedIsWhole
  <2>9. /\ EntryOffset(Header) \in CopiedCode(Header)
        /\ MODULE_CODE_LOAD_ADDR < Header.entry_point
        /\ Header.entry_point < MODULE_CODE_LOAD_ADDR + Header.code_offset + Header.code_size
    BY <2>3, <2>4, <2>5, EntryInCode
  <2>. QED  BY <2>6, <2>7, <2>8, <2>9 DEF AdmittedModuleFits
<1>. QED  BY <1>1

(* What init_module admits, from whatever header: its code is copied whole *)
(* from the image to pages that begin in the code segment, its data whole  *)
(* or, if their end wraps, not at all, to pages below the kernel's stack,  *)
(* and its entry point is an offset of its code in the image.  Whether the *)
(* data reach the page of the module's stack is not checked.               *)
THEOREM AdmittedFits == Spec => []AdmittedModuleFits
BY AdmittedHere, Invariance, PTL

-----------------------------------------------------------------------------
T == Frame("terminal")
S == Frame("start_module")

(* What runs, apart from handlers, and the frames that it runs upon.       *)
Starting == {"load code", "clean", "copy", "load data", "load stack", "save", "jump"}
Programs == {"terminal", "module", "exit_label"} \cup Starting
Base(p) == IF p = "terminal" THEN <<T>> ELSE <<T, S>>
Depth(p) == IF p = "terminal" THEN 1 ELSE 2

(* The kernel's selectors; gs is another one while code is being loaded.   *)
GoodRegs(sel, p) ==
  p # "module" =>
    /\ \A r \in Registers \ {"gs"} : sel[r] = KernelSelectors[r]
    /\ p \notin {"clean", "copy", "load data"} => sel["gs"] = KernelSelectors["gs"]

(* The first handler interrupted a program p; on top of it there are only  *)
(* interrupts that nothing masks.                                          *)
HandlerFrames(p) ==
  LET f == kstack[Depth(p) + 1]
  IN  /\ Len(kstack) > Depth(p)
      /\ \A i \in 1 .. Depth(p) : kstack[i] = Base(p)[i]
      /\ \A i \in Depth(p) + 1 .. Len(kstack) : kstack[i].what = "interrupt"
      /\ f.pc = p /\ (f.user <=> p = "module") /\ f.flag = TRUE
      /\ f.regs = [r \in Registers |-> f.regs[r]] /\ GoodRegs(f.regs, p)
      /\ (f.vector = SYSCALL => f.user)
      /\ \A i \in Depth(p) + 2 .. Len(kstack) : kstack[i].vector = NMI /\ ~kstack[i].user

(* What was saved for exit_module.                                         *)
SavedIsGood ==
  /\ kernel_state.esp = 2 /\ tss.esp0 = 2 /\ tss.ss0 = KernelSelectors.ss
  /\ kernel_state.flag = TRUE
  /\ \A r \in Registers \ {"gs"} : kernel_state.regs[r] = KernelSelectors[r]

(* A handler that will go back to p.                                       *)
Interrupts(p) ==
  HandlerFrames(p) /\ (running <=> p = "module") /\ (p = "jump" => SavedIsGood)

HasTables == {"init_idt", "init_paging", "init_heap", "init_keyboard", "initialize_syscalls",
              "IRQ_RES", "init_buf", "running"}
Interrupted == {"init_buf", "running"}

LInv ==
  /\ kstack \in Seq({kstack[i] : i \in DOMAIN kstack})
  /\ tss = [ss0 |-> tss.ss0, esp0 |-> tss.esp0]
  /\ handlers \subseteq {PAGE_FAULT, IRQ1, SYSCALL}
  /\ stage \notin Interrupted \cup {"halted", "wrecked"} => pc = "terminal"
  /\ stage # "running" => ~running
  /\ stage \in HasTables => tss.ss0 = KernelSelectors.ss
  /\ stage \in HasTables /\ pc \in Programs => GoodRegs([r \in Registers |-> cpu[r].sel], pc)
  /\ pc \in Programs => /\ kstack = Base(pc)
                        /\ running <=> pc = "module"
                        /\ stage \in Interrupted => interrupts = TRUE
  /\ pc \notin Programs =>
       /\ pc = "handler" /\ ~interrupts
       /\ \E p \in Programs : Interrupts(p)
  /\ running \/ pc = "jump" => SavedIsGood

-----------------------------------------------------------------------------
(* Stacks: what a frame on top and a cut leave of the frames below.        *)
LEMMA PushFrame ==
  ASSUME NEW X, NEW s \in Seq(X), NEW f
  PROVE  LET t == Append(s, f)
         IN  /\ t \in Seq({t[i] : i \in DOMAIN t})
             /\ Len(s) \in Nat /\ Len(t) = Len(s) + 1
             /\ \A i \in 1 .. Len(s) : t[i] = s[i]
             /\ t[Len(s) + 1] = f
<1> DEFINE Y == X \cup {f}
           t == Append(s, f)
<1>1. s \in Seq(Y) /\ f \in Y
  <2>1. X \subseteq Y /\ f \in Y
    OBVIOUS
  <2> HIDE DEF Y
  <2>. QED  BY <2>1, SeqMonotonic
<1> HIDE DEF Y
<1>2. t \in Seq(Y) /\ Len(s) \in Nat /\ Len(t) = Len(s) + 1
      /\ (\A i \in 1 .. Len(s) : t[i] = s[i]) /\ t[Len(s) + 1] = f
  BY <1>1, LenProperties
<1> HIDE DEF t
<1>3. t \in Seq({t[i] : i \in DOMAIN t})
  <2>1. DOMAIN t = 1 .. Len(t) /\ Len(t) \in Nat /\ t \in [1 .. Len(t) -> Y]
    BY <1>2, LenProperties
  <2>2. t \in [1 .. Len(t) -> {t[i] : i \in DOMAIN t}]
    BY <2>1
  <2>. QED  BY <2>1, <2>2, SeqDef
<1>. QED  BY <1>2, <1>3 DEF t

LEMMA CutFrames ==
  ASSUME NEW X, NEW s \in Seq(X), NEW n \in 0 .. Len(s)
  PROVE  LET t == SubSeq(s, 1, n)
         IN  /\ t \in Seq(X)
             /\ Len(s) \in Nat /\ Len(t) = n
             /\ \A i \in 1 .. n : t[i] = s[i]
<1>1. Len(s) \in Nat /\ \A i \in 1 .. Len(s) : s[i] \in X
  BY LenProperties, ElementOfSeq
<1>2. \A i \in 1 .. n : s[i] \in X
  BY <1>1
<1>. QED  BY <1>1, <1>2, SubSeqProperties

LEMMA Bases ==
  ASSUME NEW p
  PROVE  /\ Base(p) \in Seq({T, S})
         /\ Len(Base(p)) = Depth(p) /\ Depth(p) \in {1, 2}
         /\ Base(p)[1] = T /\ (Depth(p) = 2 => Base(p)[2] = S)
         /\ \A i \in 1 .. Depth(p) : Base(p)[i].what # "interrupt"
<1>1. T.what # "interrupt" /\ S.what # "interrupt"
  BY DEF T, S, Frame
<1>2. CASE p = "terminal"
  <2>1. Base(p) = <<T>> /\ Depth(p) = 1
    BY <1>2 DEF Base, Depth
  <2>. QED  BY <1>1, <2>1
<1>3. CASE p # "terminal"
  <2>1. Base(p) = <<T, S>> /\ Depth(p) = 2
    BY <1>3 DEF Base, Depth
  <2>2. <<T, S>> \in Seq({T, S}) /\ Len(<<T, S>>) = 2 /\ <<T, S>>[1] = T /\ <<T, S>>[2] = S
    OBVIOUS
  <2>. QED  BY <1>1, <2>1, <2>2
<1>. QED  BY <1>2, <1>3

(* A sequence is one of its own elements.                                  *)
LEMMA OwnElements ==
  ASSUME NEW X, NEW s \in Seq(X)
  PROVE  s \in Seq({s[i] : i \in DOMAIN s})
<1>1. DOMAIN s = 1 .. Len(s) /\ Len(s) \in Nat /\ s \in [1 .. Len(s) -> X]
  BY LenProperties
<1>2. s \in [1 .. Len(s) -> {s[i] : i \in DOMAIN s}]
  BY <1>1
<1>. QED  BY <1>1, <1>2, SeqDef

(* A stack that is cut where a program's frames end is that program's.     *)
LEMMA CutToBase ==
  ASSUME NEW X, NEW s \in Seq(X), NEW p, Depth(p) <= Len(s),
         \A i \in 1 .. Depth(p) : s[i] = Base(p)[i]
  PROVE  SubSeq(s, 1, Depth(p)) = Base(p)
<1> DEFINE t == SubSeq(s, 1, Depth(p))
           Y == X \cup {T, S}
<1>1. Depth(p) \in 0 .. Len(s) /\ Len(Base(p)) = Depth(p) /\ Base(p) \in Seq({T, S})
  BY Bases, LenProperties
<1>2. t \in Seq(X) /\ Len(t) = Depth(p) /\ \A i \in 1 .. Depth(p) : t[i] = s[i]
  BY <1>1, CutFrames
<1> HIDE DEF t
<1>3. t \in Seq(Y) /\ Base(p) \in Seq(Y)
  <2>1. X \subseteq Y /\ {T, S} \subseteq Y
    OBVIOUS
  <2> HIDE DEF Y
  <2>. QED  BY <1>1, <1>2, <2>1, SeqMonotonic
<1> HIDE DEF Y
<1>4. t = Base(p)
  BY <1>1, <1>2, <1>3, SeqEqual
<1>. QED  BY <1>4 DEF t

LEMMA Selectors ==
  ASSUME NEW regs, NEW r \in Registers
  PROVE  WithSelectors(regs)[r].sel = IF r \in DOMAIN regs THEN regs[r] ELSE cpu[r].sel
  BY DEF WithSelectors, Load

-----------------------------------------------------------------------------
Sels == [r \in Registers |-> cpu[r].sel]

LEMMA InitLInv == Init => LInv
<1> SUFFICES ASSUME Init
             PROVE  LInv
  OBVIOUS
<1>1. kstack = <<T>> /\ kstack = Base(pc) /\ pc = "terminal" /\ stage = "loader_main" /\ ~running
  BY DEF Init, Init_module, Init_loader, Base, T
<1>2. kstack \in Seq({kstack[i] : i \in DOMAIN kstack})
  BY <1>1, Bases, OwnElements
<1>3. tss = [ss0 |-> tss.ss0, esp0 |-> tss.esp0] /\ handlers = {}
  BY DEF Init, Init_start
<1>. QED  BY <1>1, <1>2, <1>3 DEF LInv, Programs, HasTables, Interrupted

(* Steps of the start, and of the terminal, that leave alone what runs and *)
(* its stack; the tables and the registers only before they are in place.  *)
LEMMA StartStep ==
  ASSUME LInv, pc = "terminal", ~running,
         UNCHANGED <<pc, running, kernel_state, kstack>>,
         handlers' \subseteq handlers \cup {PAGE_FAULT, IRQ1, SYSCALL},
         tss' = [ss0 |-> tss'.ss0, esp0 |-> tss'.esp0],
         stage' \in HasTables =>
           tss'.ss0 = KernelSelectors.ss /\ GoodRegs(Sels', "terminal"),
         stage' \in Interrupted => interrupts' = TRUE
  PROVE  LInv'
<1>1. kstack = Base(pc) /\ pc \in Programs
  BY DEF LInv, Programs
<1>2. kstack' = Base(pc') /\ kstack' \in Seq({kstack'[i] : i \in DOMAIN kstack'})
  BY <1>1 DEF LInv
<1>. QED  BY <1>1, <1>2 DEF LInv, Sels

(* Most of them leave the tables and the registers alone as well.          *)
LEMMA Quiet ==
  ASSUME LInv, pc = "terminal", ~running,
         UNCHANGED <<pc, running, kernel_state, kstack>>,
         handlers' \subseteq handlers \cup {PAGE_FAULT, IRQ1, SYSCALL},
         UNCHANGED <<tss, cpu>>,
         stage' \in HasTables => stage \in HasTables,
         stage' \in Interrupted => interrupts' = TRUE
  PROVE  LInv'
<1>1. stage' \in HasTables =>
           tss'.ss0 = KernelSelectors.ss /\ GoodRegs(Sels', "terminal")
  BY DEF LInv, Programs, Sels
<1>2. tss' = [ss0 |-> tss'.ss0, esp0 |-> tss'.esp0]
  BY DEF LInv
<1>. QED  BY <1>1, <1>2, StartStep

LEMMA StartLInv ==
  ASSUME LInv, Start
  PROVE  LInv'
<1> USE DEF Interrupted
<1>1. CASE Next_loader /\ UNCHANGED <<startVars, heapVars, moduleVars>>
  <2>1. stage \notin Interrupted \cup {"halted", "wrecked"}
        /\ stage' \notin HasTables \cup Interrupted
    BY <1>1 DEF Next_loader, loader_main, ScanEntry, init_segments_parameters, init_gdt_loader,
                copy_data, copy_code, goto_kernel, HasTables
  <2>2. UNCHANGED <<pc, running, kernel_state, kstack, tss, handlers>>
    BY <1>1 DEF moduleVars, flagVars, startVars, gateVars
  <2>3. pc = "terminal" /\ ~running /\ tss' = [ss0 |-> tss'.ss0, esp0 |-> tss'.esp0]
    BY <2>1, <2>2 DEF LInv
  <2>. QED  BY <2>1, <2>2, <2>3, StartStep
<1>2. CASE Next_start /\ UNCHANGED <<heapVars, moduleVars>>
  <2>1. UNCHANGED <<pc, running, kernel_state, kstack>>
    BY <1>2 DEF moduleVars, flagVars
  <2>2. stage \notin Interrupted \cup {"halted", "wrecked"}
    BY <1>2 DEF Next_start, init_memory_manager, init_gdt_kernel, init_idt, init_paging
  <2>3. pc = "terminal" /\ ~running
    BY <2>2 DEF LInv
  <2>4. CASE init_memory_manager
    <3>1. stage' \notin HasTables \cup Interrupted /\ UNCHANGED <<tss, handlers, cpu>>
      BY <2>4 DEF init_memory_manager, gateVars, HasTables
    <3>. QED  BY <2>1, <2>3, <3>1, Quiet
  <2>5. CASE init_gdt_kernel
    <3>1. tss' = [ss0 |-> 16, esp0 |-> 0] /\ handlers' = handlers /\ cpu' = KernelRegisters(gdt')
          /\ stage' \notin Interrupted
      BY <2>5 DEF init_gdt_kernel, AllocData, NoPage
    <3>2. Sels' = [r \in Registers |-> KernelSelectors[r]]
      BY <3>1 DEF Sels, KernelRegisters, Load
    <3>3. GoodRegs(Sels', "terminal")
      BY <3>2 DEF GoodRegs, Registers
    <3>4. tss' = [ss0 |-> tss'.ss0, esp0 |-> tss'.esp0] /\ tss'.ss0 = KernelSelectors.ss
      BY <3>1 DEF KernelSelectors
    <3>. QED  BY <2>1, <2>3, <3>1, <3>3, <3>4, StartStep
  <2>6. CASE init_idt
    <3>1. stage' \notin Interrupted /\ UNCHANGED <<tss, handlers, cpu>> /\ stage \in HasTables
      BY <2>6 DEF init_idt, AllocData, NoPage, HasTables, processorVars
    <3>. QED  BY <2>1, <2>3, <3>1, Quiet
  <2>7. CASE init_paging
    <3>1. stage' \in {"init_heap", "wrecked", "halted"} /\ stage \in HasTables
      BY <2>7 DEF init_paging, AllocData, NoPage, HasTables
    <3>2. UNCHANGED <<tss, cpu>> /\ handlers' = handlers \cup {PAGE_FAULT}
      BY <2>7 DEF init_paging, processorVars
    <3>. QED  BY <2>1, <2>3, <3>1, <3>2, Quiet
  <2>. QED  BY <1>2, <2>4, <2>5, <2>6, <2>7 DEF Next_start
<1>3. CASE pc = "terminal" /\ Next_boot_heap /\ UNCHANGED moduleVars
  <2>1. UNCHANGED <<pc, running, kernel_state, kstack>>
    BY <1>3 DEF moduleVars, flagVars
  <2>2. ~running
    BY <1>3 DEF LInv, Programs
  <2>3. CASE init_heap
    <3>1. stage = "init_heap" /\ stage' = "init_keyboard" /\ UNCHANGED <<tss, handlers, cpu>>
      BY <2>3 DEF init_heap, startVars, gateVars, processorVars
    <3>. QED  BY <1>3, <2>1, <2>2, <3>1, Quiet DEF HasTables
  <2>4. CASE init_keyboard
    <3>1. stage = "init_keyboard" /\ stage' \in {"initialize_syscalls", "halted", "wrecked"}
      BY <2>4 DEF init_keyboard, SmallBin, Sbrk
    <3>2. UNCHANGED <<tss, cpu>> /\ handlers' = handlers \cup {IRQ1}
      BY <2>4 DEF init_keyboard, SmallBin, processorVars
    <3>. QED  BY <1>3, <2>1, <2>2, <3>1, <3>2, Quiet DEF HasTables
  <2>5. CASE initialize_syscalls
    <3>1. stage = "initialize_syscalls" /\ stage' = "IRQ_RES"
          /\ UNCHANGED <<tss, cpu>> /\ handlers' = handlers \cup {SYSCALL}
      BY <2>5 DEF initialize_syscalls, processorVars
    <3>. QED  BY <1>3, <2>1, <2>2, <3>1, Quiet DEF HasTables
  <2>6. CASE IRQ_RES
    <3>1. stage = "IRQ_RES" /\ interrupts' = TRUE /\ UNCHANGED <<tss, handlers, cpu>>
      BY <2>6 DEF IRQ_RES, processorVars, gateVars
    <3>. QED  BY <1>3, <2>1, <2>2, <3>1, Quiet DEF HasTables
  <2>7. CASE init_buf
    <3>1. stage = "init_buf" /\ UNCHANGED <<tss, handlers, cpu, interrupts>>
      BY <2>7 DEF init_buf, SmallBin, processorVars
    <3>2. interrupts = TRUE
      BY <1>3, <3>1 DEF LInv, Programs
    <3>. QED  BY <1>3, <2>1, <2>2, <3>1, <3>2, Quiet DEF HasTables
  <2>. QED  BY <1>3, <2>3, <2>4, <2>5, <2>6, <2>7 DEF Next_boot_heap
<1>. QED  BY <1>1, <1>2, <1>3 DEF Start

-----------------------------------------------------------------------------
(* A step of the terminal or of the loading, to another such.              *)
Own == Programs \ {"module"}

LEMMA Onward ==
  ASSUME LInv, stage = "running", pc \in Own, pc' \in Own,
         stage' \in {"running", "halted", "wrecked"},
         kstack' = Base(pc'),
         UNCHANGED <<running, handlers, interrupts>>,
         tss' = [ss0 |-> tss'.ss0, esp0 |-> tss'.esp0] /\ tss'.ss0 = tss.ss0,
         GoodRegs(Sels', pc'),
         pc' = "jump" => SavedIsGood'
  PROVE  LInv'
<1>1. ~running /\ interrupts = TRUE /\ tss.ss0 = KernelSelectors.ss
  BY DEF LInv, Own, HasTables, Interrupted
<1>2. kstack' \in Seq({kstack'[i] : i \in DOMAIN kstack'})
  BY Bases, OwnElements
<1>. QED  BY <1>1, <1>2 DEF LInv, Own, HasTables, Interrupted, Sels

(* What there is to know of a program of the kernel that runs.             *)
LEMMA OwnState ==
  ASSUME LInv, stage = "running", pc \in Own
  PROVE  /\ ~running /\ interrupts = TRUE /\ kstack = Base(pc)
         /\ GoodRegs(Sels, pc) /\ tss.ss0 = KernelSelectors.ss
         /\ tss = [ss0 |-> tss.ss0, esp0 |-> tss.esp0]
  BY DEF LInv, Own, HasTables, Interrupted, Sels

LEMMA RequestLInv ==
  ASSUME LInv, Request
  PROVE  LInv'
<1>1. stage = "running" /\ pc = "terminal" /\ pc \in Own
  BY DEF Request, At, Own, Programs
<1>2. CASE Next_requests /\ UNCHANGED moduleVars
  <2>1. PICK size \in Word, asked \in Nat, cleared \in Nat : klmalloc(size, asked, cleared)
    BY <1>2, RequestAsks
  <2>2. UNCHANGED <<pc, running, kernel_state, kstack>>
    BY <1>2 DEF moduleVars, flagVars
  <2>3. UNCHANGED <<tss, handlers, cpu, interrupts>>
    BY <2>1 DEF klmalloc, processorVars, gateVars
  <2>. QED  BY <1>1, <2>2, <2>3, OwnState, Quiet DEF HasTables, Interrupted
<1>3. CASE start_module
  <2>1. UNCHANGED <<stage, running, handlers, interrupts, tss, cpu>>
    BY <1>3 DEF start_module, bootVars, processorVars
  <2>2. \/ pc' \in {"save", "load code"} /\ kstack' = Append(kstack, Frame("start_module"))
        \/ pc' = pc /\ kstack' = kstack
    BY <1>3 DEF start_module
  <2>3. kstack' = Base(pc')
    <3>1. kstack = <<T>>
      BY <1>1, OwnState DEF Base
    <3>2. Append(<<T>>, S) = <<T, S>>
      <4> DEFINE t == Append(<<T>>, S)
                 u == <<T, S>>
      <4>1. t \in Seq({T, S}) /\ Len(t) = 2 /\ t[1] = T /\ t[2] = S
        OBVIOUS
      <4>2. u \in Seq({T, S}) /\ Len(u) = 2 /\ u[1] = T /\ u[2] = S
        OBVIOUS
      <4> HIDE DEF t, u
      <4>3. t = u
        BY <4>1, <4>2, SeqEqual
      <4>. QED  BY <4>3 DEF t, u
    <3>. QED  BY <1>1, <2>2, <3>1, <3>2 DEF Base, S
  <2>4. pc' \in Own /\ pc' # "jump"
    BY <1>1, <2>2 DEF Own, Programs, Starting
  <2>5. GoodRegs(Sels', pc')
    <3>1. GoodRegs(Sels, "terminal") /\ Sels' = Sels
      BY <1>1, <2>1, OwnState DEF Sels
    <3>. QED  BY <3>1 DEF GoodRegs
  <2>. QED  BY <1>1, <2>1, <2>3, <2>4, <2>5, OwnState, Onward
<1>. QED  BY <1>2, <1>3 DEF Request

LEMMA LoadModuleLInv ==
  ASSUME LInv, LoadModule
  PROVE  LInv'
<1>1. stage = "running" /\ pc \in Own /\ pc # "terminal"
  BY DEF LoadModule, load_code_pages, clean_code, copy_code_byte, load_data_and_stack,
         load_stack, save_kernel_state, jump_to_module_code, At, Own, Programs, Starting
<1>2. ~running /\ interrupts = TRUE /\ kstack = <<T, S>> /\ GoodRegs(Sels, pc)
      /\ tss.ss0 = KernelSelectors.ss /\ tss = [ss0 |-> tss.ss0, esp0 |-> tss.esp0]
  BY <1>1, OwnState DEF Base
(* The steps that only change gs, if any register.                         *)
<1>3. ASSUME UNCHANGED <<kstack, running, handlers, interrupts, tss>>,
             stage' \in {"running", "halted", "wrecked"},
             pc' \in Own, pc' # "terminal", pc' # "jump",
             GoodRegs(Sels', pc')
      PROVE  LInv'
  BY <1>1, <1>2, <1>3, Onward DEF Base
<1>4. CASE load_code_pages
  <2>1. UNCHANGED <<kstack, running, handlers, interrupts, tss>> /\ pc' = "clean"
    BY <1>4 DEF load_code_pages, bootVars, flagVars
  <2>2. stage' \in {"running", "halted", "wrecked"}
    BY <1>1, <1>4 DEF load_code_pages, NoPage
  <2>3. \A r \in Registers \ {"gs"} : Sels'[r] = Sels[r]
    BY <1>4, Selectors DEF load_code_pages, Sels
  <2>4. GoodRegs(Sels', pc')
    BY <1>1, <1>2, <2>1, <2>3 DEF GoodRegs, Own
  <2>. QED  BY <1>3, <2>1, <2>2, <2>4 DEF Own, Programs, Starting
<1>5. ASSUME UNCHANGED LoopVars, stage' \in {"running", "halted", "wrecked"},
             pc' \in {pc, "copy", "load data"}, pc \in {"clean", "copy"}
      PROVE  LInv'
  <2>1. UNCHANGED <<kstack, running, handlers, interrupts, tss, cpu>>
    BY <1>5 DEF LoopVars, bootVars, flagVars, processorVars
  <2>2. GoodRegs(Sels', pc')
    BY <1>2, <1>5, <2>1 DEF GoodRegs, Sels
  <2>. QED  BY <1>3, <1>5, <2>1, <2>2 DEF Own, Programs, Starting
<1>6. ASSUME NEW byte, StoreByte(byte)
      PROVE  stage' \in {"running", "halted", "wrecked"}
  BY <1>1, <1>6 DEF StoreByte, AllocData, NoPage
<1>7. CASE clean_code
  BY <1>1, <1>5, <1>6, <1>7 DEF clean_code, At
<1>8. CASE copy_code_byte
  BY <1>1, <1>5, <1>6, <1>8 DEF copy_code_byte, At
<1>9. ASSUME NEW rel, NEW n, NEW next, MapData(rel, n, next)
      PROVE  stage' \in {"running", "halted", "wrecked"} /\ pc' = next
  BY <1>1, <1>9 DEF MapData
<1>10. CASE load_data_and_stack
  <2>1. UNCHANGED <<kstack, running, handlers, interrupts, tss>>
    BY <1>10 DEF load_data_and_stack, bootVars, flagVars
  <2>2. stage' \in {"running", "halted", "wrecked"} /\ pc' = "load stack"
    BY <1>9, <1>10 DEF load_data_and_stack
  <2>3. \A r \in Registers \ {"gs"} : Sels'[r] = Sels[r]
    BY <1>10, Selectors DEF load_data_and_stack, Sels
  <2>4. Sels'["gs"] = 16
    <3>1. "gs" \in Registers /\ "gs" \in DOMAIN [gs |-> 16]
      BY DEF Registers
    <3>. QED  BY <1>10, <3>1, Selectors DEF load_data_and_stack, Sels
  <2>5. GoodRegs(Sels', pc')
    <3>1. \A r \in Registers \ {"gs"} : Sels[r] = KernelSelectors[r]
      BY <1>1, <1>2 DEF GoodRegs, Own
    <3>2. KernelSelectors["gs"] = 16
      BY DEF KernelSelectors
    <3>. QED  BY <2>3, <2>4, <3>1, <3>2 DEF GoodRegs
  <2>. QED  BY <1>3, <2>1, <2>2, <2>5 DEF Own, Programs, Starting
<1>11. CASE load_stack
  <2>1. UNCHANGED <<kstack, running, handlers, interrupts, tss, cpu>> /\ pc = "load stack"
    BY <1>11 DEF load_stack, bootVars, processorVars, At
  <2>2. stage' \in {"running", "halted", "wrecked"} /\ pc' = "save"
    BY <1>9, <1>11 DEF load_stack
  <2>3. GoodRegs(Sels', pc')
    BY <1>2, <2>1, <2>2 DEF GoodRegs, Sels
  <2>. QED  BY <1>3, <2>1, <2>2, <2>3 DEF Own, Programs, Starting
<1>12. CASE save_kernel_state
  <2>1. UNCHANGED <<stage, kstack, running, handlers, interrupts, cpu>> /\ pc = "save" /\ pc' = "jump"
    BY <1>12 DEF save_kernel_state, bootVars, processorVars, flagVars, At
  <2>2. Len(kstack) = 2
    BY <1>2
  <2>3. tss' = [ss0 |-> tss.ss0, esp0 |-> 2]
    BY <1>2, <1>12, <2>2 DEF save_kernel_state, set_kernel_stack_in_tss
  <2>4. GoodRegs(Sels', pc')
    BY <1>2, <2>1 DEF GoodRegs, Sels
  <2>5. SavedIsGood'
    <3>1. kernel_state' = [esp |-> 2, flag |-> TRUE,
                           regs |-> [r \in {"cs", "ss", "ds", "es", "fs"} |-> cpu[r].sel]]
      BY <1>2, <1>12, <2>2 DEF save_kernel_state, SavedState
    <3>2. \A r \in Registers \ {"gs"} : Sels[r] = KernelSelectors[r]
      BY <1>2, <2>1 DEF GoodRegs
    <3>3. \A r \in Registers \ {"gs"} : cpu[r].sel = KernelSelectors[r]
      BY <3>2 DEF Sels
    <3>4. \A r \in Registers \ {"gs"} : kernel_state'.regs[r] = KernelSelectors[r]
      BY <3>1, <3>3 DEF Registers
    <3>. QED  BY <1>2, <2>3, <3>1, <3>4 DEF SavedIsGood
  <2>6. kstack' = Base(pc')
    BY <1>2, <2>1 DEF Base
  <2>. QED  BY <1>1, <1>2, <2>1, <2>3, <2>4, <2>5, <2>6, Onward DEF Own, Programs, Starting
<1>13. CASE jump_to_module_code
  <2>1. UNCHANGED <<stage, kstack, handlers, tss, kernel_state>> /\ pc = "jump"
        /\ pc' = "module" /\ running' = TRUE /\ interrupts' = TRUE
    BY <1>13 DEF jump_to_module_code, bootVars, At
  <2>2. SavedIsGood'
    BY <2>1 DEF LInv, SavedIsGood
  <2>3. kstack' = Base(pc') /\ kstack' \in Seq({kstack'[i] : i \in DOMAIN kstack'})
    BY <1>2, <2>1 DEF Base, LInv
  <2>4. GoodRegs(Sels', pc')
    BY <2>1 DEF GoodRegs
  <2>. QED  BY <1>1, <1>2, <2>1, <2>2, <2>3, <2>4
            DEF LInv, Programs, HasTables, Interrupted, Sels
<1>. QED  BY <1>4, <1>7, <1>8, <1>10, <1>11, <1>12, <1>13 DEF LoadModule

-----------------------------------------------------------------------------
(* Interrupts, calls and faults.                                           *)
LEMMA EnterLInv ==
  ASSUME LInv, NEW vector, NEW eax, Enter(vector, eax),
         stage \in Interrupted,
         vector = SYSCALL => pc = "module",
         pc \notin Programs => vector = NMI
  PROVE  LInv'
<1> DEFINE f == [what |-> "interrupt", vector |-> vector, eax |-> eax,
                 user |-> pc = "module", pc |-> pc, flag |-> interrupts,
                 regs |-> [r \in Registers |-> cpu[r].sel]]
<1>1. UNCHANGED <<stage, handlers, tss, running, kernel_state>> /\ ~interrupts' /\ pc' = "handler"
  BY DEF Enter, bootVars, flagVars
<1>2. kstack' = Append(IF pc = "module" THEN SubSeq(kstack, 1, tss.esp0) ELSE kstack, f)
  BY DEF Enter
<1>3. stage \in HasTables /\ pc' \notin Programs
  BY <1>1 DEF HasTables, Interrupted, Programs, Starting
<1>4. kstack \in Seq({kstack[i] : i \in DOMAIN kstack})
  BY DEF LInv
<1>5. CASE pc \in Programs
  <2> PICK p \in Programs : p = pc
    BY <1>5
  <2>1. /\ kstack = Base(p) /\ (running <=> p = "module") /\ interrupts = TRUE
        /\ GoodRegs([r \in Registers |-> cpu[r].sel], p)
    BY <1>3, <1>5 DEF LInv
  <2>2. kstack' = Append(Base(p), f)
    <3>1. CASE p = "module"
      <4>1. tss.esp0 = 2 /\ Depth(p) = 2
        BY <2>1, <3>1 DEF LInv, SavedIsGood, Depth
      <4>2. Len(kstack) = 2
        BY <2>1, <4>1, Bases
      <4>3. SubSeq(kstack, 1, 2) = Base(p)
        BY <1>4, <2>1, <4>1, <4>2, CutToBase
      <4>. QED  BY <1>2, <3>1, <4>1, <4>3
    <3>2. CASE p # "module"
      BY <1>2, <2>1, <3>2
    <3>. QED  BY <3>1, <3>2
  <2>3. Base(p) \in Seq({T, S}) /\ Len(Base(p)) = Depth(p) /\ Depth(p) \in {1, 2}
    BY Bases
  <2>4. f.what = "interrupt" /\ f.pc = p /\ (f.user <=> p = "module") /\ f.flag = TRUE
        /\ f.vector = vector /\ f.regs = [r \in Registers |-> cpu[r].sel]
    BY <2>1
  <2> HIDE DEF f
  <2>5. /\ kstack' \in Seq({kstack'[i] : i \in DOMAIN kstack'})
        /\ Len(kstack') = Depth(p) + 1
        /\ \A i \in 1 .. Depth(p) : kstack'[i] = Base(p)[i]
        /\ kstack'[Depth(p) + 1] = f
    BY <2>2, <2>3, PushFrame
  <2>6. f.regs = [r \in Registers |-> f.regs[r]]
    BY <2>4
  <2>7. HandlerFrames(p)'
    <3>1. \A i \in Depth(p) + 1 .. Len(kstack') : i = Depth(p) + 1
      BY <2>3, <2>5
    <3>2. \A i \in Depth(p) + 2 .. Len(kstack') : FALSE
      BY <2>3, <2>5
    <3>. QED  BY <2>1, <2>3, <2>4, <2>5, <2>6, <3>1, <3>2 DEF HandlerFrames
  <2>8. Interrupts(p)'
    BY <1>1, <2>1, <2>7 DEF Interrupts, LInv, SavedIsGood
  <2>. QED  BY <1>1, <1>3, <2>5, <2>8 DEF LInv, SavedIsGood, Interrupted
<1>6. CASE pc \notin Programs
  <2>1. PICK p \in Programs : Interrupts(p) /\ HandlerFrames(p)
    BY <1>6 DEF LInv, Interrupts
  <2>2. pc # "module" /\ vector = NMI
    BY <1>6 DEF Programs
  <2>3. f.what = "interrupt" /\ f.vector = NMI /\ ~f.user
    BY <2>2
  <2>4. kstack' = Append(kstack, f)
    BY <1>2, <2>2
  <2> HIDE DEF f
  <2>5. /\ kstack' \in Seq({kstack'[i] : i \in DOMAIN kstack'})
        /\ Len(kstack) \in Nat /\ Len(kstack') = Len(kstack) + 1
        /\ \A i \in 1 .. Len(kstack) : kstack'[i] = kstack[i]
        /\ kstack'[Len(kstack) + 1] = f
    BY <1>4, <2>4, PushFrame
  <2>6. Depth(p) \in {1, 2} /\ Len(kstack) > Depth(p)
    BY <2>1, Bases DEF HandlerFrames
  <2>7. HandlerFrames(p)'
    <3>1. /\ \A i \in 1 .. Depth(p) : kstack'[i] = Base(p)[i]
          /\ kstack'[Depth(p) + 1] = kstack[Depth(p) + 1]
      BY <2>1, <2>5, <2>6 DEF HandlerFrames
    <3>2. \A i \in Depth(p) + 1 .. Len(kstack') : kstack'[i].what = "interrupt"
      <4>1. \A i \in Depth(p) + 1 .. Len(kstack') : i \in Depth(p) + 1 .. Len(kstack) \/ i = Len(kstack) + 1
        BY <2>5, <2>6
      <4>2. \A i \in Depth(p) + 1 .. Len(kstack) : kstack'[i] = kstack[i]
        BY <2>5, <2>6
      <4>. QED  BY <2>1, <2>3, <2>5, <4>1, <4>2 DEF HandlerFrames
    <3>3. \A i \in Depth(p) + 2 .. Len(kstack') : kstack'[i].vector = NMI /\ ~kstack'[i].user
      <4>1. \A i \in Depth(p) + 2 .. Len(kstack') : i \in Depth(p) + 2 .. Len(kstack) \/ i = Len(kstack) + 1
        BY <2>5, <2>6
      <4>2. \A i \in Depth(p) + 2 .. Len(kstack) : kstack'[i] = kstack[i]
        BY <2>5, <2>6
      <4>. QED  BY <2>1, <2>3, <2>5, <4>1, <4>2 DEF HandlerFrames
    <3>4. Len(kstack') > Depth(p)
      BY <2>5, <2>6
    <3>. QED  BY <2>1, <3>1, <3>2, <3>3, <3>4 DEF HandlerFrames
  <2>8. Interrupts(p)'
    BY <1>1, <2>1, <2>7 DEF Interrupts, SavedIsGood
  <2>. QED  BY <1>1, <1>3, <2>5, <2>8 DEF LInv, SavedIsGood, Interrupted
<1>. QED  BY <1>5, <1>6

LEMMA EntriesLInv ==
  ASSUME LInv, UseModule \/ Interrupt
  PROVE  LInv'
<1>1. CASE UseModule
  <2>1. PICK vector, eax : Enter(vector, eax) /\ At("module")
    BY <1>1 DEF UseModule, ModuleInt, ModulePageFault
  <2>. QED  BY <2>1, EnterLInv DEF At, Interrupted, Programs
<1>2. ASSUME NEW n \in Irqs, Irq(n)
      PROVE  LInv'
  <2>1. pc \in Programs
    BY <1>2 DEF LInv, Irq
  <2>2. IRQ0 + n # SYSCALL
    BY IrqsAssumption DEF IRQ0, SYSCALL
  <2>. QED  BY <1>2, <2>1, <2>2, EnterLInv DEF Irq, Interrupted
<1>3. CASE NonMaskable
  BY <1>3, EnterLInv DEF NonMaskable, Interrupted, NMI, SYSCALL
<1>. QED  BY <1>1, <1>2, <1>3 DEF Interrupt

(* A handler that comes back is the one that interrupted a program: what   *)
(* nothing masks has no handler, so it ends the module or the kernel.      *)
LEMMA TopFrame ==
  ASSUME LInv, InHandler
  PROVE  \E p \in Programs :
           /\ Interrupts(p) /\ HandlerFrames(p)
           /\ ~Panics(Top) => \/ Len(kstack) = Depth(p) + 1
                              \/ Exits(Top) /\ running
           /\ Exits(Top) => running
<1>1. PICK p \in Programs : Interrupts(p) /\ HandlerFrames(p) /\ (running <=> p = "module")
  BY DEF LInv, InHandler, Programs, Starting, Interrupts
<1>2. Depth(p) \in {1, 2} /\ Len(kstack) > Depth(p) /\ Len(kstack) \in Nat
  BY <1>1, Bases, LenProperties DEF HandlerFrames, LInv
<1>3. handlers \subseteq {14, 33, 128}
  BY DEF LInv, PAGE_FAULT, IRQ1, SYSCALL
<1>4. CASE Len(kstack) = Depth(p) + 1
  <2>1. (Top.user <=> p = "module") /\ (Top.vector = SYSCALL => Top.user)
    BY <1>1, <1>4 DEF HandlerFrames, Top
  <2>. QED  BY <1>1, <1>4, <2>1 DEF Exits
<1>5. CASE Len(kstack) # Depth(p) + 1
  <2>1. Len(kstack) \in Depth(p) + 2 .. Len(kstack)
    BY <1>2, <1>5
  <2>2. Top.vector = 2 /\ ~Top.user
    BY <1>1, <2>1 DEF HandlerFrames, Top, NMI
  <2>3. ~IsIrq(Top.vector) /\ Top.vector \notin handlers
    BY <1>3, <2>2 DEF IsIrq, IRQ0
  <2>. QED  BY <1>1, <2>2, <2>3 DEF Exits, Panics, SYSCALL
<1>. QED  BY <1>4, <1>5

LEMMA HandlerReturnsLInv ==
  ASSUME LInv, handler_returns
  PROVE  LInv'
<1>1. InHandler /\ ~Exits(Top) /\ ~Panics(Top)
  BY DEF handler_returns
<1>2. PICK p \in Programs : /\ HandlerFrames(p) /\ Interrupts(p)
                            /\ Len(kstack) = Depth(p) + 1
  BY <1>1, TopFrame
<1>3. UNCHANGED <<stage, handlers, tss, running, kernel_state>>
  BY DEF handler_returns, bootVars, flagVars
<1>4. Top = kstack[Depth(p) + 1]
  BY <1>2 DEF Top
<1>5. pc' = p /\ interrupts' = TRUE /\ cpu' = Restored(Top)
  BY <1>2, <1>4 DEF handler_returns, HandlerFrames
<1>6. kstack' = Base(p)
  <2>1. Depth(p) \in {1, 2} /\ kstack' = SubSeq(kstack, 1, Depth(p))
    BY <1>2, Bases DEF handler_returns
  <2>2. kstack \in Seq({kstack[i] : i \in DOMAIN kstack})
    BY DEF LInv
  <2>3. Depth(p) <= Len(kstack) /\ \A i \in 1 .. Depth(p) : kstack[i] = Base(p)[i]
    BY <1>2, <2>1 DEF HandlerFrames
  <2>. QED  BY <2>1, <2>2, <2>3, CutToBase
<1>7. kstack' \in Seq({kstack'[i] : i \in DOMAIN kstack'})
  BY <1>6, Bases, OwnElements
<1>8. GoodRegs(Sels', p)
  <2> SUFFICES ASSUME p # "module"
               PROVE  \A r \in Registers : Sels'[r] = KernelSelectors[r]
    BY DEF GoodRegs, Registers
  <2> DEFINE g == Top.regs
  <2>1. g = [r \in Registers |-> g[r]] /\ GoodRegs(g, p)
    BY <1>2, <1>4 DEF HandlerFrames
  <2>2. \A r \in Registers : Sels'[r] = [g EXCEPT !.gs = g.ds][r]
    <3>1. DOMAIN [g EXCEPT !.gs = g.ds] = Registers
      BY <2>1
    <3>. QED  BY <1>5, <3>1, Selectors DEF Restored, Sels
  <2>3. \A r \in Registers \ {"gs"} : g[r] = KernelSelectors[r]
    BY <2>1 DEF GoodRegs
  <2>4. "ds" \in Registers \ {"gs"} /\ KernelSelectors["gs"] = KernelSelectors["ds"]
    BY DEF Registers, KernelSelectors
  <2> HIDE DEF g
  <2>5. \A r \in Registers : [g EXCEPT !.gs = g.ds][r] = IF r = "gs" THEN g["ds"] ELSE g[r]
    BY <2>1
  <2>. QED  BY <2>2, <2>3, <2>4, <2>5
<1>9. running' \/ pc' = "jump" => SavedIsGood'
  BY <1>2, <1>3, <1>5 DEF Interrupts, LInv, SavedIsGood
<1>10. running' <=> pc' = "module"
  BY <1>2, <1>3, <1>5 DEF Interrupts
<1>. QED  BY <1>1, <1>3, <1>5, <1>6, <1>7, <1>8, <1>9, <1>10
          DEF LInv, Sels, InHandler, Interrupted, HasTables

LEMMA ExitModuleLInv ==
  ASSUME LInv, exit_module
  PROVE  LInv'
<1>1. InHandler /\ Exits(Top)
  BY DEF exit_module
<1>2. PICK p \in Programs : HandlerFrames(p) /\ p = "module" /\ running
  BY <1>1, TopFrame DEF Interrupts
<1>3. SavedIsGood
  BY <1>2 DEF LInv
<1>4. UNCHANGED <<stage, handlers, tss, kernel_state>> /\ ~running' /\ pc' = "exit_label"
      /\ interrupts' = TRUE /\ kstack' = SubSeq(kstack, 1, 2)
  BY <1>3 DEF exit_module, bootVars, SavedIsGood
<1>5. kstack' = Base("exit_label")
  <2>1. Depth(p) = 2 /\ Base(p) = Base("exit_label")
    BY <1>2 DEF Depth, Base
  <2>2. kstack \in Seq({kstack[i] : i \in DOMAIN kstack})
    BY DEF LInv
  <2>3. Depth(p) <= Len(kstack) /\ \A i \in 1 .. Depth(p) : kstack[i] = Base(p)[i]
    BY <1>2, <2>1, <2>2, LenProperties DEF HandlerFrames
  <2>. QED  BY <1>4, <2>1, <2>2, <2>3, CutToBase
<1>6. kstack' \in Seq({kstack'[i] : i \in DOMAIN kstack'})
  BY <1>5, Bases, OwnElements
<1>7. \A r \in Registers : Sels'[r] = KernelSelectors[r]
  <2>1. \A r \in Registers : Sels'[r] = kernel_state.regs[IF r = "gs" THEN "ds" ELSE r]
    BY Selectors DEF exit_module, Sels
  <2>2. "ds" \in Registers \ {"gs"} /\ KernelSelectors["gs"] = KernelSelectors["ds"]
    BY DEF Registers, KernelSelectors
  <2>. QED  BY <1>3, <2>1, <2>2 DEF SavedIsGood
<1>8. GoodRegs(Sels', pc')
  BY <1>7 DEF GoodRegs, Registers
<1>. QED  BY <1>1, <1>4, <1>5, <1>6, <1>8
          DEF LInv, Sels, InHandler, Interrupted, HasTables, Programs

LEMMA HandleLInv ==
  ASSUME LInv, Handle
  PROVE  LInv'
<1>1. CASE handler_returns
  BY <1>1, HandlerReturnsLInv
<1>2. CASE exit_module
  BY <1>2, ExitModuleLInv
<1>3. CASE panic
  <2>1. InHandler /\ ~running /\ stage' = "halted"
    BY <1>3 DEF panic, Panics
  <2>2. UNCHANGED <<handlers, tss, pc, running, kernel_state, kstack, interrupts>>
    BY <1>3 DEF panic, bootVars, moduleVars, flagVars
  <2>3. pc \notin Programs
    BY <2>1 DEF InHandler, Programs, Starting
  <2>4. \A p : Interrupts(p) => Interrupts(p)'
    BY <1>3, <2>2 DEF HandlerFrames, Interrupts, SavedIsGood, panic, moduleVars
  <2>. QED  BY <2>1, <2>2, <2>3, <2>4 DEF LInv, InHandler, Interrupted, HasTables
<1>4. CASE exit_label
  <2>1. stage = "running" /\ pc = "exit_label" /\ pc \in Own
    BY <1>4 DEF exit_label, At, Own, Programs
  <2>2. UNCHANGED <<handlers, tss, running, kernel_state, interrupts, cpu>> /\ pc' = "terminal"
        /\ stage' \in {"running", "wrecked"}
    BY <1>4, <2>1 DEF exit_label, bootVars, flagVars, processorVars
  <2>3. kstack = <<T, S>> /\ kstack' = SubSeq(<<T, S>>, 1, 1)
    <3>1. kstack = <<T, S>> /\ kstack' = SubSeq(kstack, 1, Len(kstack) - 1)
      BY <1>4, <2>1, OwnState DEF exit_label, Base
    <3>2. Len(<<T, S>>) - 1 = 1
      OBVIOUS
    <3>. QED  BY <3>1, <3>2
  <2>4. kstack' = Base("terminal")
    <3>1. Depth("terminal") = 1 /\ Base("terminal") = <<T>>
      BY DEF Depth, Base
    <3>2. <<T, S>> \in Seq({T, S}) /\ Len(<<T, S>>) = 2 /\ <<T, S>>[1] = T /\ <<T>>[1] = T
      OBVIOUS
    <3>. QED  BY <2>3, <3>1, <3>2, CutToBase
  <2>5. GoodRegs(Sels', pc')
    BY <2>1, <2>2, OwnState DEF GoodRegs, Sels
  <2>. QED  BY <2>1, <2>2, <2>4, <2>5, OwnState, Onward DEF Own, Programs
<1>. QED  BY <1>1, <1>2, <1>3, <1>4 DEF Handle

-----------------------------------------------------------------------------
LEMMA NextLInv == LInv /\ [Next]_vars => LInv'
<1> SUFFICES ASSUME LInv, [Next]_vars
             PROVE  LInv'
  OBVIOUS
<1>1. CASE UNCHANGED vars
  <2>1. UNCHANGED <<stage, handlers, tss, cpu, interrupts, pc, running, kernel_state, kstack>>
    BY <1>1 DEF vars, loaderVars, processorVars, startVars, gateVars, moduleVars, flagVars
  <2>2. \A p : Interrupts(p) => Interrupts(p)'
    BY <2>1 DEF HandlerFrames, Interrupts, SavedIsGood
  <2>. QED  BY <2>1, <2>2 DEF LInv, SavedIsGood
<1>. QED  BY <1>1, StartLInv, RequestLInv, LoadModuleLInv, HandleLInv, EntriesLInv DEF Next

LEMMA LifecycleInvariance == Spec => []LInv
  BY InitLInv, NextLInv, PTL DEF Spec

(* The state that exit_module is to restore belongs to the start_module    *)
(* that waits for it, however often modules were started, left or killed   *)
(* and whatever interrupts came, and running tells a module from the       *)
(* kernel in every handler.                                                *)
THEOREM ExitIsValid == Spec => []ExitStateIsValid
<1>1. ASSUME LInv
      PROVE  ExitStateIsValid
  <2>1. CASE pc \in Programs
    <3>1. kstack = Base(pc) /\ (running <=> pc = "module")
      BY <1>1, <2>1 DEF LInv
    <3>2. \A i \in DOMAIN kstack : kstack[i].what # "interrupt"
      <4>1. DOMAIN kstack = 1 .. Depth(pc)
        BY <3>1, Bases, LenProperties
      <4>. QED  BY <3>1, <4>1, Bases
    <3>3. running => /\ kernel_state.esp = 2 /\ tss.esp0 = 2 /\ tss.ss0 = KernelSelectors.ss
                     /\ kernel_state.flag = TRUE
      BY <1>1 DEF LInv, SavedIsGood
    <3>4. running => 2 <= Len(kstack) /\ kstack[2].what = "start_module"
      <4>1. S.what = "start_module"
        BY DEF S, Frame
      <4>2. Depth("module") = 2
        BY DEF Depth
      <4>. QED  BY <3>1, <4>1, <4>2, Bases
    <3>. QED  BY <3>1, <3>2, <3>3, <3>4 DEF ExitStateIsValid
  <2>2. CASE pc \notin Programs
    <3>1. PICK p \in Programs : HandlerFrames(p) /\ (running <=> p = "module")
      BY <1>1, <2>2 DEF LInv, Interrupts
    <3>2. Depth(p) \in {1, 2} /\ Len(kstack) \in Nat /\ Len(kstack) > Depth(p)
          /\ DOMAIN kstack = 1 .. Len(kstack)
      BY <1>1, <3>1, Bases, LenProperties DEF HandlerFrames, LInv
    <3>3. pc # "module"
      BY <2>2 DEF Programs
    <3>4. \A i \in DOMAIN kstack :
            kstack[i].what = "interrupt" /\ kstack[i].user => i = Depth(p) + 1 /\ p = "module"
      <4> SUFFICES ASSUME NEW i \in DOMAIN kstack,
                          kstack[i].what = "interrupt" /\ kstack[i].user
                   PROVE  i = Depth(p) + 1 /\ p = "module"
        OBVIOUS
      <4>1. i \in 1 .. Depth(p) \/ i = Depth(p) + 1 \/ i \in Depth(p) + 2 .. Len(kstack)
        BY <3>2
      <4>2. i \notin 1 .. Depth(p)
        BY <3>1, Bases DEF HandlerFrames
      <4>3. i \notin Depth(p) + 2 .. Len(kstack)
        BY <3>1 DEF HandlerFrames
      <4>. QED  BY <3>1, <4>1, <4>2, <4>3 DEF HandlerFrames
    <3>5. p = "module" => \E i \in DOMAIN kstack : kstack[i].what = "interrupt" /\ kstack[i].user
      <4>1. Depth(p) + 1 \in DOMAIN kstack /\ Depth(p) + 1 \in Depth(p) + 1 .. Len(kstack)
        BY <3>2
      <4>. QED  BY <3>1, <4>1 DEF HandlerFrames
    <3>6. running => /\ kernel_state.esp = 2 /\ tss.esp0 = 2 /\ tss.ss0 = KernelSelectors.ss
                     /\ kernel_state.flag = TRUE
      BY <1>1 DEF LInv, SavedIsGood
    <3>7. p = "module" => 2 <= Len(kstack) /\ kstack[2].what = "start_module"
      <4>1. S.what = "start_module"
        BY DEF S, Frame
      <4>2. Depth("module") = 2
        BY DEF Depth
      <4>3. p = "module" => kstack[2] = S
        BY <3>1, <4>2, Bases DEF HandlerFrames
      <4>. QED  BY <3>2, <4>1, <4>2, <4>3
    <3>. QED  BY <3>1, <3>3, <3>4, <3>5, <3>6, <3>7 DEF ExitStateIsValid
  <2>. QED  BY <2>1, <2>2
<1>2. LInv => ExitStateIsValid
  BY <1>1
<1>. QED  BY <1>2, LifecycleInvariance, PTL

(* The terminal always goes on with its own registers, its own stack and   *)
(* interrupts on.                                                          *)
THEOREM TerminalStaysItself == Spec => []TerminalIsItself
<1>1. LInv /\ At("terminal") => /\ ~running /\ interrupts = TRUE /\ kstack = <<T>>
                                /\ GoodRegs(Sels, "terminal")
  BY OwnState DEF At, Own, Programs, Base
<1>2. LInv => TerminalIsItself
  BY <1>1 DEF TerminalIsItself, GoodRegs, Sels, T
<1>. QED  BY <1>2, LifecycleInvariance, PTL


-----------------------------------------------------------------------------
(* The loading of a module's code, byte by byte, with interrupts between.  *)
(* What the kernel is doing: what runs, or what a handler goes back to.    *)
Underway ==
  {pc} \cup {kstack[i].pc : i \in {j \in DOMAIN kstack : kstack[j].what = "interrupt"}}

Loops == {"clean", "copy"}
Loading == Loops \cup {"load code", "load data", "load stack"}

CodeLen == CodePages * PAGE_SIZE

(* The first n bytes of the code are copied, or went elsewhere; from byte  *)
(* m to byte n there are zeros, unless gs was changed.                     *)
Copied(n) ==
  \A i \in 0 .. n - 1 : code_mem[i] = Header.code_offset + i \/ (disturbed /\ i \in strays)
Zeroed(m, n) == ~disturbed => \A i \in m .. n : code_mem[i] = ZERO

(* Until an interrupt changes it, gs is the code segment in both loops,    *)
(* and in the frame of whatever interrupts them.                           *)
GsInLoops ==
  ~disturbed =>
    /\ strays = {}
    /\ pc \in Loops => cpu.gs.sel = 56
    /\ \A i \in DOMAIN kstack :
         kstack[i].what = "interrupt" /\ kstack[i].pc \in Loops => kstack[i].regs.gs = 56

(* How far each part of the loading has come.                              *)
Progress ==
  /\ Underway \cap Loading # {} => initialized /\ ~loaded
  /\ "clean" \in Underway \/ "copy" \in Underway =>
       code_mem = [i \in 0 .. CodeLen - 1 |-> code_mem[i]] /\ at \in Nat
  /\ "clean" \in Underway => Zeroed(0, at - 1)
  /\ "copy" \in Underway => at <= Header.code_size /\ Copied(at) /\ Zeroed(at, CodeLen - 4)
  /\ "load data" \in Underway \/ "load stack" \in Underway \/ loaded =>
       Copied(Header.code_size) /\ Zeroed(Header.code_size, CodeLen - 4)

CodeInv == GsInLoops /\ Progress

(* A program of the kernel runs upon no interrupt.                         *)
OnlyProgram ==
  pc \in Programs => /\ Underway = {pc}
                     /\ \A i \in DOMAIN kstack : kstack[i].what # "interrupt"

LEMMA ProgramRunsAlone == LInv => OnlyProgram
<1> SUFFICES ASSUME LInv, pc \in Programs
             PROVE  \A i \in DOMAIN kstack : kstack[i].what # "interrupt"
  BY DEF OnlyProgram, Underway
<1>1. kstack = Base(pc)
  BY DEF LInv
<1>2. DOMAIN kstack = 1 .. Depth(pc)
  BY <1>1, Bases, LenProperties
<1>. QED  BY <1>1, <1>2, Bases

LEMMA ProgramRunsAloneNext == LInv' => OnlyProgram'
  BY ProgramRunsAlone, PTL

LEMMA CodeFitsItsPages ==
  ASSUME NEW size \in Word
  PROVE  PageCount(size) \in Nat /\ size <= PageCount(size) * PAGE_SIZE
<1> DEFINE q == size \div PAGE_SIZE
<1>1. size \in Nat /\ PAGE_SIZE \in Nat \ {0}
  BY Spans DEF Word
<1>2. q \in Nat /\ size % PAGE_SIZE \in 0 .. PAGE_SIZE - 1
      /\ size = PAGE_SIZE * q + (size % PAGE_SIZE)
  BY <1>1, Division
<1>3. PageCount(size) = IF size % PAGE_SIZE # 0 THEN q + 1 ELSE q
  BY DEF PageCount
<1> HIDE DEF q
<1>4. PAGE_SIZE * (q + 1) = PAGE_SIZE * q + PAGE_SIZE /\ (q + 1) * PAGE_SIZE = PAGE_SIZE * (q + 1)
      /\ q * PAGE_SIZE = PAGE_SIZE * q /\ PAGE_SIZE * q \in Nat
  BY <1>1, <1>2
<1>. QED  BY <1>1, <1>2, <1>3, <1>4

(* The header of the boot loader's module stays what it was.               *)
LEMMA HeaderFixed == [Next]_vars => mbi' = mbi
<1> SUFFICES ASSUME [Next]_vars
             PROVE  mbi' = mbi
  OBVIOUS
<1>1. CASE Start
  <2>1. CASE Next_loader
    BY <2>1 DEF Next_loader, loader_main, ScanEntry, init_segments_parameters, init_gdt_loader,
                copy_data, copy_code, goto_kernel, layoutVars
  <2>2. CASE Next_start
    BY <2>2 DEF Next_start, init_memory_manager, init_gdt_kernel, init_idt, init_paging, layoutVars
  <2>3. CASE Next_boot_heap
    BY <2>3 DEF Next_boot_heap, init_heap, init_keyboard, initialize_syscalls, IRQ_RES, init_buf,
                SmallBin, layoutVars
  <2>. QED  BY <1>1, <2>1, <2>2, <2>3 DEF Start
<1>2. CASE LoadModule
  BY <1>2 DEF LoadModule, load_code_pages, clean_code, copy_code_byte, load_data_and_stack,
              load_stack, save_kernel_state, jump_to_module_code, LoopVars, bootVars, layoutVars
<1>3. CASE Handle
  BY <1>3 DEF Handle, handler_returns, exit_module, panic, exit_label, bootVars, layoutVars
<1>4. CASE Request
  BY <1>4 DEF Request, Next_requests, calloc, malloc, klmalloc, start_module, bootVars, layoutVars
<1>5. CASE UseModule \/ Interrupt
  BY <1>5 DEF UseModule, Interrupt, ModuleInt, ModulePageFault, Irq, NonMaskable, Enter,
              bootVars, layoutVars
<1>6. CASE UNCHANGED vars
  BY <1>6 DEF vars, loaderVars, layoutVars
<1>. QED  BY <1>1, <1>2, <1>3, <1>4, <1>5, <1>6 DEF Next

-----------------------------------------------------------------------------
(* Steps that store no byte of the code and take up no part of the loading.*)
LEMMA CodeLeftAlone ==
  ASSUME CodeInv, mbi' = mbi, UNCHANGED <<code_mem, at, strays, loaded>>,
         initialized => initialized', disturbed => disturbed',
         Underway' \cap Loading \subseteq Underway,
         GsInLoops'
  PROVE  CodeInv'
<1>1. Header' = Header /\ CodeLen' = CodeLen
  BY DEF Header, CodeLen, CodePages
<1>2. \A n : Copied(n) => Copied(n)'
  BY <1>1 DEF Copied
<1>3. \A m, n : Zeroed(m, n) => Zeroed(m, n)'
  BY <1>1 DEF Zeroed
<1>4. Progress
  BY DEF CodeInv
<1>5. Underway' \cap Loading # {} => initialized' /\ ~loaded'
  BY <1>4 DEF Progress
<1>6. {"clean", "copy", "load data", "load stack"} \subseteq Loading
  BY DEF Loading, Loops
<1>7. "clean" \in Underway' \/ "copy" \in Underway' =>
        code_mem' = [i \in 0 .. CodeLen' - 1 |-> code_mem'[i]] /\ at' \in Nat
  BY <1>1, <1>4, <1>6 DEF Progress
<1>8. "clean" \in Underway' => Zeroed(0, at - 1)'
  BY <1>3, <1>4, <1>6 DEF Progress, Zeroed
<1>9. "copy" \in Underway' => at' <= Header'.code_size /\ Copied(at)' /\ Zeroed(at, CodeLen - 4)'
  BY <1>1, <1>2, <1>3, <1>4, <1>6 DEF Progress, Copied, Zeroed
<1>10. "load data" \in Underway' \/ "load stack" \in Underway' \/ loaded' =>
         Copied(Header.code_size)' /\ Zeroed(Header.code_size, CodeLen - 4)'
  BY <1>1, <1>2, <1>3, <1>4, <1>6 DEF Progress, Copied, Zeroed
<1>. QED  BY <1>5, <1>7, <1>8, <1>9, <1>10 DEF CodeInv, Progress

LEMMA InitCodeInv == Init => CodeInv
<1> SUFFICES ASSUME Init
             PROVE  CodeInv
  OBVIOUS
<1>1. kstack = <<T>> /\ pc = "terminal" /\ ~loaded /\ strays = {}
  BY DEF Init, Init_module, T
<1>2. \A i \in DOMAIN kstack : kstack[i].what # "interrupt"
  BY <1>1 DEF T, Frame
<1>3. Underway \cap Loading = {}
  BY <1>1, <1>2 DEF Underway, Loading, Loops
<1>. QED  BY <1>1, <1>2, <1>3 DEF CodeInv, GsInLoops, Progress, Loading, Loops

LEMMA CodeSizes ==
  ASSUME IInv, initialized
  PROVE  /\ Header.code_size \in Nat /\ Header.code_offset \in Nat
         /\ CodeMax(Header) = Header.code_offset + Header.code_size
         /\ CodeLen \in Nat /\ Header.code_size <= CodeLen
<1>1. HeaderIsTyped(Header)
  BY HeadersAssumption DEF IInv, LoaderInv, Chosen, Header, HeaderIsTyped
<1>2. Header.code_size \in Word /\ Header.code_offset \in Word
  BY <1>1 DEF HeaderIsTyped
<1>3. CodeMax(Header) = Header.code_offset + Header.code_size
  BY <1>1, CodeDoesNotWrap DEF IInv, KernelInv, HeaderAdmitted
<1>4. CodePages \in Nat /\ Header.code_size <= CodePages * PAGE_SIZE
  BY <1>2, CodeFitsItsPages DEF CodePages
<1>5. CodeLen \in Nat
  BY <1>4, Spans DEF CodeLen
<1>. QED  BY <1>2, <1>3, <1>4, <1>5, Spans DEF CodeLen, Word

(* What goes on when one part of the loading follows another, or goes on.  *)
LEMMA LoadsAlone ==
  ASSUME LInv, LInv', stage = "running", pc \in Programs, pc' \in Programs
  PROVE  /\ Underway = {pc} /\ Underway' = {pc'}
         /\ \A i \in DOMAIN kstack' : kstack'[i].what # "interrupt"
<1>1. OnlyProgram /\ OnlyProgram'
  BY ProgramRunsAlone, ProgramRunsAloneNext
<1>. QED  BY <1>1 DEF OnlyProgram, Underway

LEMMA CleanCodeInv ==
  ASSUME CodeInv, IInv, LInv, LInv', clean_code
  PROVE  CodeInv'
<1>1. stage = "running" /\ pc = "clean" /\ pc \in Programs /\ pc' \in {"clean", "copy"}
      /\ pc' \in Programs
  BY DEF clean_code, At, Programs, Starting
<1>2. /\ Underway = {pc} /\ Underway' = {pc'}
      /\ \A i \in DOMAIN kstack' : kstack'[i].what # "interrupt"
  BY <1>1, LoadsAlone
<1>3. UNCHANGED <<cpu, disturbed, loaded, initialized, mbi>>
  BY DEF clean_code, LoopVars, bootVars, layoutVars, processorVars, flagVars
<1>4. Header' = Header /\ CodeLen' = CodeLen
  BY <1>3 DEF Header, CodeLen, CodePages
<1>5. /\ initialized /\ ~loaded /\ at \in Nat
      /\ code_mem = [i \in 0 .. CodeLen - 1 |-> code_mem[i]]
  BY <1>1, <1>2 DEF CodeInv, Progress, Loading, Loops
<1>9. ~disturbed => strays = {} /\ cpu.gs.sel = 56 /\ \A i \in 0 .. at - 1 : code_mem[i] = ZERO
  BY <1>1, <1>2 DEF CodeInv, Progress, GsInLoops, Loading, Loops, Zeroed
<1>6. CodeLen \in Nat /\ Header.code_size \in Nat /\ CleanEnd = CodeLen - 3
  BY <1>5, CodeSizes DEF CleanEnd, CodeLen
<1>7. CASE at < CleanEnd /\ StoreByte(ZERO) /\ at' = at + 1 /\ pc' = pc
  <2>1. /\ code_mem' = IF cpu.gs.sel # 56 THEN code_mem ELSE [code_mem EXCEPT ![at] = ZERO]
        /\ strays' = IF cpu.gs.sel # 56 THEN strays \cup {at} ELSE strays
    BY <1>7 DEF StoreByte
  <2>2. code_mem' = [i \in 0 .. CodeLen - 1 |-> code_mem'[i]] /\ at' \in Nat
    <3>1. at' \in Nat
      BY <1>5, <1>7
    <3>2. CASE cpu.gs.sel # 56
      BY <1>5, <2>1, <3>1, <3>2
    <3>3. CASE cpu.gs.sel = 56
      <4>1. code_mem' = [code_mem EXCEPT ![at] = ZERO]
        BY <2>1, <3>3
      <4>. QED  BY <1>5, <3>1, <4>1
    <3>. QED  BY <3>2, <3>3
  <2>3. ~disturbed' => strays' = {} /\ cpu'.gs.sel = 56
    BY <1>3, <1>9, <2>1
  <2>4. ~disturbed' => \A i \in 0 .. at' - 1 : code_mem'[i] = ZERO
    <3> SUFFICES ASSUME ~disturbed, NEW i \in 0 .. at
                 PROVE  code_mem'[i] = ZERO
      BY <1>3, <1>5, <1>7
    <3>1. at \in 0 .. CodeLen - 1 /\ i \in 0 .. CodeLen - 1
      BY <1>5, <1>6, <1>7
    <3>2. code_mem' = [code_mem EXCEPT ![at] = ZERO]
      BY <1>9, <2>1
    <3>3. code_mem'[i] = IF i = at THEN ZERO ELSE code_mem[i]
      BY <1>5, <3>1, <3>2
    <3>4. i # at => i \in 0 .. at - 1
      BY <1>5
    <3>. QED  BY <1>9, <3>3, <3>4
  <2>5. GsInLoops'
    BY <1>2, <2>3 DEF GsInLoops
  <2>6. Progress'
    <3>1. Underway' \cap Loading # {} => initialized' /\ ~loaded'
      BY <1>3, <1>5
    <3>2. "copy" \notin Underway' /\ "load data" \notin Underway' /\ "load stack" \notin Underway' /\ ~loaded'
      BY <1>1, <1>2, <1>3, <1>5, <1>7
    <3>3. Zeroed(0, at - 1)'
      BY <2>4 DEF Zeroed
    <3>. QED  BY <1>4, <2>2, <3>1, <3>2, <3>3 DEF Progress
  <2>. QED  BY <2>5, <2>6 DEF CodeInv
<1>8. CASE at >= CleanEnd /\ pc' = "copy" /\ at' = 0 /\ UNCHANGED <<code_mem, strays>>
  <2>1. GsInLoops'
    BY <1>2, <1>3, <1>8, <1>9 DEF GsInLoops
  <2>2. ~disturbed' => \A i \in 0 .. CodeLen - 4 : code_mem'[i] = ZERO
    <3>1. \A i \in 0 .. CodeLen - 4 : i \in 0 .. at - 1
      BY <1>5, <1>6, <1>8
    <3>. QED  BY <1>3, <1>8, <1>9, <3>1
  <2>3. Zeroed(at, CodeLen - 4)'
    BY <1>4, <1>8, <2>2 DEF Zeroed
  <2>4. Copied(at)' /\ at' <= Header'.code_size
    BY <1>4, <1>6, <1>8 DEF Copied
  <2>5. Progress'
    <3>1. Underway' \cap Loading # {} => initialized' /\ ~loaded'
      BY <1>3, <1>5
    <3>2. "clean" \notin Underway' /\ "load data" \notin Underway' /\ "load stack" \notin Underway' /\ ~loaded'
      BY <1>2, <1>3, <1>5, <1>8
    <3>3. code_mem' = [i \in 0 .. CodeLen' - 1 |-> code_mem'[i]] /\ at' \in Nat
      BY <1>4, <1>5, <1>8
    <3>. QED  BY <2>3, <2>4, <3>1, <3>2, <3>3 DEF Progress
  <2>. QED  BY <2>1, <2>5 DEF CodeInv
<1>. QED  BY <1>7, <1>8 DEF clean_code

LEMMA CopyCodeInv ==
  ASSUME CodeInv, IInv, LInv, LInv', copy_code_byte
  PROVE  CodeInv'
<1>1. stage = "running" /\ pc = "copy" /\ pc \in Programs /\ pc' \in {"copy", "load data"}
      /\ pc' \in Programs
  BY DEF copy_code_byte, At, Programs, Starting
<1>2. /\ Underway = {pc} /\ Underway' = {pc'}
      /\ \A i \in DOMAIN kstack' : kstack'[i].what # "interrupt"
  BY <1>1, LoadsAlone
<1>3. UNCHANGED <<cpu, disturbed, loaded, initialized, mbi>>
  BY DEF copy_code_byte, LoopVars, bootVars, layoutVars, processorVars, flagVars
<1>4. Header' = Header /\ CodeLen' = CodeLen
  BY <1>3 DEF Header, CodeLen, CodePages
<1>5. initialized /\ ~loaded /\ at \in Nat /\ at <= Header.code_size
  BY <1>1, <1>2 DEF CodeInv, Progress, Loading, Loops
<1>9. code_mem = [i \in 0 .. CodeLen - 1 |-> code_mem[i]]
  BY <1>1, <1>2 DEF CodeInv, Progress
<1>10. /\ ~disturbed => strays = {} /\ cpu.gs.sel = 56
      /\ Copied(at) /\ Zeroed(at, CodeLen - 4)
  BY <1>1, <1>2 DEF CodeInv, Progress, GsInLoops, Loading, Loops
<1>6. /\ CodeLen \in Nat /\ Header.code_size \in Nat /\ Header.code_offset \in Nat
      /\ CodeMax(Header) = Header.code_offset + Header.code_size
      /\ Header.code_size <= CodeLen
  BY <1>5, CodeSizes
<1>7. CASE Header.code_offset + at < CodeMax(Header)
           /\ StoreByte(Header.code_offset + at) /\ at' = at + 1 /\ pc' = pc
  <2> DEFINE byte == Header.code_offset + at
  <2>1. at < Header.code_size /\ at \in 0 .. CodeLen - 1
    BY <1>5, <1>6, <1>7
  <2>2. /\ code_mem' = IF cpu.gs.sel # 56 THEN code_mem ELSE [code_mem EXCEPT ![at] = byte]
        /\ strays' = IF cpu.gs.sel # 56 THEN strays \cup {at} ELSE strays
    BY <1>7 DEF StoreByte
  <2>3. code_mem' = [i \in 0 .. CodeLen - 1 |-> code_mem'[i]] /\ at' \in Nat
    <3>1. at' \in Nat
      BY <1>5, <1>7
    <3>2. CASE cpu.gs.sel # 56
      BY <1>9, <2>2, <3>1, <3>2
    <3>3. CASE cpu.gs.sel = 56
      <4>1. code_mem' = [code_mem EXCEPT ![at] = byte]
        BY <2>2, <3>3
      <4>. QED  BY <1>9, <3>1, <4>1
    <3>. QED  BY <3>2, <3>3
  <2>4. ~disturbed' => strays' = {} /\ cpu'.gs.sel = 56
    BY <1>3, <1>10, <2>2
  <2>5. \A i \in 0 .. CodeLen - 1 : i # at => code_mem'[i] = code_mem[i]
    BY <1>9, <2>2
  <2>6. code_mem'[at] = byte \/ (disturbed /\ at \in strays')
    <3>1. CASE cpu.gs.sel # 56
      <4>1. disturbed
        BY <1>10, <3>1
      <4>. QED  BY <2>2, <3>1, <4>1
    <3>2. CASE cpu.gs.sel = 56
      <4>1. code_mem' = [code_mem EXCEPT ![at] = byte]
        BY <2>2, <3>2
      <4>. QED  BY <1>9, <2>1, <4>1
    <3>. QED  BY <3>1, <3>2
  <2> HIDE DEF byte
  <2>7. Copied(at)'
    <3> SUFFICES ASSUME NEW i \in 0 .. at
                 PROVE  code_mem'[i] = Header.code_offset + i \/ (disturbed /\ i \in strays')
      BY <1>3, <1>4, <1>5, <1>7 DEF Copied
    <3>1. CASE i = at
      BY <2>6, <3>1 DEF byte
    <3>2. CASE i # at
      <4>1. i \in 0 .. at - 1 /\ i \in 0 .. CodeLen - 1
        <5>1. at \in Nat /\ CodeLen \in Nat /\ at <= CodeLen
          BY <1>5, <1>6
        <5>. QED  BY <3>2, <5>1
      <4>2. code_mem[i] = Header.code_offset + i \/ (disturbed /\ i \in strays)
        BY <1>10, <4>1 DEF Copied
      <4>3. strays \subseteq strays'
        BY <2>2
      <4>. QED  BY <2>5, <3>2, <4>1, <4>2, <4>3
    <3>. QED  BY <3>1, <3>2
  <2>8. Zeroed(at, CodeLen - 4)'
    <3> SUFFICES ASSUME ~disturbed, NEW i \in at + 1 .. CodeLen - 4
                 PROVE  code_mem'[i] = ZERO
      BY <1>3, <1>4, <1>7 DEF Zeroed
    <3>1. i \in at .. CodeLen - 4 /\ i \in 0 .. CodeLen - 1 /\ i # at
      BY <1>5, <1>6
    <3>2. code_mem[i] = ZERO
      BY <1>10, <3>1 DEF Zeroed
    <3>. QED  BY <2>5, <3>1, <3>2
  <2>9. at' <= Header'.code_size
    BY <1>4, <1>5, <1>6, <1>7, <2>1
  <2>10. GsInLoops'
    BY <1>2, <2>4 DEF GsInLoops
  <2>11. Progress'
    <3>1. Underway' \cap Loading # {} => initialized' /\ ~loaded'
      BY <1>3, <1>5
    <3>2. "clean" \notin Underway' /\ "load data" \notin Underway' /\ "load stack" \notin Underway' /\ ~loaded'
      BY <1>1, <1>2, <1>3, <1>5, <1>7
    <3>. QED  BY <1>4, <2>3, <2>7, <2>8, <2>9, <3>1, <3>2 DEF Progress
  <2>. QED  BY <2>10, <2>11 DEF CodeInv
<1>8. CASE Header.code_offset + at >= CodeMax(Header) /\ pc' = "load data"
           /\ UNCHANGED <<code_mem, strays, at>>
  <2>1. at = Header.code_size
    <3>1. at \in Nat /\ at <= Header.code_size /\ Header.code_size \in Nat
          /\ Header.code_offset \in Nat
          /\ Header.code_offset + at >= Header.code_offset + Header.code_size
      BY <1>5, <1>6, <1>8
    <3>. QED  BY <3>1
  <2>2. GsInLoops'
    BY <1>2, <1>3, <1>8, <1>10 DEF GsInLoops, Loops
  <2>3. Copied(Header.code_size)' /\ Zeroed(Header.code_size, CodeLen - 4)'
    BY <1>3, <1>4, <1>8, <1>10, <2>1 DEF Copied, Zeroed
  <2>4. Progress'
    <3>1. Underway' \cap Loading # {} => initialized' /\ ~loaded'
      BY <1>3, <1>5
    <3>2. "clean" \notin Underway' /\ "copy" \notin Underway'
      BY <1>2, <1>8
    <3>. QED  BY <2>3, <3>1, <3>2 DEF Progress
  <2>. QED  BY <2>2, <2>4 DEF CodeInv
<1>. QED  BY <1>7, <1>8 DEF copy_code_byte

(* The other parts of the loading.                                         *)
LEMMA LoadModuleCodeInv ==
  ASSUME CodeInv, IInv, LInv, LInv', mbi' = mbi, LoadModule
  PROVE  CodeInv'
<1>1. stage = "running" /\ pc \in Programs
  BY DEF LoadModule, load_code_pages, clean_code, copy_code_byte, load_data_and_stack,
         load_stack, save_kernel_state, jump_to_module_code, At, Programs, Starting
<1>2. pc' \in Programs => /\ Underway = {pc} /\ Underway' = {pc'}
                          /\ \A i \in DOMAIN kstack' : kstack'[i].what # "interrupt"
  BY <1>1, LoadsAlone
<1>3. CASE load_code_pages
  <2>1. pc = "load code" /\ pc' = "clean" /\ at' = 0 /\ pc' \in Programs
    BY <1>3 DEF load_code_pages, At, Programs, Starting
  <2>2. UNCHANGED <<strays, disturbed, loaded, initialized>>
    BY <1>3 DEF load_code_pages, flagVars
  <2>3. initialized /\ ~loaded /\ (~disturbed => strays = {})
    BY <1>2, <2>1 DEF CodeInv, Progress, GsInLoops, Loading, Loops
  <2>4. CodeLen' = CodeLen
    BY DEF CodeLen, CodePages, Header
  <2>5. code_mem' = [i \in 0 .. CodeLen' - 1 |-> code_mem'[i]]
    <3>1. code_mem' = [i \in 0 .. CodeLen - 1 |-> JUNK]
      BY <1>3 DEF load_code_pages, CodeLen
    <3>. QED  BY <2>4, <3>1
  <2>6. cpu'.gs.sel = 56
    <3>1. "gs" \in Registers /\ "gs" \in DOMAIN [gs |-> 56]
      BY DEF Registers
    <3>. QED  BY <1>3, <3>1, Selectors DEF load_code_pages
  <2>7. GsInLoops'
    BY <1>2, <2>1, <2>2, <2>3, <2>6 DEF GsInLoops
  <2>8. Zeroed(0, at - 1)'
    <3>1. \A i \in 0 .. 0 - 1 : FALSE
      OBVIOUS
    <3>. QED  BY <2>1, <3>1 DEF Zeroed
  <2>9. Underway' = {"clean"}
    BY <1>2, <2>1
  <2>10. Progress'
    BY <2>1, <2>2, <2>3, <2>5, <2>8, <2>9 DEF Progress
  <2>. QED  BY <2>7, <2>10 DEF CodeInv
<1>4. CASE clean_code
  BY <1>4, CleanCodeInv
<1>5. CASE copy_code_byte
  BY <1>5, CopyCodeInv
<1>6. CASE load_data_and_stack
  <2>1. pc = "load data" /\ pc' = "load stack" /\ pc' \in Programs
    BY <1>6 DEF load_data_and_stack, At, MapData, Programs, Starting
  <2>2. UNCHANGED <<code_mem, at, strays, disturbed, loaded, initialized>>
    BY <1>6 DEF load_data_and_stack, flagVars, codeVars
  <2>3. Underway = {"load data"} /\ Underway' = {"load stack"}
    BY <1>2, <2>1
  <2>4. Header' = Header /\ CodeLen' = CodeLen
    BY DEF CodeLen, CodePages, Header
  <2>5. Copied(Header.code_size)' /\ Zeroed(Header.code_size, CodeLen - 4)'
    BY <2>2, <2>3, <2>4 DEF CodeInv, Progress, Copied, Zeroed
  <2>6. initialized' /\ ~loaded'
    BY <2>2, <2>3 DEF CodeInv, Progress, Loading
  <2>7. GsInLoops'
    BY <1>2, <2>1, <2>2 DEF CodeInv, GsInLoops, Loops
  <2>8. Progress'
    BY <2>3, <2>5, <2>6 DEF Progress
  <2>. QED  BY <2>7, <2>8 DEF CodeInv
<1>7. CASE load_stack
  <2>1. pc = "load stack" /\ pc' = "save" /\ pc' \in Programs
    BY <1>7 DEF load_stack, At, MapData, Programs, Starting
  <2>2. UNCHANGED <<code_mem, at, strays, disturbed, initialized>> /\ loaded' = TRUE
    BY <1>7 DEF load_stack, codeVars
  <2>3. Underway = {"load stack"} /\ Underway' = {"save"}
    BY <1>2, <2>1
  <2>4. Header' = Header /\ CodeLen' = CodeLen
    BY DEF CodeLen, CodePages, Header
  <2>5. Copied(Header.code_size)' /\ Zeroed(Header.code_size, CodeLen - 4)'
    BY <2>2, <2>3, <2>4 DEF CodeInv, Progress, Copied, Zeroed
  <2>6. GsInLoops'
    BY <1>2, <2>1, <2>2 DEF CodeInv, GsInLoops, Loops
  <2>7. Progress'
    BY <2>3, <2>5 DEF Progress, Loading, Loops
  <2>. QED  BY <2>6, <2>7 DEF CodeInv
<1>8. ASSUME UNCHANGED <<codeVars, loaded, initialized>>, pc' \in {"jump", "module"}
      PROVE  CodeInv'
  <2>1. pc' \in Programs /\ Underway' \cap Loading = {}
    BY <1>2, <1>8 DEF Programs, Starting, Loading, Loops
  <2>2. GsInLoops'
    BY <1>2, <1>8, <2>1 DEF CodeInv, GsInLoops, Loops, codeVars
  <2>. QED  BY <1>8, <2>1, <2>2, CodeLeftAlone DEF codeVars
<1>9. CASE save_kernel_state
  BY <1>8, <1>9 DEF save_kernel_state, flagVars
<1>10. CASE jump_to_module_code
  BY <1>8, <1>10 DEF jump_to_module_code
<1>. QED  BY <1>3, <1>4, <1>5, <1>6, <1>7, <1>9, <1>10 DEF LoadModule

(* An interrupt, a call or a fault puts what was running into a frame upon *)
(* the others, some of them if it was a module.                            *)
EntryFrame(vector, eax) ==
  [what |-> "interrupt", vector |-> vector, eax |-> eax,
   user |-> pc = "module", pc |-> pc, flag |-> interrupts,
   regs |-> [r \in Registers |-> cpu[r].sel]]

LEMMA EnterFrames ==
  ASSUME LInv, NEW vector, NEW eax, Enter(vector, eax)
  PROVE  \A i \in DOMAIN kstack' :
           \/ i \in DOMAIN kstack /\ kstack'[i] = kstack[i]
           \/ kstack'[i] = EntryFrame(vector, eax)
<1> DEFINE f == EntryFrame(vector, eax)
           below == IF pc = "module" THEN SubSeq(kstack, 1, tss.esp0) ELSE kstack
<1>1. kstack' = Append(below, f)
  BY DEF Enter, EntryFrame
<1>2. kstack \in Seq({kstack[i] : i \in DOMAIN kstack}) /\ DOMAIN kstack = 1 .. Len(kstack)
      /\ Len(kstack) \in Nat
  BY LenProperties DEF LInv
<1>3. /\ below \in Seq({kstack[i] : i \in DOMAIN kstack}) /\ Len(below) \in Nat
      /\ Len(below) <= Len(kstack) /\ \A i \in 1 .. Len(below) : below[i] = kstack[i]
  <2>1. CASE pc = "module"
    <3>1. running /\ kstack = Base(pc)
      BY <2>1 DEF LInv, Programs
    <3>2. tss.esp0 = 2 /\ Len(kstack) = 2
      <4>1. Depth(pc) = 2
        BY <2>1 DEF Depth
      <4>. QED  BY <3>1, <4>1, Bases DEF LInv, SavedIsGood
    <3>. QED  BY <1>2, <2>1, <3>2, CutFrames
  <2>2. CASE pc # "module"
    BY <1>2, <2>2
  <2>. QED  BY <2>1, <2>2
<1> HIDE DEF f, below
<1>4. /\ Len(kstack') = Len(below) + 1 /\ DOMAIN kstack' = 1 .. Len(kstack')
      /\ \A i \in 1 .. Len(below) : kstack'[i] = below[i]
      /\ kstack'[Len(below) + 1] = f
  <2>1. kstack' \in Seq({kstack'[i] : i \in DOMAIN kstack'})
    BY <1>1, <1>3, PushFrame, SMTT(30)
  <2>. QED  BY <1>1, <1>3, <2>1, PushFrame, LenProperties
<1> SUFFICES ASSUME NEW i \in DOMAIN kstack', i # Len(below) + 1
             PROVE  i \in DOMAIN kstack /\ kstack'[i] = kstack[i]
  BY <1>4 DEF f
<1>5. i \in 1 .. Len(below) /\ i \in 1 .. Len(kstack)
  BY <1>2, <1>3, <1>4, SMTT(30)
<1>. QED  BY <1>2, <1>3, <1>4, <1>5

(* A handler that comes back takes its own frame off the stack.            *)
LEMMA ReturnFrames ==
  ASSUME LInv, handler_returns
  PROVE  /\ Len(kstack) \in DOMAIN kstack /\ Top.what = "interrupt"
         /\ \A i \in DOMAIN kstack' : i \in DOMAIN kstack /\ kstack'[i] = kstack[i]
<1>1. kstack \in Seq({kstack[i] : i \in DOMAIN kstack}) /\ DOMAIN kstack = 1 .. Len(kstack)
      /\ Len(kstack) \in Nat
  BY LenProperties DEF LInv
<1>2. PICK p \in Programs : HandlerFrames(p)
  BY TopFrame DEF handler_returns
<1>3. Len(kstack) \in DOMAIN kstack /\ Top.what = "interrupt"
      /\ Len(kstack) - 1 \in 0 .. Len(kstack)
  <2>1. Depth(p) \in {1, 2} /\ Len(kstack) > Depth(p)
    BY <1>2, Bases DEF HandlerFrames
  <2>2. Len(kstack) \in Depth(p) + 1 .. Len(kstack)
    BY <1>1, <2>1
  <2>. QED  BY <1>1, <1>2, <2>1, <2>2 DEF HandlerFrames, Top
<1>4. kstack' = SubSeq(kstack, 1, Len(kstack) - 1)
  BY DEF handler_returns
<1>5. /\ kstack' \in Seq({kstack[i] : i \in DOMAIN kstack}) /\ Len(kstack') = Len(kstack) - 1
      /\ \A i \in 1 .. Len(kstack) - 1 : kstack'[i] = kstack[i]
  BY <1>1, <1>3, <1>4, CutFrames
<1>6. DOMAIN kstack' = 1 .. Len(kstack) - 1
  BY <1>5, LenProperties
<1>. QED  BY <1>1, <1>3, <1>5, <1>6

LEMMA EnterCodeInv ==
  ASSUME CodeInv, LInv, mbi' = mbi, NEW vector, NEW eax, Enter(vector, eax)
  PROVE  CodeInv'
<1> DEFINE f == EntryFrame(vector, eax)
<1>1. pc' = "handler" /\ UNCHANGED <<code_mem, at, strays, disturbed, loaded, initialized>>
  BY DEF Enter, codeVars, flagVars
<1>2. f.what = "interrupt" /\ f.pc = pc /\ f.regs.gs = cpu.gs.sel
  BY DEF Registers, EntryFrame
<1>3. \A i \in DOMAIN kstack' :
        \/ i \in DOMAIN kstack /\ kstack'[i] = kstack[i]
        \/ kstack'[i] = f
  BY EnterFrames
<1> HIDE DEF f
<1>4. Underway' \cap Loading \subseteq Underway
  BY <1>1, <1>2, <1>3 DEF Underway, Loading, Loops
<1>5. GsInLoops'
  <2> SUFFICES ASSUME ~disturbed
               PROVE  /\ strays' = {}
                      /\ \A i \in DOMAIN kstack' :
                           kstack'[i].what = "interrupt" /\ kstack'[i].pc \in Loops
                             => kstack'[i].regs.gs = 56
    BY <1>1 DEF GsInLoops, Loops
  <2>1. /\ strays = {} /\ (pc \in Loops => cpu.gs.sel = 56)
        /\ \A i \in DOMAIN kstack :
             kstack[i].what = "interrupt" /\ kstack[i].pc \in Loops => kstack[i].regs.gs = 56
    BY DEF CodeInv, GsInLoops
  <2>. QED  BY <1>1, <1>2, <1>3, <2>1
<1>. QED  BY <1>1, <1>4, <1>5, CodeLeftAlone

LEMMA HandleCodeInv ==
  ASSUME CodeInv, LInv, LInv', mbi' = mbi, Handle
  PROVE  CodeInv'
<1>2. CASE handler_returns
  <2>2. Len(kstack) \in DOMAIN kstack /\ Top.what = "interrupt"
    BY <1>2, ReturnFrames
  <2>4. \A i \in DOMAIN kstack' : i \in DOMAIN kstack /\ kstack'[i] = kstack[i]
    BY <1>2, ReturnFrames
  <2>3. /\ pc' = Top.pc
        /\ disturbed' = (disturbed \/ (Top.pc \in Loops /\ cpu'.gs.sel # Top.regs.gs))
        /\ UNCHANGED <<code_mem, at, strays, loaded, initialized>>
    BY <1>2 DEF handler_returns, flagVars, Loops
  <2>5. Underway' \subseteq Underway
    BY <2>2, <2>3, <2>4 DEF Underway, Top
  <2>6. GsInLoops'
    <3> SUFFICES ASSUME ~disturbed'
                 PROVE  /\ strays' = {}
                        /\ pc' \in Loops => cpu'.gs.sel = 56
                        /\ \A i \in DOMAIN kstack' :
                             kstack'[i].what = "interrupt" /\ kstack'[i].pc \in Loops
                               => kstack'[i].regs.gs = 56
      BY DEF GsInLoops
    <3>1. ~disturbed /\ (Top.pc \in Loops => cpu'.gs.sel = Top.regs.gs)
      BY <2>3
    <3>2. /\ strays = {}
          /\ \A i \in DOMAIN kstack :
               kstack[i].what = "interrupt" /\ kstack[i].pc \in Loops => kstack[i].regs.gs = 56
      BY <3>1 DEF CodeInv, GsInLoops
    <3>3. Top.pc \in Loops => Top.regs.gs = 56
      BY <2>2, <3>2 DEF Top
    <3>. QED  BY <2>3, <2>4, <3>1, <3>2, <3>3
  <2>7. disturbed => disturbed'
    BY <2>3
  <2>. QED  BY <2>3, <2>5, <2>6, <2>7, CodeLeftAlone
<1>3. ASSUME UNCHANGED <<codeVars, loaded, initialized>>, pc' \in {"exit_label", "terminal"}
      PROVE  CodeInv'
  <2>1. OnlyProgram'
    BY ProgramRunsAloneNext
  <2>2. pc' \in Programs /\ Underway' \cap Loading = {}
    BY <1>3, <2>1 DEF OnlyProgram, Programs, Starting, Loading, Loops
  <2>3. GsInLoops'
    BY <1>3, <2>1, <2>2 DEF CodeInv, GsInLoops, Loops, codeVars, OnlyProgram
  <2>. QED  BY <1>3, <2>2, <2>3, CodeLeftAlone DEF codeVars
<1>4. CASE exit_module
  BY <1>3, <1>4 DEF exit_module
<1>5. CASE panic
  <2>1. UNCHANGED <<code_mem, at, strays, disturbed, loaded, initialized, pc, kstack, cpu>>
    BY <1>5 DEF panic, moduleVars, codeVars, flagVars, processorVars
  <2>2. GsInLoops' /\ Underway' = Underway
    BY <2>1 DEF CodeInv, GsInLoops, Underway
  <2>. QED  BY <2>1, <2>2, CodeLeftAlone
<1>6. CASE exit_label
  BY <1>3, <1>6 DEF exit_label, flagVars
<1>. QED  BY <1>2, <1>4, <1>5, <1>6 DEF Handle

LEMMA NextCodeInv == CodeInv /\ IInv /\ LInv /\ LInv' /\ [Next]_vars => CodeInv'
<1> SUFFICES ASSUME CodeInv, IInv, LInv, LInv', [Next]_vars
             PROVE  CodeInv'
  OBVIOUS
<1>1. mbi' = mbi
  BY HeaderFixed
(* Steps of the start, and requests: what runs is no part of the loading.  *)
<1>2. ASSUME UNCHANGED moduleVars, pc \notin Loops
      PROVE  CodeInv'
  <2>1. UNCHANGED <<code_mem, at, strays, disturbed, loaded, initialized, pc, kstack>>
    BY <1>2 DEF moduleVars, codeVars, flagVars
  <2>2. GsInLoops' /\ Underway' = Underway
    BY <1>2, <2>1 DEF CodeInv, GsInLoops, Underway
  <2>. QED  BY <1>1, <2>1, <2>2, CodeLeftAlone
<1>3. CASE Start
  <2>1. pc = "terminal"
    <3>1. Next_loader \/ Next_start => stage \notin Interrupted \cup {"halted", "wrecked"}
      BY DEF Next_loader, loader_main, ScanEntry, init_segments_parameters, init_gdt_loader,
             copy_data, copy_code, goto_kernel, Next_start, init_memory_manager, init_gdt_kernel,
             init_idt, init_paging, Interrupted
    <3>. QED  BY <1>3, <3>1 DEF Start, LInv
  <2>. QED  BY <1>2, <1>3, <2>1 DEF Start, Loops
<1>4. CASE Request /\ UNCHANGED moduleVars
  BY <1>2, <1>4 DEF Request, At, Loops
<1>5. CASE start_module
  <2>1. /\ pc = "terminal" /\ pc' \in {"terminal", "save", "load code"} /\ pc' \in Programs
        /\ pc' = "load code" => initialized' /\ ~loaded
        /\ initialized => initialized'
    BY <1>5 DEF start_module, At, Programs, Starting
  <2>2. UNCHANGED <<code_mem, at, strays, disturbed, loaded>>
    BY <1>5 DEF start_module, codeVars
  <2>3. OnlyProgram'
    BY ProgramRunsAloneNext
  <2>4. Underway' = {pc'} /\ \A i \in DOMAIN kstack' : kstack'[i].what # "interrupt"
    BY <2>1, <2>3 DEF OnlyProgram
  <2>5. GsInLoops'
    BY <2>1, <2>2, <2>4 DEF CodeInv, GsInLoops, Loops
  <2>6. CASE pc' = "load code"
    <3>1. Underway' = {"load code"} /\ initialized' /\ ~loaded'
      BY <2>1, <2>2, <2>4, <2>6
    <3>2. Progress'
      BY <3>1 DEF Progress
    <3>. QED  BY <2>5, <3>2 DEF CodeInv
  <2>7. CASE pc' # "load code"
    <3>1. Underway' \cap Loading = {}
      BY <2>1, <2>4, <2>7 DEF Loading, Loops
    <3>. QED  BY <1>1, <2>1, <2>2, <2>5, <3>1, CodeLeftAlone
  <2>. QED  BY <2>6, <2>7
<1>6. CASE LoadModule
  BY <1>1, <1>6, LoadModuleCodeInv
<1>7. CASE Handle
  BY <1>1, <1>7, HandleCodeInv
<1>8. CASE UseModule \/ Interrupt
  BY <1>1, <1>8, EnterCodeInv DEF UseModule, Interrupt, ModuleInt, ModulePageFault, Irq, NonMaskable
<1>9. CASE UNCHANGED vars
  <2>1. UNCHANGED <<code_mem, at, strays, disturbed, loaded, initialized, pc, kstack, cpu>>
    BY <1>9 DEF vars, moduleVars, codeVars, flagVars, loaderVars, processorVars
  <2>2. GsInLoops' /\ Underway' = Underway
    BY <2>1 DEF CodeInv, GsInLoops, Underway
  <2>. QED  BY <1>1, <2>1, <2>2, CodeLeftAlone
<1>. QED  BY <1>3, <1>4, <1>5, <1>6, <1>7, <1>8, <1>9 DEF Next, Request

(* The code of a module is in its place once it is loaded, whatever        *)
(* interrupted the loading, or an interrupt changed gs and the bytes that  *)
(* are not in their place are the ones that went through it.               *)
THEOREM CodeWhole == Spec => []CodeIsWhole
<1>1. ASSUME CodeInv
      PROVE  CodeIsWhole
  BY <1>1 DEF CodeInv, Progress, GsInLoops, CodeIsWhole, Copied, Zeroed, CodeLen
<1>2. CodeInv => CodeIsWhole
  BY <1>1
<1>3. Spec => []CodeInv
  BY InitCodeInv, NextCodeInv, Invariance, LifecycleInvariance, PTL DEF Spec
<1>. QED  BY <1>2, <1>3, PTL

-----------------------------------------------------------------------------
(* Descriptors: the digits of a base and a limit, put together again.      *)
LEMMA Fields ==
  /\ LOW \in Nat \ {0} /\ MIDDLE \in Nat \ {0} /\ NIBBLE \in Nat \ {0}
  /\ LOW * MIDDLE \in Nat \ {0} /\ LOW * NIBBLE \in Nat \ {0}
  /\ (LOW * MIDDLE) * MIDDLE = MODULUS /\ LOW * (MIDDLE * MIDDLE) = MODULUS
  /\ PAGE_SIZE * (LOW * NIBBLE) = MODULUS
<1>1. /\ LOW \in Nat \ {0} /\ MIDDLE \in Nat \ {0} /\ NIBBLE \in Nat \ {0}
      /\ LOW * MIDDLE * MIDDLE = MODULUS
      /\ LOW * NIBBLE * PAGE_SIZE = MODULUS /\ PAGE_SIZE \in Nat
  BY FieldsAssumption, WordsAssumption
<1>2. LOW * MIDDLE \in Nat \ {0} /\ LOW * NIBBLE \in Nat \ {0}
  <2>1. LOW * 1 <= LOW * MIDDLE /\ LOW * 1 <= LOW * NIBBLE
    BY <1>1, Monotonic
  <2>2. LOW * MIDDLE \in Int /\ LOW * NIBBLE \in Int
    BY <1>1
  <2>. QED  BY <1>1, <2>1, <2>2
<1>3. LOW * (MIDDLE * MIDDLE) = LOW * MIDDLE * MIDDLE
  BY <1>1
<1>4. PAGE_SIZE * (LOW * NIBBLE) = LOW * NIBBLE * PAGE_SIZE
  BY <1>1
<1>. QED  BY <1>1, <1>2, <1>3, <1>4

LEMMA BaseIsKept ==
  ASSUME NEW base \in Word, NEW limit, NEW access, NEW gran
  PROVE  BaseOf(set_global_descriptor(base, limit, access, gran)) = base
<1> DEFINE q == base \div LOW
           r == base % LOW
           h == q \div MIDDLE
           m == q % MIDDLE
<1>1. base \in Nat /\ base < MODULUS
  BY Spans DEF Word
<1>2. q \in Nat /\ r \in 0 .. LOW - 1 /\ base = LOW * q + r
  BY <1>1, Division, Fields
<1>3. q < MIDDLE * MIDDLE
  <2>1. MIDDLE * MIDDLE \in Nat
    BY Fields
  <2>. QED  BY <1>1, <2>1, QuotientBelow, Fields
<1>4. h \in 0 .. MIDDLE - 1 /\ m \in 0 .. MIDDLE - 1 /\ q = MIDDLE * h + m
  <2> HIDE DEF q
  <2>. QED  BY <1>2, <1>3, Division, QuotientBelow, Fields
<1>5. base \div (LOW * MIDDLE) = h
  <2> HIDE DEF q, r, h, m
  <2>1. LOW * q = (LOW * MIDDLE) * h + LOW * m
    BY <1>2, <1>4, Fields
  <2>2. LOW * m + r \in 0 .. LOW * MIDDLE - 1
    <3>1. LOW * (m + 1) <= LOW * MIDDLE /\ LOW * (m + 1) = LOW * m + LOW /\ LOW * 0 <= LOW * m
      BY <1>4, Fields, Monotonic
    <3>2. LOW * m \in Int /\ LOW * 0 = 0
      BY <1>4, Fields
    <3>. QED  BY <1>2, <3>1, <3>2, Fields
  <2>3. base = (LOW * MIDDLE) * h + (LOW * m + r)
    <3>1. (LOW * MIDDLE) * h \in Int /\ LOW * m \in Int
      BY <1>4, Fields
    <3>. QED  BY <1>2, <2>1, <3>1
  <2>. QED  BY <1>1, <1>4, <2>2, <2>3, UniqueQuotient, Fields
<1>6. h % MIDDLE = h
  BY <1>4, SmallRemainder, Fields
<1> DEFINE d == set_global_descriptor(base, limit, access, gran)
<1>7. d.base_low = r /\ d.base_middle = m /\ d.base_high = h
  <2>1. d.base_low = base % LOW /\ d.base_middle = (base \div LOW) % MIDDLE
        /\ d.base_high = (base \div (LOW * MIDDLE)) % MIDDLE
    BY DEF set_global_descriptor
  <2> HIDE DEF d
  <2>. QED  BY <1>5, <1>6, <2>1
<1>8. BaseOf(d) = r + LOW * (m + MIDDLE * h)
  BY <1>7 DEF BaseOf
<1> HIDE DEF q, r, h, m, d
<1>9. r + LOW * (m + MIDDLE * h) = LOW * q + r
  <2>1. m + MIDDLE * h = q
    BY <1>4, Fields
  <2>. QED  BY <1>2, <2>1, Fields
<1>. QED  BY <1>2, <1>8, <1>9 DEF d

LEMMA LimitIsKept ==
  ASSUME NEW base, NEW limit \in 0 .. LOW * NIBBLE - 1, NEW access, NEW gran
  PROVE  LET d == set_global_descriptor(base, limit, access, gran)
         IN  /\ d.limit_low + LOW * d.limit_high = limit
             /\ d.access = access /\ d.gran = gran
<1> DEFINE q == limit \div LOW
           r == limit % LOW
           d == set_global_descriptor(base, limit, access, gran)
<1>1. limit \in Nat /\ limit < LOW * NIBBLE
  BY Fields
<1>2. q \in 0 .. NIBBLE - 1 /\ r \in 0 .. LOW - 1 /\ limit = LOW * q + r
  BY <1>1, Division, QuotientBelow, Fields
<1>3. q % NIBBLE = q
  BY <1>2, SmallRemainder, Fields
<1>4. d.limit_low = limit % LOW /\ d.limit_high = (limit \div LOW) % NIBBLE
      /\ d.access = access /\ d.gran = gran
  BY DEF set_global_descriptor
<1> HIDE DEF d
<1>5. d.limit_low = r /\ d.limit_high = q
  BY <1>3, <1>4
<1> HIDE DEF q, r
<1>6. r + LOW * q = limit
  BY <1>2, Fields
<1>. QED  BY <1>4, <1>5, <1>6 DEF d

(* A segment of pages is described, and a page more.                       *)
LEMMA PagesAreDescribed ==
  ASSUME NEW base \in Word, NEW len \in Word, NEW access
  PROVE  LET d == set_global_descriptor(base, Pages(len), access, "pages")
         IN  /\ d.access = access /\ BaseOf(d) = base
             /\ len <= Reach(d) /\ Reach(d) <= len + PAGE_SIZE
<1> DEFINE n == Pages(len)
           d == set_global_descriptor(base, n, access, "pages")
<1>1. len \in Nat /\ len < MODULUS /\ PAGE_SIZE \in Nat \ {0}
  BY Spans DEF Word
<1>2. n \in 0 .. LOW * NIBBLE - 1 /\ len % PAGE_SIZE \in 0 .. PAGE_SIZE - 1
      /\ len = PAGE_SIZE * n + (len % PAGE_SIZE)
  BY <1>1, Division, QuotientBelow, Fields DEF Pages
<1> HIDE DEF n
<1>3. BaseOf(d) = base /\ d.limit_low + LOW * d.limit_high = n /\ d.access = access
      /\ d.gran = "pages"
  BY <1>2, BaseIsKept, LimitIsKept
<1>4. Reach(d) = (n + 1) * PAGE_SIZE
  BY <1>3 DEF Reach
<1> HIDE DEF d
<1>5. (n + 1) * PAGE_SIZE = PAGE_SIZE * n + PAGE_SIZE /\ PAGE_SIZE * n \in Int
  BY <1>1, <1>2
<1>. QED  BY <1>1, <1>2, <1>3, <1>4, <1>5 DEF d, n

LEMMA BytesAreDescribed ==
  ASSUME NEW base \in Word, NEW len \in 0 .. LOW * NIBBLE - 1, NEW access
  PROVE  LET d == set_global_descriptor(base, len, access, "bytes")
         IN  /\ d.access = access /\ BaseOf(d) = base
             /\ len <= Reach(d) /\ Reach(d) <= len + PAGE_SIZE
<1> DEFINE d == set_global_descriptor(base, len, access, "bytes")
<1>1. BaseOf(d) = base /\ d.limit_low + LOW * d.limit_high = len /\ d.access = access
      /\ d.gran = "bytes"
  BY BaseIsKept, LimitIsKept
<1>2. Reach(d) = len + 1
  BY <1>1, Fields DEF Reach
<1> HIDE DEF d
<1>. QED  BY <1>1, <1>2, Fields, Spans DEF d

-----------------------------------------------------------------------------
(* The selectors of whatever runs, or goes on when a handler comes back.   *)
Fits(p, sel) ==
  IF p = "module" THEN \A r \in Registers : sel[r] = IF r = "cs" THEN 27 ELSE 35
  ELSE /\ \A r \in Registers \ {"gs"} : sel[r] = KernelSelectors[r]
       /\ sel["gs"] = 16 \/ (p \in {"clean", "copy", "load data"} /\ sel["gs"] = 56)

FramesFit ==
  \A i \in DOMAIN kstack : kstack[i].what = "interrupt" =>
    /\ kstack[i].regs = [r \in Registers |-> kstack[i].regs[r]]
    /\ Fits(kstack[i].pc, kstack[i].regs)

CodePart(access) == set_global_descriptor(segments.code.base, Pages(segments.code.len), access, "pages")
DataPart(access) == set_global_descriptor(segments.data.base, Pages(segments.data.len), access, "pages")

(* The loader's table, and then the registers that hold what was in it.    *)
EarlyRegs ==
  /\ cpu = [r \in Registers |-> cpu[r]]
  /\ stage \in {"copy_data", "copy_code", "goto_kernel"} =>
       Load(gdt, 8).d = DataPart(KernelData) /\ Load(gdt, 16).d = CodePart(KernelCode)
  /\ stage \in {"init_memory_manager", "init_gdt_kernel"} =>
       /\ cpu["ds"].d = DataPart(KernelData) /\ cpu["ss"].d = DataPart(KernelData)
       /\ cpu["cs"].d = CodePart(KernelCode)

(* Then every register holds the entry of its selector in the kernel's own.*)
OwnRegs ==
  /\ InfoHolds /\ gdt = KernelTable
  /\ \A r \in Registers : cpu[r] = Load(gdt, cpu[r].sel)
  /\ Fits(pc, Sels) /\ FramesFit

Early == {"loader_main", "hang", "get_biggest_memory_chunk", "init_gdt", "copy_data", "copy_code",
          "goto_kernel", "init_memory_manager", "init_gdt_kernel"}

RegInv ==
  /\ stage \in Early \cup HasTables \cup Stops
  /\ EarlyRegs
  /\ stage \in HasTables \cup {"halted"} => OwnTable
  /\ OwnTable => stage \in HasTables \cup Stops /\ OwnRegs

LEMMA InitRegInv == Init => RegInv
<1> SUFFICES ASSUME Init
             PROVE  RegInv
  OBVIOUS
<1>1. /\ stage = "loader_main" /\ gdtr = "boot loader"
      /\ cpu = [r \in Registers |-> [sel |-> 0, d |-> Null]]
  BY DEF Init, Init_loader
<1>. QED  BY <1>1 DEF RegInv, EarlyRegs, Early, HasTables, OwnTable

LEMMA LoadedRegisters ==
  ASSUME \A r \in Registers : cpu[r] = Load(gdt, cpu[r].sel), NEW regs, gdt' = gdt,
         cpu' = WithSelectors(regs)
  PROVE  /\ cpu' = [r \in Registers |-> cpu'[r]]
         /\ \A r \in Registers : /\ cpu'[r] = Load(gdt', cpu'[r].sel)
                                 /\ cpu'[r].sel = IF r \in DOMAIN regs THEN regs[r] ELSE cpu[r].sel
  BY DEF WithSelectors, Load

(* A step of the kernel, of a module or of the processor, with the tables  *)
(* in place.                                                               *)
LEMMA RegsGoOn ==
  ASSUME RegInv, stage \in HasTables, stage' \in HasTables \cup Stops,
         UNCHANGED <<segments, info, gdt, gdtr>>,
         cpu' = [r \in Registers |-> cpu'[r]],
         \A r \in Registers : cpu'[r] = Load(gdt', cpu'[r].sel),
         Fits(pc', Sels'), FramesFit'
  PROVE  RegInv'
<1>1. OwnTable /\ OwnTable' /\ OwnRegs
  BY DEF RegInv, OwnTable
<1>2. InfoHolds'
  BY <1>1 DEF OwnRegs, InfoHolds
<1>3. gdt' = KernelTable'
  BY <1>1 DEF OwnRegs, KernelTable, set_task_descriptor
<1>4. EarlyRegs'
  BY DEF EarlyRegs, HasTables, Stops
<1>. QED  BY <1>1, <1>2, <1>3, <1>4 DEF RegInv, OwnRegs

LEMMA RegsUntouched ==
  ASSUME RegInv, stage \in HasTables, stage' \in HasTables \cup Stops,
         UNCHANGED <<segments, info, gdt, gdtr, cpu>>,
         FramesFit', Fits(pc', Sels)
  PROVE  RegInv'
<1>1. OwnRegs
  BY DEF RegInv
<1>2. Sels' = Sels
  BY DEF Sels
<1>3. cpu' = [r \in Registers |-> cpu'[r]]
  BY DEF RegInv, EarlyRegs
<1>. QED  BY <1>1, <1>2, <1>3, RegsGoOn DEF OwnRegs

LEMMA StartRegInv ==
  ASSUME RegInv, IInv, LInv, Start
  PROVE  RegInv'
<1>1. CASE Next_loader
  <2>1. stage \notin HasTables \cup Stops /\ ~OwnTable
    BY <1>1 DEF Next_loader, loader_main, ScanEntry, init_segments_parameters, init_gdt_loader,
                copy_data, copy_code, goto_kernel, HasTables, Stops, RegInv
  <2>2. ~OwnTable' /\ stage' \notin HasTables \cup {"halted"}
        /\ stage' \in Early \cup Stops
    BY <1>1, <2>1 DEF Next_loader, loader_main, ScanEntry, init_segments_parameters,
                init_gdt_loader, copy_data, copy_code, goto_kernel, HasTables, OwnTable,
                Early, Stops, processorVars
  <2>3. CASE loader_main \/ ScanEntry \/ init_segments_parameters
    <3>1. EarlyRegs'
      BY <2>3 DEF loader_main, ScanEntry, init_segments_parameters, processorVars, RegInv, EarlyRegs
    <3>. QED  BY <2>2, <3>1 DEF RegInv
  <2>4. CASE init_gdt_loader
    <3>1. stage' = "copy_data" /\ segments' = segments /\ cpu' = cpu
      BY <2>4 DEF init_gdt_loader, layoutVars
    <3>2. /\ gdt'[1] = DataPart(KernelData) /\ gdt'[2] = CodePart(KernelCode)
          /\ 1 \in DOMAIN gdt' /\ 2 \in DOMAIN gdt'
      BY <2>4 DEF init_gdt_loader, DataPart, CodePart, Pages, GDT_COUNT
    <3>3. 8 \div 8 = 1 /\ 16 \div 8 = 2
      OBVIOUS
    <3>4. Load(gdt', 8).d = DataPart(KernelData) /\ Load(gdt', 16).d = CodePart(KernelCode)
      BY <3>2, <3>3 DEF Load
    <3>5. EarlyRegs'
      BY <3>1, <3>4 DEF RegInv, EarlyRegs, DataPart, CodePart
    <3>. QED  BY <2>2, <3>5 DEF RegInv
  <2>5. CASE copy_data \/ copy_code
    <3>1. /\ stage \in {"copy_data", "copy_code"} /\ stage' \in {"copy_code", "goto_kernel"}
          /\ UNCHANGED <<segments, gdt, cpu>>
      BY <2>5 DEF copy_data, copy_code, layoutVars, processorVars
    <3>2. EarlyRegs'
      BY <3>1 DEF RegInv, EarlyRegs, DataPart, CodePart
    <3>. QED  BY <2>2, <3>2 DEF RegInv
  <2>6. CASE goto_kernel
    <3>1. /\ stage = "goto_kernel" /\ stage' \in {"init_memory_manager", "wrecked"}
          /\ UNCHANGED <<segments, gdt>>
      BY <2>6 DEF goto_kernel, layoutVars
    <3>2. /\ cpu' = [r \in Registers |-> cpu'[r]]
          /\ cpu'["ds"] = Load(gdt, 8) /\ cpu'["ss"] = Load(gdt, 8) /\ cpu'["cs"] = Load(gdt, 16)
      <4>1. cpu = [r \in Registers |-> cpu[r]]
        BY DEF RegInv, EarlyRegs
      <4>2. cpu' = [cpu EXCEPT !.ds = Load(gdt, 8), !.ss = Load(gdt, 8), !.cs = Load(gdt, 16)]
        BY <2>6 DEF goto_kernel
      <4>. QED  BY <4>1, <4>2 DEF Registers
    <3>3. EarlyRegs'
      BY <3>1, <3>2 DEF RegInv, EarlyRegs, DataPart, CodePart
    <3>. QED  BY <2>2, <3>3 DEF RegInv
  <2>. QED  BY <1>1, <2>3, <2>4, <2>5, <2>6 DEF Next_loader
<1>2. CASE Next_start
  <2>1. stage \notin Interrupted \cup Stops
    BY <1>2 DEF Next_start, init_memory_manager, init_gdt_kernel, init_idt, init_paging,
                Interrupted, Stops
  <2>2. pc = "terminal" /\ UNCHANGED <<pc, kstack>> /\ pc \in Programs
    BY <1>1, <1>2, <2>1 DEF LInv, Start, moduleVars, Stops, Programs
  <2>3. \A i \in DOMAIN kstack : kstack[i].what # "interrupt"
    BY <2>2, ProgramRunsAlone DEF OnlyProgram
  <2>4. FramesFit'
    BY <2>2, <2>3 DEF FramesFit
  <2>5. CASE init_memory_manager
    <3>1. /\ stage = "init_memory_manager" /\ stage' \in {"init_gdt_kernel", "wrecked"}
          /\ UNCHANGED <<segments, cpu, gdtr>>
      BY <2>5 DEF init_memory_manager, layoutVars
    <3>2. EarlyRegs'
      BY <3>1 DEF RegInv, EarlyRegs, DataPart, CodePart
    <3>3. ~OwnTable' /\ stage' \notin HasTables \cup {"halted"}
        /\ stage' \in Early \cup Stops
      BY <3>1 DEF RegInv, OwnTable, HasTables, Early, Stops
    <3>. QED  BY <3>2, <3>3 DEF RegInv
  <2>6. CASE init_gdt_kernel
    <3>1. /\ stage = "init_gdt_kernel" /\ stage' \in {"init_idt", "halted", "wrecked"}
          /\ UNCHANGED <<segments, info>>
          /\ gdt' = KernelTable /\ gdtr' = "kernel"
          /\ cpu' = KernelRegisters(gdt')
      BY <2>6 DEF init_gdt_kernel, AllocData, NoPage, layoutVars
    <3>2. InfoHolds'
      BY <3>1 DEF IInv, KernelInv, Recorded, InfoHolds
    <3>3. gdt' = KernelTable'
      BY <3>1 DEF KernelTable, set_task_descriptor
    <3>4. /\ cpu' = [r \in Registers |-> cpu'[r]]
          /\ \A r \in Registers : cpu'[r] = Load(gdt', KernelSelectors[r])
      BY <3>1 DEF KernelRegisters
    <3>5. \A r \in Registers : cpu'[r].sel = KernelSelectors[r] /\ cpu'[r] = Load(gdt', cpu'[r].sel)
      BY <3>4 DEF Load
    <3>6. Sels' = [r \in Registers |-> KernelSelectors[r]]
      BY <3>5 DEF Sels
    <3>7. Fits(pc', Sels')
      BY <2>2, <3>6 DEF Fits, Registers, KernelSelectors
    <3>8. EarlyRegs'
      BY <3>1, <3>4 DEF EarlyRegs
    <3>. QED  BY <2>4, <3>1, <3>2, <3>3, <3>5, <3>7, <3>8
              DEF RegInv, OwnRegs, OwnTable, HasTables, Stops
  <2>7. CASE init_idt \/ init_paging
    <3>1. stage \in HasTables /\ stage' \in HasTables \cup Stops
          /\ UNCHANGED <<segments, info, gdt, gdtr, cpu>>
      BY <2>7 DEF init_idt, init_paging, AllocData, NoPage, HasTables, Stops, layoutVars,
                  processorVars
    <3>2. Fits(pc', Sels)
      BY <2>2, <3>1 DEF RegInv, OwnRegs
    <3>. QED  BY <2>4, <3>1, <3>2, RegsUntouched
  <2>. QED  BY <1>2, <2>5, <2>6, <2>7 DEF Next_start
<1>3. CASE Next_boot_heap /\ UNCHANGED moduleVars
  <2>1. stage \in HasTables /\ UNCHANGED <<segments, info, gdt, gdtr, cpu, pc, kstack>>
    BY <1>3 DEF Next_boot_heap, init_heap, init_keyboard, initialize_syscalls, IRQ_RES, init_buf,
                SmallBin, HasTables, layoutVars, processorVars, startVars, moduleVars
  <2>2. stage' \in HasTables \cup Stops
    BY <1>3, SbrkStage DEF Next_boot_heap, init_heap, init_keyboard, initialize_syscalls, IRQ_RES,
                init_buf, SmallBin, HasTables
  <2>3. FramesFit' /\ Fits(pc', Sels)
    BY <2>1 DEF RegInv, OwnRegs, FramesFit
  <2>. QED  BY <2>1, <2>2, <2>3, RegsUntouched
<1>. QED  BY <1>1, <1>2, <1>3 DEF Start

LEMMA RequestRegInv ==
  ASSUME RegInv, LInv, LInv', Request
  PROVE  RegInv'
<1>1. stage \in HasTables /\ pc = "terminal"
  BY DEF Request, At, HasTables
<1>2. UNCHANGED <<segments, info, gdt, gdtr, cpu>> /\ stage' \in HasTables \cup Stops
  <2>1. CASE Next_requests
    <3>1. PICK size \in Word, asked \in Nat, cleared \in Nat : klmalloc(size, asked, cleared)
      BY <2>1, RequestAsks
    <3>. QED  BY <3>1, SbrkStage DEF klmalloc, layoutVars, processorVars, HasTables
  <2>2. CASE start_module
    BY <1>1, <2>2 DEF start_module, bootVars, layoutVars, processorVars
  <2>. QED  BY <2>1, <2>2 DEF Request
<1>3. pc' \in {"terminal", "save", "load code"} /\ pc' \in Programs
  BY <1>1 DEF Request, start_module, moduleVars, Programs, Starting
<1>4. FramesFit'
  BY <1>3, ProgramRunsAloneNext DEF OnlyProgram, FramesFit
<1>5. Fits(pc', Sels)
  BY <1>1, <1>3 DEF RegInv, OwnRegs, Fits
<1>. QED  BY <1>1, <1>2, <1>4, <1>5, RegsUntouched

LEMMA LoadModuleRegInv ==
  ASSUME RegInv, LInv, LInv', LoadModule
  PROVE  RegInv'
<1>1. stage = "running" /\ stage \in HasTables /\ pc \in Starting
  BY DEF LoadModule, load_code_pages, clean_code, copy_code_byte, load_data_and_stack,
         load_stack, save_kernel_state, jump_to_module_code, At, HasTables, Starting
<1>2. UNCHANGED <<segments, info, gdt, gdtr>>
  BY DEF LoadModule, load_code_pages, clean_code, copy_code_byte, load_data_and_stack,
         load_stack, save_kernel_state, jump_to_module_code, LoopVars, bootVars, layoutVars,
         processorVars
<1>3. stage' \in HasTables \cup Stops
  <2>1. ASSUME NEW byte, StoreByte(byte)
        PROVE  stage' \in HasTables \cup Stops
    BY <1>1, <2>1 DEF StoreByte, AllocData, NoPage, Stops
  <2>2. ASSUME NEW rel, NEW n, NEW next, MapData(rel, n, next)
        PROVE  stage' \in HasTables \cup Stops
    BY <1>1, <2>2 DEF MapData, Stops
  <2>. QED  BY <1>1, <2>1, <2>2 DEF LoadModule, load_code_pages, clean_code, copy_code_byte,
              load_data_and_stack, load_stack, save_kernel_state, jump_to_module_code, NoPage, Stops
<1>4. pc' \in Programs
  BY DEF LoadModule, load_code_pages, clean_code, copy_code_byte, load_data_and_stack, MapData,
         load_stack, save_kernel_state, jump_to_module_code, At, Programs, Starting
<1>5. FramesFit'
  BY <1>4, ProgramRunsAloneNext DEF OnlyProgram, FramesFit
<1>6. Fits(pc, Sels) /\ \A r \in Registers : cpu[r] = Load(gdt, cpu[r].sel)
  BY <1>1 DEF RegInv, OwnRegs
<1>7. ASSUME NEW regs, cpu' = WithSelectors(regs)
      PROVE  /\ cpu' = [r \in Registers |-> cpu'[r]]
             /\ \A r \in Registers :
                  /\ cpu'[r] = Load(gdt', cpu'[r].sel)
                  /\ Sels'[r] = IF r \in DOMAIN regs THEN regs[r] ELSE Sels[r]
  BY <1>2, <1>6, <1>7, LoadedRegisters DEF Sels
<1>8. CASE load_code_pages
  <2>1. pc = "load code" /\ pc' = "clean" /\ cpu' = WithSelectors([gs |-> 56])
    BY <1>8 DEF load_code_pages, At
  <2>2. Fits(pc', Sels')
    <3>1. DOMAIN [gs |-> 56] = {"gs"} /\ "gs" \in Registers
      BY DEF Registers
    <3>2. Sels'["gs"] = 56 /\ \A r \in Registers \ {"gs"} : Sels'[r] = Sels[r]
      BY <1>7, <2>1, <3>1
    <3>. QED  BY <1>6, <2>1, <3>2 DEF Fits
  <2>. QED  BY <1>1, <1>2, <1>3, <1>5, <1>7, <2>1, <2>2, RegsGoOn
<1>9. CASE load_data_and_stack
  <2>1. pc = "load data" /\ pc' = "load stack" /\ cpu' = WithSelectors([gs |-> 16])
    BY <1>9 DEF load_data_and_stack, At, MapData
  <2>2. Fits(pc', Sels')
    <3>1. DOMAIN [gs |-> 16] = {"gs"} /\ "gs" \in Registers
      BY DEF Registers
    <3>2. Sels'["gs"] = 16 /\ \A r \in Registers \ {"gs"} : Sels'[r] = Sels[r]
      BY <1>7, <2>1, <3>1
    <3>. QED  BY <1>6, <2>1, <3>2 DEF Fits
  <2>. QED  BY <1>1, <1>2, <1>3, <1>5, <1>7, <2>1, <2>2, RegsGoOn
<1>10. CASE jump_to_module_code
  <2> DEFINE m == [r \in Registers |-> IF r = "cs" THEN 27 ELSE 35]
  <2>1. pc' = "module" /\ cpu' = WithSelectors(m)
    BY <1>10 DEF jump_to_module_code
  <2>3. DOMAIN m = Registers /\ \A r \in Registers : m[r] = IF r = "cs" THEN 27 ELSE 35
    OBVIOUS
  <2> HIDE DEF m
  <2>2. Fits(pc', Sels')
    <3>1. \A r \in Registers : Sels'[r] = m[r]
      BY <1>7, <2>1, <2>3
    <3>. QED  BY <2>1, <2>3, <3>1 DEF Fits
  <2>. QED  BY <1>1, <1>2, <1>3, <1>5, <1>7, <2>1, <2>2, RegsGoOn
<1>11. CASE clean_code \/ copy_code_byte \/ load_stack \/ save_kernel_state
  <2>1. cpu' = cpu
    BY <1>11 DEF clean_code, copy_code_byte, load_stack, save_kernel_state, LoopVars, processorVars
  <2>2. Fits(pc', Sels)
    BY <1>6, <1>11 DEF clean_code, copy_code_byte, load_stack, save_kernel_state, At, MapData, Fits
  <2>. QED  BY <1>1, <1>2, <1>3, <1>5, <2>1, <2>2, RegsUntouched
<1>. QED  BY <1>8, <1>9, <1>10, <1>11 DEF LoadModule

LEMMA EnterRegInv ==
  ASSUME RegInv, LInv, NEW vector, NEW eax, Enter(vector, eax), stage \in HasTables
  PROVE  RegInv'
<1>1. stage' = stage /\ UNCHANGED <<segments, info, gdt, gdtr>> /\ pc' = "handler"
      /\ cpu' = WithSelectors(KernelSelectors)
  BY DEF Enter, bootVars, layoutVars
<1>2. Fits(pc, Sels) /\ FramesFit /\ \A r \in Registers : cpu[r] = Load(gdt, cpu[r].sel)
  BY DEF RegInv, OwnRegs
<1>3. /\ cpu' = [r \in Registers |-> cpu'[r]]
      /\ \A r \in Registers : /\ cpu'[r] = Load(gdt', cpu'[r].sel)
                              /\ cpu'[r].sel = KernelSelectors[r]
  <2>1. \A r \in Registers : r \in DOMAIN KernelSelectors
    BY DEF Registers, KernelSelectors
  <2>. QED  BY <1>1, <1>2, <2>1, LoadedRegisters
<1>4. Fits(pc', Sels')
  <2>1. Sels' = [r \in Registers |-> KernelSelectors[r]]
    BY <1>3 DEF Sels
  <2>. QED  BY <1>1, <2>1 DEF Fits, Registers, KernelSelectors
<1>5. FramesFit'
  <2> DEFINE f == EntryFrame(vector, eax)
  <2>1. f.pc = pc /\ f.regs = Sels /\ f.regs = [r \in Registers |-> f.regs[r]]
    BY DEF EntryFrame, Sels
  <2>2. \A i \in DOMAIN kstack' :
          \/ i \in DOMAIN kstack /\ kstack'[i] = kstack[i]
          \/ kstack'[i] = f
    BY EnterFrames
  <2> HIDE DEF f
  <2>. QED  BY <1>2, <2>1, <2>2 DEF FramesFit
<1>. QED  BY <1>1, <1>3, <1>4, <1>5, RegsGoOn

LEMMA HandleRegInv ==
  ASSUME RegInv, LInv, LInv', Handle
  PROVE  RegInv'
<1>1. stage \in HasTables /\ stage' \in HasTables \cup Stops
      /\ UNCHANGED <<segments, info, gdt, gdtr>>
  BY DEF Handle, handler_returns, exit_module, panic, exit_label, InHandler, At, HasTables, Stops,
         bootVars, layoutVars, processorVars
<1>2. Fits(pc, Sels) /\ FramesFit /\ \A r \in Registers : cpu[r] = Load(gdt, cpu[r].sel)
  BY <1>1 DEF RegInv, OwnRegs
<1>3. ASSUME NEW regs, DOMAIN regs = Registers, cpu' = WithSelectors(regs)
      PROVE  /\ cpu' = [r \in Registers |-> cpu'[r]]
             /\ \A r \in Registers : /\ cpu'[r] = Load(gdt', cpu'[r].sel)
                                     /\ Sels'[r] = regs[r]
  BY <1>1, <1>2, <1>3, LoadedRegisters DEF Sels
<1>4. CASE handler_returns
  <2>1. Len(kstack) \in DOMAIN kstack /\ Top.what = "interrupt"
        /\ \A i \in DOMAIN kstack' : i \in DOMAIN kstack /\ kstack'[i] = kstack[i]
    BY <1>4, ReturnFrames
  <2>2. Fits(Top.pc, Top.regs) /\ Top.regs = [r \in Registers |-> Top.regs[r]]
    BY <1>2, <2>1 DEF FramesFit, Top
  <2>3. pc' = Top.pc /\ cpu' = WithSelectors([Top.regs EXCEPT !.gs = Top.regs.ds])
    BY <1>4 DEF handler_returns, Restored
  <2> DEFINE g == Top.regs
             h == [g EXCEPT !.gs = g.ds]
  <2>4. DOMAIN h = Registers /\ \A r \in Registers : h[r] = IF r = "gs" THEN g["ds"] ELSE g[r]
    <3> HIDE DEF g
    <3>1. g = [r \in Registers |-> g[r]]
      BY <2>2 DEF g
    <3>. QED  BY <3>1
  <2> HIDE DEF h
  <2>5. /\ cpu' = [r \in Registers |-> cpu'[r]]
        /\ \A r \in Registers : cpu'[r] = Load(gdt', cpu'[r].sel) /\ Sels'[r] = h[r]
    BY <1>3, <2>3, <2>4 DEF h
  <2>6. Fits(pc', Sels')
    <3>1. "ds" \in Registers \ {"gs"} /\ KernelSelectors["ds"] = 16 /\ "gs" \in Registers
      BY DEF Registers, KernelSelectors
    <3> HIDE DEF g
    <3>2. Fits(pc', g)
      BY <2>2, <2>3 DEF g
    <3>3. CASE pc' = "module"
      <4>1. \A r \in Registers : g[r] = IF r = "cs" THEN 27 ELSE 35
        BY <3>2, <3>3 DEF Fits
      <4>2. \A r \in Registers : Sels'[r] = IF r = "gs" THEN g["ds"] ELSE g[r]
        BY <2>4, <2>5
      <4>3. \A r \in Registers : Sels'[r] = IF r = "cs" THEN 27 ELSE 35
        BY <3>1, <4>1, <4>2
      <4>. QED  BY <3>3, <4>3 DEF Fits
    <3>4. CASE pc' # "module"
      <4>1. \A r \in Registers \ {"gs"} : g[r] = KernelSelectors[r]
        BY <3>2, <3>4 DEF Fits
      <4>2. \A r \in Registers : Sels'[r] = IF r = "gs" THEN g["ds"] ELSE g[r]
        BY <2>4, <2>5
      <4>3. Sels'["gs"] = 16 /\ \A r \in Registers \ {"gs"} : Sels'[r] = KernelSelectors[r]
        BY <3>1, <4>1, <4>2
      <4>. QED  BY <3>4, <4>3 DEF Fits
    <3>. QED  BY <3>3, <3>4
  <2>7. FramesFit'
    BY <1>2, <2>1 DEF FramesFit
  <2>. QED  BY <1>1, <2>5, <2>6, <2>7, RegsGoOn
<1>5. CASE exit_module
  <2>1. SavedIsGood
    <3>1. running
      BY <1>5, TopFrame DEF exit_module
    <3>. QED  BY <3>1 DEF LInv
  <2> DEFINE h == [r \in Registers |-> kernel_state.regs[IF r = "gs" THEN "ds" ELSE r]]
  <2>2. pc' = "exit_label" /\ pc' \in Programs /\ cpu' = WithSelectors(h)
    BY <1>5 DEF exit_module, Programs
  <2>3. \A r \in Registers : h[r] = IF r = "gs" THEN 16 ELSE KernelSelectors[r]
    <3>1. "ds" \in Registers \ {"gs"} /\ KernelSelectors["ds"] = 16
      BY DEF Registers, KernelSelectors
    <3>. QED  BY <2>1, <3>1 DEF SavedIsGood
  <2>4. DOMAIN h = Registers
    OBVIOUS
  <2> HIDE DEF h
  <2>5. /\ cpu' = [r \in Registers |-> cpu'[r]]
        /\ \A r \in Registers : cpu'[r] = Load(gdt', cpu'[r].sel) /\ Sels'[r] = h[r]
    BY <1>3, <2>2, <2>4
  <2>6. Fits(pc', Sels')
    <3>1. "gs" \in Registers
      BY DEF Registers
    <3>. QED  BY <2>2, <2>3, <2>5, <3>1 DEF Fits
  <2>7. FramesFit'
    BY <2>2, ProgramRunsAloneNext DEF OnlyProgram, FramesFit
  <2>. QED  BY <1>1, <2>5, <2>6, <2>7, RegsGoOn
<1>6. CASE panic
  <2>1. UNCHANGED <<pc, kstack, cpu>>
    BY <1>6 DEF panic, moduleVars, processorVars
  <2>2. FramesFit' /\ Fits(pc', Sels)
    BY <1>2, <2>1 DEF FramesFit
  <2>. QED  BY <1>1, <2>1, <2>2, RegsUntouched
<1>7. CASE exit_label
  <2>1. cpu' = cpu /\ pc = "exit_label" /\ pc' = "terminal" /\ pc' \in Programs
    BY <1>7 DEF exit_label, processorVars, At, Programs
  <2>2. FramesFit'
    BY <2>1, ProgramRunsAloneNext DEF OnlyProgram, FramesFit
  <2>3. Fits(pc', Sels)
    BY <1>2, <2>1 DEF Fits
  <2>. QED  BY <1>1, <2>1, <2>2, <2>3, RegsUntouched
<1>. QED  BY <1>4, <1>5, <1>6, <1>7 DEF Handle

LEMMA NextRegInv == RegInv /\ IInv /\ LInv /\ LInv' /\ [Next]_vars => RegInv'
<1> SUFFICES ASSUME RegInv, IInv, LInv, LInv', [Next]_vars
             PROVE  RegInv'
  OBVIOUS
<1>1. CASE UseModule \/ Interrupt
  <2>1. PICK vector, eax : Enter(vector, eax)
    BY <1>1 DEF UseModule, Interrupt, ModuleInt, ModulePageFault, Irq, NonMaskable
  <2>2. stage \in HasTables
    BY <1>1 DEF UseModule, Interrupt, ModuleInt, ModulePageFault, Irq, NonMaskable, At, HasTables
  <2>. QED  BY <2>1, <2>2, EnterRegInv
<1>2. CASE UNCHANGED vars
  <2>1. UNCHANGED <<stage, segments, info, gdt, gdtr, cpu, pc, kstack>>
    BY <1>2 DEF vars, loaderVars, layoutVars, processorVars, startVars, moduleVars
  <2>2. EarlyRegs'
    BY <2>1 DEF RegInv, EarlyRegs, DataPart, CodePart
  <2>3. OwnRegs => OwnRegs'
    <3>1. KernelTable' = KernelTable /\ (InfoHolds => InfoHolds') /\ Sels' = Sels
          /\ (FramesFit => FramesFit')
      BY <2>1 DEF KernelTable, set_task_descriptor, InfoHolds, Sels, FramesFit
    <3>. QED  BY <2>1, <3>1 DEF OwnRegs
  <2>. QED  BY <2>1, <2>2, <2>3 DEF RegInv, OwnTable
<1>. QED  BY <1>1, <1>2, StartRegInv, RequestRegInv, LoadModuleRegInv, HandleRegInv DEF Next

-----------------------------------------------------------------------------
(* The kernel's own table describes the segments it was made of.           *)
LEMMA SegmentsAreWords ==
  ASSUME IInv, LaidOut
  PROVE  /\ segments.code.base \in Word /\ segments.code.len \in Word
         /\ segments.data.base \in Word /\ segments.data.len \in Word
         /\ segments.module.base \in Word /\ segments.module.len \in Word
<1>1. Chosen /\ segments = Layout
  BY DEF IInv, LoaderInv
<1>. QED  BY <1>1, LayoutType, ModuleType, WordSums, AreaFields DEF Layout

Matches(d, area, access) ==
  /\ d.access = access /\ BaseOf(d) = area.base
  /\ area.len <= Reach(d) /\ Reach(d) <= area.len + PAGE_SIZE

LEMMA KernelTableDescribes ==
  ASSUME InfoHolds, IInv, LaidOut
  PROVE  /\ Matches(Load(KernelTable, 8).d, segments.code, KernelCode)
         /\ Matches(Load(KernelTable, 16).d, segments.data, KernelData)
         /\ Matches(Load(KernelTable, 27).d, segments.code, UserCode)
         /\ Matches(Load(KernelTable, 35).d, segments.data, UserData)
         /\ Matches(Load(KernelTable, 40).d, Area(VIDEO_BASE_ADDR, VIDEO_SIZE), KernelData)
         /\ Matches(Load(KernelTable, 48).d, segments.module, KernelData)
         /\ Matches(Load(KernelTable, 56).d, segments.code, KernelData)
<1>1. info.code = segments.code /\ info.data = segments.data /\ info.module = segments.module
  BY DEF InfoHolds
<1>2. \A access : /\ Matches(CodePart(access), segments.code, access)
                  /\ Matches(DataPart(access), segments.data, access)
  BY SegmentsAreWords, PagesAreDescribed DEF CodePart, DataPart, Matches
<1>3. Matches(set_global_descriptor(segments.module.base, Pages(segments.module.len), KernelData,
                                    "pages"), segments.module, KernelData)
  BY SegmentsAreWords, PagesAreDescribed DEF Matches
<1>4. Matches(set_global_descriptor(VIDEO_BASE_ADDR, VIDEO_SIZE, KernelData, "bytes"),
              Area(VIDEO_BASE_ADDR, VIDEO_SIZE), KernelData)
  <2>1. VIDEO_BASE_ADDR \in Word
    BY VideoAssumption, Sizes, Spans DEF Word
  <2>. QED  BY <2>1, VideoAssumption, BytesAreDescribed, AreaFields DEF Matches
<1>5. \A s \in 0 .. 159 : s \div 8 \in DOMAIN KernelTable
  <2>1. \A s \in 0 .. 159 : s \div 8 \in 0 .. 19
    OBVIOUS
  <2>2. DOMAIN KernelTable = 0 .. 20 - 1
    BY DEF KernelTable, GLOBAL_DESCRIPTOR_COUNT
  <2>. QED  BY <2>1, <2>2
<1>6. /\ 8 \div 8 = 1 /\ 16 \div 8 = 2 /\ 27 \div 8 = 3 /\ 35 \div 8 = 4
      /\ 40 \div 8 = 5 /\ 48 \div 8 = 6 /\ 56 \div 8 = 7
  OBVIOUS
<1>7. /\ KernelTable[1] = CodePart(KernelCode) /\ KernelTable[2] = DataPart(KernelData)
      /\ KernelTable[3] = CodePart(UserCode) /\ KernelTable[4] = DataPart(UserData)
      /\ KernelTable[5] = set_global_descriptor(VIDEO_BASE_ADDR, VIDEO_SIZE, KernelData, "bytes")
      /\ KernelTable[6] = set_global_descriptor(segments.module.base, Pages(segments.module.len),
                                                KernelData, "pages")
      /\ KernelTable[7] = CodePart(KernelData)
  BY <1>1 DEF KernelTable, GLOBAL_DESCRIPTOR_COUNT, CodePart, DataPart
<1>8. \A s \in 0 .. 159 : Load(KernelTable, s).d = KernelTable[s \div 8]
  BY <1>5 DEF Load
<1>. QED  BY <1>2, <1>3, <1>4, <1>6, <1>7, <1>8

(* At every step the segment registers describe the segments that the code *)
(* running takes them for, whatever interrupts it and whatever it enters,  *)
(* for every layout of memory.                                             *)
THEOREM RegistersHold == Spec => []SegmentRegistersHold
<1>1. ASSUME RegInv, IInv, LInv, Entered
      PROVE  SegmentRegistersHold
  <2>1. LaidOut
    BY <1>1 DEF Entered, LaidOut
  <2>2. \A r, area, access : Describes(r, area, access) <=> Matches(cpu[r].d, area, access)
    BY DEF Describes, Matches
  <2>3. CASE OwnTable
    <3>1. /\ InfoHolds /\ gdt = KernelTable /\ Fits(pc, Sels)
          /\ \A r \in Registers : cpu[r].d = Load(KernelTable, Sels[r]).d
      BY <1>1, <2>3 DEF RegInv, OwnRegs, Sels, Load
    <3>2. Registers = {"cs", "ds", "ss", "es", "fs", "gs"}
      BY DEF Registers
    <3>3. CASE pc = "module"
      <4>1. Sels["cs"] = 27 /\ Sels["ds"] = 35 /\ Sels["ss"] = 35
        BY <3>1, <3>2, <3>3 DEF Fits
      <4>2. /\ Matches(cpu["cs"].d, segments.code, UserCode)
            /\ Matches(cpu["ds"].d, segments.data, UserData)
            /\ Matches(cpu["ss"].d, segments.data, UserData)
        BY <1>1, <2>1, <3>1, <3>2, <4>1, KernelTableDescribes
      <4>. QED  BY <2>2, <3>3, <4>2 DEF SegmentRegistersHold
    <3>4. CASE pc # "module"
      <4>1. /\ Sels["cs"] = 8 /\ Sels["ds"] = 16 /\ Sels["ss"] = 16 /\ Sels["es"] = 40
            /\ Sels["fs"] = 48
            /\ Sels["gs"] = 16 \/ (pc \in {"clean", "copy", "load data"} /\ Sels["gs"] = 56)
        BY <3>1, <3>2, <3>4 DEF Fits, KernelSelectors
      <4>2. /\ Matches(cpu["cs"].d, segments.code, KernelCode)
            /\ Matches(cpu["ds"].d, segments.data, KernelData)
            /\ Matches(cpu["ss"].d, segments.data, KernelData)
            /\ Matches(cpu["es"].d, Area(VIDEO_BASE_ADDR, VIDEO_SIZE), KernelData)
            /\ Matches(cpu["fs"].d, segments.module, KernelData)
            /\ \/ Matches(cpu["gs"].d, segments.data, KernelData)
               \/ pc \in {"clean", "copy", "load data"}
                    /\ Matches(cpu["gs"].d, segments.code, KernelData)
        BY <1>1, <2>1, <3>1, <3>2, <4>1, KernelTableDescribes
      <4>. QED  BY <2>2, <3>4, <4>2 DEF SegmentRegistersHold
    <3>. QED  BY <3>3, <3>4
  <2>4. CASE ~OwnTable
    <3>1. stage \in {"init_memory_manager", "init_gdt_kernel"}
      BY <1>1, <2>4 DEF RegInv, Entered, Early, HasTables, Stops
    <3>2. pc = "terminal"
      BY <1>1, <3>1 DEF LInv, Interrupted
    <3>3. \A access : /\ Matches(CodePart(access), segments.code, access)
                      /\ Matches(DataPart(access), segments.data, access)
      BY <1>1, <2>1, SegmentsAreWords, PagesAreDescribed DEF CodePart, DataPart, Matches
    <3>4. /\ Matches(cpu["cs"].d, segments.code, KernelCode)
          /\ Matches(cpu["ds"].d, segments.data, KernelData)
          /\ Matches(cpu["ss"].d, segments.data, KernelData)
      BY <1>1, <3>1, <3>3 DEF RegInv, EarlyRegs
    <3>. QED  BY <2>2, <2>4, <3>2, <3>4 DEF SegmentRegistersHold
  <2>. QED  BY <2>3, <2>4
<1>2. RegInv /\ IInv /\ LInv => SegmentRegistersHold
  BY <1>1 DEF SegmentRegistersHold
<1>3. Spec => []RegInv
  BY InitRegInv, NextRegInv, Invariance, LifecycleInvariance, PTL DEF Spec
<1>. QED  BY <1>2, <1>3, Invariance, LifecycleInvariance, PTL

=============================================================================
