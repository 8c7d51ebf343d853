---------------------------- MODULE LayoutProofs ----------------------------
(***************************************************************************)
(* Where things lie in the kernel's address space: its tables, the window  *)
(* on the page tables, the heap and its blocks, and the pages of a module. *)
(***************************************************************************)
EXTENDS MachineProofs, FiniteSetTheorems

-----------------------------------------------------------------------------
(* The heap: its blocks lie one above the other between its start and the  *)
(* break, in pages that are mapped.                                        *)
Heaped == {"init_keyboard", "initialize_syscalls", "IRQ_RES", "init_buf", "running"}

Serves(b) ==
  /\ b.cleared > 0 => HEADER + b.cleared <= b.len
  /\ \/ HEADER + b.asked <= b.len
     \/ b.asked >= MODULUS
     \/ b.cleared = 0 /\ b.asked + HEADER + PAGE_SIZE >= MODULUS

BreakHolds ==
  stage \in Heaped => heap_start \in Word /\ heap_brk \in Word /\ heap_start <= heap_brk

BinsStack ==
  /\ bins \in Seq({bins[i] : i \in DOMAIN bins})
  /\ \A i \in DOMAIN bins :
       /\ bins[i].addr \in Nat /\ bins[i].len \in Nat
       /\ heap_start <= bins[i].addr /\ bins[i].addr + bins[i].len <= heap_brk
       /\ \A j \in DOMAIN bins : j < i => bins[j].addr + bins[j].len <= bins[i].addr

BinsServe ==
  \A i \in DOMAIN bins :
    /\ Serves(bins[i])
    /\ Linear(info.data, bins[i].addr, Pages(bins[i].len)) \subseteq mapped

HeapInv ==
  /\ stage \notin Heaped \cup Stops => bins = <<>>
  /\ BreakHolds
  /\ BinsStack
  /\ BinsServe

LEMMA InitHeapInv == Init => HeapInv
<1> SUFFICES ASSUME Init
             PROVE  HeapInv
  OBVIOUS
<1>1. stage = "loader_main" /\ bins = <<>>
  BY DEF Init, Init_loader, Init_heap
<1>2. bins \in Seq({bins[i] : i \in DOMAIN bins}) /\ DOMAIN bins = {}
  BY <1>1
<1>. QED  BY <1>1, <1>2 DEF HeapInv, BreakHolds, BinsStack, BinsServe, Heaped

LEMMA HeapLeftAlone ==
  ASSUME HeapInv, UNCHANGED <<heap_start, heap_brk, bins, info>>, mapped \subseteq mapped',
         stage \in Heaped \cup Stops, stage' \in Stops \/ (stage \in Heaped /\ stage' \in Heaped)
  PROVE  HeapInv'
<1>1. BreakHolds'
  BY DEF HeapInv, BreakHolds, Heaped, Stops
<1>2. BinsStack'
  BY DEF HeapInv, BinsStack
<1>3. \A i : Linear(info.data, bins[i].addr, Pages(bins[i].len))'
              = Linear(info.data, bins[i].addr, Pages(bins[i].len))
  BY DEF Linear, Pages
<1>4. BinsServe'
  BY <1>3 DEF HeapInv, BinsServe, Serves
<1>5. stage' \in Heaped \cup Stops /\ stage' # "init_heap"
  BY DEF Heaped, Stops
<1>. QED  BY <1>1, <1>2, <1>4, <1>5 DEF HeapInv

-----------------------------------------------------------------------------
(* A request that is not near the end of the numbers gets what it asked    *)
(* for, and whatever is asked for, sbrk gets a word.                       *)
LEMMA IncrementServes ==
  ASSUME NEW size \in Word
  PROVE  /\ Increment(size) \in Word
         /\ size + HEADER + PAGE_SIZE < MODULUS => HEADER + size <= Increment(size)
<1>1. size \in Nat /\ HEADER \in Nat /\ PAGE_SIZE \in Nat \ {0} /\ MODULUS \in Nat \ {0}
  BY Spans, HeapAssumption DEF Word
<1>2. Increment(size) \in Word
  <2>1. \A a \in Nat : a % MODULUS \in Word
    BY <1>1 DEF Word
  <2>2. Add(size, HEADER) \in Nat
    BY <1>1 DEF Add
  <2>3. PAGE_SIZE * (Add(size, HEADER) \div PAGE_SIZE + 1) \in Nat
    BY <1>1, <2>2, Division, Monotonic
  <2>. QED  BY <2>1, <2>3 DEF Increment, Mul
<1>3. ASSUME size + HEADER + PAGE_SIZE < MODULUS
      PROVE  HEADER + size <= Increment(size)
  <2> DEFINE a == size + HEADER
             q == a \div PAGE_SIZE
  <2>1. Add(size, HEADER) = a /\ a \in Nat
    BY <1>1, <1>3 DEF Add
  <2>2. q \in Nat /\ a % PAGE_SIZE \in 0 .. PAGE_SIZE - 1 /\ a = PAGE_SIZE * q + (a % PAGE_SIZE)
    BY <1>1, <2>1, Division
  <2> HIDE DEF q
  <2>3. PAGE_SIZE * (q + 1) = PAGE_SIZE * q + PAGE_SIZE /\ PAGE_SIZE * q \in Int
    BY <1>1, <2>2
  <2>4. a < PAGE_SIZE * (q + 1) /\ PAGE_SIZE * (q + 1) \in 0 .. MODULUS - 1
    BY <1>1, <1>3, <2>1, <2>2, <2>3
  <2>5. (PAGE_SIZE * (q + 1)) % MODULUS = PAGE_SIZE * (q + 1)
    BY <1>1, <2>4, SmallRemainder
  <2>6. Increment(size) = PAGE_SIZE * (q + 1)
    BY <2>1, <2>5 DEF Increment, Mul, q
  <2>. QED  BY <1>1, <2>1, <2>4, <2>6
<1>. QED  BY <1>2, <1>3

(* What sbrk does to the heap.                                             *)
LEMMA SbrkHeapInv ==
  ASSUME HeapInv, IInv, NEW increment \in Word, NEW asked \in Nat, NEW cleared \in Nat,
         NEW next \in Heaped, Sbrk(increment, asked, cleared, next),
         UNCHANGED <<info, heap_start>>, stage \in Heaped,
         cleared + HEADER + PAGE_SIZE < MODULUS =>
           Serves([addr |-> heap_brk, len |-> increment, asked |-> asked, cleared |-> cleared])
  PROVE  HeapInv'
<1>1. info.data.len \in Word /\ PAGE_SIZE \in Nat \ {0} /\ MODULUS \in Nat
  BY SegmentsAreWords, Spans DEF IInv, KernelInv, InfoHolds, Recorded, Heaped, LaidOut
<1>2. heap_start \in Nat /\ heap_brk \in Word /\ heap_start <= heap_brk /\ heap_brk \in Nat
  BY DEF HeapInv, BreakHolds, Word
<1>3. CASE /\ UNCHANGED <<memoryVars, heap_brk, bins>>
           /\ stage' \in {"halted", "wrecked"}
  BY <1>3, HeapLeftAlone DEF memoryVars, Stops
<1>4. CASE ~(/\ UNCHANGED <<memoryVars, heap_brk, bins>>
             /\ stage' \in {"halted", "wrecked"})
  <2> DEFINE end == Add(heap_brk, increment)
             bin == [addr |-> heap_brk, len |-> increment, asked |-> asked, cleared |-> cleared]
             grown == IF end > heap_brk THEN Linear(info.data, heap_brk, Pages(increment)) ELSE {}
  <2>1. /\ heap_brk + (IF increment = 0 THEN PAGE_SIZE ELSE increment) + PAGE_SIZE <= info.data.len
        /\ heap_brk + HEADER + cleared + PAGE_SIZE <= info.data.len
        /\ heap_brk' = end /\ bins' = Append(bins, bin) /\ stage' = next
        /\ mapped \cup grown \subseteq mapped'
    BY <1>4 DEF Sbrk
  <2>2. increment \in Nat /\ heap_brk + increment < MODULUS
    <3>1. increment \in Nat /\ info.data.len \in Nat /\ info.data.len < MODULUS
      BY <1>1 DEF Word
    <3>2. CASE increment = 0
      BY <1>1, <1>2, <3>1, <3>2 DEF Word
    <3>3. CASE increment # 0
      <4>1. heap_brk + increment + PAGE_SIZE <= info.data.len
        BY <2>1, <3>3
      <4>. QED  BY <1>1, <1>2, <3>1, <4>1
    <3>. QED  BY <3>2, <3>3
  <2>3. end = heap_brk + increment /\ end \in Word
    BY <1>1, <1>2, <2>2 DEF Add, Word
  <2>4. /\ bins' \in Seq({bins'[i] : i \in DOMAIN bins'})
        /\ Len(bins) \in Nat /\ Len(bins') = Len(bins) + 1
        /\ \A i \in 1 .. Len(bins) : bins'[i] = bins[i]
        /\ bins'[Len(bins) + 1] = bin
    <3>1. bins \in Seq({bins[i] : i \in DOMAIN bins})
      BY DEF HeapInv, BinsStack
    <3> HIDE DEF bin
    <3>2. LET t == Append(bins, bin)
          IN  /\ t \in Seq({t[i] : i \in DOMAIN t})
              /\ Len(bins) \in Nat /\ Len(t) = Len(bins) + 1
              /\ \A i \in 1 .. Len(bins) : t[i] = bins[i]
              /\ t[Len(bins) + 1] = bin
      BY <3>1, PushFrame
    <3>. QED  BY <2>1, <3>2 DEF bin
  <2> DEFINE n == Len(bins)
  <2>5. DOMAIN bins = 1 .. n /\ DOMAIN bins' = 1 .. n + 1
    <3>1. bins \in Seq({bins[i] : i \in DOMAIN bins})
      BY DEF HeapInv, BinsStack
    <3>2. \A X : \A q \in Seq(X) : DOMAIN q = 1 .. Len(q)
      BY LenProperties
    <3>. QED  BY <2>4, <3>1, <3>2
  <2>6. bin.addr = heap_brk /\ bin.len = increment /\ bin.asked = asked
    OBVIOUS
  <2>7. n \in Nat
    BY <2>4
  <2> HIDE DEF n, bin
  <2>8. \A i \in 1 .. n : /\ bins[i].addr \in Nat /\ bins[i].len \in Nat
                          /\ heap_start <= bins[i].addr
                          /\ bins[i].addr + bins[i].len <= heap_brk
                          /\ \A j \in 1 .. n : j < i => bins[j].addr + bins[j].len <= bins[i].addr
    BY <2>5 DEF HeapInv, BinsStack
  <2>9. BinsStack'
    <3>1. ASSUME NEW i \in 1 .. n + 1
          PROVE  /\ bins'[i].addr \in Nat /\ bins'[i].len \in Nat
                 /\ heap_start <= bins'[i].addr /\ bins'[i].addr + bins'[i].len <= end
                 /\ \A j \in 1 .. n + 1 : j < i => bins'[j].addr + bins'[j].len <= bins'[i].addr
      <4>1. CASE i \in 1 .. n
        <5>1. bins'[i] = bins[i] /\ \A j \in 1 .. n + 1 : j < i => j \in 1 .. n /\ bins'[j] = bins[j]
          BY <2>4, <2>7, <4>1 DEF n
        <5>. QED  BY <1>2, <2>2, <2>3, <2>8, <4>1, <5>1
      <4>2. CASE i = n + 1
        <5>1. bins'[i] = bin /\ \A j \in 1 .. n + 1 : j < i => j \in 1 .. n /\ bins'[j] = bins[j]
          BY <2>4, <2>7, <4>2 DEF n
        <5>. QED  BY <1>2, <2>2, <2>3, <2>6, <2>8, <5>1
      <4>. QED  BY <2>7, <4>1, <4>2
    <3>2. heap_start' = heap_start /\ heap_brk' = end
      BY <2>1
    <3>. QED  BY <2>4, <2>5, <3>1, <3>2 DEF BinsStack
  <2>10. BinsServe'
    <3>1. ASSUME NEW i \in 1 .. n + 1
          PROVE  /\ Serves(bins'[i])
                 /\ Linear(info'.data, bins'[i].addr, Pages(bins'[i].len)) \subseteq mapped'
      <4>1. CASE i \in 1 .. n
        <5>1. bins'[i] = bins[i]
          BY <2>4, <4>1 DEF n
        <5>2. i \in DOMAIN bins
          BY <2>5, <4>1
        <5>3. /\ Serves(bins[i])
              /\ Linear(info.data, bins[i].addr, Pages(bins[i].len)) \subseteq mapped
          BY <5>2 DEF HeapInv, BinsServe
        <5>. QED  BY <2>1, <5>1, <5>3
      <4>2. CASE i = n + 1
        <5>1. bins'[i] = bin
          BY <2>4, <4>2 DEF n
        <5>2. Linear(info.data, heap_brk, Pages(increment)) \subseteq mapped'
          <6>1. CASE end > heap_brk
            BY <2>1, <6>1
          <6>2. CASE ~(end > heap_brk)
            <7>1. increment = 0
              BY <1>2, <2>2, <2>3, <6>2
            <7>2. Pages(increment) = 0
              BY <1>1, <7>1, SmallRemainder, QuotientBelow, UniqueQuotient DEF Pages
            <7>3. \A k \in 0 .. 0 - 1 : FALSE
              OBVIOUS
            <7>. QED  BY <7>2, <7>3 DEF Linear
          <6>. QED  BY <6>1, <6>2
        <5>3. Serves(bin)
          <6>1. HEADER \in Nat /\ info.data.len \in Nat /\ info.data.len < MODULUS
            BY <1>1, HeapAssumption DEF Word
          <6>2. cleared + HEADER + PAGE_SIZE < MODULUS
            BY <1>1, <1>2, <2>1, <6>1
          <6>. QED  BY <6>2 DEF bin
        <5>. QED  BY <2>6, <5>1, <5>2, <5>3
      <4>. QED  BY <2>7, <4>1, <4>2
    <3>2. BinsServe' <=> \A i \in DOMAIN bins' :
                            /\ Serves(bins'[i])
                            /\ Linear(info'.data, bins'[i].addr, Pages(bins'[i].len)) \subseteq mapped'
      BY DEF BinsServe, Serves, Linear, Pages
    <3>. QED  BY <2>5, <3>1, <3>2
  <2>11. BreakHolds'
    BY <1>2, <2>1, <2>2, <2>3 DEF HeapInv, BreakHolds
  <2>. QED  BY <2>1, <2>9, <2>10, <2>11 DEF HeapInv, Heaped
<1>. QED  BY <1>3, <1>4

LEMMA SmallBinHeapInv ==
  ASSUME HeapInv, IInv, NEW next \in Heaped, SmallBin(next), stage \in Heaped
  PROVE  HeapInv'
<1>1. PAGE_SIZE \in Nat \ {0, 1} /\ PAGE_SIZE < MODULUS /\ MODULUS \in Nat
  BY Spans
<1>2. PAGE_SIZE \div 2 \in Nat /\ (PAGE_SIZE \div 2) + (PAGE_SIZE \div 2) <= PAGE_SIZE
      /\ PAGE_SIZE \div 2 >= 1
  BY <1>1
<1>3. HEADER \in 1 .. PAGE_SIZE \div 2
  BY HeapAssumption
<1>4. PAGE_SIZE \in Word /\ PAGE_SIZE \div 2 - 1 \in Nat
      /\ HEADER + (PAGE_SIZE \div 2 - 1) <= PAGE_SIZE
  BY <1>1, <1>2, <1>3 DEF Word
<1>5. Sbrk(PAGE_SIZE, PAGE_SIZE \div 2 - 1, 0, next) /\ UNCHANGED <<info, heap_start>>
  BY DEF SmallBin
<1>6. Serves([addr |-> heap_brk, len |-> PAGE_SIZE, asked |-> PAGE_SIZE \div 2 - 1,
              cleared |-> 0])
  BY <1>4 DEF Serves
<1>7. 0 \in Nat
  OBVIOUS
<1>. QED  BY <1>4, <1>5, <1>6, <1>7, SbrkHeapInv

(* A size that wraps with its header is either of no use to calloc, which  *)
(* clears more than there is, or it is malloc's.                           *)
LEMMA RequestHeapInv ==
  ASSUME HeapInv, IInv, NEW size \in Word, NEW asked \in Nat, NEW cleared \in Nat,
         klmalloc(size, asked, cleared), size = asked % MODULUS,
         cleared = size \/ (cleared = 0 /\ asked = size)
  PROVE  HeapInv'
<1>1. MODULUS \in Nat \ {0} /\ HEADER \in Nat /\ PAGE_SIZE \in Nat /\ size \in Nat
  BY Spans, HeapAssumption DEF Word
<1> DEFINE increment == Increment(size)
<1>2. /\ increment \in Word
      /\ size + HEADER + PAGE_SIZE < MODULUS => HEADER + size <= increment
  BY IncrementServes
<1>3. /\ Sbrk(increment, asked, cleared, "running") /\ UNCHANGED <<info, heap_start>>
      /\ stage = "running" /\ "running" \in Heaped
  BY DEF klmalloc, Heaped
<1> HIDE DEF increment
<1>4. asked < MODULUS => size = asked
  <2>1. asked < MODULUS => asked \in 0 .. MODULUS - 1
    BY <1>1
  <2>. QED  BY <1>1, <2>1, SmallRemainder
<1> DEFINE b == [addr |-> heap_brk, len |-> increment, asked |-> asked, cleared |-> cleared]
<1>5. b.len = increment /\ b.asked = asked /\ b.cleared = cleared
  OBVIOUS
<1>6. ASSUME cleared + HEADER + PAGE_SIZE < MODULUS
      PROVE  Serves(b)
  <2> HIDE DEF b
  <2>1. CASE cleared = size
    BY <1>1, <1>2, <1>4, <1>5, <1>6, <2>1 DEF Serves
  <2>2. CASE cleared = 0 /\ asked = size
    BY <1>1, <1>2, <1>5, <2>2 DEF Serves
  <2>. QED  BY <2>1, <2>2
<1>. QED  BY <1>2, <1>3, <1>6, SbrkHeapInv

-----------------------------------------------------------------------------
(* Pages and the tables' spans, as parts of addresses.                     *)
LEMMA QuotientsGrow ==
  ASSUME NEW a \in Nat, NEW b \in Nat, NEW k \in Nat \ {0}, a <= b
  PROVE  a \div k \in Nat /\ b \div k \in Nat /\ a \div k <= b \div k
<1> DEFINE c == a \div k
           d == b \div k
<1>1. c \in Nat /\ d \in Nat /\ a % k \in 0 .. k - 1 /\ b % k \in 0 .. k - 1
      /\ a = k * c + (a % k) /\ b = k * d + (b % k)
  BY Division
<1> HIDE DEF c, d
<1>2. d + 1 <= c => k * (d + 1) <= k * c /\ k * (d + 1) = k * d + k
  BY <1>1, Monotonic
<1>3. k * d \in Int /\ k * c \in Int
  BY <1>1
<1>4. ~(d + 1 <= c)
  BY <1>1, <1>2, <1>3
<1>. QED  BY <1>1, <1>4 DEF c, d

LEMMA PageOf ==
  ASSUME NEW a \in Nat
  PROVE  /\ Pages(a) \in Nat /\ PAGE_SIZE * Pages(a) \in Nat
         /\ PAGE_SIZE * Pages(a) <= a /\ a < PAGE_SIZE * Pages(a) + PAGE_SIZE
         /\ \A b \in Nat : a <= b => Pages(a) <= Pages(b)
<1>1. PAGE_SIZE \in Nat \ {0}
  BY Spans
<1> DEFINE q == Pages(a)
<1>2. q \in Nat /\ a % PAGE_SIZE \in 0 .. PAGE_SIZE - 1 /\ a = PAGE_SIZE * q + (a % PAGE_SIZE)
  BY <1>1, Division DEF Pages
<1>3. \A b \in Nat : a <= b => Pages(a) <= Pages(b)
  BY <1>1, QuotientsGrow DEF Pages
<1> HIDE DEF q
<1>4. PAGE_SIZE * q \in Nat
  BY <1>1, <1>2
<1>5. PAGE_SIZE * q <= a /\ a < PAGE_SIZE * q + PAGE_SIZE
  BY <1>1, <1>2, <1>4
<1>. QED  BY <1>2, <1>3, <1>4, <1>5 DEF q

LEMMA SpanOfPages ==
  ASSUME NEW w \in Nat
  PROVE  /\ w * TableSpan = PAGE_SIZE * (w * ENTRIES) /\ w * TableSpan \in Nat
         /\ (w + 1) * TableSpan = w * TableSpan + TableSpan
         /\ \A a \in Nat : a < w * TableSpan => Pages(a) < w * ENTRIES
         /\ \A a \in Nat : w * TableSpan <= a => w * ENTRIES <= Pages(a)
<1>1. PAGE_SIZE \in Nat \ {0} /\ ENTRIES \in Nat /\ TableSpan \in Nat
  BY Spans, WordsAssumption
<1>2. w * (PAGE_SIZE * ENTRIES) = PAGE_SIZE * (w * ENTRIES)
  BY <1>1
<1>3. w * TableSpan = PAGE_SIZE * (w * ENTRIES)
  BY <1>2 DEF TableSpan
<1> DEFINE e == w * ENTRIES
<1>4. e \in Nat
  BY <1>1
<1>5. w * TableSpan \in Nat /\ (w + 1) * TableSpan = w * TableSpan + TableSpan
  BY <1>1
<1> HIDE DEF e
<1>6. \A a \in Nat : a < PAGE_SIZE * e => Pages(a) < e
  BY <1>1, <1>4, QuotientBelow DEF Pages
<1>7. ASSUME NEW a \in Nat, PAGE_SIZE * e <= a
      PROVE  e <= Pages(a)
  <2>1. PAGE_SIZE * e \in Nat /\ Pages(PAGE_SIZE * e) = e
    BY <1>1, <1>4, Multiple DEF Pages
  <2>. QED  BY <1>7, <2>1, PageOf
<1>. QED  BY <1>3, <1>5, <1>6, <1>7 DEF e

-----------------------------------------------------------------------------
(* What the kernel knows of its segments.                                  *)
LEMMA Segments ==
  ASSUME IInv, stage \in Recorded
  PROVE  /\ info.code = segments.code /\ info.data = segments.data /\ info.module = segments.module
         /\ info.code.base \in Word /\ info.code.len \in Word
         /\ info.data.base \in Word /\ info.data.len \in Word
         /\ info.module.base \in Word /\ info.module.len \in Word
<1>1. InfoHolds /\ LaidOut
  BY DEF IInv, KernelInv, Recorded, LaidOut
<1>. QED  BY <1>1, SegmentsAreWords DEF InfoHolds

LEMMA SuitableSegments ==
  ASSUME IInv, stage \in Recorded, Suitable
  PROVE  /\ lma <= info.data.base /\ VIDEO_BASE_ADDR < info.data.base
         /\ info.code.base = info.data.base + info.data.len
         /\ info.code.base + info.code.len <= MODULUS
         /\ PAGE_SIZE <= info.data.len /\ info.data.len % PAGE_SIZE = 0
         /\ kernel_code_size <= info.code.len
         /\ info.module.len > 0 => info.module.base + info.module.len <= info.data.base
<1>1. Chosen /\ segments = Layout
  BY DEF IInv, LoaderInv, LaidOut, Recorded
<1>2. /\ info.data = Area(DataStart, DataLen) /\ info.module = module_segment
      /\ info.code = Area(DataStart + DataLen, Room - DataLen)
      /\ DataStart \in Nat /\ DataLen \in Nat /\ Room \in Nat
      /\ min_load_addr <= DataStart /\ DataStart + Room <= MODULUS /\ HalfNeeded <= DataLen
      /\ DataLen + kernel_code_size + kernel_data_size + 12 < Room
  BY <1>1, HalvesOfChunk, Segments
<1>3. /\ lma + kernel_size <= min_load_addr /\ min_load_addr \in Nat
      /\ module_segment.len > 0 => module_segment.base + module_segment.len <= min_load_addr
      /\ module_segment.base \in Nat /\ module_segment.len \in Nat
  BY <1>1, ImageIsBelow, ModuleType, LayoutType, Spans DEF Word
<1>4. DataLen % PAGE_SIZE = 0
  <2>1. Room \in Word /\ DataLen = PageUp(Room \div 2) /\ Room \div 2 \in Word
    BY <1>1, LayoutType, Spans DEF DataLen, Word
  <2>. QED  BY <2>1, RoundedIsWhole
<1>5. lma \in Nat /\ kernel_size \in Nat /\ PAGE_SIZE \in Nat /\ MODULUS \in Nat
      /\ kernel_code_size \in Nat /\ kernel_data_size \in Nat /\ PAGE_SIZE <= HalfNeeded
      /\ HalfNeeded \in Nat /\ VIDEO_BASE_ADDR \in Nat /\ VIDEO_BASE_ADDR < lma
  BY Sizes, Spans, VideoAssumption
<1>6. /\ info.data.base = DataStart /\ info.data.len = DataLen
      /\ info.code.base = DataStart + DataLen /\ info.code.len = Room - DataLen
  BY <1>2, AreaFields
<1>7. kernel_code_size <= info.code.len /\ info.code.base + info.code.len <= MODULUS
  BY <1>2, <1>5, <1>6
<1>8. lma <= info.data.base
  BY <1>2, <1>3, <1>5, <1>6
<1>. QED  BY <1>2, <1>3, <1>4, <1>5, <1>6, <1>7, <1>8

(* The linear pages of a piece of a segment hold addresses of that piece.  *)
LEMMA LinearPages ==
  ASSUME NEW segment, NEW rel \in Nat, NEW n \in Nat, segment.base \in Nat,
         segment.base + rel + PAGE_SIZE * n < MODULUS + PAGE_SIZE,
         NEW p \in Linear(segment, rel, n)
  PROVE  \E a \in Nat : /\ segment.base + rel <= a /\ a < segment.base + rel + PAGE_SIZE * n
                        /\ p = Pages(a)
<1>1. PICK i \in 0 .. n - 1 : p = Pages(Add(segment.base, Add(rel, i * PAGE_SIZE)))
  BY DEF Linear
<1>2. PAGE_SIZE \in Nat \ {0} /\ MODULUS \in Nat
  BY Spans
<1> DEFINE o == i * PAGE_SIZE
<1>3. o \in Nat /\ o + PAGE_SIZE <= PAGE_SIZE * n
  <2>1. PAGE_SIZE * (i + 1) <= PAGE_SIZE * n /\ PAGE_SIZE * (i + 1) = PAGE_SIZE * i + PAGE_SIZE
    BY <1>1, <1>2, Monotonic
  <2>2. i * PAGE_SIZE = PAGE_SIZE * i /\ PAGE_SIZE * i \in Nat /\ PAGE_SIZE * n \in Nat
    BY <1>1, <1>2
  <2>. QED  BY <1>2, <2>1, <2>2
<1>4. PAGE_SIZE * n \in Nat
  BY <1>2
<1> HIDE DEF o
<1>5. Add(rel, o) = rel + o /\ Add(segment.base, rel + o) = segment.base + rel + o
  BY <1>2, <1>3, <1>4 DEF Add
<1>6. p = Pages(segment.base + rel + o)
  BY <1>1, <1>5 DEF o
<1>7. segment.base + rel + o < segment.base + rel + PAGE_SIZE * n
  BY <1>2, <1>3, <1>4
<1>. QED  BY <1>3, <1>6, <1>7

LEMMA LinearFinite ==
  ASSUME NEW segment, NEW rel, NEW n \in Nat
  PROVE  IsFiniteSet(Linear(segment, rel, n))
<1>1. IsFiniteSet(0 .. n - 1)
  BY FS_Interval
<1> DEFINE D == 0 .. n - 1
           f == [i \in D |-> Pages(Add(segment.base, Add(rel, i * PAGE_SIZE)))]
           L == {f[i] : i \in D}
<1>2. Linear(segment, rel, n) = L
  BY DEF Linear
<1> HIDE DEF f
<1>3. f \in [D -> L] /\ \A p \in L : \E i \in D : f[i] = p
  BY DEF f
<1>4. f \in Surjection(D, L)
  BY <1>3 DEF Surjection
<1> HIDE DEF D, L
<1>5. IsFiniteSet(L)
  BY <1>1, <1>4, FS_Surjection DEF D
<1>. QED  BY <1>2, <1>5

-----------------------------------------------------------------------------
(* The pages of the kernel's data and its bitmaps, the ones handed out     *)
(* after them, one by one, and the last one, for the stack, are marked.    *)
DataPages == Pages(info.data.len)
Used == Pages(data_top)
Marks(n) == (0 .. Used + n - 1) \cup {DataPages - 1}

DataTop ==
  kernel_data_size +
    PAGE_SIZE * (BitmapPages(Pages(info.code.len)) + BitmapPages(Pages(info.data.len)))

HasWindow == {"init_heap"} \cup Heaped

MarksHold ==
  /\ stage \in Recorded => data_top = DataTop
  /\ stage = "init_gdt_kernel" => data_marks = Marks(0) /\ Used + 0 <= DataPages - 1
  /\ stage = "init_idt" => data_marks = Marks(1) /\ Used + 1 <= DataPages - 1
  /\ stage = "init_paging" => data_marks = Marks(2) /\ Used + 2 <= DataPages - 1

(* The window on the page tables comes after the directory.                *)
Ceiling == info.data.base + PAGE_SIZE * (Used + 2 + DIR_PAGES)
Window == table_index * TableSpan

WindowHolds ==
  stage \in HasWindow =>
    /\ table_index = window_index(Ceiling) /\ table_index \in 0 .. ENTRIES - 1
    /\ info.data.base % PAGE_SIZE = 0

SizeHolds ==
  stage \in Heaped =>
    /\ heap_start = Add(Sub(Window, info.data.base), TableSpan)
    /\ heap_size = LET half == PageDown(Sub(info.data.len, heap_start) \div 2)
                   IN  IF half > TableSpan THEN TableSpan ELSE half

(* The two blocks that start_kernel asks for show that there is room.      *)
RoomHolds ==
  /\ stage = "init_keyboard" => heap_brk = heap_start
  /\ stage \in {"initialize_syscalls", "IRQ_RES", "init_buf"} =>
       heap_brk = heap_start + PAGE_SIZE /\ heap_start + 2 * PAGE_SIZE <= info.data.len
  /\ stage = "running" =>
       heap_start + 3 * PAGE_SIZE <= info.data.len /\ 2 * PAGE_SIZE < heap_size

(* A mapped page is below the window or above it, or it is the last page of*)
(* the data segment or above that one.                                     *)
Outside ==
  {p \in Nat : \/ p < table_index * ENTRIES \/ (table_index + 1) * ENTRIES <= p
               \/ Pages(info.data.base + info.data.len - PAGE_SIZE) <= p}

MappedOutside == stage \in HasWindow /\ Suitable /\ ~disturbed => mapped \subseteq Outside

LayInv == MarksHold /\ WindowHolds /\ SizeHolds /\ RoomHolds /\ MappedOutside

LEMMA InitLayInv == Init => LayInv
<1> SUFFICES ASSUME Init
             PROVE  LayInv
  OBVIOUS
<1>1. stage = "loader_main"
  BY DEF Init, Init_loader
<1>2. stage \notin Recorded \cup HasWindow
  BY <1>1 DEF Recorded, HasWindow, Heaped
<1>. QED  BY <1>1, <1>2 DEF LayInv, MarksHold, WindowHolds, SizeHolds, RoomHolds, MappedOutside,
                            Recorded, HasWindow, Heaped

-----------------------------------------------------------------------------
(* The next page that is free is the one after the marked ones.            *)
LEMMA Claimed ==
  ASSUME NEW n \in Nat, Used \in Nat, DataPages \in Nat \ {0}, data_marks = Marks(n),
         Used + n <= DataPages - 1
  PROVE  /\ IsFiniteSet(FreeData)
         /\ FreeData # {} => /\ Used + (n + 1) <= DataPages - 1
                             /\ FirstFree(FreeData, 1) = {Used + n}
                             /\ data_marks \cup FirstFree(FreeData, 1) = Marks(n + 1)
                             /\ NextFree = Used + n
<1> DEFINE u == Used + n
           d == DataPages - 1
<1>1. u \in Nat /\ d \in Nat /\ u <= d
  OBVIOUS
<1>2. FreeData = (0 .. d) \ ((0 .. u - 1) \cup {d})
  BY DEF FreeData, Marks, DataPages
<1> HIDE DEF u, d
<1>3. FreeData = u .. d - 1
  BY <1>1, <1>2
<1>4. IsFiniteSet(FreeData)
  BY <1>1, <1>3, FS_Interval
<1>5. ASSUME FreeData # {}
      PROVE  u + 1 <= d /\ FirstFree(FreeData, 1) = {u}
  <2>1. u + 1 <= d /\ u \in FreeData
    BY <1>1, <1>3, <1>5
  <2>2. \A p \in FreeData : /\ IsFiniteSet({q \in FreeData : q < p})
                            /\ Cardinality({q \in FreeData : q < p}) \in Nat
                            /\ Cardinality({q \in FreeData : q < p}) = 0
                                 <=> {q \in FreeData : q < p} = {}
    <3> TAKE p \in FreeData
    <3>1. IsFiniteSet({q \in FreeData : q < p})
      BY <1>4, FS_Subset
    <3>2. Cardinality({q \in FreeData : q < p}) \in Nat
      BY <3>1, FS_CardinalityType
    <3> DEFINE B == {q \in FreeData : q < p}
    <3> HIDE DEF B
    <3>3. Cardinality(B) = 0 <=> B = {}
      BY <3>1, FS_EmptySet DEF B
    <3>. QED  BY <3>1, <3>2, <3>3 DEF B
  <2>3. \A p \in FreeData : {q \in FreeData : q < p} = {} <=> p = u
    <3> TAKE p \in FreeData
    <3>1. p \in Nat /\ u <= p /\ \A q \in FreeData : q \in Nat /\ u <= q
      BY <1>1, <1>3
    <3>2. p = u => \A q \in FreeData : ~(q < p)
      BY <1>1, <3>1
    <3>3. p # u => u < p
      BY <1>1, <3>1
    <3>. QED  BY <2>1, <3>2, <3>3
  <2>4. \A p \in FreeData : Cardinality({q \in FreeData : q < p}) < 1 <=> p = u
    <3> TAKE p \in FreeData
    <3> DEFINE c == Cardinality({q \in FreeData : q < p})
    <3>1. c \in Nat /\ (c = 0 <=> p = u)
      BY <2>2, <2>3
    <3> HIDE DEF c
    <3>2. c < 1 <=> p = u
      BY <3>1
    <3>. QED  BY <3>2 DEF c
  <2>. QED  BY <2>1, <2>4 DEF FirstFree
<1>6. ASSUME FreeData # {}
      PROVE  data_marks \cup FirstFree(FreeData, 1) = Marks(n + 1)
  <2>1. data_marks \cup {u} = (0 .. u) \cup {d}
    BY <1>1 DEF Marks, u, d
  <2>2. Marks(n + 1) = (0 .. u) \cup {d}
    BY DEF Marks, u, d
  <2>. QED  BY <1>5, <1>6, <2>1, <2>2
<1>7. ASSUME FreeData # {}
      PROVE  NextFree = u
  <2>1. u \in 0 .. Pages(info.data.len) - 1
    BY <1>1, <1>5, <1>7 DEF d, DataPages
  <2>. QED  BY <1>5, <1>7, <2>1 DEF NextFree
<1>8. FreeData # {} => Used + (n + 1) <= DataPages - 1
  BY <1>1, <1>5 DEF u, d
<1>. QED  BY <1>4, <1>5, <1>6, <1>7, <1>8 DEF u

-----------------------------------------------------------------------------
(* The kernel's data, its tables and its directory take up no more than a  *)
(* page table maps, and the window begins within as much above them.       *)
LEMMA BitmapsGrow ==
  ASSUME NEW a \in Nat, NEW b \in Nat, a <= b
  PROVE  BitmapPages(a) \in Nat /\ BitmapPages(b) \in Nat /\ BitmapPages(a) <= BitmapPages(b)
<1> DEFINE c == (a + 7) \div 8
           d == (b + 7) \div 8
<1>1. PAGE_SIZE \in Nat \ {0}
  BY Spans
<1>2. c \in Nat /\ d \in Nat /\ c <= d
  BY QuotientsGrow
<1> HIDE DEF c, d
<1>3. c + PAGE_SIZE - 1 \in Nat /\ d + PAGE_SIZE - 1 \in Nat
      /\ c + PAGE_SIZE - 1 <= d + PAGE_SIZE - 1
  BY <1>1, <1>2
<1>4. BitmapPages(a) = (c + PAGE_SIZE - 1) \div PAGE_SIZE
      /\ BitmapPages(b) = (d + PAGE_SIZE - 1) \div PAGE_SIZE
  BY DEF BitmapPages, c, d
<1>. QED  BY <1>1, <1>3, <1>4, QuotientsGrow

LEMMA BitmapBound ==
  ASSUME NEW len \in Word
  PROVE  /\ BitmapPages(Pages(len)) \in Nat /\ BitmapPages(ENTRIES * ENTRIES) \in Nat
         /\ BitmapPages(Pages(len)) <= BitmapPages(ENTRIES * ENTRIES)
<1> DEFINE n == ENTRIES * ENTRIES
<1>1. PAGE_SIZE \in Nat \ {0} /\ ENTRIES \in Nat /\ n \in Nat /\ len \in Nat /\ len < MODULUS
  BY Spans, WordsAssumption DEF Word
<1>2. MODULUS = PAGE_SIZE * n
  BY <1>1 DEF MODULUS, TableSpan
<1> HIDE DEF n
<1>3. Pages(len) \in Nat /\ Pages(len) <= n
  BY <1>1, <1>2, QuotientBelow DEF Pages
<1>. QED  BY <1>1, <1>3, BitmapsGrow DEF n

LEMMA DataFitsTable ==
  ASSUME IInv, stage \in Recorded
  PROVE  /\ DataTop \in Nat /\ Pages(DataTop) \in Nat
         /\ DataTop + 4 * PAGE_SIZE <= TableSpan
         /\ PAGE_SIZE * (Pages(DataTop) + 4) \in Nat
         /\ PAGE_SIZE * (Pages(DataTop) + 4) <= DataTop + 4 * PAGE_SIZE
<1>1. info.code.len \in Word /\ info.data.len \in Word
  BY Segments
<1> DEFINE x == BitmapPages(Pages(info.code.len))
           y == BitmapPages(Pages(info.data.len))
           m == BitmapPages(ENTRIES * ENTRIES)
<1>2. x \in Nat /\ y \in Nat /\ m \in Nat /\ x <= m /\ y <= m
  BY <1>1, BitmapBound
<1>3. PAGE_SIZE \in Nat \ {0} /\ kernel_data_size \in Nat /\ TableSpan \in Nat
  BY Spans, Sizes
<1>4. DataTop = kernel_data_size + PAGE_SIZE * (x + y)
      /\ kernel_data_size + PAGE_SIZE * (2 * m + 2 + 2) <= TableSpan
  BY KernelDataAssumption DEF DataTop, DIR_PAGES
<1> HIDE DEF x, y, m
<1>5. PAGE_SIZE * (x + y) \in Nat /\ PAGE_SIZE * (x + y) <= PAGE_SIZE * (2 * m)
      /\ PAGE_SIZE * (2 * m) \in Nat
  BY <1>2, <1>3, Monotonic
<1>6. PAGE_SIZE * (2 * m + 2 + 2) = PAGE_SIZE * (2 * m) + 4 * PAGE_SIZE
  BY <1>2, <1>3
<1>7. DataTop \in Nat /\ DataTop + 4 * PAGE_SIZE <= TableSpan
  BY <1>3, <1>4, <1>5, <1>6
<1> DEFINE u == Pages(DataTop)
<1>8. u \in Nat /\ PAGE_SIZE * u \in Nat /\ PAGE_SIZE * u <= DataTop
  BY <1>7, PageOf
<1> HIDE DEF u
<1>9. PAGE_SIZE * (u + 4) = PAGE_SIZE * u + 4 * PAGE_SIZE
  BY <1>3, <1>8
<1>10. PAGE_SIZE * (u + 4) \in Nat /\ PAGE_SIZE * (u + 4) <= DataTop + 4 * PAGE_SIZE
  BY <1>3, <1>7, <1>8, <1>9
<1>. QED  BY <1>7, <1>8, <1>10 DEF u

LEMMA WindowBounds ==
  ASSUME NEW x \in Nat
  PROVE  /\ window_index(x) \in Nat
         /\ x <= window_index(x) * TableSpan /\ window_index(x) * TableSpan < x + TableSpan
<1>1. TableSpan \in Nat \ {0}
  BY Spans
<1> DEFINE q == x \div TableSpan
           r == x % TableSpan
<1>2. q \in Nat /\ r \in 0 .. TableSpan - 1 /\ x = TableSpan * q + r
  BY <1>1, Division
<1>3. window_index(x) = IF r # 0 THEN q + 1 ELSE q
  BY DEF window_index
<1> HIDE DEF q, r
<1>4. TableSpan * q \in Nat /\ q * TableSpan = TableSpan * q
      /\ (q + 1) * TableSpan = TableSpan * q + TableSpan
  BY <1>1, <1>2
<1>. QED  BY <1>1, <1>2, <1>3, <1>4

(* Where the window is, in addresses.                                      *)
Placed ==
  stage \in HasWindow =>
    /\ Window \in Nat /\ Ceiling \in Nat /\ info.data.base \in Nat
    /\ Ceiling <= Window /\ Window < Ceiling + TableSpan
    /\ info.data.base < Ceiling /\ Ceiling <= info.data.base + data_top + 4 * PAGE_SIZE
    /\ data_top \in Nat /\ data_top + 4 * PAGE_SIZE <= TableSpan
    /\ Window + TableSpan <= MODULUS

LEMMA WindowPlace == IInv /\ MarksHold /\ WindowHolds => Placed
<1> SUFFICES ASSUME IInv, MarksHold, WindowHolds, stage \in HasWindow
             PROVE  /\ Window \in Nat /\ Ceiling \in Nat /\ info.data.base \in Nat
                    /\ Ceiling <= Window /\ Window < Ceiling + TableSpan
                    /\ info.data.base < Ceiling
                    /\ Ceiling <= info.data.base + data_top + 4 * PAGE_SIZE
                    /\ data_top \in Nat /\ data_top + 4 * PAGE_SIZE <= TableSpan
                    /\ Window + TableSpan <= MODULUS
  BY DEF Placed
<1>1. stage \in Recorded
  BY DEF HasWindow, Heaped, Recorded
<1>2. data_top = DataTop /\ info.data.base \in Nat /\ PAGE_SIZE \in Nat \ {0}
      /\ TableSpan \in Nat \ {0} /\ MODULUS \in Nat
  BY <1>1, Segments, Spans DEF MarksHold, Word
<1>3. /\ data_top \in Nat /\ data_top + 4 * PAGE_SIZE <= TableSpan
      /\ PAGE_SIZE * (Used + 4) \in Nat /\ PAGE_SIZE * (Used + 4) <= data_top + 4 * PAGE_SIZE
      /\ Used \in Nat
  BY <1>1, <1>2, DataFitsTable DEF Used
<1>4. Ceiling = info.data.base + PAGE_SIZE * (Used + 4)
  BY <1>3 DEF Ceiling, DIR_PAGES
<1>5. PAGE_SIZE * (Used + 4) > 0
  BY <1>2, <1>3, Monotonic
<1>6. Ceiling \in Nat
  BY <1>2, <1>3, <1>4
<1>7. Window \in Nat /\ Ceiling <= Window /\ Window < Ceiling + TableSpan
  BY <1>6, <1>2, WindowBounds, SpanOfPages DEF WindowHolds, Window
<1>8. Window + TableSpan <= MODULUS
  <2>1. table_index \in 0 .. ENTRIES - 1 /\ ENTRIES \in Nat
    BY WordsAssumption DEF WindowHolds
  <2>2. TableSpan * (table_index + 1) <= TableSpan * ENTRIES
        /\ TableSpan * (table_index + 1) = TableSpan * table_index + TableSpan
    BY <1>2, <2>1, Monotonic
  <2>3. Window = TableSpan * table_index
    BY <1>2, <2>1 DEF Window
  <2>. QED  BY <1>2, <1>7, <2>1, <2>2, <2>3 DEF MODULUS
<1>. QED  BY <1>2, <1>3, <1>4, <1>5, <1>6, <1>7, <1>8

(* Pieces of segments that lie below the window, above it, or high up in   *)
(* the data segment and beyond, have their pages outside the window.       *)
LEMMA PagesOutside ==
  ASSUME NEW w \in Nat, NEW last \in Nat, NEW segment, NEW rel \in Nat, NEW n \in Nat,
         segment.base \in Nat, segment.base + rel + PAGE_SIZE * n < MODULUS + PAGE_SIZE,
         \/ segment.base + rel + PAGE_SIZE * n <= w * TableSpan
         \/ w * TableSpan + TableSpan <= segment.base + rel
         \/ last <= segment.base + rel,
         NEW p \in Linear(segment, rel, n)
  PROVE  p \in Nat /\ (p < w * ENTRIES \/ (w + 1) * ENTRIES <= p \/ Pages(last) <= p)
<1>1. PICK a \in Nat : /\ segment.base + rel <= a /\ a < segment.base + rel + PAGE_SIZE * n
                       /\ p = Pages(a)
  BY LinearPages
<1>2. p \in Nat
  BY <1>1, PageOf
<1>3. w * TableSpan \in Nat /\ w + 1 \in Nat /\ (w + 1) * TableSpan = w * TableSpan + TableSpan
  BY SpanOfPages, SMTT(30)
<1>4. PAGE_SIZE * n \in Nat /\ TableSpan \in Nat
  BY Spans
<1>5. CASE segment.base + rel + PAGE_SIZE * n <= w * TableSpan
  <2>1. a < w * TableSpan
    BY <1>1, <1>3, <1>4, <1>5
  <2>. QED  BY <1>1, <1>2, <2>1, SpanOfPages
<1>6. CASE w * TableSpan + TableSpan <= segment.base + rel
  <2>1. (w + 1) * TableSpan <= a
    BY <1>1, <1>3, <1>4, <1>6
  <2>. QED  BY <1>1, <1>2, <1>3, <2>1, SpanOfPages
<1>7. CASE last <= segment.base + rel
  <2>1. last <= a
    BY <1>1, <1>7
  <2>. QED  BY <1>1, <1>2, <2>1, PageOf
<1>. QED  BY <1>5, <1>6, <1>7

LEMMA TablesFinite ==
  ASSUME NEW U, IsFiniteSet(U)
  PROVE  IsFiniteSet({TableOf(p) : p \in U})
<1> DEFINE f == [p \in U |-> TableOf(p)]
           L == {f[p] : p \in U}
<1>1. L = {TableOf(p) : p \in U}
  OBVIOUS
<1> HIDE DEF f
<1>2. f \in [U -> L] /\ \A t \in L : \E p \in U : f[p] = t
  BY DEF f
<1>3. f \in Surjection(U, L)
  BY <1>2 DEF Surjection
<1> HIDE DEF L
<1>. QED  BY <1>1, <1>3, FS_Surjection

-----------------------------------------------------------------------------
(* init_paging: if it goes on, the directory came right after the pages of *)
(* the two descriptor tables, and the window after the directory.          *)
KernelPages ==
  Linear(info.data, 0, Used + 4)
    \cup Linear(info.data, Sub(info.data.len, PAGE_SIZE), 1)
    \cup Linear(info.code, 0, Pages(kernel_code_size))
    \cup Linear([base |-> VIDEO_BASE_ADDR], 0, 1)
    \cup Linear(info.module, 0, Pages(info.module.len))

LEMMA PagingStarts ==
  ASSUME IInv, MarksHold, init_paging, stage' \notin Stops
  PROVE  /\ stage' = "init_heap" /\ UNCHANGED <<layoutVars, info, data_top>>
         /\ table_index' = window_index(Ceiling) /\ table_index' \in 0 .. ENTRIES - 1
         /\ info.data.base % PAGE_SIZE = 0 /\ Used + 3 <= DataPages - 1
         /\ mapped' = KernelPages
<1> DEFINE Dir == PAGE_SIZE * NextFree
           Roof == Dir + DIR_PAGES * PAGE_SIZE
           P == Linear(info.data, 0, Pages(Roof))
                  \cup Linear(info.data, Sub(info.data.len, PAGE_SIZE), 1)
                  \cup Linear(info.code, 0, Pages(kernel_code_size))
                  \cup Linear([base |-> VIDEO_BASE_ADDR], 0, 1)
                  \cup Linear(info.module, 0, Pages(info.module.len))
           w == window_index(info.data.base + Roof)
           N == {TableOf(p) : p \in P} \ {w}
<1>1. /\ stage = "init_paging" /\ table_index' = w /\ mapped' = P
      /\ UNCHANGED <<layoutVars, info, data_top>>
      /\ stage' = "init_heap" /\ info.data.base % PAGE_SIZE = 0 /\ w < ENTRIES
      /\ Cardinality(FreeData) >= DIR_PAGES + 1 + Cardinality(N)
  BY DEF init_paging, AllocData, NoPage, Stops
<1>2. stage \in Recorded /\ data_top = DataTop /\ data_marks = Marks(2) /\ Used + 2 <= DataPages - 1
  BY <1>1 DEF MarksHold, Recorded
<1>3. /\ Used \in Nat /\ info.data.base \in Nat /\ info.data.len \in Nat /\ info.module.len \in Nat
      /\ PAGE_SIZE \in Nat \ {0} /\ kernel_code_size \in Nat
      /\ PAGE_SIZE * (Used + 4) \in Nat
  BY <1>2, DataFitsTable, Segments, Spans, Sizes DEF Used, Word
<1>4. DataPages \in Nat \ {0}
  BY <1>2, <1>3, PageOf DEF DataPages
<1>5. NextFree \in 0 .. DataPages - 1
  <2>1. CASE FreeData # {}
    BY <1>2, <1>3, <1>4, <2>1, Claimed
  <2>2. CASE FreeData = {}
    <3>1. 0 \in 0 .. Pages(info.data.len) - 1
      BY <1>4 DEF DataPages
    <3>. QED  BY <2>2, <3>1 DEF NextFree, DataPages
  <2>. QED  BY <2>1, <2>2
<1>6. Roof \in Nat
  BY <1>3, <1>4, <1>5 DEF DIR_PAGES
<1>7. IsFiniteSet(N) /\ Cardinality(N) \in Nat
  <2>1. Pages(Roof) \in Nat /\ Pages(kernel_code_size) \in Nat /\ Pages(info.module.len) \in Nat
    BY <1>3, <1>6, PageOf
  <2>2. IsFiniteSet(P)
    BY <2>1, LinearFinite, FS_Union
  <2>3. IsFiniteSet({TableOf(p) : p \in P})
    BY <2>2, TablesFinite
  <2>4. IsFiniteSet(N)
    BY <2>3, FS_Subset
  <2>. QED  BY <2>4, FS_CardinalityType
<1>8. FreeData # {}
  <2>1. Cardinality(FreeData) # 0
    BY <1>1, <1>7 DEF DIR_PAGES
  <2>. QED  BY <2>1, FS_EmptySet
<1>9. NextFree = Used + 2 /\ Used + 3 <= DataPages - 1
  <2>1. 2 \in Nat /\ data_marks = Marks(2) /\ Used + 2 <= DataPages - 1
    BY <1>2
  <2>2. NextFree = Used + 2 /\ Used + (2 + 1) <= DataPages - 1
    BY <1>3, <1>4, <1>8, <2>1, Claimed
  <2>. QED  BY <2>2
<1>10. Roof = PAGE_SIZE * (Used + 4) /\ info.data.base + Roof = Ceiling
  BY <1>3, <1>9 DEF DIR_PAGES, Ceiling
<1>11. Pages(Roof) = Used + 4
  <2>1. Used + 4 \in Nat
    BY <1>3
  <2>2. (PAGE_SIZE * (Used + 4)) \div PAGE_SIZE = Used + 4
    BY <1>3, <2>1, Multiple
  <2>. QED  BY <1>10, <2>2 DEF Pages
<1>12. P = KernelPages
  BY <1>11 DEF KernelPages
<1>13. w = window_index(Ceiling) /\ w \in Nat
  <2>1. Ceiling \in Nat
    BY <1>3, <1>6, <1>10
  <2>. QED  BY <1>10, <2>1, WindowBounds
<1>. QED  BY <1>1, <1>9, <1>12, <1>13, WordsAssumption

LEMMA WindowPlaceNext == IInv' /\ MarksHold' /\ WindowHolds' => Placed'
  BY WindowPlace, PTL

LEMMA PagingLayInv ==
  ASSUME IInv, IInv', LayInv, init_paging, disturbed' = disturbed
  PROVE  LayInv'
<1>1. stage = "init_paging" /\ stage' \in {"init_heap"} \cup Stops
  BY DEF init_paging, AllocData, NoPage, Stops
<1>2. CASE stage' \in Stops
  BY <1>2 DEF LayInv, MarksHold, WindowHolds, SizeHolds, RoomHolds, MappedOutside,
              Recorded, HasWindow, Heaped, Stops
<1>3. CASE stage' \notin Stops
  <2> DEFINE w == table_index'
             base == info.data.base
             len == info.data.len
             last == base + len - PAGE_SIZE
  <2>1. /\ stage' = "init_heap" /\ UNCHANGED <<layoutVars, info, data_top>>
        /\ w = window_index(Ceiling) /\ w \in 0 .. ENTRIES - 1
        /\ base % PAGE_SIZE = 0 /\ Used + 3 <= DataPages - 1 /\ mapped' = KernelPages
    BY <1>3, PagingStarts DEF LayInv
  <2>2. Ceiling' = Ceiling /\ DataTop' = DataTop
    BY <2>1 DEF Ceiling, DataTop, Used
  <2>3. MarksHold'
    BY <1>1, <2>1, <2>2 DEF LayInv, MarksHold, Recorded
  <2>4. WindowHolds'
    BY <2>1, <2>2 DEF WindowHolds
  <2>5. SizeHolds' /\ RoomHolds'
    BY <2>1 DEF SizeHolds, RoomHolds, Heaped
  <2>6. /\ w * TableSpan \in Nat /\ Ceiling \in Nat /\ base \in Nat
        /\ Ceiling <= w * TableSpan /\ base < Ceiling /\ w * TableSpan + TableSpan <= MODULUS
    <3>1. Placed'
      BY <2>3, <2>4, WindowPlaceNext
    <3>. QED  BY <2>1, <2>2, <3>1 DEF Placed, Window, HasWindow
  <2>7. ASSUME Suitable
        PROVE  KernelPages \subseteq {p \in Nat : p < w * ENTRIES \/ (w + 1) * ENTRIES <= p
                                                   \/ Pages(last) <= p}
    <3>1. /\ VIDEO_BASE_ADDR < base /\ info.code.base = base + len
          /\ info.code.base + info.code.len <= MODULUS
          /\ PAGE_SIZE <= len /\ kernel_code_size <= info.code.len
          /\ info.module.len > 0 => info.module.base + info.module.len <= base
      BY <1>1, <2>7, SuitableSegments DEF Recorded
    <3>2. /\ len \in Nat /\ info.code.base \in Nat /\ info.code.len \in Nat
          /\ info.module.base \in Nat /\ info.module.len \in Nat /\ VIDEO_BASE_ADDR \in Nat
          /\ PAGE_SIZE \in Nat \ {0} /\ MODULUS \in Nat /\ kernel_code_size \in Nat
          /\ TableSpan \in Nat \ {0}
      BY <1>1, Segments, Spans, Sizes, VideoAssumption DEF Recorded, Word
    <3>3. Used \in Nat /\ PAGE_SIZE * (Used + 4) \in Nat
      <4>1. data_top = DataTop
        BY <1>1 DEF LayInv, MarksHold, Recorded
      <4>. QED  BY <1>1, <4>1, DataFitsTable DEF Used, Recorded
    <3>4. last \in Nat /\ w \in Nat
      BY <2>1, <2>6, <3>1, <3>2
    <3>5. PAGE_SIZE * 1 = PAGE_SIZE
      BY <3>2
    <3> DEFINE Good == {p \in Nat : p < w * ENTRIES \/ (w + 1) * ENTRIES <= p
                                     \/ Pages(last) <= p}
    <3>6. Linear(info.data, 0, Used + 4) \subseteq Good
      <4>1. Ceiling = base + 0 + PAGE_SIZE * (Used + 4)
        BY <2>6, <3>3 DEF Ceiling, DIR_PAGES
      <4>2. /\ base + 0 + PAGE_SIZE * (Used + 4) < MODULUS + PAGE_SIZE
            /\ base + 0 + PAGE_SIZE * (Used + 4) <= w * TableSpan
        BY <2>6, <3>2, <3>3, <4>1
      <4> DEFINE n == Used + 4
      <4>3. n \in Nat /\ 0 \in Nat
        BY <3>3
      <4> HIDE DEF n
      <4>4. base + 0 + PAGE_SIZE * n < MODULUS + PAGE_SIZE /\ base + 0 + PAGE_SIZE * n <= w * TableSpan
        BY <4>2 DEF n
      <4>5. Linear(info.data, 0, n) \subseteq Good
        BY <2>6, <3>4, <4>3, <4>4, PagesOutside
      <4>. QED  BY <4>5 DEF n
    <3>7. Linear(info.data, Sub(len, PAGE_SIZE), 1) \subseteq Good
      <4>1. Sub(len, PAGE_SIZE) = len - PAGE_SIZE /\ len - PAGE_SIZE \in Nat
        BY <3>1, <3>2 DEF Sub
      <4> DEFINE rel == Sub(len, PAGE_SIZE)
      <4>2. base + rel + PAGE_SIZE * 1 < MODULUS + PAGE_SIZE /\ last <= base + rel
        BY <2>6, <3>1, <3>2, <3>5, <4>1
      <4>3. rel \in Nat /\ 1 \in Nat
        BY <4>1
      <4> HIDE DEF rel
      <4>4. Linear(info.data, rel, 1) \subseteq Good
        BY <2>6, <3>4, <4>2, <4>3, PagesOutside
      <4>. QED  BY <4>4 DEF rel
    <3>8. Linear(info.code, 0, Pages(kernel_code_size)) \subseteq Good
      <4>1. Pages(kernel_code_size) \in Nat /\ PAGE_SIZE * Pages(kernel_code_size) \in Nat
            /\ PAGE_SIZE * Pages(kernel_code_size) <= kernel_code_size
        BY <3>2, PageOf
      <4>2. info.code.base + 0 + PAGE_SIZE * Pages(kernel_code_size) < MODULUS + PAGE_SIZE
            /\ last <= info.code.base + 0
        BY <2>6, <3>1, <3>2, <4>1
      <4>. QED  BY <3>2, <3>4, <4>1, <4>2, PagesOutside
    <3>9. Linear([base |-> VIDEO_BASE_ADDR], 0, 1) \subseteq Good
      <4> DEFINE video == [base |-> VIDEO_BASE_ADDR]
      <4>1. video.base = VIDEO_BASE_ADDR
        OBVIOUS
      <4> HIDE DEF video
      <4>2. base + PAGE_SIZE <= Ceiling
        <5>1. PAGE_SIZE * 1 <= PAGE_SIZE * (Used + 4)
          BY <3>2, <3>3, Monotonic
        <5>2. Ceiling = base + PAGE_SIZE * (Used + 4)
          BY <3>3 DEF Ceiling, DIR_PAGES
        <5>. QED  BY <2>6, <3>2, <3>3, <3>5, <5>1, <5>2
      <4>3. video.base \in Nat /\ video.base + 0 + PAGE_SIZE * 1 < MODULUS + PAGE_SIZE
            /\ video.base + 0 + PAGE_SIZE * 1 <= w * TableSpan
        BY <2>6, <3>1, <3>2, <3>5, <4>1, <4>2
      <4>. QED  BY <3>4, <4>3, PagesOutside DEF video
    <3>10. Linear(info.module, 0, Pages(info.module.len)) \subseteq Good
      <4>1. Pages(info.module.len) \in Nat /\ PAGE_SIZE * Pages(info.module.len) \in Nat
            /\ PAGE_SIZE * Pages(info.module.len) <= info.module.len
        BY <3>2, PageOf
      <4>2. CASE info.module.len > 0
        <5>1. info.module.base + 0 + PAGE_SIZE * Pages(info.module.len) < MODULUS + PAGE_SIZE
              /\ info.module.base + 0 + PAGE_SIZE * Pages(info.module.len) <= w * TableSpan
          BY <2>6, <3>1, <3>2, <4>1, <4>2
        <5> DEFINE n == Pages(info.module.len)
        <5>2. n \in Nat /\ 0 \in Nat
          BY <4>1
        <5>3. info.module.base + 0 + PAGE_SIZE * n < MODULUS + PAGE_SIZE
              /\ info.module.base + 0 + PAGE_SIZE * n <= w * TableSpan
          BY <5>1
        <5> HIDE DEF n
        <5>4. Linear(info.module, 0, n) \subseteq Good
          BY <3>2, <3>4, <5>2, <5>3, PagesOutside
        <5>. QED  BY <5>4 DEF n
      <4>3. CASE info.module.len = 0
        <5>1. Pages(0) = 0
          BY <3>2, SmallRemainder, Multiple, UniqueQuotient DEF Pages
        <5>2. \A i \in 0 .. 0 - 1 : FALSE
          OBVIOUS
        <5>. QED  BY <4>3, <5>1, <5>2 DEF Linear
      <4>. QED  BY <3>2, <4>2, <4>3
    <3>. QED  BY <3>6, <3>7, <3>8, <3>9, <3>10 DEF KernelPages
  <2>8. MappedOutside'
    <3>1. Suitable' <=> Suitable
      BY <2>1, ChoiceKept DEF layoutVars
    <3>2. Outside' = {p \in Nat : p < w * ENTRIES \/ (w + 1) * ENTRIES <= p \/ Pages(last) <= p}
      BY <2>1 DEF Outside, Pages
    <3>. QED  BY <2>1, <2>7, <3>1, <3>2 DEF MappedOutside
  <2>. QED  BY <2>3, <2>4, <2>5, <2>8 DEF LayInv
<1>. QED  BY <1>2, <1>3

-----------------------------------------------------------------------------
(* The start of the kernel up to init_paging.                              *)
DataTopHolds ==
  stage \in Recorded => /\ DataTop \in Nat /\ info.data.len \in Nat

LEMMA DataTopIsTyped == IInv => DataTopHolds
  BY DataFitsTable, Segments DEF DataTopHolds, Word

LEMMA DataTopIsTypedNext == IInv' => DataTopHolds'
  BY DataTopIsTyped, PTL

LEMMA OnePageMore ==
  ASSUME IInv, MarksHold, NEW n \in Nat, data_marks = Marks(n), Used + n <= DataPages - 1,
         stage \in Recorded, NEW next, AllocData(1, next), stage' = next, next \notin Stops,
         UNCHANGED <<info, data_top>>
  PROVE  /\ data_marks' = Marks(n + 1)' /\ (Used + (n + 1) <= DataPages - 1)'
         /\ data_top' = DataTop'
<1>1. /\ Cardinality(FreeData) >= 1
      /\ data_marks' = data_marks \cup FirstFree(FreeData, 1)
  BY DEF AllocData, NoPage, Stops
<1>2. FreeData # {}
  BY <1>1, FS_EmptySet
<1>3. data_top = DataTop /\ Used \in Nat /\ DataPages \in Nat
  <2>1. data_top = DataTop /\ Pages(DataTop) \in Nat /\ info.data.len \in Nat
    BY DataFitsTable, Segments DEF MarksHold, Word
  <2>. QED  BY <2>1, PageOf DEF Used, DataPages
<1>4. DataPages \in Nat \ {0}
  BY <1>3
<1>5. Used' = Used /\ DataPages' = DataPages /\ DataTop' = DataTop
  BY DEF Used, DataPages, DataTop
<1>6. Marks(n + 1)' = Marks(n + 1)
  BY <1>5 DEF Marks
<1>. QED  BY <1>1, <1>2, <1>3, <1>4, <1>5, <1>6, Claimed

LEMMA NotYet ==
  ASSUME stage' \notin HasWindow, MarksHold'
  PROVE  LayInv'
  BY DEF LayInv, WindowHolds, SizeHolds, RoomHolds, MappedOutside, HasWindow, Heaped

LEMMA EarlyLayInv ==
  ASSUME IInv, IInv', LayInv, Next_loader \/ (Next_start /\ disturbed' = disturbed)
  PROVE  LayInv'
<1>1. CASE Next_loader
  <2>1. stage' \notin Recorded
    BY <1>1 DEF Next_loader, loader_main, ScanEntry, init_segments_parameters, init_gdt_loader,
                copy_data, copy_code, goto_kernel, Recorded
  <2>2. stage' \notin HasWindow
    BY <2>1 DEF Recorded, HasWindow, Heaped
  <2>. QED  BY <2>1, <2>2, NotYet DEF MarksHold, Recorded
<1>2. CASE init_memory_manager
  <2>1. stage' \in {"init_gdt_kernel", "wrecked"}
    BY <1>2 DEF init_memory_manager
  <2>2. ASSUME stage' = "init_gdt_kernel"
        PROVE  data_top' = DataTop' /\ data_marks' = Marks(0)' /\ (Used + 0 <= DataPages - 1)'
    <3>1. /\ data_top' = DataTop' /\ data_top' + PAGE_SIZE <= info'.data.len
          /\ data_marks' = (0 .. Pages(data_top') - 1) \cup {Pages(info'.data.len) - 1}
      BY <1>2, <2>2 DEF init_memory_manager, DataTop
    <3>2. data_top' \in Nat /\ info'.data.len \in Nat
      BY <2>2, <3>1, DataTopIsTypedNext DEF DataTopHolds, Recorded
    <3> DEFINE u == Pages(data_top')
               k == Pages(info'.data.len)
    <3>3. u \in Nat /\ k \in Nat /\ PAGE_SIZE * u \in Nat /\ PAGE_SIZE * u <= data_top'
          /\ PAGE_SIZE \in Nat \ {0}
      BY <3>2, PageOf, Spans
    <3>4. u + 1 <= k
      <4> HIDE DEF u
      <4>1. PAGE_SIZE * (u + 1) = PAGE_SIZE * u + PAGE_SIZE /\ PAGE_SIZE * (u + 1) \in Nat
        BY <3>3
      <4>2. PAGE_SIZE * (u + 1) <= info'.data.len
        BY <3>1, <3>2, <3>3, <4>1
      <4>3. u + 1 \in Nat
        BY <3>3
      <4>4. (PAGE_SIZE * (u + 1)) \div PAGE_SIZE = u + 1
        BY <3>3, <4>3, Multiple
      <4>. QED  BY <3>2, <3>3, <4>1, <4>2, <4>4, QuotientsGrow DEF Pages
    <3>5. Used' = u /\ DataPages' = k
      BY DEF Used, DataPages, Pages
    <3>6. Marks(0)' = (0 .. u + 0 - 1) \cup {k - 1}
      BY <3>5 DEF Marks
    <3> HIDE DEF u, k
    <3>7. u + 0 - 1 = u - 1 /\ u + 0 <= k - 1
      BY <3>3, <3>4
    <3>. QED  BY <3>1, <3>5, <3>6, <3>7 DEF u, k
  <2>3. MarksHold'
    BY <2>1, <2>2 DEF MarksHold, Recorded
  <2>4. stage' \notin HasWindow
    BY <2>1 DEF HasWindow, Heaped
  <2>. QED  BY <2>3, <2>4, NotYet
<1>3. CASE init_gdt_kernel
  <2>1. stage = "init_gdt_kernel" /\ stage' \in {"init_idt"} \cup Stops /\ AllocData(1, "init_idt")
        /\ UNCHANGED <<info, data_top>>
    BY <1>3 DEF init_gdt_kernel, AllocData, NoPage, Stops, tableVars
  <2>2. ASSUME stage' = "init_idt"
        PROVE  data_top' = DataTop' /\ data_marks' = Marks(1)' /\ (Used + 1 <= DataPages - 1)'
    <3>1. data_marks = Marks(0) /\ Used + 0 <= DataPages - 1 /\ stage \in Recorded
          /\ "init_idt" \notin Stops /\ 0 \in Nat /\ 0 + 1 = 1
      BY <2>1 DEF LayInv, MarksHold, Recorded, Stops
    <3>2. /\ data_marks' = Marks(0 + 1)' /\ (Used + (0 + 1) <= DataPages - 1)'
          /\ data_top' = DataTop'
      BY <2>1, <2>2, <3>1, OnePageMore DEF LayInv
    <3>. QED  BY <3>1, <3>2
  <2>3. MarksHold'
    BY <2>1, <2>2 DEF MarksHold, Recorded, Stops
  <2>4. stage' \notin HasWindow
    BY <2>1 DEF HasWindow, Heaped, Stops
  <2>. QED  BY <2>3, <2>4, NotYet
<1>4. CASE init_idt
  <2>1. stage = "init_idt" /\ stage' \in {"init_paging"} \cup Stops /\ AllocData(1, "init_paging")
        /\ UNCHANGED <<info, data_top>>
    BY <1>4 DEF init_idt, AllocData, NoPage, Stops, tableVars
  <2>2. ASSUME stage' = "init_paging"
        PROVE  data_top' = DataTop' /\ data_marks' = Marks(2)' /\ (Used + 2 <= DataPages - 1)'
    <3>1. data_marks = Marks(1) /\ Used + 1 <= DataPages - 1 /\ stage \in Recorded
          /\ "init_paging" \notin Stops /\ 1 \in Nat /\ 1 + 1 = 2
      BY <2>1 DEF LayInv, MarksHold, Recorded, Stops
    <3>2. /\ data_marks' = Marks(1 + 1)' /\ (Used + (1 + 1) <= DataPages - 1)'
          /\ data_top' = DataTop'
      BY <2>1, <2>2, <3>1, OnePageMore DEF LayInv
    <3>. QED  BY <3>1, <3>2
  <2>3. MarksHold'
    BY <2>1, <2>2 DEF MarksHold, Recorded, Stops
  <2>4. stage' \notin HasWindow
    BY <2>1 DEF HasWindow, Heaped, Stops
  <2>. QED  BY <2>3, <2>4, NotYet
<1>5. CASE init_paging /\ disturbed' = disturbed
  BY <1>5, PagingLayInv
<1>. QED  BY <1>1, <1>2, <1>3, <1>4, <1>5 DEF Next_start

-----------------------------------------------------------------------------
(* From then on the segments and the window stay, and pages are added.     *)
LEMMA WindowKept ==
  ASSUME LayInv, UNCHANGED <<layoutVars, info, tableVars>>, disturbed => disturbed',
         stage \in HasWindow, stage' \in Heaped \cup Stops, SizeHolds', RoomHolds',
         stage' \in Heaped /\ Suitable /\ ~disturbed => mapped' \subseteq mapped \cup Outside
  PROVE  LayInv'
<1>1. /\ Ceiling' = Ceiling /\ DataTop' = DataTop /\ Outside' = Outside
      /\ (Suitable' <=> Suitable) /\ UNCHANGED <<data_top, table_index>>
  BY ChoiceKept DEF Ceiling, DataTop, Outside, Used, tableVars, layoutVars
<1>2. stage \in Recorded /\ (stage' \in HasWindow => stage' \in Heaped)
  BY DEF HasWindow, Heaped, Recorded, Stops
<1>3. MarksHold'
  BY <1>1, <1>2 DEF LayInv, MarksHold, Heaped, Stops
<1>4. WindowHolds'
  BY <1>1 DEF LayInv, WindowHolds
<1>5. MappedOutside'
  BY <1>1, <1>2 DEF LayInv, MappedOutside
<1>. QED  BY <1>3, <1>4, <1>5 DEF LayInv

(* The heap's first address comes right after the window.                  *)
LEMMA HeapPlace ==
  ASSUME IInv, LayInv, stage \in Heaped
  PROVE  /\ info.data.base \in Nat /\ info.data.len \in Nat /\ Window \in Nat
         /\ info.data.base <= Window
         /\ heap_start <= Window - info.data.base + TableSpan
         /\ Suitable => /\ heap_start = Window - info.data.base + TableSpan
                        /\ info.data.base + info.data.len <= MODULUS
<1>1. stage \in HasWindow /\ stage \in Recorded
  BY DEF HasWindow, Heaped, Recorded
<1>2. /\ Window \in Nat /\ info.data.base \in Nat /\ info.data.base <= Window
      /\ Window + TableSpan <= MODULUS
  <2>1. Placed
    BY WindowPlace DEF LayInv
  <2>. QED  BY <1>1, <2>1 DEF Placed
<1>3. info.data.len \in Nat /\ MODULUS \in Nat \ {0} /\ TableSpan \in Nat \ {0}
  BY <1>1, Segments, Spans DEF Word
<1>4. heap_start = Add(Window - info.data.base, TableSpan)
  BY <1>2, <1>3 DEF LayInv, SizeHolds, Sub
<1>5. heap_start <= Window - info.data.base + TableSpan
  BY <1>2, <1>3, <1>4 DEF Add
<1>6. ASSUME Suitable
      PROVE  /\ heap_start = Window - info.data.base + TableSpan
             /\ info.data.base + info.data.len <= MODULUS
  <2>1. lma <= info.data.base /\ info.code.base = info.data.base + info.data.len
        /\ info.code.base + info.code.len <= MODULUS /\ info.code.len \in Nat
        /\ lma \in Nat \ {0}
    BY <1>1, <1>6, SuitableSegments, Segments, Sizes DEF Word
  <2>2. Window - info.data.base + TableSpan < MODULUS
    BY <1>2, <1>3, <2>1
  <2>. QED  BY <1>2, <1>3, <1>4, <2>1, <2>2 DEF Add
<1>. QED  BY <1>2, <1>3, <1>5, <1>6

(* A word, halved and rounded down to pages.                               *)
LEMMA HalfInPages ==
  ASSUME NEW a \in Nat
  PROVE  PageDown(a \div 2) \in Nat /\ 2 * PageDown(a \div 2) <= a
<1>1. a \div 2 \in Nat /\ 2 * (a \div 2) <= a
  OBVIOUS
<1> DEFINE h == a \div 2
<1>2. PAGE_SIZE \in Nat \ {0} /\ h \in Nat
  BY <1>1, Spans
<1>3. h % PAGE_SIZE \in 0 .. PAGE_SIZE - 1 /\ h \div PAGE_SIZE \in Nat
      /\ h = PAGE_SIZE * (h \div PAGE_SIZE) + (h % PAGE_SIZE)
  BY <1>2, Division
<1>4. PAGE_SIZE * (h \div PAGE_SIZE) \in Nat
  BY <1>2, <1>3
<1>5. PageDown(h) = PAGE_SIZE * (h \div PAGE_SIZE) /\ PageDown(h) <= h
  BY <1>2, <1>3, <1>4 DEF PageDown
<1>. QED  BY <1>1, <1>4, <1>5

LEMMA HeapSize ==
  ASSUME IInv, LayInv, stage \in Heaped, heap_start \in Word
  PROVE  /\ heap_size \in Nat /\ heap_size <= TableSpan
         /\ heap_start <= info.data.len => heap_start + 2 * heap_size <= info.data.len
<1>1. info.data.len \in Word
  BY Segments DEF Heaped, Recorded
<1> DEFINE room == Sub(info.data.len, heap_start)
           size == PageDown(room \div 2)
<1>2. room \in Nat /\ TableSpan \in Nat
  <2>1. room \in Word
    BY <1>1, WordSums
  <2>2. \A a \in Word : a \in Nat
    BY Spans DEF Word
  <2>. QED  BY <2>1, <2>2, Spans
<1>3. size \in Nat /\ 2 * size <= room
  BY <1>2, HalfInPages
<1>4. heap_size = IF size > TableSpan THEN TableSpan ELSE size
  BY DEF LayInv, SizeHolds
<1>5. heap_start <= info.data.len => room = info.data.len - heap_start
  BY <1>1 DEF Sub, Word
<1> HIDE DEF room, size
<1>6. heap_start \in Nat /\ info.data.len \in Nat
  BY <1>1 DEF Word
<1>. QED  BY <1>2, <1>3, <1>4, <1>5, <1>6

(* sbrk adds pages above the window only.                                  *)
LEMMA SbrkPages ==
  ASSUME IInv, LayInv, BreakHolds, stage \in Heaped, Suitable,
         NEW increment \in Word, NEW asked, NEW cleared, NEW next,
         Sbrk(increment, asked, cleared, next)
  PROVE  mapped' \subseteq mapped \cup Outside
<1>1. CASE UNCHANGED memoryVars
  BY <1>1 DEF memoryVars
<1>2. CASE ~UNCHANGED memoryVars
  <2>1. /\ heap_brk + (IF increment = 0 THEN PAGE_SIZE ELSE increment) + PAGE_SIZE <= info.data.len
        /\ mapped' \subseteq mapped \cup Linear(info.data, heap_brk, Pages(increment))
                                    \cup Linear(info.data, heap_brk, 1)
    BY <1>2 DEF Sbrk
  <2>2. /\ info.data.base \in Nat /\ info.data.len \in Nat /\ Window \in Nat
        /\ info.data.base <= Window
        /\ heap_start = Window - info.data.base + TableSpan
        /\ info.data.base + info.data.len <= MODULUS
    BY HeapPlace
  <2>3. heap_start \in Nat /\ heap_brk \in Nat /\ heap_start <= heap_brk /\ increment \in Nat
        /\ PAGE_SIZE \in Nat \ {0} /\ MODULUS \in Nat /\ TableSpan \in Nat
    BY Spans DEF BreakHolds, Word
  <2>4. Window + TableSpan <= info.data.base + heap_brk
    BY <2>2, <2>3
  <2> DEFINE n == Pages(increment)
  <2>5. n \in Nat /\ PAGE_SIZE * n \in Nat /\ PAGE_SIZE * n <= increment /\ PAGE_SIZE * 1 = PAGE_SIZE
    BY <2>3, PageOf
  <2> HIDE DEF n
  <2>6. heap_brk + increment <= info.data.len /\ heap_brk + PAGE_SIZE <= info.data.len
    <3>1. CASE increment = 0
      BY <2>1, <2>2, <2>3, <3>1
    <3>2. CASE increment # 0
      <4>1. heap_brk + increment + PAGE_SIZE <= info.data.len
        BY <2>1, <3>2
      <4>. QED  BY <2>2, <2>3, <4>1
    <3>. QED  BY <3>1, <3>2
  <2>7. /\ info.data.base + heap_brk + PAGE_SIZE * n < MODULUS + PAGE_SIZE
        /\ info.data.base + heap_brk + PAGE_SIZE * 1 < MODULUS + PAGE_SIZE
    BY <2>2, <2>3, <2>5, <2>6
  <2> DEFINE last == info.data.base + info.data.len - PAGE_SIZE
  <2>8. last \in Nat /\ table_index \in Nat
    <3>1. PAGE_SIZE <= info.data.len
      BY <2>2, <2>3, <2>6
    <3>2. table_index \in Nat
      BY DEF LayInv, WindowHolds, HasWindow
    <3>. QED  BY <2>2, <2>3, <3>1, <3>2
  <2>9. ASSUME NEW k \in {n, 1}, NEW p \in Linear(info.data, heap_brk, k)
        PROVE  p \in Outside
    <3>1. k \in Nat /\ info.data.base + heap_brk + PAGE_SIZE * k < MODULUS + PAGE_SIZE
      BY <2>5, <2>7
    <3>2. table_index * TableSpan + TableSpan <= info.data.base + heap_brk
      BY <2>4 DEF Window
    <3> HIDE DEF last
    <3>3. p \in Nat /\ (p < table_index * ENTRIES \/ (table_index + 1) * ENTRIES <= p
                          \/ Pages(last) <= p)
      BY <2>2, <2>3, <2>8, <2>9, <3>1, <3>2, PagesOutside
    <3>. QED  BY <3>3 DEF Outside, last
  <2>. QED  BY <2>1, <2>9 DEF n
<1>. QED  BY <1>1, <1>2

-----------------------------------------------------------------------------
(* The start of the kernel from init_heap on.                              *)
LEMMA NoBinsNext ==
  ASSUME bins' = <<>>
  PROVE  BinsStack' /\ BinsServe'
<1>1. bins' \in Seq({bins'[i] : i \in DOMAIN bins'}) /\ DOMAIN bins' = {}
  OBVIOUS
<1>. QED  BY <1>1 DEF BinsStack, BinsServe

LEMMA InitHeapStep ==
  ASSUME IInv, HeapInv, LayInv, init_heap, disturbed' = disturbed
  PROVE  HeapInv' /\ LayInv'
<1>1. /\ stage = "init_heap" /\ stage' = "init_keyboard"
      /\ heap_start' = Add(Sub(Window, info.data.base), TableSpan) /\ heap_brk' = heap_start'
      /\ heap_size' = LET half == PageDown(Sub(info.data.len, heap_start') \div 2)
                      IN  IF half > TableSpan THEN TableSpan ELSE half
      /\ UNCHANGED <<layoutVars, info, tableVars, mapped, bins>>
  BY DEF init_heap, Window, startVars, memoryVars
<1>2. heap_start' \in Word
  <2>1. stage \in HasWindow /\ stage \in Recorded /\ Placed
    BY <1>1, WindowPlace DEF LayInv, HasWindow, Recorded
  <2>2. Window \in Word /\ info.data.base \in Word /\ TableSpan \in Word
    <3>1. Window \in Nat /\ Window + TableSpan <= MODULUS
      BY <2>1 DEF Placed
    <3>. QED  BY <2>1, <3>1, Segments, Spans DEF Word
  <2>. QED  BY <1>1, <2>2, WordSums
<1>3. HeapInv'
  <2>1. bins' = <<>>
    BY <1>1 DEF HeapInv, Heaped, Stops
  <2>2. heap_start' \in Nat
    BY <1>2, Spans DEF Word
  <2>3. BreakHolds'
    BY <1>1, <1>2, <2>2 DEF BreakHolds
  <2>. QED  BY <2>1, <2>3, NoBinsNext DEF HeapInv
<1>4. SizeHolds'
  <2>1. Window' = Window /\ info' = info
    BY <1>1 DEF Window, tableVars
  <2>. QED  BY <1>1, <2>1 DEF SizeHolds
<1>5. RoomHolds'
  BY <1>1 DEF RoomHolds
<1>6. stage \in HasWindow /\ stage' \in Heaped
  BY <1>1 DEF HasWindow, Heaped
<1>. QED  BY <1>1, <1>3, <1>4, <1>5, <1>6, WindowKept

LEMMA SbrkLayInv ==
  ASSUME IInv, HeapInv, LayInv, stage \in Heaped, NEW increment \in Word, NEW asked,
         NEW cleared, NEW next \in Heaped, Sbrk(increment, asked, cleared, next), RoomHolds',
         UNCHANGED <<layoutVars, info, tableVars, heap_start, heap_size, disturbed>>
  PROVE  LayInv'
<1>1. stage' \in Heaped \cup Stops /\ stage \in HasWindow
  BY DEF Sbrk, Stops, HasWindow
<1>2. SizeHolds'
  <2>1. Window' = Window
    BY DEF Window, tableVars
  <2>. QED  BY <2>1 DEF LayInv, SizeHolds
<1>3. Suitable => mapped' \subseteq mapped \cup Outside
  BY SbrkPages DEF HeapInv
<1>. QED  BY <1>1, <1>2, <1>3, WindowKept

LEMMA SmallBinRoom ==
  ASSUME IInv, HeapInv, LayInv,
         \/ stage = "init_keyboard" /\ SmallBin("initialize_syscalls")
         \/ stage = "init_buf" /\ SmallBin("running")
  PROVE  RoomHolds'
<1>1. stage \in Heaped /\ stage \in Recorded
  BY DEF Heaped, Recorded
<1>2. heap_start \in Word /\ heap_start \in Nat /\ heap_brk \in Nat /\ info.data.len \in Nat
      /\ info.data.len < MODULUS
      /\ MODULUS \in Nat \ {0} /\ PAGE_SIZE \in Nat \ {0}
      /\ heap_size \in Nat
  <2>1. heap_start \in Word /\ heap_brk \in Word /\ info.data.len \in Word
    BY <1>1, Segments DEF HeapInv, BreakHolds
  <2>. QED  BY <1>1, <2>1, HeapSize, Spans DEF Word
<1>3. UNCHANGED <<info, heap_start, heap_size>>
  BY DEF SmallBin
<1>4. CASE stage' \in Stops
  BY <1>4 DEF RoomHolds, Stops
<1>5. CASE stage' \notin Stops
  <2>1. /\ heap_brk + PAGE_SIZE + PAGE_SIZE <= info.data.len
        /\ heap_brk' = Add(heap_brk, PAGE_SIZE) /\ BreakAllowed(Add(heap_brk, PAGE_SIZE))
        /\ stage' = IF stage = "init_keyboard" THEN "initialize_syscalls" ELSE "running"
    BY <1>2, <1>5 DEF SmallBin, Sbrk, Stops
  <2>2. Add(heap_brk, PAGE_SIZE) = heap_brk + PAGE_SIZE
    BY <1>2, <2>1 DEF Add
  <2>3. CASE stage = "init_keyboard"
    <3>1. heap_brk = heap_start
      BY <2>3 DEF LayInv, RoomHolds
    <3>2. heap_brk' = heap_start' + PAGE_SIZE /\ heap_start' + 2 * PAGE_SIZE <= info'.data.len
      BY <1>2, <1>3, <2>1, <2>2, <3>1
    <3>. QED  BY <2>1, <2>3, <3>2 DEF RoomHolds
  <2>4. CASE stage # "init_keyboard"
    <3>1. heap_brk = heap_start + PAGE_SIZE
      BY <2>4 DEF LayInv, RoomHolds
    <3>2. heap_start' + 3 * PAGE_SIZE <= info'.data.len
      BY <1>2, <1>3, <2>1, <3>1
    <3>3. heap_start + PAGE_SIZE + PAGE_SIZE < Add(heap_start, heap_size)
      BY <1>2, <2>1, <2>2, <3>1 DEF BreakAllowed
    <3>4. Add(heap_start, heap_size) <= heap_start + heap_size /\ Add(heap_start, heap_size) \in Int
      BY <1>2 DEF Add
    <3>5. 2 * PAGE_SIZE < heap_size'
      BY <1>2, <1>3, <3>3, <3>4
    <3>. QED  BY <2>1, <2>4, <3>2, <3>5 DEF RoomHolds
  <2>. QED  BY <2>3, <2>4
<1>. QED  BY <1>4, <1>5

LEMMA BootHeapSteps ==
  ASSUME IInv, HeapInv, LayInv, Next_boot_heap, disturbed' = disturbed
  PROVE  HeapInv' /\ LayInv'
<1>1. CASE init_heap
  BY <1>1, InitHeapStep
<1>2. CASE init_keyboard \/ init_buf
  <2>1. \/ stage = "init_keyboard" /\ SmallBin("initialize_syscalls")
        \/ stage = "init_buf" /\ SmallBin("running")
    BY <1>2 DEF init_keyboard, init_buf
  <2>2. PICK next \in Heaped : SmallBin(next)
    BY <2>1 DEF Heaped
  <2>3. stage \in Heaped
    BY <2>1 DEF Heaped
  <2>4. RoomHolds'
    BY <2>1, SmallBinRoom
  <2>5. PAGE_SIZE \in Word
    BY Spans DEF Word
  <2>6. /\ Sbrk(PAGE_SIZE, PAGE_SIZE \div 2 - 1, 0, next)
        /\ UNCHANGED <<layoutVars, info, tableVars, heap_start, heap_size, disturbed>>
    BY <2>2 DEF SmallBin
  <2>. QED  BY <2>2, <2>3, <2>4, <2>5, <2>6, SbrkLayInv, SmallBinHeapInv
<1>3. CASE initialize_syscalls \/ IRQ_RES
  <2>1. /\ \/ stage = "initialize_syscalls" /\ stage' = "IRQ_RES"
           \/ stage = "IRQ_RES" /\ stage' = "init_buf"
        /\ UNCHANGED <<layoutVars, info, tableVars, mapped, heap_start, heap_size, heap_brk, bins>>
    BY <1>3 DEF initialize_syscalls, IRQ_RES, memoryVars, heapVars
  <2>2. stage \in Heaped /\ stage' \in Heaped /\ stage \in HasWindow
    BY <2>1 DEF Heaped, HasWindow
  <2>3. HeapInv'
    BY <2>1, <2>2, HeapLeftAlone
  <2>4. Window' = Window
    BY <2>1 DEF Window, tableVars
  <2>5. SizeHolds' /\ RoomHolds'
    BY <2>1, <2>2, <2>4 DEF LayInv, SizeHolds, RoomHolds
  <2>. QED  BY <2>1, <2>2, <2>3, <2>5, WindowKept
<1>. QED  BY <1>1, <1>2, <1>3 DEF Next_boot_heap

(* A step of the kernel, a module or a device that makes no block.         *)
LEMMA HeapGoesOn ==
  ASSUME HeapInv, LayInv, UNCHANGED <<layoutVars, info, tableVars, heapVars>>,
         mapped \subseteq mapped', stage \in {"init_buf", "running"},
         stage' \in {stage} \cup Stops, disturbed => disturbed',
         Suitable /\ ~disturbed /\ stage' = stage => mapped' \subseteq mapped \cup Outside
  PROVE  HeapInv' /\ LayInv'
<1>1. stage \in Heaped /\ stage \in HasWindow /\ stage' \in Heaped \cup Stops
      /\ (stage' \in Heaped => stage' = stage)
  BY DEF Heaped, HasWindow, Stops
<1>2. UNCHANGED <<heap_start, heap_size, heap_brk, bins>>
  BY DEF heapVars
<1>3. HeapInv'
  BY <1>1, <1>2, HeapLeftAlone
<1>4. Window' = Window
  BY DEF Window, tableVars
<1>5. SizeHolds'
  BY <1>1, <1>2, <1>4 DEF LayInv, SizeHolds
<1>6. RoomHolds'
  BY <1>1, <1>2 DEF LayInv, RoomHolds, Stops
<1>. QED  BY <1>1, <1>3, <1>5, <1>6, WindowKept

-----------------------------------------------------------------------------
(* The pages that the loading of a module maps.                            *)
LEMMA OutsideWindow ==
  ASSUME table_index \in Nat, info.data.base + info.data.len - PAGE_SIZE \in Nat,
         NEW segment, NEW rel \in Nat, NEW n \in Nat, segment.base \in Nat,
         segment.base + rel + PAGE_SIZE * n < MODULUS + PAGE_SIZE,
         \/ Window + TableSpan <= segment.base + rel
         \/ info.data.base + info.data.len - PAGE_SIZE <= segment.base + rel
  PROVE  Linear(segment, rel, n) \subseteq Outside
<1> DEFINE last == info.data.base + info.data.len - PAGE_SIZE
<1>1. last \in Nat /\ (table_index * TableSpan + TableSpan <= segment.base + rel
                         \/ last <= segment.base + rel)
  BY DEF Window
<1> HIDE DEF last
<1>2. \A p \in Linear(segment, rel, n) :
        p \in Nat /\ (p < table_index * ENTRIES \/ (table_index + 1) * ENTRIES <= p
                        \/ Pages(last) <= p)
  BY <1>1, PagesOutside
<1>. QED  BY <1>2 DEF Outside, last

LEMMA ModuleRoom ==
  ASSUME IInv, LayInv, stage = "running", initialized, Suitable
  PROVE  /\ info.data.base \in Nat /\ info.data.len \in Nat /\ info.code.base \in Nat
         /\ Window \in Nat /\ table_index \in Nat /\ info.data.base <= Window
         /\ Window + TableSpan <= info.data.base + MODULE_DATA_LOAD_ADDR
         /\ Window + TableSpan + 3 * PAGE_SIZE <= info.data.base + info.data.len
         /\ info.code.base = info.data.base + info.data.len /\ info.code.base <= MODULUS
         /\ info.code.base + CodeEnd(Header) < MODULUS + PAGE_SIZE
         /\ DataEnd(Header) + PAGE_SIZE <= info.data.len
<1>1. stage \in Recorded /\ stage \in Heaped /\ stage \in HasWindow
  BY DEF Recorded, Heaped, HasWindow
<1>2. /\ info.data.base \in Nat /\ info.data.len \in Nat /\ Window \in Nat
      /\ info.data.base <= Window /\ heap_start = Window - info.data.base + TableSpan
      /\ heap_start + 3 * PAGE_SIZE <= info.data.len
  BY <1>1, HeapPlace DEF LayInv, RoomHolds
<1>3. /\ Ceiling \in Nat /\ Window < Ceiling + TableSpan
      /\ Ceiling <= info.data.base + data_top + 4 * PAGE_SIZE
      /\ data_top \in Nat /\ data_top + 4 * PAGE_SIZE <= TableSpan
  <2>1. Placed
    BY WindowPlace DEF LayInv
  <2>. QED  BY <1>1, <2>1 DEF Placed
<1>4. /\ info.code.base = info.data.base + info.data.len
      /\ info.code.base + info.code.len <= MODULUS /\ info.data.len % PAGE_SIZE = 0
      /\ info.code.base \in Nat /\ info.code.len \in Nat
  BY <1>1, SuitableSegments, Segments, Spans DEF Word
<1>5. CodeEnd(Header) < info.code.len + PAGE_SIZE /\ DataEnd(Header) + PAGE_SIZE <= info.data.len
  <2>1. info.code = segments.code /\ info.data = segments.data
    BY <1>1, Segments
  <2>. QED  BY <2>1, AdmittedHere DEF AdmittedModuleFits
<1>6. PAGE_SIZE \in Nat /\ TableSpan \in Nat /\ MODULUS \in Nat /\ table_index \in Nat
      /\ MODULE_DATA_LOAD_ADDR = 3 * TableSpan
  BY <1>1, Spans DEF LayInv, WindowHolds, MODULE_DATA_LOAD_ADDR
<1>7. CodeEnd(Header) \in Int
  <2>1. HeaderIsTyped(Header)
    BY HeadersAssumption DEF IInv, LoaderInv, Chosen, Header, HeaderIsTyped
  <2>2. PageCount(Header.code_size) \in Nat
    BY <2>1, CodeFitsItsPages DEF HeaderIsTyped
  <2>. QED  BY <1>6, <2>2, Spans DEF CodeEnd, MODULE_CODE_LOAD_ADDR
<1>8. Window + TableSpan <= info.data.base + MODULE_DATA_LOAD_ADDR
  BY <1>2, <1>3, <1>6
<1>9. info.code.base + CodeEnd(Header) < MODULUS + PAGE_SIZE
  BY <1>4, <1>5, <1>6, <1>7
<1>10. Window + TableSpan + 3 * PAGE_SIZE <= info.data.base + info.data.len
  BY <1>2, <1>6
<1>. QED  BY <1>2, <1>4, <1>5, <1>6, <1>8, <1>9, <1>10

LEMMA ModulePages ==
  ASSUME IInv, LayInv, stage = "running", initialized, Suitable
  PROVE  /\ Linear(info.code, MODULE_CODE_LOAD_ADDR, CodePages) \subseteq Outside
         /\ Linear(info.data, MODULE_DATA_LOAD_ADDR, PageCount(Header.data_size)) \subseteq Outside
         /\ Linear(info.data, Sub(info.data.len, 2 * PAGE_SIZE), 1) \subseteq Outside
<1> DEFINE base == info.data.base
           len == info.data.len
           roof == info.code.base
<1>1. /\ base \in Nat /\ len \in Nat /\ roof \in Nat /\ Window \in Nat /\ table_index \in Nat
      /\ base <= Window
      /\ Window + TableSpan <= base + MODULE_DATA_LOAD_ADDR
      /\ Window + TableSpan + 3 * PAGE_SIZE <= base + len
      /\ roof = base + len /\ roof <= MODULUS
      /\ roof + CodeEnd(Header) < MODULUS + PAGE_SIZE /\ DataEnd(Header) + PAGE_SIZE <= len
  BY ModuleRoom
<1>2. HeaderIsTyped(Header)
  BY HeadersAssumption DEF IInv, LoaderInv, Chosen, Header, HeaderIsTyped
<1>3. /\ PAGE_SIZE \in Nat \ {0} /\ TableSpan \in Nat /\ MODULUS \in Nat
      /\ MODULE_CODE_LOAD_ADDR \in Nat /\ MODULE_DATA_LOAD_ADDR \in Nat
      /\ PageCount(Header.code_size) \in Nat /\ PageCount(Header.data_size) \in Nat
  BY <1>2, CodeFitsItsPages, Spans DEF HeaderIsTyped, MODULE_CODE_LOAD_ADDR, MODULE_DATA_LOAD_ADDR
<1>4. Window + TableSpan + 2 * PAGE_SIZE <= base + len - PAGE_SIZE /\ base + len - PAGE_SIZE \in Nat
  BY <1>1, <1>3
<1>5. Linear(info.code, MODULE_CODE_LOAD_ADDR, CodePages) \subseteq Outside
  <2> DEFINE n == PageCount(Header.code_size)
  <2>1. CodeEnd(Header) = MODULE_CODE_LOAD_ADDR + n * PAGE_SIZE /\ n * PAGE_SIZE = PAGE_SIZE * n
        /\ PAGE_SIZE * n \in Nat
    BY <1>3 DEF CodeEnd
  <2> HIDE DEF n
  <2>2. /\ roof + MODULE_CODE_LOAD_ADDR + PAGE_SIZE * n < MODULUS + PAGE_SIZE
        /\ base + len - PAGE_SIZE <= roof + MODULE_CODE_LOAD_ADDR
    BY <1>1, <1>3, <2>1
  <2>3. n \in Nat
    BY <1>3 DEF n
  <2>4. Linear(info.code, MODULE_CODE_LOAD_ADDR, n) \subseteq Outside
    BY <1>1, <1>3, <1>4, <2>2, <2>3, OutsideWindow
  <2>. QED  BY <2>4 DEF n, CodePages
<1>6. Linear(info.data, MODULE_DATA_LOAD_ADDR, PageCount(Header.data_size)) \subseteq Outside
  <2> DEFINE n == PageCount(Header.data_size)
  <2>1. DataEnd(Header) = MODULE_DATA_LOAD_ADDR + n * PAGE_SIZE /\ n * PAGE_SIZE = PAGE_SIZE * n
        /\ PAGE_SIZE * n \in Nat
    BY <1>3 DEF DataEnd
  <2> HIDE DEF n
  <2>2. base + MODULE_DATA_LOAD_ADDR + PAGE_SIZE * n < MODULUS + PAGE_SIZE
    BY <1>1, <1>3, <2>1
  <2>3. n \in Nat
    BY <1>3 DEF n
  <2>4. Linear(info.data, MODULE_DATA_LOAD_ADDR, n) \subseteq Outside
    BY <1>1, <1>3, <1>4, <2>2, <2>3, OutsideWindow
  <2>. QED  BY <2>4 DEF n
<1>7. Linear(info.data, Sub(len, 2 * PAGE_SIZE), 1) \subseteq Outside
  <2> DEFINE rel == Sub(len, 2 * PAGE_SIZE)
  <2>1. rel = len - 2 * PAGE_SIZE /\ rel \in Nat /\ PAGE_SIZE * 1 = PAGE_SIZE
    BY <1>1, <1>3 DEF Sub
  <2>2. base + rel + PAGE_SIZE * 1 < MODULUS + PAGE_SIZE /\ Window + TableSpan <= base + rel
    BY <1>1, <1>3, <2>1
  <2> HIDE DEF rel
  <2>3. Linear(info.data, rel, 1) \subseteq Outside
    BY <1>1, <1>4, <2>1, <2>2, OutsideWindow
  <2>. QED  BY <2>3 DEF rel
<1>. QED  BY <1>5, <1>6, <1>7

-----------------------------------------------------------------------------
(* Without an interrupt in the loops no byte of the code goes astray, so   *)
(* that the loading maps the pages of the module and no others.            *)
LEMMA StoresInPlace ==
  ASSUME NEW byte, StoreByte(byte), CodeInv, pc \in Loops
  PROVE  /\ stage' \in {stage} \cup Stops /\ mapped \subseteq mapped'
         /\ ~disturbed => mapped' = mapped
<1>1. stage' \in {stage} \cup Stops /\ mapped \subseteq mapped'
  BY DEF StoreByte, AllocData, NoPage, Stops
<1>2. ASSUME ~disturbed
      PROVE  mapped' = mapped
  BY <1>2 DEF StoreByte, CodeInv, GsInLoops
<1>. QED  BY <1>1, <1>2

LEMMA LoadModuleLayout ==
  ASSUME IInv, CodeInv, HeapInv, LayInv, LoadModule
  PROVE  HeapInv' /\ LayInv'
<1> DEFINE Kept == /\ UNCHANGED <<layoutVars, info, tableVars, heapVars>>
                   /\ (disturbed => disturbed')
<1>1. stage = "running" /\ stage \in {"init_buf", "running"}
  BY DEF LoadModule, load_code_pages, clean_code, copy_code_byte, load_data_and_stack, load_stack,
         save_kernel_state, jump_to_module_code, At
<1>2. pc \in Loading => initialized
  BY DEF CodeInv, Progress, Underway
<1>3. Loops \cup {"load code", "load data", "load stack"} = Loading
  BY DEF Loading
<1>4. CASE load_code_pages
  <2>1. Kept
    BY <1>4 DEF load_code_pages, bootVars
  <2>2. /\ mapped' = mapped \cup Linear(info.code, MODULE_CODE_LOAD_ADDR, CodePages)
        /\ stage' \in {stage} \cup Stops /\ initialized
    BY <1>2, <1>4 DEF load_code_pages, NoPage, Stops, At, Loading
  <2>3. Suitable => mapped' \subseteq mapped \cup Outside
    BY <1>1, <2>2, ModulePages
  <2>. QED  BY <1>1, <2>1, <2>2, <2>3, HeapGoesOn
<1>5. CASE clean_code \/ copy_code_byte
  <2>1. Kept
    <3>1. UNCHANGED LoopVars
      BY <1>5 DEF clean_code, copy_code_byte
    <3>. QED  BY <3>1 DEF LoopVars, bootVars
  <2>2. pc \in Loops
    BY <1>5 DEF clean_code, copy_code_byte, At, Loops
  <2>3. (\E byte : StoreByte(byte)) \/ UNCHANGED <<stage, mapped>>
    BY <1>5 DEF clean_code, copy_code_byte, memoryVars
  <2>4. /\ stage' \in {stage} \cup Stops /\ mapped \subseteq mapped'
        /\ ~disturbed => mapped' = mapped
    BY <2>2, <2>3, StoresInPlace
  <2>. QED  BY <1>1, <2>1, <2>4, HeapGoesOn
<1>6. CASE load_data_and_stack
  <2>1. Kept
    BY <1>6 DEF load_data_and_stack, bootVars, codeVars
  <2>2. /\ mapped' = mapped \cup Linear(info.data, MODULE_DATA_LOAD_ADDR, PageCount(Header.data_size))
        /\ stage' \in {stage} \cup Stops /\ initialized
    BY <1>2, <1>6 DEF load_data_and_stack, MapData, Stops, At, Loading
  <2>3. Suitable => mapped' \subseteq mapped \cup Outside
    BY <1>1, <2>2, ModulePages
  <2>. QED  BY <1>1, <2>1, <2>2, <2>3, HeapGoesOn
<1>7. CASE load_stack
  <2>1. Kept
    BY <1>7 DEF load_stack, bootVars, codeVars
  <2>2. /\ mapped' = mapped \cup Linear(info.data, Sub(info.data.len, 2 * PAGE_SIZE), 1)
        /\ stage' \in {stage} \cup Stops /\ initialized
    BY <1>2, <1>7 DEF load_stack, MapData, Stops, At, Loading
  <2>3. Suitable => mapped' \subseteq mapped \cup Outside
    BY <1>1, <2>2, ModulePages
  <2>. QED  BY <1>1, <2>1, <2>2, <2>3, HeapGoesOn
<1>8. CASE save_kernel_state \/ jump_to_module_code
  <2>1. Kept /\ UNCHANGED <<stage, mapped>>
    BY <1>8 DEF save_kernel_state, jump_to_module_code, bootVars, codeVars, memoryVars
  <2>. QED  BY <1>1, <2>1, HeapGoesOn
<1>. QED  BY <1>4, <1>5, <1>6, <1>7, <1>8 DEF LoadModule

LEMMA NextHeapLay ==
  HeapInv /\ LayInv /\ IInv /\ IInv' /\ CodeInv /\ [Next]_vars => HeapInv' /\ LayInv'
<1> SUFFICES ASSUME HeapInv, LayInv, IInv, IInv', CodeInv, [Next]_vars
             PROVE  HeapInv' /\ LayInv'
  OBVIOUS
<1>1. CASE /\ Next_loader \/ Next_start
           /\ UNCHANGED <<heapVars, moduleVars>>
  <2>1. disturbed' = disturbed /\ bins' = bins
    BY <1>1 DEF moduleVars, codeVars, heapVars
  <2>2. LayInv'
    BY <1>1, <2>1, EarlyLayInv
  <2>3. stage \notin Heaped \cup Stops /\ stage' \notin Heaped
    BY <1>1 DEF Next_loader, loader_main, ScanEntry, init_segments_parameters, init_gdt_loader,
                copy_data, copy_code, goto_kernel, Next_start, init_memory_manager,
                init_gdt_kernel, init_idt, init_paging, AllocData, NoPage, Heaped, Stops
  <2>4. bins' = <<>>
    BY <2>1, <2>3 DEF HeapInv
  <2>5. HeapInv'
    BY <2>3, <2>4, NoBinsNext DEF HeapInv, BreakHolds
  <2>. QED  BY <2>2, <2>5
<1>2. CASE Next_boot_heap /\ UNCHANGED moduleVars
  <2>1. disturbed' = disturbed
    BY <1>2 DEF moduleVars, codeVars
  <2>. QED  BY <1>2, <2>1, BootHeapSteps
<1>3. CASE Next_requests /\ UNCHANGED moduleVars
  <2>1. PICK size \in Word, asked \in Nat, cleared \in Nat :
          /\ klmalloc(size, asked, cleared)
          /\ size = asked % MODULUS
          /\ cleared = size \/ (cleared = 0 /\ asked = size)
    BY <1>3, RequestAsks
  <2> DEFINE incr == Increment(size)
  <2>2. /\ Sbrk(incr, asked, cleared, "running") /\ stage = "running"
        /\ UNCHANGED <<layoutVars, info, tableVars, heap_start, heap_size>>
    BY <2>1 DEF klmalloc
  <2>3. incr \in Word
    BY IncrementServes
  <2> HIDE DEF incr
  <2>4. disturbed' = disturbed
    BY <1>3 DEF moduleVars, codeVars
  <2>5. stage' \in {"running"} \cup Stops
    BY <2>2 DEF Sbrk, Stops
  <2>6. RoomHolds'
    BY <2>2, <2>5 DEF LayInv, RoomHolds, Stops
  <2>7. stage \in Heaped /\ "running" \in Heaped
    BY <2>2 DEF Heaped
  <2>. QED  BY <2>1, <2>2, <2>3, <2>4, <2>6, <2>7, SbrkLayInv, RequestHeapInv
<1>4. CASE start_module
  <2>1. /\ UNCHANGED <<layoutVars, info, tableVars, heapVars, stage, mapped, disturbed>>
        /\ stage = "running"
    BY <1>4 DEF start_module, bootVars, memoryVars, codeVars, At
  <2>. QED  BY <2>1, HeapGoesOn
<1>5. CASE LoadModule
  BY <1>5, LoadModuleLayout
<1>6. CASE Handle
  <2>1. /\ UNCHANGED <<layoutVars, info, tableVars, heapVars, mapped>>
        /\ stage \in {"init_buf", "running"} /\ stage' \in {stage} \cup Stops
        /\ disturbed => disturbed'
    <3>1. CASE handler_returns
      BY <3>1 DEF handler_returns, InHandler, bootVars, memoryVars
    <3>2. CASE exit_module
      BY <3>2 DEF exit_module, InHandler, bootVars, memoryVars, codeVars
    <3>3. CASE panic
      BY <3>3 DEF panic, InHandler, bootVars, memoryVars, moduleVars, codeVars, Stops
    <3>4. CASE exit_label
      BY <3>4 DEF exit_label, At, bootVars, memoryVars, codeVars, Stops
    <3>. QED  BY <1>6, <3>1, <3>2, <3>3, <3>4 DEF Handle
  <2>. QED  BY <2>1, HeapGoesOn
<1>7. CASE UseModule \/ Interrupt
  <2>1. PICK vector, eax : Enter(vector, eax)
    BY <1>7 DEF UseModule, Interrupt, ModuleInt, ModulePageFault, Irq, NonMaskable
  <2>2. stage \in {"init_buf", "running"}
    BY <1>7 DEF UseModule, Interrupt, ModuleInt, ModulePageFault, Irq, NonMaskable, At
  <2>3. UNCHANGED <<layoutVars, info, tableVars, heapVars, stage, mapped, disturbed>>
    BY <2>1 DEF Enter, bootVars, memoryVars, codeVars
  <2>. QED  BY <2>2, <2>3, HeapGoesOn
<1>8. CASE UNCHANGED vars
  <2>1. UNCHANGED <<layoutVars, info, data_top, table_index, data_marks, heap_start, heap_size,
                    heap_brk, bins, stage, mapped, disturbed>>
    BY <1>8 DEF vars, loaderVars, startVars, tableVars, memoryVars, heapVars, moduleVars, codeVars
  <2>2. HeapInv'
    BY <2>1 DEF HeapInv, BreakHolds, BinsStack, BinsServe, Serves, Linear, Pages
  <2>3. /\ Ceiling' = Ceiling /\ DataTop' = DataTop /\ Outside' = Outside /\ Window' = Window
        /\ Marks(0)' = Marks(0) /\ Marks(1)' = Marks(1) /\ Marks(2)' = Marks(2)
        /\ Used' = Used /\ DataPages' = DataPages /\ (Suitable' <=> Suitable)
    BY <2>1, ChoiceKept DEF Ceiling, DataTop, Outside, Window, Marks, Used, DataPages, layoutVars
  <2>4. LayInv'
    BY <2>1, <2>3 DEF LayInv, MarksHold, WindowHolds, SizeHolds, RoomHolds, MappedOutside
  <2>. QED  BY <2>2, <2>4
<1>. QED  BY <1>1, <1>2, <1>3, <1>4, <1>5, <1>6, <1>7, <1>8 DEF Next, Start, Request

LEMMA HeapLayInvariance == Spec => [](IInv /\ HeapInv /\ LayInv)
BY InitHeapInv, InitLayInv, InitIInv, InitCodeInv, NextIInv, NextCodeInv, NextHeapLay, Invariance,
   LifecycleInvariance, PTL DEF Spec

(* Whatever malloc and calloc are asked for, a block that they return lies *)
(* in mapped pages below the break, apart from the others, and only a size *)
(* that wraps makes it shorter than what was asked for, for calloc only a  *)
(* product that wraps (klmalloc, klcalloc and sbrk).                       *)
THEOREM BinsBelowBreak == Spec => []BinsLieBelowBreak
<1>1. HeapInv => BinsLieBelowBreak
  BY DEF HeapInv, BinsStack, BinsServe, Serves, BinsLieBelowBreak
<1>. QED  BY <1>1, HeapLayInvariance, PTL

-----------------------------------------------------------------------------
(* The window is at most one page table above the kernel's data if these   *)
(* do not lie across a multiple of what a table maps.                      *)
LEMMA WindowIsNear ==
  ASSUME IInv, LayInv, stage = "running", ~Straddles
  PROVE  Window <= info.data.base + TableSpan
<1>1. stage \in HasWindow
  BY DEF HasWindow, Heaped
<1> DEFINE base == info.data.base
           top == base + data_top + 4 * PAGE_SIZE - 1
           q == base \div TableSpan
<1>2. /\ Window \in Nat /\ Ceiling \in Nat /\ base \in Nat /\ data_top \in Nat
      /\ Window < Ceiling + TableSpan /\ Ceiling <= top + 1
  <2>1. Placed
    BY WindowPlace DEF LayInv
  <2>. QED  BY <1>1, <2>1, Spans DEF Placed
<1>3. TableSpan \in Nat \ {0} /\ PAGE_SIZE \in Nat \ {0} /\ table_index \in Nat
  BY <1>1, Spans DEF LayInv, WindowHolds
<1>4. top \in Nat /\ top \div TableSpan = q
  <2>1. top \in Nat
    BY <1>2, <1>3
  <2>2. top = base + data_top + (2 + DIR_PAGES) * PAGE_SIZE - 1
    BY DEF DIR_PAGES
  <2>. QED  BY <2>1, <2>2 DEF Straddles
<1> HIDE DEF top
<1>5. /\ q \in Nat /\ TableSpan * q <= base /\ top < TableSpan * q + TableSpan
      /\ TableSpan * q \in Int
  <2>1. /\ q \in Nat /\ base % TableSpan \in 0 .. TableSpan - 1
        /\ base = TableSpan * q + (base % TableSpan)
    BY <1>2, <1>3, Division
  <2>2. top % TableSpan \in 0 .. TableSpan - 1 /\ top = TableSpan * q + (top % TableSpan)
    BY <1>3, <1>4, Division
  <2> HIDE DEF q
  <2>3. TableSpan * q \in Int
    BY <1>3, <2>1
  <2>. QED  BY <1>2, <1>3, <2>1, <2>2, <2>3
<1> HIDE DEF q
<1>6. /\ TableSpan * (q + 1) = TableSpan * q + TableSpan
      /\ TableSpan * (q + 2) = TableSpan * q + 2 * TableSpan
      /\ Window = TableSpan * table_index
  BY <1>3, <1>5 DEF Window
<1>7. TableSpan * table_index < TableSpan * (q + 2)
  BY <1>2, <1>3, <1>4, <1>5, <1>6
<1>8. table_index < q + 2
  BY <1>3, <1>5, <1>7, Monotonic
<1>9. TableSpan * table_index <= TableSpan * (q + 1)
  BY <1>3, <1>5, <1>8, Monotonic
<1>. QED  BY <1>2, <1>3, <1>5, <1>6, <1>9

(* On every machine that gets as far as the terminal the heap ends below   *)
(* the stacks and begins below a module's data, of which it reaches as far *)
(* as one page table at most, and not at all unless the kernel's data lie  *)
(* across a multiple of 4 MB; and if the map suits and no byte of a module *)
(* went astray, nothing is mapped where the page tables are shown          *)
(* (init_paging_tables and init_heap).                                     *)
THEOREM LayoutIsSound == Spec => []LayoutHolds
<1>1. ASSUME IInv, HeapInv, LayInv
      PROVE  LayoutHolds
  <2> SUFFICES ASSUME stage = "running"
               PROVE  LayoutHolds
    BY DEF LayoutHolds
  <2>1. stage \in Heaped /\ stage \in HasWindow
    BY DEF Heaped, HasWindow
  <2>2. /\ info.data.base \in Nat /\ info.data.len \in Nat /\ Window \in Nat
        /\ info.data.base <= Window
        /\ heap_start <= Window - info.data.base + TableSpan
        /\ Suitable => heap_start = Window - info.data.base + TableSpan
    BY <1>1, <2>1, HeapPlace
  <2>3. /\ heap_start \in Word /\ heap_start \in Nat
        /\ heap_start + 3 * PAGE_SIZE <= info.data.len /\ 2 * PAGE_SIZE < heap_size
    BY <1>1, <2>1, Spans DEF HeapInv, BreakHolds, LayInv, RoomHolds, Word
  <2>4. PAGE_SIZE \in Nat \ {0} /\ TableSpan \in Nat \ {0} /\ table_index \in Nat
        /\ ENTRIES \in Nat
    BY <1>1, <2>1, Spans, WordsAssumption DEF LayInv, WindowHolds
  <2>5. /\ heap_size \in Nat /\ heap_size <= TableSpan
        /\ heap_start + 2 * heap_size <= info.data.len
    BY <1>1, <2>1, <2>2, <2>3, <2>4, HeapSize
  <2>6. ASSUME Suitable, ~disturbed, NEW t \in 0 .. ENTRIES - 1
        PROVE  Slot(t) \notin mapped
    <3> DEFINE last == info.data.base + info.data.len - PAGE_SIZE
               e == table_index * ENTRIES
    <3>1. last \in Nat /\ Window + TableSpan <= last
      BY <2>2, <2>3, <2>4, <2>6
    <3>2. (table_index + 1) * TableSpan <= last /\ table_index + 1 \in Nat
      BY <2>4, <3>1, SpanOfPages DEF Window
    <3> HIDE DEF last
    <3>3. (table_index + 1) * ENTRIES <= Pages(last)
      BY <3>1, <3>2, SpanOfPages
    <3>4. e \in Nat /\ (table_index + 1) * ENTRIES = e + ENTRIES /\ Slot(t) = e + t
      BY <2>4 DEF Slot
    <3>5. Pages(last) \in Nat
      BY <3>1, PageOf
    <3> HIDE DEF e
    <3>6. /\ ~(Slot(t) < e) /\ ~((table_index + 1) * ENTRIES <= Slot(t))
          /\ ~(Pages(last) <= Slot(t))
      BY <2>4, <3>3, <3>4, <3>5
    <3>7. Slot(t) \notin Outside
      BY <3>6 DEF Outside, e, last
    <3>. QED  BY <1>1, <2>1, <2>6, <3>7 DEF LayInv, MappedOutside
  <2>7. heap_start + heap_size + 2 * PAGE_SIZE <= info.data.len
    BY <2>2, <2>3, <2>4, <2>5
  <2>8. ASSUME ~Straddles
        PROVE  heap_start + heap_size <= MODULE_DATA_LOAD_ADDR
    <3>1. Window <= info.data.base + TableSpan
      BY <1>1, <2>8, WindowIsNear
    <3>. QED  BY <2>2, <2>3, <2>4, <2>5, <3>1 DEF MODULE_DATA_LOAD_ADDR
  <2>9. heap_start < MODULE_DATA_LOAD_ADDR
    <3>1. /\ Window < Ceiling + TableSpan /\ Ceiling \in Nat /\ data_top \in Nat
          /\ Ceiling <= info.data.base + data_top + 4 * PAGE_SIZE
          /\ data_top + 4 * PAGE_SIZE <= TableSpan
      <4>1. Placed
        BY <1>1, WindowPlace DEF LayInv
      <4>. QED  BY <2>1, <4>1 DEF Placed
    <3>. QED  BY <2>2, <2>3, <2>4, <3>1 DEF MODULE_DATA_LOAD_ADDR
  <2>10. heap_start + heap_size <= MODULE_DATA_LOAD_ADDR + TableSpan
    BY <2>3, <2>4, <2>5, <2>9 DEF MODULE_DATA_LOAD_ADDR
  <2>11. heap_start + heap_size
           <= MODULE_DATA_LOAD_ADDR + (IF Straddles THEN TableSpan ELSE 0)
    <3>1. CASE Straddles
      BY <2>10, <3>1
    <3>2. CASE ~Straddles
      <4>1. MODULE_DATA_LOAD_ADDR + 0 = MODULE_DATA_LOAD_ADDR
        BY <2>4 DEF MODULE_DATA_LOAD_ADDR
      <4>. QED  BY <2>8, <3>2, <4>1
    <3>. QED  BY <3>1, <3>2
  <2>. QED  BY <2>6, <2>7, <2>9, <2>11 DEF LayoutHolds
<1>2. IInv /\ HeapInv /\ LayInv => LayoutHolds
  BY <1>1
<1>. QED  BY <1>2, HeapLayInvariance, PTL

=============================================================================
