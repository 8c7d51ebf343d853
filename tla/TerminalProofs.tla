--------------------------- MODULE TerminalProofs ---------------------------
(***************************************************************************)
(* Proofs about Terminal and Screen, for every size of screen, every text  *)
(* the terminal prints and every sequence of keys: the screen shows what   *)
(* was printed, the command buffer holds the line that is typed.           *)
(***************************************************************************)
EXTENDS Terminal, WellFoundedInduction, SequenceTheorems, TLAPS

-----------------------------------------------------------------------------
LEMMA Least ==
  ASSUME NEW U, U \subseteq Nat, U # {}
  PROVE  \E x \in U : \A y \in U : x <= y
<1>1. PICK x \in U : \A y \in U : ~(<<y, x>> \in OpToRel(<, Nat))
  BY NatLessThanWellFounded, WFMin
<1>2. ASSUME NEW y \in U PROVE ~(y < x)
  BY <1>1 DEF OpToRel
<1>. QED  BY <1>2

(* Induction, for sets of numbers.                                         *)
LEMMA Induction ==
  ASSUME NEW U, 0 \in U, \A n \in Nat : n \in U => n + 1 \in U
  PROVE  Nat \subseteq U
<1> SUFFICES ASSUME Nat \ U # {} PROVE FALSE
  OBVIOUS
<1>1. PICK x \in Nat \ U : \A y \in Nat \ U : x <= y
  BY Least
<1>2. x # 0 /\ x - 1 \in Nat
  BY <1>1
<1>3. x - 1 \in U
  BY <1>1, <1>2
<1>. QED  BY <1>1, <1>2, <1>3

(* The greatest element of a set of numbers that has one.                  *)
LEMMA MaxIs ==
  ASSUME NEW U, U \subseteq Int, NEW m \in U, \A x \in U : x <= m
  PROVE  Max(U) = m
<1>1. \A x \in U : m >= x
  OBVIOUS
<1>2. Max(U) \in U /\ \A x \in U : Max(U) >= x
  BY <1>1 DEF Max
<1> DEFINE x == Max(U)
<1>3. x \in Int /\ m \in Int /\ x <= m /\ x >= m
  BY <1>2
<1> HIDE DEF x
<1>4. x = m
  BY <1>3
<1>. QED  BY <1>4 DEF x

-----------------------------------------------------------------------------
(* A fold as a function of the places of the text that it takes in: f is   *)
(* one for the first n places.                                             *)
Prints(f, s, text, n) ==
  f = [t \in SUBSET (1 .. n) |->
         IF t = {} THEN s ELSE putchar(f[t \ {Max(t)}], text[Max(t)])]

Writes(f, p, text, n) ==
  f = [t \in SUBSET (1 .. n) |->
         IF t = {} THEN p ELSE P!Write(f[t \ {Max(t)}], text[Max(t)])]

(* A set of places up to n + 1 with n + 1 in it ends there; without, it is *)
(* one up to n, and has a greatest place if it has any.                    *)
LEMMA Places ==
  ASSUME NEW n \in Nat, NEW t \in SUBSET (1 .. n + 1)
  PROVE  /\ n + 1 \in t => Max(t) = n + 1 /\ t \ {Max(t)} \in SUBSET (1 .. n) /\ t # {}
         /\ n + 1 \notin t => t \in SUBSET (1 .. n)
<1>1. 1 .. n + 1 = 1 .. n \cup {n + 1} /\ \A x \in 1 .. n + 1 : x <= n + 1
  OBVIOUS
<1>2. n + 1 \in t => Max(t) = n + 1
  <2>1. t \subseteq Int /\ \A x \in t : x <= n + 1
    BY <1>1
  <2>. QED  BY <2>1, MaxIs
<1>. QED  BY <1>1, <1>2

LEMMA MaxInside == \A n \in Nat : \A t \in SUBSET (1 .. n) : t # {} => Max(t) \in t
<1> DEFINE U == {n \in Nat : \A t \in SUBSET (1 .. n) : t # {} => Max(t) \in t}
<1>1. 0 \in U
  <2>1. SUBSET (1 .. 0) = {{}}
    OBVIOUS
  <2>. QED  BY <2>1
<1>2. ASSUME NEW n \in Nat, n \in U PROVE n + 1 \in U
  <2>1. ASSUME NEW t \in SUBSET (1 .. n + 1), t # {} PROVE Max(t) \in t
    BY <1>2, <2>1, Places
  <2>. QED  BY <2>1
<1>3. Nat \subseteq U
  <2> HIDE DEF U
  <2>. QED  BY <1>1, <1>2, Induction
<1>. QED  BY <1>3

LEMMA PrintsExist == ASSUME NEW s, NEW text PROVE \A n \in Nat : \E f : Prints(f, s, text, n)
<1> DEFINE U == {n \in Nat : \E f : Prints(f, s, text, n)}
<1>1. 0 \in U
  <2> DEFINE f == [t \in SUBSET (1 .. 0) |-> s]
  <2>1. SUBSET (1 .. 0) = {{}}
    OBVIOUS
  <2>2. Prints(f, s, text, 0)
    BY <2>1 DEF Prints
  <2>. QED  BY <2>2
<1>2. ASSUME NEW n \in Nat, n \in U PROVE n + 1 \in U
  <2>1. PICK f : Prints(f, s, text, n)
    BY <1>2
  <2> DEFINE g == [t \in SUBSET (1 .. n + 1) |->
                     IF n + 1 \in t THEN putchar(f[t \ {n + 1}], text[n + 1]) ELSE f[t]]
             value(t) == IF t = {} THEN s ELSE putchar(g[t \ {Max(t)}], text[Max(t)])
  <2>2. \A t \in SUBSET (1 .. n) : g[t] = f[t]
    <3>1. \A t \in SUBSET (1 .. n) : t \in SUBSET (1 .. n + 1) /\ n + 1 \notin t
      OBVIOUS
    <3>. QED  BY <3>1
  <2>3. ASSUME NEW t \in SUBSET (1 .. n + 1) PROVE g[t] = value(t)
    <3>1. CASE n + 1 \in t
      <4>1. Max(t) = n + 1 /\ t \ {Max(t)} \in SUBSET (1 .. n) /\ t # {}
        BY <3>1, Places
      <4>2. g[t] = putchar(f[t \ {n + 1}], text[n + 1])
        BY <3>1
      <4>3. g[t \ {Max(t)}] = f[t \ {n + 1}]
        BY <2>2, <4>1
      <4> HIDE DEF g
      <4>. QED  BY <4>1, <4>2, <4>3
    <3>2. CASE n + 1 \notin t
      <4>1. t \in SUBSET (1 .. n) /\ t \ {Max(t)} \in SUBSET (1 .. n)
        BY <3>2, Places
      <4>2. g[t] = f[t] /\ g[t \ {Max(t)}] = f[t \ {Max(t)}]
        BY <2>2, <4>1
      <4> HIDE DEF g
      <4>3. f[t] = IF t = {} THEN s ELSE putchar(f[t \ {Max(t)}], text[Max(t)])
        BY <2>1, <4>1 DEF Prints
      <4>. QED  BY <4>2, <4>3
    <3>. QED  BY <3>1, <3>2
  <2>4. g = [t \in SUBSET (1 .. n + 1) |-> g[t]]
    OBVIOUS
  <2> HIDE DEF g
  <2>5. Prints(g, s, text, n + 1)
    BY <2>3, <2>4 DEF Prints
  <2>. QED  BY <2>5
<1>3. Nat \subseteq U
  <2> HIDE DEF U
  <2>. QED  BY <1>1, <1>2, Induction
<1>. QED  BY <1>3

LEMMA WritesExist == ASSUME NEW p, NEW text PROVE \A n \in Nat : \E f : Writes(f, p, text, n)
<1> DEFINE U == {n \in Nat : \E f : Writes(f, p, text, n)}
<1>1. 0 \in U
  <2> DEFINE f == [t \in SUBSET (1 .. 0) |-> p]
  <2>1. SUBSET (1 .. 0) = {{}}
    OBVIOUS
  <2>2. Writes(f, p, text, 0)
    BY <2>1 DEF Writes
  <2>. QED  BY <2>2
<1>2. ASSUME NEW n \in Nat, n \in U PROVE n + 1 \in U
  <2>1. PICK f : Writes(f, p, text, n)
    BY <1>2
  <2> DEFINE g == [t \in SUBSET (1 .. n + 1) |->
                     IF n + 1 \in t THEN P!Write(f[t \ {n + 1}], text[n + 1]) ELSE f[t]]
             value(t) == IF t = {} THEN p ELSE P!Write(g[t \ {Max(t)}], text[Max(t)])
  <2>2. \A t \in SUBSET (1 .. n) : g[t] = f[t]
    <3>1. \A t \in SUBSET (1 .. n) : t \in SUBSET (1 .. n + 1) /\ n + 1 \notin t
      OBVIOUS
    <3>. QED  BY <3>1
  <2>3. ASSUME NEW t \in SUBSET (1 .. n + 1) PROVE g[t] = value(t)
    <3>1. CASE n + 1 \in t
      <4>1. Max(t) = n + 1 /\ t \ {Max(t)} \in SUBSET (1 .. n) /\ t # {}
        BY <3>1, Places
      <4>2. g[t] = P!Write(f[t \ {n + 1}], text[n + 1])
        BY <3>1
      <4>3. g[t \ {Max(t)}] = f[t \ {n + 1}]
        BY <2>2, <4>1
      <4> HIDE DEF g
      <4>. QED  BY <4>1, <4>2, <4>3
    <3>2. CASE n + 1 \notin t
      <4>1. t \in SUBSET (1 .. n) /\ t \ {Max(t)} \in SUBSET (1 .. n)
        BY <3>2, Places
      <4>2. g[t] = f[t] /\ g[t \ {Max(t)}] = f[t \ {Max(t)}]
        BY <2>2, <4>1
      <4> HIDE DEF g
      <4>3. f[t] = IF t = {} THEN p ELSE P!Write(f[t \ {Max(t)}], text[Max(t)])
        BY <2>1, <4>1 DEF Writes
      <4>. QED  BY <4>2, <4>3
    <3>. QED  BY <3>1, <3>2
  <2>4. g = [t \in SUBSET (1 .. n + 1) |-> g[t]]
    OBVIOUS
  <2> HIDE DEF g
  <2>5. Writes(g, p, text, n + 1)
    BY <2>3, <2>4 DEF Writes
  <2>. QED  BY <2>5
<1>3. Nat \subseteq U
  <2> HIDE DEF U
  <2>. QED  BY <1>1, <1>2, Induction
<1>. QED  BY <1>3

(* The fold of a text, one place after the other.                          *)
LEMMA Printed ==
  ASSUME NEW s, NEW text \in Seq(Symbols)
  PROVE  \E f : /\ f[{}] = s /\ f[1 .. Len(text)] = printf(s, text)
                /\ \A k \in 0 .. Len(text) - 1 : f[1 .. k + 1] = putchar(f[1 .. k], text[k + 1])
<1> DEFINE n == Len(text)
           f == CHOOSE f : Prints(f, s, text, n)
<1>1. n \in Nat /\ DOMAIN text = 1 .. n
  OBVIOUS
<1>2. Prints(f, s, text, n)
  BY <1>1, PrintsExist
<1>3. f[1 .. n] = printf(s, text)
  BY <1>1 DEF Prints, printf, FoldLeft, MapThenFoldSet
<1> HIDE DEF f, n
<1>4. f[{}] = s
  BY <1>2 DEF Prints
<1>5. ASSUME NEW k \in 0 .. n - 1 PROVE f[1 .. k + 1] = putchar(f[1 .. k], text[k + 1])
  <2>1. 1 .. k + 1 \in SUBSET (1 .. n) /\ k + 1 \in 1 .. k + 1 /\ k \in Nat
    BY <1>1
  <2>2. Max(1 .. k + 1) = k + 1
    BY <2>1, Places
  <2>3. (1 .. k + 1) \ {k + 1} = 1 .. k
    BY <2>1
  <2>4. (1 .. k + 1) # {}
    BY <2>1
  <2>5. f[1 .. k + 1] = putchar(f[(1 .. k + 1) \ {Max(1 .. k + 1)}], text[Max(1 .. k + 1)])
    BY <1>2, <2>1, <2>4 DEF Prints
  <2>. QED  BY <2>2, <2>3, <2>5
<1>. QED  BY <1>3, <1>4, <1>5 DEF n

LEMMA Written ==
  ASSUME NEW p, ~p.lost, NEW text \in Seq(Symbols)
  PROVE  \E f : /\ f[{}] = p /\ f[1 .. Len(text)] = P!WriteAll(p, text)
                /\ \A k \in 0 .. Len(text) - 1 : f[1 .. k + 1] = P!Write(f[1 .. k], text[k + 1])
<1> DEFINE n == Len(text)
           f == CHOOSE f : Writes(f, p, text, n)
<1>1. n \in Nat /\ DOMAIN text = 1 .. n
  OBVIOUS
<1>2. Writes(f, p, text, n)
  BY <1>1, WritesExist
<1>3. f[1 .. n] = P!WriteAll(p, text)
  BY <1>1 DEF Writes, P!WriteAll, P!FoldLeft, P!MapThenFoldSet, P!Max, Max
<1> HIDE DEF f, n
<1>4. f[{}] = p
  BY <1>2 DEF Writes
<1>5. ASSUME NEW k \in 0 .. n - 1 PROVE f[1 .. k + 1] = P!Write(f[1 .. k], text[k + 1])
  <2>1. 1 .. k + 1 \in SUBSET (1 .. n) /\ k + 1 \in 1 .. k + 1 /\ k \in Nat
    BY <1>1
  <2>2. Max(1 .. k + 1) = k + 1
    BY <2>1, Places
  <2>3. (1 .. k + 1) \ {k + 1} = 1 .. k
    BY <2>1
  <2>4. (1 .. k + 1) # {}
    BY <2>1
  <2>5. f[1 .. k + 1] = P!Write(f[(1 .. k + 1) \ {Max(1 .. k + 1)}], text[Max(1 .. k + 1)])
    BY <1>2, <2>1, <2>4 DEF Writes
  <2>. QED  BY <2>2, <2>3, <2>5
<1>. QED  BY <1>3, <1>4, <1>5 DEF n


-----------------------------------------------------------------------------
LEMMA Sizes ==
  /\ SCREEN_WIDE \in Nat /\ 2 <= SCREEN_WIDE /\ SCREEN_WIDE <= 255
  /\ SCREEN_HIGH \in Nat /\ 2 <= SCREEN_HIGH /\ SCREEN_HIGH <= 255
BY ScreenAssumption

(* A number below a size, and below 256, is a coordinate as it is.         *)
LEMMA Fits ==
  /\ \A x \in 0 .. SCREEN_WIDE - 1 : (x % 256) % SCREEN_WIDE = x
  /\ \A y \in 0 .. SCREEN_HIGH - 1 : (y % 256) % SCREEN_HIGH = y
  /\ (SCREEN_WIDE % 256) % SCREEN_WIDE = 0
  /\ \A x \in Int : (x % 256) % SCREEN_WIDE \in 0 .. SCREEN_WIDE - 1
  /\ \A y \in Int : (y % 256) % SCREEN_HIGH \in 0 .. SCREEN_HIGH - 1
<1>1. ASSUME NEW w \in 2 .. 255, NEW x \in 0 .. w - 1 PROVE (x % 256) % w = x
  <2>1. x % 256 = x
    OBVIOUS
  <2>. QED  BY <2>1
<1>2. ASSUME NEW w \in 2 .. 255 PROVE (w % 256) % w = 0
  <2>1. w % 256 = w
    OBVIOUS
  <2>2. w % w = 0
    OBVIOUS
  <2>. QED  BY <2>1, <2>2
<1>3. ASSUME NEW w \in 2 .. 255, NEW x \in Int PROVE (x % 256) % w \in 0 .. w - 1
  OBVIOUS
<1>4. SCREEN_WIDE \in 2 .. 255 /\ SCREEN_HIGH \in 2 .. 255
  BY ScreenAssumption
<1>5. /\ \A x \in 0 .. SCREEN_WIDE - 1 : (x % 256) % SCREEN_WIDE = x
      /\ \A y \in 0 .. SCREEN_HIGH - 1 : (y % 256) % SCREEN_HIGH = y
  BY <1>1, <1>4
<1>6. (SCREEN_WIDE % 256) % SCREEN_WIDE = 0
  BY <1>2, <1>4
<1>7. /\ \A x \in Int : (x % 256) % SCREEN_WIDE \in 0 .. SCREEN_WIDE - 1
      /\ \A y \in Int : (y % 256) % SCREEN_HIGH \in 0 .. SCREEN_HIGH - 1
  BY <1>3, <1>4
<1>. QED  BY <1>5, <1>6, <1>7

(* Lines of a width.                                                       *)
LEMMA Lines ==
  ASSUME NEW a \in Int, NEW b \in Int
  PROVE  /\ a * SCREEN_WIDE \in Int
         /\ (a + b) * SCREEN_WIDE = a * SCREEN_WIDE + b * SCREEN_WIDE
         /\ a <= b => a * SCREEN_WIDE <= b * SCREEN_WIDE
         /\ a < b => a * SCREEN_WIDE + SCREEN_WIDE <= b * SCREEN_WIDE
<1>1. \A w, i, j \in Int : (i + j) * w = i * w + j * w /\ i * w \in Int
  OBVIOUS
<1>2. \A w, i \in Nat : i * w \in Nat
  OBVIOUS
<1>3. a <= b => b * SCREEN_WIDE = a * SCREEN_WIDE + (b - a) * SCREEN_WIDE
                /\ (b - a) * SCREEN_WIDE \in Nat
  <2>1. b = a + (b - a) /\ (b - a) \in Int /\ SCREEN_WIDE \in Int
    BY Sizes
  <2>2. b * SCREEN_WIDE = a * SCREEN_WIDE + (b - a) * SCREEN_WIDE
    BY <1>1, <2>1
  <2>3. a <= b => (b - a) * SCREEN_WIDE \in Nat
    <3>1. a <= b => b - a \in Nat
      OBVIOUS
    <3>. QED  BY <1>2, <3>1, Sizes
  <2>. QED  BY <2>2, <2>3
<1>4. a < b => b * SCREEN_WIDE = (a * SCREEN_WIDE + 1 * SCREEN_WIDE) + (b - a - 1) * SCREEN_WIDE
               /\ (b - a - 1) * SCREEN_WIDE \in Nat
  <2>1. b = (a + 1) + (b - a - 1) /\ (b - a - 1) \in Int /\ a + 1 \in Int /\ SCREEN_WIDE \in Int
    BY Sizes
  <2>2. b * SCREEN_WIDE = (a + 1) * SCREEN_WIDE + (b - a - 1) * SCREEN_WIDE
    BY <1>1, <2>1
  <2>3. (a + 1) * SCREEN_WIDE = a * SCREEN_WIDE + 1 * SCREEN_WIDE
    BY <1>1, Sizes
  <2>4. a < b => (b - a - 1) * SCREEN_WIDE \in Nat
    <3>1. a < b => b - a - 1 \in Nat
      OBVIOUS
    <3>. QED  BY <1>2, <3>1, Sizes
  <2>. QED  BY <2>2, <2>3, <2>4
<1>5. a * SCREEN_WIDE \in Int /\ b * SCREEN_WIDE \in Int /\ 1 * SCREEN_WIDE = SCREEN_WIDE
  BY <1>1, Sizes
<1>6. (a + b) * SCREEN_WIDE = a * SCREEN_WIDE + b * SCREEN_WIDE
  BY <1>1, Sizes
<1> DEFINE u == a * SCREEN_WIDE
           v == b * SCREEN_WIDE
<1>7. a <= b => u <= v
  BY <1>3, <1>5
<1>8. a < b => u + SCREEN_WIDE <= v
  BY <1>4, <1>5, Sizes
<1>. QED  BY <1>5, <1>6, <1>7, <1>8

(* The line of a place.                                                    *)
LEMMA LineOf ==
  ASSUME NEW i \in Int, NEW x \in 0 .. SCREEN_WIDE - 1, NEW n, n = i * SCREEN_WIDE + x
  PROVE  n \in Int /\ n \div SCREEN_WIDE = i
<1> DEFINE w == SCREEN_WIDE
           q == n \div w
           r == n % w
<1>1. w \in Nat \ {0} /\ i * w \in Int /\ n \in Int
  BY Sizes, Lines
<1>2. q \in Int /\ r \in 0 .. w - 1 /\ n = w * q + r
  BY <1>1
<1>3. w * q = q * w
  BY <1>1, <1>2
<1>4. n = q * w + r /\ q * w \in Int
  BY <1>1, <1>2, <1>3
<1>5. ~(q < i)
  <2>1. q < i => q * w + w <= i * w
    BY <1>2, Lines
  <2> HIDE DEF q, r, w
  <2> DEFINE u == q * w
             v == i * w
  <2>2. n = v + x /\ n = u + r /\ u \in Int /\ v \in Int
    BY <1>4, <1>1 DEF w
  <2>3. x \in 0 .. w - 1
    BY DEF w
  <2> HIDE DEF u, v
  <2>. QED  BY <1>1, <1>2, <2>1, <2>2, <2>3 DEF u, v
<1>6. ~(i < q)
  <2>1. i < q => i * w + w <= q * w
    BY <1>2, Lines
  <2> HIDE DEF q, r, w
  <2> DEFINE u == q * w
             v == i * w
  <2>2. n = v + x /\ n = u + r /\ u \in Int /\ v \in Int
    BY <1>4, <1>1 DEF w
  <2>3. x \in 0 .. w - 1
    BY DEF w
  <2> HIDE DEF u, v
  <2>. QED  BY <1>1, <1>2, <2>1, <2>2, <2>3 DEF u, v
<1>7. q = i
  <2> HIDE DEF q, r, w
  <2>. QED  BY <1>2, <1>5, <1>6
<1>. QED  BY <1>1, <1>7

-----------------------------------------------------------------------------
OnScreen(s) ==
  s \in [cell : [Cells -> Symbols], x : 0 .. SCREEN_WIDE - 1, y : 0 .. SCREEN_HIGH - 1]

Roll(p) == p = [ink |-> p.ink, pen |-> p.pen, top |-> p.top, lost |-> p.lost]

(* The screen s shows the paper p.  Nothing is written below the window:   *)
(* a line that scrolling brings up is empty.                               *)
Agree(s, p) ==
  /\ p.top \in Nat /\ p.pen \in Int
  /\ p.pen = (p.top + s.y) * SCREEN_WIDE + s.x
  /\ DOMAIN p.ink \subseteq Int
  /\ \A n \in DOMAIN p.ink : n < (p.top + SCREEN_HIGH) * SCREEN_WIDE
  /\ \A n \in Cells :
       s.cell[n] = IF p.top * SCREEN_WIDE + n \in DOMAIN p.ink
                   THEN p.ink[p.top * SCREEN_WIDE + n] ELSE Blank

Shows(s, p) == OnScreen(s) /\ Roll(p) /\ p.lost \in BOOLEAN /\ (~p.lost => Agree(s, p))

(* The fields of a screen and a roll after an operation.                   *)
LEMMA Cursor ==
  ASSUME NEW s, OnScreen(s), NEW x \in Int, NEW y \in Int, NEW t, t = set_cursor_position(s, x, y)
  PROVE  /\ OnScreen(t) /\ t.cell = s.cell
         /\ t.x = (x % 256) % SCREEN_WIDE /\ t.y = (y % 256) % SCREEN_HIGH
<1> DEFINE tx == (x % 256) % SCREEN_WIDE
           ty == (y % 256) % SCREEN_HIGH
<1>1. tx \in 0 .. SCREEN_WIDE - 1 /\ ty \in 0 .. SCREEN_HIGH - 1
  BY Fits
<1>2. t = [s EXCEPT !.x = tx, !.y = ty]
  BY DEF set_cursor_position
<1> HIDE DEF tx, ty
<1>3. OnScreen(t) /\ t.cell = s.cell /\ t.x = tx /\ t.y = ty
  BY <1>1, <1>2 DEF OnScreen
<1>. QED  BY <1>3 DEF tx, ty

LEMMA Moved ==
  ASSUME NEW p, Roll(p), p.lost \in BOOLEAN, NEW pen, NEW q, q = P!MoveTo(p, pen)
  PROVE  /\ Roll(q) /\ q.lost \in BOOLEAN /\ q.ink = p.ink /\ q.pen = pen
         /\ q.lost = (p.lost \/ pen \div SCREEN_WIDE < p.top)
         /\ q.top = IF pen \div SCREEN_WIDE - p.top >= SCREEN_HIGH
                    THEN pen \div SCREEN_WIDE - SCREEN_HIGH + 1 ELSE p.top
BY DEF Roll, P!MoveTo

(* Scrolling: the line that comes up is blank.                             *)
LEMMA Scrolled ==
  ASSUME NEW s, OnScreen(s), NEW t, t = scroll_up(s)
  PROVE  /\ OnScreen(t) /\ t.x = s.x
         /\ t.y = IF s.y = 0 THEN 0 ELSE s.y - 1
         /\ \A n \in Cells : t.cell[n] = IF n + SCREEN_WIDE \in Cells
                                         THEN s.cell[n + SCREEN_WIDE] ELSE Blank
<1> DEFINE cell == [n \in Cells |-> IF n + SCREEN_WIDE \in Cells THEN s.cell[n + SCREEN_WIDE] ELSE Blank]
           m == [s EXCEPT !.cell = cell]
           y == IF s.y = 0 THEN 0 ELSE s.y - 1
<1>1. cell \in [Cells -> Symbols]
  <2>1. Blank \in Symbols
    BY DEF Symbols
  <2>2. \A n \in Cells : s.cell[n] \in Symbols
    BY DEF OnScreen
  <2>. QED  BY <2>1, <2>2
<1>2. \A n \in Cells : cell[n] = IF n + SCREEN_WIDE \in Cells THEN s.cell[n + SCREEN_WIDE] ELSE Blank
  OBVIOUS
<1>3. t = set_cursor_position(m, s.x, y)
  BY DEF scroll_up
<1> HIDE DEF cell
<1>4. OnScreen(m) /\ m.cell = cell
  BY <1>1 DEF OnScreen
<1>5. s.x \in 0 .. SCREEN_WIDE - 1 /\ y \in 0 .. SCREEN_HIGH - 1
  BY Sizes DEF OnScreen
<1>6. s.x \in Int /\ y \in Int
  BY <1>5, Sizes
<1> HIDE DEF m, y
<1>7. OnScreen(t) /\ t.cell = cell /\ t.x = s.x /\ t.y = y
  BY <1>3, <1>4, <1>5, <1>6, Cursor, Fits
<1>. QED  BY <1>2, <1>7 DEF y

(* The cells of a screen, by line and column.                              *)
LEMMA CellOf ==
  ASSUME NEW x \in 0 .. SCREEN_WIDE - 1, NEW y \in 0 .. SCREEN_HIGH - 1
  PROVE  y * SCREEN_WIDE + x \in Cells
<1> DEFINE a == y * SCREEN_WIDE
           c == SCREEN_WIDE * SCREEN_HIGH
<1>1. a \in Int /\ a >= 0 /\ a + SCREEN_WIDE <= SCREEN_HIGH * SCREEN_WIDE
  <2>1. y \in Int /\ SCREEN_HIGH \in Int /\ 0 \in Int /\ 0 <= y /\ y < SCREEN_HIGH
    BY Sizes
  <2>2. 0 * SCREEN_WIDE = 0
    BY Sizes
  <2>. QED  BY <2>1, <2>2, Lines
<1>2. SCREEN_HIGH * SCREEN_WIDE = c /\ c \in Int
  BY Sizes
<1> HIDE DEF a, c
<1>3. a + x \in 0 .. c - 1
  BY <1>1, <1>2, Sizes
<1>. QED  BY <1>3 DEF Cells, a, c

(* When the window has moved a line down and the screen was scrolled, the  *)
(* one shows the other.                                                    *)
LEMMA WindowMoves ==
  ASSUME NEW s, NEW p, OnScreen(s), Agree(s, p), NEW n \in Cells,
         NEW t, t = scroll_up(s), NEW top, top = p.top + 1
  PROVE  t.cell[n] = IF top * SCREEN_WIDE + n \in DOMAIN p.ink
                     THEN p.ink[top * SCREEN_WIDE + n] ELSE Blank
<1> DEFINE a == p.top * SCREEN_WIDE
           h == SCREEN_HIGH * SCREEN_WIDE
<1>1. /\ a \in Int /\ h \in Int /\ SCREEN_WIDE \in Int /\ n \in Int
      /\ top * SCREEN_WIDE = a + SCREEN_WIDE
      /\ (p.top + SCREEN_HIGH) * SCREEN_WIDE = a + h
      /\ Cells = 0 .. h - 1
  <2>1. p.top \in Int /\ SCREEN_HIGH \in Int /\ 1 \in Int /\ 1 * SCREEN_WIDE = SCREEN_WIDE
    BY Sizes DEF Agree
  <2>2. SCREEN_WIDE * SCREEN_HIGH = h
    BY Sizes
  <2>. QED  BY <2>1, <2>2, Lines, Sizes DEF Cells
<1>2. \A m \in DOMAIN p.ink : m \in Int /\ m < a + h
  BY <1>1 DEF Agree
<1>3. \A m \in Cells : s.cell[m] = IF a + m \in DOMAIN p.ink THEN p.ink[a + m] ELSE Blank
  BY DEF Agree
<1>4. t.cell[n] = IF n + SCREEN_WIDE \in Cells THEN s.cell[n + SCREEN_WIDE] ELSE Blank
  BY Scrolled
<1> HIDE DEF a, h
<1>5. a + (n + SCREEN_WIDE) = top * SCREEN_WIDE + n
  BY <1>1
<1>6. CASE n + SCREEN_WIDE \in Cells
  BY <1>3, <1>4, <1>5, <1>6
<1>7. CASE n + SCREEN_WIDE \notin Cells
  <2>1. n + SCREEN_WIDE >= h
    BY <1>1, <1>7, Sizes
  <2>2. ~(a + (n + SCREEN_WIDE) < a + h)
    BY <1>1, <2>1
  <2>3. a + (n + SCREEN_WIDE) \notin DOMAIN p.ink
    BY <1>2, <2>2
  <2>. QED  BY <1>4, <1>5, <1>7, <2>3
<1>. QED  BY <1>6, <1>7

(* The pen moves to column x of the next line; the cursor follows, after   *)
(* scrolling if it was on the last line of the screen.                     *)
LEMMA NextLine ==
  ASSUME NEW s, NEW p, OnScreen(s), Roll(p), p.lost = FALSE, Agree(s, p),
         NEW t, t = IF s.y + 1 = SCREEN_HIGH THEN scroll_up(s) ELSE s,
         NEW x \in Int, (x % 256) % SCREEN_WIDE = 0,
         NEW u, u = set_cursor_position(t, x, t.y + 1),
         NEW q, q = P!MoveTo(p, (p.top + s.y + 1) * SCREEN_WIDE)
  PROVE  Shows(u, q)
<1> DEFINE pen == (p.top + s.y + 1) * SCREEN_WIDE
<1>1. /\ s.x \in 0 .. SCREEN_WIDE - 1 /\ s.y \in 0 .. SCREEN_HIGH - 1 /\ s.y \in Int
      /\ p.top \in Nat /\ p.top + s.y + 1 \in Int
  BY Sizes DEF OnScreen, Agree
<1>2. pen \in Int /\ pen \div SCREEN_WIDE = p.top + s.y + 1
  <2>1. 0 \in 0 .. SCREEN_WIDE - 1
    BY Sizes
  <2>2. pen \in Int
    BY <1>1, Lines
  <2> HIDE DEF pen
  <2>3. pen = pen + 0
    BY <2>2
  <2>4. pen = (p.top + s.y + 1) * SCREEN_WIDE + 0
    BY <2>3 DEF pen
  <2>. QED  BY <1>1, <2>1, <2>4, LineOf
<1>3. /\ Roll(q) /\ q.lost \in BOOLEAN /\ q.ink = p.ink /\ q.pen = pen
      /\ q.lost = (p.lost \/ pen \div SCREEN_WIDE < p.top)
      /\ q.top = IF pen \div SCREEN_WIDE - p.top >= SCREEN_HIGH
                 THEN pen \div SCREEN_WIDE - SCREEN_HIGH + 1 ELSE p.top
  <2>1. q = P!MoveTo(p, pen) /\ p.lost \in BOOLEAN
    OBVIOUS
  <2> HIDE DEF pen
  <2>. QED  BY <2>1, Moved
<1>4. q.lost = FALSE /\ q.top = IF s.y + 1 >= SCREEN_HIGH THEN p.top + 1 ELSE p.top
  <2> HIDE DEF pen
  <2>1. ~(p.top + s.y + 1 < p.top)
    BY <1>1
  <2>2. (p.top + s.y + 1) - p.top = s.y + 1
    BY <1>1
  <2>3. s.y + 1 >= SCREEN_HIGH => (p.top + s.y + 1) - SCREEN_HIGH + 1 = p.top + 1
    BY <1>1, Sizes
  <2>. QED  BY <1>2, <1>3, <2>1, <2>2, <2>3
<1>5. /\ OnScreen(t)
      /\ t.y = IF s.y + 1 = SCREEN_HIGH THEN s.y - 1 ELSE s.y
      /\ t.y + 1 \in 0 .. SCREEN_HIGH - 1 /\ t.y + 1 \in Int
  <2>1. CASE s.y + 1 = SCREEN_HIGH
    <3>1. OnScreen(t) /\ t.y = IF s.y = 0 THEN 0 ELSE s.y - 1
      BY <2>1, Scrolled
    <3>2. s.y # 0
      BY <2>1, Sizes
    <3>. QED  BY <1>1, <2>1, <3>1, <3>2, Sizes
  <2>2. CASE s.y + 1 # SCREEN_HIGH
    BY <1>1, <2>2, Sizes
  <2>. QED  BY <2>1, <2>2
<1>6. OnScreen(u) /\ u.cell = t.cell /\ u.x = 0 /\ u.y = t.y + 1
  BY <1>5, Cursor, Fits
<1>7. q.top + u.y = p.top + s.y + 1
  BY <1>1, <1>4, <1>5, <1>6, Sizes
<1>8. q.pen = (q.top + u.y) * SCREEN_WIDE + u.x
  BY <1>2, <1>3, <1>6, <1>7
<1>9. \A n \in DOMAIN q.ink : n < (q.top + SCREEN_HIGH) * SCREEN_WIDE
  <2>1. \A n \in DOMAIN p.ink : n \in Int /\ n < (p.top + SCREEN_HIGH) * SCREEN_WIDE
    BY DEF Agree
  <2>2. q.top \in Int /\ p.top + SCREEN_HIGH <= q.top + SCREEN_HIGH
    BY <1>1, <1>4, Sizes
  <2> DEFINE a == (p.top + SCREEN_HIGH) * SCREEN_WIDE
             b == (q.top + SCREEN_HIGH) * SCREEN_WIDE
  <2>3. a \in Int /\ b \in Int /\ a <= b
    <3>1. p.top + SCREEN_HIGH \in Int /\ q.top + SCREEN_HIGH \in Int
      BY <1>1, <2>2, Sizes
    <3>. QED  BY <2>2, <3>1, Lines
  <2> HIDE DEF a, b
  <2>4. \A n \in DOMAIN p.ink : n \in Int /\ n < a
    BY <2>1 DEF a
  <2>5. \A n \in DOMAIN p.ink : n < b
    BY <2>3, <2>4
  <2>. QED  BY <1>3, <2>5 DEF b
<1>10. ASSUME NEW n \in Cells
       PROVE  u.cell[n] = IF q.top * SCREEN_WIDE + n \in DOMAIN q.ink
                          THEN q.ink[q.top * SCREEN_WIDE + n] ELSE Blank
  <2>1. CASE s.y + 1 = SCREEN_HIGH
    <3>1. t = scroll_up(s) /\ q.top = p.top + 1
      BY <1>1, <1>4, <2>1, Sizes
    <3>. QED  BY <1>3, <1>6, <3>1, WindowMoves
  <2>2. CASE s.y + 1 # SCREEN_HIGH
    <3>1. t = s /\ q.top = p.top
      BY <1>1, <1>4, <2>2, Sizes
    <3>. QED  BY <1>3, <1>6, <3>1 DEF Agree
  <2>. QED  BY <2>1, <2>2
<1>11. DOMAIN q.ink \subseteq Int /\ q.pen \in Int /\ q.top \in Nat
  BY <1>1, <1>2, <1>3, <1>4 DEF Agree
<1>. QED  BY <1>3, <1>4, <1>6, <1>8, <1>9, <1>10, <1>11 DEF Shows, Agree

LEMMA SymbolsPrinted == ASSUME NEW s, OnScreen(s), NEW c \in Symbols PROVE OnScreen(print_symbol(s, c))
<1> DEFINE k == s.y * SCREEN_WIDE + s.x
           cell == [s.cell EXCEPT ![k] = c]
<1>1. cell \in [Cells -> Symbols]
  BY DEF OnScreen
<1>2. print_symbol(s, c) = [s EXCEPT !.cell = cell]
  BY DEF print_symbol, OnScreen
<1> HIDE DEF cell
<1>. QED  BY <1>1, <1>2 DEF OnScreen

(* Every operation leaves a screen with its cursor on it, whatever was     *)
(* printed before.                                                         *)
LEMMA StaysOnScreen == ASSUME NEW s, OnScreen(s), NEW c \in Symbols PROVE OnScreen(putchar(s, c))
<1>1. ASSUME NEW t, OnScreen(t) PROVE t.x \in Int /\ t.y \in Int
  BY <1>1, Sizes DEF OnScreen
<1>2. OnScreen(new_line(s))
  <2> DEFINE t == IF s.y + 1 = SCREEN_HIGH THEN scroll_up(s) ELSE s
  <2>1. OnScreen(t)
    BY Scrolled
  <2>2. new_line(s) = set_cursor_position(t, 0, t.y + 1)
    BY DEF new_line
  <2> HIDE DEF t
  <2>3. t.y + 1 \in Int
    BY <1>1, <2>1
  <2>. QED  BY <2>1, <2>2, <2>3, Cursor
<1>3. ASSUME NEW r, OnScreen(r) PROVE OnScreen(move_next_cursor_postion(r))
  <2> DEFINE wraps == r.x + 1 >= SCREEN_WIDE
             t == IF wraps /\ r.y + 1 = SCREEN_HIGH THEN scroll_up(r) ELSE r
             y == IF wraps THEN t.y + 1 ELSE t.y
  <2>1. OnScreen(t)
    BY <1>3, Scrolled
  <2>2. move_next_cursor_postion(r) = set_cursor_position(t, t.x + 1, y)
    BY DEF move_next_cursor_postion
  <2> HIDE DEF t
  <2>3. t.x + 1 \in Int /\ y \in Int
    BY <1>1, <2>1
  <2> HIDE DEF y
  <2>. QED  BY <2>1, <2>2, <2>3, Cursor
<1>4. OnScreen(move_back_cursor_postion(s))
  <2>1. SCREEN_WIDE - 1 \in Int /\ s.y - 1 \in Int /\ s.x - 1 \in Int /\ s.y \in Int
    BY <1>1, Sizes
  <2>2. OnScreen(set_cursor_position(s, SCREEN_WIDE - 1, s.y - 1))
    BY <2>1, Cursor
  <2>3. OnScreen(set_cursor_position(s, s.x - 1, s.y))
    BY <2>1, Cursor
  <2>. QED  BY <2>2, <2>3 DEF move_back_cursor_postion
<1>5. OnScreen(move_next_cursor_postion(print_symbol(s, c)))
  BY <1>3, SymbolsPrinted
<1>6. CASE c = "newline"
  BY <1>2, <1>6 DEF putchar
<1>7. CASE c = "return"
  BY <1>4, <1>7 DEF putchar
<1>8. CASE c # "newline" /\ c # "return"
  BY <1>5, <1>8 DEF putchar
<1>. QED  BY <1>6, <1>7, <1>8

Inked(p, c) == [p EXCEPT !.ink = [n \in DOMAIN p.ink \cup {p.pen} |->
                                    IF n = p.pen THEN c ELSE p.ink[n]]]

LEMMA InkedIs ==
  ASSUME NEW p, Roll(p), NEW c, NEW q, q = Inked(p, c)
  PROVE  /\ Roll(q) /\ q.pen = p.pen /\ q.top = p.top /\ q.lost = p.lost
         /\ q.ink = [n \in DOMAIN p.ink \cup {p.pen} |-> IF n = p.pen THEN c ELSE p.ink[n]]
BY DEF Roll, Inked

(* A roll that was lost sight of stays so.                                 *)
LEMMA StaysLost ==
  ASSUME NEW p, Roll(p), p.lost \in BOOLEAN, NEW c, NEW q, q = P!Write(p, c)
  PROVE  Roll(q) /\ q.lost \in BOOLEAN /\ (p.lost => q.lost)
<1>1. CASE c = "newline"
  <2>1. q = P!MoveTo(p, (p.pen \div SCREEN_WIDE + 1) * SCREEN_WIDE)
    BY <1>1 DEF P!Write
  <2>. QED  BY <2>1, Moved
<1>2. CASE c = "return"
  <2>1. q = P!MoveTo(p, p.pen - 1)
    BY <1>2 DEF P!Write
  <2>. QED  BY <2>1, Moved
<1>3. CASE c # "newline" /\ c # "return"
  <2> DEFINE r == Inked(p, c)
  <2>1. q = P!MoveTo(r, p.pen + 1)
    BY <1>3 DEF P!Write, Inked
  <2>2. Roll(r) /\ r.lost = p.lost
    BY DEF Roll, Inked
  <2> HIDE DEF r
  <2>3. Roll(q) /\ q.lost \in BOOLEAN /\ (r.lost => q.lost)
    BY <2>1, <2>2, Moved
  <2>. QED  BY <2>2, <2>3
<1>. QED  BY <1>1, <1>2, <1>3

(* The line of the pen.                                                    *)
LEMMA PenLine ==
  ASSUME NEW s, NEW p, OnScreen(s), Agree(s, p)
  PROVE  /\ s.x \in 0 .. SCREEN_WIDE - 1 /\ s.y \in 0 .. SCREEN_HIGH - 1
         /\ p.top \in Nat /\ p.top + s.y \in Int
         /\ p.pen \in Int /\ p.pen \div SCREEN_WIDE = p.top + s.y
<1>1. s.x \in 0 .. SCREEN_WIDE - 1 /\ s.y \in 0 .. SCREEN_HIGH - 1 /\ p.top \in Nat /\ p.top + s.y \in Int
  BY Sizes DEF OnScreen, Agree
<1>2. p.pen = (p.top + s.y) * SCREEN_WIDE + s.x
  BY DEF Agree
<1>. QED  BY <1>1, <1>2, LineOf

LEMMA NewLineShows ==
  ASSUME NEW s, NEW p, OnScreen(s), Roll(p), p.lost = FALSE, Agree(s, p)
  PROVE  Shows(new_line(s), P!MoveTo(p, (p.pen \div SCREEN_WIDE + 1) * SCREEN_WIDE))
<1> DEFINE t == IF s.y + 1 = SCREEN_HIGH THEN scroll_up(s) ELSE s
<1>1. new_line(s) = set_cursor_position(t, 0, t.y + 1)
  BY DEF new_line
<1>2. (0 % 256) % SCREEN_WIDE = 0
  <2>1. 0 \in 0 .. SCREEN_WIDE - 1
    BY Sizes
  <2>. QED  BY <2>1, Fits
<1>3. p.pen \div SCREEN_WIDE + 1 = p.top + s.y + 1
  BY PenLine
<1> DEFINE u == set_cursor_position(t, 0, t.y + 1)
           q == P!MoveTo(p, (p.top + s.y + 1) * SCREEN_WIDE)
<1>4. Shows(u, q)
  <2>1. u = set_cursor_position(t, 0, t.y + 1) /\ q = P!MoveTo(p, (p.top + s.y + 1) * SCREEN_WIDE)
        /\ t = (IF s.y + 1 = SCREEN_HIGH THEN scroll_up(s) ELSE s) /\ 0 \in Int
    OBVIOUS
  <2> HIDE DEF t, u, q
  <2>. QED  BY <1>2, <2>1, NextLine
<1>. QED  BY <1>1, <1>3, <1>4

(* A backspace: to the end of the line above, from the first cell of the   *)
(* screen out of sight.                                                    *)
LEMMA BackShows ==
  ASSUME NEW s, NEW p, OnScreen(s), Roll(p), p.lost = FALSE, Agree(s, p)
  PROVE  Shows(move_back_cursor_postion(s), P!MoveTo(p, p.pen - 1))
<1> DEFINE x == IF s.x = 0 THEN SCREEN_WIDE - 1 ELSE s.x - 1
           y == IF s.x = 0 THEN s.y - 1 ELSE s.y
           u == set_cursor_position(s, x, y)
           q == P!MoveTo(p, p.pen - 1)
<1>1. /\ s.x \in 0 .. SCREEN_WIDE - 1 /\ s.y \in 0 .. SCREEN_HIGH - 1 /\ p.top \in Nat
      /\ p.top + s.y \in Int /\ p.pen \in Int
  BY PenLine
<1>2. move_back_cursor_postion(s) = u
  BY DEF move_back_cursor_postion
<1>3. x \in 0 .. SCREEN_WIDE - 1 /\ x \in Int /\ y \in Int /\ p.top + y \in Int /\ y <= s.y
  BY <1>1, Sizes
<1>4. p.pen - 1 = (p.top + y) * SCREEN_WIDE + x
  <2>1. p.pen = (p.top + s.y) * SCREEN_WIDE + s.x
    BY DEF Agree
  <2>2. CASE s.x = 0
    <3> DEFINE a == (p.top + s.y) * SCREEN_WIDE
               b == (p.top + y) * SCREEN_WIDE
    <3>1. p.top + s.y = (p.top + y) + 1 /\ 1 \in Int /\ 1 * SCREEN_WIDE = SCREEN_WIDE
      BY <1>1, <2>2, Sizes
    <3>2. ((p.top + y) + 1) * SCREEN_WIDE = b + 1 * SCREEN_WIDE /\ b \in Int
      BY <1>3, <3>1, Lines
    <3>3. a = b + SCREEN_WIDE
      BY <3>1, <3>2
    <3> HIDE DEF a, b
    <3>4. p.pen = a + 0
      BY <2>1, <2>2 DEF a
    <3>5. p.pen - 1 = b + (SCREEN_WIDE - 1)
      BY <3>2, <3>3, <3>4, Sizes
    <3>. QED  BY <2>2, <3>5 DEF b
  <2>3. CASE s.x # 0
    <3>1. y = s.y /\ x = s.x - 1
      BY <2>3
    <3> DEFINE a == (p.top + s.y) * SCREEN_WIDE
    <3>2. a \in Int
      BY <1>1, Lines
    <3>3. p.pen = a + s.x
      BY <2>1
    <3> HIDE DEF a, x, y
    <3>4. p.pen - 1 = a + (s.x - 1)
      BY <1>1, <3>2, <3>3
    <3>. QED  BY <3>1, <3>4 DEF a
  <2>. QED  BY <2>2, <2>3
<1> HIDE DEF x, y
<1>5. (p.pen - 1) \div SCREEN_WIDE = p.top + y /\ p.pen - 1 \in Int
  BY <1>3, <1>4, LineOf
<1>6. /\ Roll(q) /\ q.lost \in BOOLEAN /\ q.ink = p.ink /\ q.pen = p.pen - 1
      /\ q.lost = (p.lost \/ p.top + y < p.top)
      /\ q.top = IF (p.top + y) - p.top >= SCREEN_HIGH
                 THEN (p.top + y) - SCREEN_HIGH + 1 ELSE p.top
  <2>1. p.lost \in BOOLEAN
    OBVIOUS
  <2> DEFINE pen == p.pen - 1
  <2>2. q = P!MoveTo(p, pen) /\ pen \div SCREEN_WIDE = p.top + y
    BY <1>5
  <2> HIDE DEF pen, q
  <2>3. /\ Roll(q) /\ q.lost \in BOOLEAN /\ q.ink = p.ink /\ q.pen = pen
        /\ q.lost = (p.lost \/ pen \div SCREEN_WIDE < p.top)
        /\ q.top = IF pen \div SCREEN_WIDE - p.top >= SCREEN_HIGH
                   THEN pen \div SCREEN_WIDE - SCREEN_HIGH + 1 ELSE p.top
    BY <2>1, <2>2, Moved
  <2>. QED  BY <2>2, <2>3 DEF pen
<1>7. q.top = p.top
  <2>1. ~((p.top + y) - p.top >= SCREEN_HIGH)
    BY <1>1, <1>3, Sizes
  <2>. QED  BY <1>6, <2>1
<1>8. OnScreen(u) /\ u.cell = s.cell /\ u.x = x /\ u.y = (y % 256) % SCREEN_HIGH
  BY <1>3, Cursor, Fits
<1> HIDE DEF u, q
<1>9. ASSUME ~q.lost PROVE Agree(u, q)
  <2>1. y >= 0
    <3>1. ~(p.top + y < p.top)
      BY <1>6, <1>9
    <3>. QED  BY <1>1, <1>3, <3>1
  <2>2. y \in 0 .. SCREEN_HIGH - 1
    BY <1>1, <1>3, <2>1, Sizes
  <2>3. u.y = y
    BY <1>8, <2>2, Fits
  <2>. QED  BY <1>4, <1>5, <1>6, <1>7, <1>8, <2>3 DEF Agree
<1>. QED  BY <1>2, <1>6, <1>8, <1>9 DEF Shows, u, q

(* A symbol goes to the cell of the cursor and to the place of the pen.    *)
LEMMA SymbolShows ==
  ASSUME NEW s, NEW p, OnScreen(s), Roll(p), Agree(s, p), NEW c \in Symbols,
         NEW t, t = print_symbol(s, c), NEW q, q = Inked(p, c)
  PROVE  /\ OnScreen(t) /\ t.x = s.x /\ t.y = s.y /\ Agree(t, q)
         /\ Roll(q) /\ q.pen = p.pen /\ q.top = p.top /\ q.lost = p.lost
<1> DEFINE k == s.y * SCREEN_WIDE + s.x
           a == p.top * SCREEN_WIDE
<1>1. OnScreen(t)
  BY SymbolsPrinted
<1>2. t.x = s.x /\ t.y = s.y /\ t.cell = [s.cell EXCEPT ![k] = c]
  BY DEF print_symbol, OnScreen
<1>3. /\ Roll(q) /\ q.pen = p.pen /\ q.top = p.top /\ q.lost = p.lost
      /\ q.ink = [n \in DOMAIN p.ink \cup {p.pen} |-> IF n = p.pen THEN c ELSE p.ink[n]]
  BY InkedIs
<1>4. /\ s.x \in 0 .. SCREEN_WIDE - 1 /\ s.y \in 0 .. SCREEN_HIGH - 1
      /\ p.top \in Nat /\ p.pen \in Int /\ p.top \in Int /\ s.y \in Int
  BY PenLine
<1>5. k \in Cells /\ k \in Int /\ a \in Int /\ \A n \in Cells : n \in Int
  <2>1. \A n \in Cells : n \in Int
    BY Sizes DEF Cells
  <2>2. k \in Cells
    BY <1>4, CellOf
  <2>3. k \in Int
    BY <2>1, <2>2
  <2>. QED  BY <1>4, <2>1, <2>2, <2>3, Lines
<1>6. p.pen = a + k
  <2> DEFINE b == s.y * SCREEN_WIDE
  <2>1. (p.top + s.y) * SCREEN_WIDE = a + b /\ b \in Int
    BY <1>4, Lines
  <2>2. p.pen = (p.top + s.y) * SCREEN_WIDE + s.x
    BY DEF Agree
  <2> HIDE DEF a, b
  <2>3. p.pen = (a + b) + s.x
    BY <2>1, <2>2
  <2>4. p.pen = a + (b + s.x)
    BY <1>4, <1>5, <2>1, <2>3
  <2>. QED  BY <2>4 DEF b
<1>7. p.pen < (p.top + SCREEN_HIGH) * SCREEN_WIDE
  <2> DEFINE h == SCREEN_HIGH * SCREEN_WIDE
  <2>1. (p.top + SCREEN_HIGH) * SCREEN_WIDE = a + h /\ h \in Int
    BY <1>4, Sizes, Lines
  <2>2. Cells = 0 .. h - 1
    <3>1. SCREEN_WIDE * SCREEN_HIGH = h
      BY Sizes
    <3>. QED  BY <3>1 DEF Cells
  <2> HIDE DEF a, h, k
  <2>3. a + k < a + h
    BY <1>5, <2>1, <2>2
  <2>. QED  BY <1>6, <2>1, <2>3
<1> HIDE DEF a, k
<1>8. ASSUME NEW n \in Cells
      PROVE  t.cell[n] = IF a + n \in DOMAIN q.ink THEN q.ink[a + n] ELSE Blank
  <2>1. CASE n = k
    <3>1. t.cell[n] = c
      BY <1>2, <1>5, <2>1 DEF OnScreen
    <3>2. a + n = p.pen
      BY <1>6, <2>1
    <3>. QED  BY <1>3, <3>1, <3>2
  <2>2. CASE n # k
    <3>1. t.cell[n] = s.cell[n]
      BY <1>2, <1>5, <2>2 DEF OnScreen
    <3>2. a + n # p.pen
      BY <1>5, <1>6, <2>2
    <3>3. s.cell[n] = IF a + n \in DOMAIN p.ink THEN p.ink[a + n] ELSE Blank
      BY DEF Agree, a
    <3>. QED  BY <1>3, <3>1, <3>2, <3>3
  <2>. QED  BY <2>1, <2>2
<1>9. DOMAIN q.ink \subseteq Int
  BY <1>3, <1>4 DEF Agree
<1>10. \A n \in DOMAIN q.ink : n < (q.top + SCREEN_HIGH) * SCREEN_WIDE
  BY <1>3, <1>7 DEF Agree
<1>11. q.pen = (q.top + t.y) * SCREEN_WIDE + t.x
  BY <1>2, <1>3 DEF Agree
<1>12. Agree(t, q)
  BY <1>3, <1>4, <1>8, <1>9, <1>10, <1>11 DEF Agree, a
<1>. QED  BY <1>1, <1>2, <1>3, <1>12

LEMMA SymbolMovesOn ==
  ASSUME NEW s, NEW p, OnScreen(s), Roll(p), p.lost = FALSE, Agree(s, p), NEW c \in Symbols
  PROVE  Shows(move_next_cursor_postion(print_symbol(s, c)), P!MoveTo(Inked(p, c), p.pen + 1))
<1> DEFINE r == print_symbol(s, c)
           i == Inked(p, c)
           wraps == r.x + 1 >= SCREEN_WIDE
           t == IF wraps /\ r.y + 1 = SCREEN_HIGH THEN scroll_up(r) ELSE r
           u == set_cursor_position(t, t.x + 1, IF wraps THEN t.y + 1 ELSE t.y)
           q == P!MoveTo(i, p.pen + 1)
<1>1. u = move_next_cursor_postion(r)
  BY DEF move_next_cursor_postion
<1>2. OnScreen(r) /\ Agree(r, i) /\ Roll(i) /\ i.pen = p.pen /\ i.lost = FALSE
  BY SymbolShows
<1>3. /\ r.x \in 0 .. SCREEN_WIDE - 1 /\ r.y \in 0 .. SCREEN_HIGH - 1
      /\ i.top \in Nat /\ i.top + r.y \in Int /\ i.pen \in Int
  <2> HIDE DEF r, i
  <2>. QED  BY <1>2, PenLine
<1>4. i.pen = (i.top + r.y) * SCREEN_WIDE + r.x
  BY <1>2 DEF Agree
<1> HIDE DEF r, i
<1>5. CASE r.x + 1 >= SCREEN_WIDE
  <2>1. r.x + 1 = SCREEN_WIDE /\ r.x + 1 \in Int
    BY <1>3, <1>5, Sizes
  <2>2. t = (IF r.y + 1 = SCREEN_HIGH THEN scroll_up(r) ELSE r) /\ t.x = r.x
    <3>1. scroll_up(r).x = r.x
      BY <1>2, Scrolled
    <3>. QED  BY <1>5, <3>1
  <2>3. u = set_cursor_position(t, r.x + 1, t.y + 1)
    BY <1>5, <2>2
  <2>4. ((r.x + 1) % 256) % SCREEN_WIDE = 0
    BY <2>1, Fits
  <2>5. p.pen + 1 = (i.top + r.y + 1) * SCREEN_WIDE
    <3> DEFINE a == (i.top + r.y) * SCREEN_WIDE
    <3>1. ((i.top + r.y) + 1) * SCREEN_WIDE = a + 1 * SCREEN_WIDE /\ a \in Int
      BY <1>3, Lines
    <3>2. 1 * SCREEN_WIDE = SCREEN_WIDE
      BY Sizes
    <3> HIDE DEF a
    <3>3. p.pen = a + r.x
      BY <1>2, <1>4 DEF a
    <3>4. p.pen + 1 = a + SCREEN_WIDE
      BY <1>3, <2>1, <3>1, <3>3
    <3>. QED  BY <3>1, <3>2, <3>4
  <2>6. q = P!MoveTo(i, (i.top + r.y + 1) * SCREEN_WIDE)
    BY <2>5
  <2> HIDE DEF t, u, q
  <2>7. Shows(u, q)
    BY <1>2, <2>1, <2>2, <2>3, <2>4, <2>6, NextLine
  <2>. QED  BY <1>1, <2>7 DEF q, r, i
<1>6. CASE ~(r.x + 1 >= SCREEN_WIDE)
  <2>1. r.x + 1 \in 0 .. SCREEN_WIDE - 1 /\ r.x + 1 \in Int /\ r.y \in Int
    BY <1>3, <1>6, Sizes
  <2>2. u = set_cursor_position(r, r.x + 1, r.y)
    BY <1>6
  <2> HIDE DEF t, u
  <2>3. OnScreen(u) /\ u.cell = r.cell /\ u.x = r.x + 1 /\ u.y = r.y
    BY <1>2, <1>3, <2>1, <2>2, Cursor, Fits
  <2> DEFINE pen == p.pen + 1
  <2>4. pen = (i.top + r.y) * SCREEN_WIDE + (r.x + 1)
    <3> DEFINE a == (i.top + r.y) * SCREEN_WIDE
    <3>1. a \in Int
      BY <1>3, Lines
    <3> HIDE DEF a
    <3>2. p.pen = a + r.x
      BY <1>2, <1>4 DEF a
    <3>3. p.pen + 1 = a + (r.x + 1)
      BY <1>3, <3>1, <3>2
    <3>. QED  BY <3>3 DEF a
  <2>5. q = P!MoveTo(i, pen)
    OBVIOUS
  <2> HIDE DEF pen, q
  <2>6. pen \in Int /\ pen \div SCREEN_WIDE = i.top + r.y
    BY <1>3, <2>1, <2>4, LineOf
  <2>7. i.lost \in BOOLEAN
    BY <1>2
  <2>8. /\ Roll(q) /\ q.lost \in BOOLEAN /\ q.ink = i.ink /\ q.pen = pen
        /\ q.lost = (i.lost \/ pen \div SCREEN_WIDE < i.top)
        /\ q.top = IF pen \div SCREEN_WIDE - i.top >= SCREEN_HIGH
                   THEN pen \div SCREEN_WIDE - SCREEN_HIGH + 1 ELSE i.top
    BY <1>2, <2>5, <2>7, Moved
  <2>9. ~((i.top + r.y) - i.top >= SCREEN_HIGH)
    BY <1>3, Sizes
  <2>10. q.top = i.top
    BY <2>6, <2>8, <2>9
  <2>11. Agree(u, q)
    BY <1>2, <2>3, <2>4, <2>6, <2>8, <2>10 DEF Agree
  <2>12. Shows(u, q)
    BY <2>3, <2>8, <2>11 DEF Shows
  <2>. QED  BY <1>1, <2>12 DEF q, r, i
<1>. QED  BY <1>5, <1>6

(* One symbol more: whatever is printed, the screen goes on showing it.    *)
LEMMA PutShows ==
  ASSUME NEW s, NEW p, Shows(s, p), NEW c \in Symbols
  PROVE  Shows(putchar(s, c), P!Write(p, c))
<1> DEFINE t == putchar(s, c)
           q == P!Write(p, c)
<1>1. OnScreen(s) /\ Roll(p) /\ p.lost \in BOOLEAN /\ (~p.lost => Agree(s, p))
  BY DEF Shows
<1>2. OnScreen(t) /\ Roll(q) /\ q.lost \in BOOLEAN /\ (p.lost => q.lost)
  BY <1>1, StaysOnScreen, StaysLost
<1>3. CASE p.lost
  BY <1>2, <1>3 DEF Shows
<1>4. CASE ~p.lost
  <2>1. p.lost = FALSE /\ Agree(s, p)
    BY <1>1, <1>4
  <2>2. CASE c = "newline"
    <3>1. t = new_line(s) /\ q = P!MoveTo(p, (p.pen \div SCREEN_WIDE + 1) * SCREEN_WIDE)
      BY <2>2 DEF putchar, P!Write
    <3>. QED  BY <1>1, <2>1, <3>1, NewLineShows
  <2>3. CASE c = "return"
    <3>1. t = move_back_cursor_postion(s) /\ q = P!MoveTo(p, p.pen - 1)
      BY <2>3 DEF putchar, P!Write
    <3>. QED  BY <1>1, <2>1, <3>1, BackShows
  <2>4. CASE c # "newline" /\ c # "return"
    <3>1. t = move_next_cursor_postion(print_symbol(s, c)) /\ q = P!MoveTo(Inked(p, c), p.pen + 1)
      BY <2>4 DEF putchar, P!Write, Inked
    <3>. QED  BY <1>1, <2>1, <3>1, SymbolMovesOn
  <2>. QED  BY <2>2, <2>3, <2>4
<1>. QED  BY <1>3, <1>4

(* A text more, whatever symbols it is made of.                            *)
LEMMA TextShows ==
  ASSUME NEW s, NEW p, Shows(s, p), NEW text \in Seq(Symbols)
  PROVE  Shows(printf(s, text), P!WriteAll(p, text))
<1> DEFINE n == Len(text)
<1>1. n \in Nat /\ \A k \in 0 .. n - 1 : text[k + 1] \in Symbols
  OBVIOUS
<1>2. 1 .. 0 = {}
  OBVIOUS
<1> HIDE DEF n
<1>3. PICK f : /\ f[{}] = s /\ f[1 .. n] = printf(s, text)
               /\ \A k \in 0 .. n - 1 : f[1 .. k + 1] = putchar(f[1 .. k], text[k + 1])
  <2>1. \E f : /\ f[{}] = s /\ f[1 .. Len(text)] = printf(s, text)
               /\ \A k \in 0 .. Len(text) - 1 : f[1 .. k + 1] = putchar(f[1 .. k], text[k + 1])
    BY ONLY text \in Seq(Symbols), Printed
  <2>. QED  BY <2>1 DEF n
<1>4. CASE p.lost
  <2> DEFINE U == {k \in Nat : k <= n => Shows(f[1 .. k], p)}
  <2>1. 0 \in U
    BY <1>2, <1>3
  <2>2. ASSUME NEW k \in Nat, k \in U PROVE k + 1 \in U
    <3>1. CASE k + 1 <= n
      <4>1. k \in 0 .. n - 1 /\ k <= n
        BY <1>1, <3>1
      <4>2. Shows(f[1 .. k], p)
        BY <2>2, <4>1
      <4>3. OnScreen(putchar(f[1 .. k], text[k + 1]))
        BY <1>1, <4>1, <4>2, StaysOnScreen DEF Shows
      <4>4. Shows(f[1 .. k + 1], p)
        BY <1>3, <1>4, <4>1, <4>2, <4>3 DEF Shows
      <4>. QED  BY <4>4
    <3>2. CASE ~(k + 1 <= n)
      BY <3>2
    <3>. QED  BY <3>1, <3>2
  <2>3. Nat \subseteq U
    <3> HIDE DEF U
    <3>. QED  BY <2>1, <2>2, Induction
  <2>4. Shows(f[1 .. n], p)
    BY <1>1, <2>3
  <2>5. P!WriteAll(p, text) = p
    BY <1>4 DEF P!WriteAll
  <2>. QED  BY <1>3, <2>4, <2>5
<1>5. CASE ~p.lost
  <2>1. PICK g : /\ g[{}] = p /\ g[1 .. n] = P!WriteAll(p, text)
                 /\ \A k \in 0 .. n - 1 : g[1 .. k + 1] = P!Write(g[1 .. k], text[k + 1])
    <3>1. \E g : /\ g[{}] = p /\ g[1 .. Len(text)] = P!WriteAll(p, text)
                 /\ \A k \in 0 .. Len(text) - 1 : g[1 .. k + 1] = P!Write(g[1 .. k], text[k + 1])
      BY ONLY text \in Seq(Symbols), ~p.lost, <1>5, Written
    <3>. QED  BY <3>1 DEF n
  <2> DEFINE U == {k \in Nat : k <= n => Shows(f[1 .. k], g[1 .. k])}
  <2>2. 0 \in U
    BY <1>2, <1>3, <2>1
  <2>3. ASSUME NEW k \in Nat, k \in U PROVE k + 1 \in U
    <3>1. CASE k + 1 <= n
      <4>1. k \in 0 .. n - 1 /\ k <= n
        BY <1>1, <3>1
      <4>2. Shows(f[1 .. k], g[1 .. k])
        BY <2>3, <4>1
      <4>3. Shows(putchar(f[1 .. k], text[k + 1]), P!Write(g[1 .. k], text[k + 1]))
        BY <1>1, <4>1, <4>2, PutShows
      <4>4. Shows(f[1 .. k + 1], g[1 .. k + 1])
        BY <1>3, <2>1, <4>1, <4>3
      <4>. QED  BY <4>4
    <3>2. CASE ~(k + 1 <= n)
      BY <3>2
    <3>. QED  BY <3>1, <3>2
  <2>4. Nat \subseteq U
    <3> HIDE DEF U
    <3>. QED  BY <2>2, <2>3, Induction
  <2>5. Shows(f[1 .. n], g[1 .. n])
    BY <1>1, <2>4
  <2>. QED  BY <1>3, <2>1, <2>5
<1>. QED  BY <1>4, <1>5

-----------------------------------------------------------------------------
LEMMA OnePrinted == ASSUME NEW s, NEW c \in Symbols PROVE printf(s, <<c>>) = putchar(s, c)
<1>1. <<c>> \in Seq(Symbols) /\ Len(<<c>>) = 1 /\ <<c>>[1] = c
  OBVIOUS
<1>2. PICK f : /\ f[{}] = s /\ f[1 .. 1] = printf(s, <<c>>)
               /\ \A k \in 0 .. 1 - 1 : f[1 .. k + 1] = putchar(f[1 .. k], <<c>>[k + 1])
  <2> DEFINE t == <<c>>
  <2>0. t \in Seq(Symbols)
    BY <1>1
  <2>1. Len(t) = 1
    BY <1>1
  <2> HIDE DEF t
  <2>2. \E f : /\ f[{}] = s /\ f[1 .. 1] = printf(s, t)
               /\ \A k \in 0 .. 1 - 1 : f[1 .. k + 1] = putchar(f[1 .. k], t[k + 1])
    <3>1. \E f : /\ f[{}] = s /\ f[1 .. Len(t)] = printf(s, t)
                 /\ \A k \in 0 .. Len(t) - 1 : f[1 .. k + 1] = putchar(f[1 .. k], t[k + 1])
      BY <2>0, Printed
    <3>. QED  BY <2>1, <3>1
  <2>. QED  BY <2>2 DEF t
<1>3. 0 \in 0 .. 1 - 1 /\ 1 .. 0 = {} /\ 0 + 1 = 1
  OBVIOUS
<1>4. f[1 .. 0 + 1] = putchar(f[1 .. 0], <<c>>[0 + 1])
  BY <1>2, <1>3
<1>5. f[1 .. 1] = putchar(f[{}], <<c>>[1])
  BY <1>3, <1>4
<1>. QED  BY <1>1, <1>2, <1>5

(* A symbol and then a text is the text with the symbol before it.         *)
LEMMA PrintedAfter ==
  ASSUME NEW s, NEW c \in Symbols, NEW text \in Seq(Symbols)
  PROVE  printf(putchar(s, c), text) = printf(s, <<c>> \o text)
<1> DEFINE n == Len(text)
           long == <<c>> \o text
<1>1. /\ n \in Nat /\ long \in Seq(Symbols) /\ Len(long) = n + 1 /\ long[1] = c
      /\ \A k \in 1 .. n : long[k + 1] = text[k]
  OBVIOUS
<1> HIDE DEF n, long
<1>2. PICK f : /\ f[{}] = putchar(s, c) /\ f[1 .. n] = printf(putchar(s, c), text)
               /\ \A k \in 0 .. n - 1 : f[1 .. k + 1] = putchar(f[1 .. k], text[k + 1])
  <2>1. \E f : /\ f[{}] = putchar(s, c) /\ f[1 .. Len(text)] = printf(putchar(s, c), text)
               /\ \A k \in 0 .. Len(text) - 1 : f[1 .. k + 1] = putchar(f[1 .. k], text[k + 1])
    BY ONLY text \in Seq(Symbols), Printed
  <2>. QED  BY <2>1 DEF n
<1>3. PICK g : /\ g[{}] = s /\ g[1 .. n + 1] = printf(s, long)
               /\ \A k \in 0 .. (n + 1) - 1 : g[1 .. k + 1] = putchar(g[1 .. k], long[k + 1])
  <2>1. \E g : /\ g[{}] = s /\ g[1 .. Len(long)] = printf(s, long)
               /\ \A k \in 0 .. Len(long) - 1 : g[1 .. k + 1] = putchar(g[1 .. k], long[k + 1])
    <3>1. long \in Seq(Symbols)
      BY <1>1
    <3>. QED  BY <3>1, Printed
  <2>. QED  BY <1>1, <2>1
<1>4. 1 .. 0 = {} /\ 0 + 1 = 1 /\ (n + 1) - 1 = n /\ 0 \in 0 .. n
  BY <1>1
<1>5. g[1 .. 0 + 1] = putchar(g[1 .. 0], long[0 + 1])
  BY <1>3, <1>4
<1>6. g[1 .. 1] = putchar(s, c)
  BY <1>1, <1>3, <1>4, <1>5
<1> DEFINE U == {k \in Nat : k <= n => f[1 .. k] = g[1 .. k + 1]}
<1>7. 0 \in U
  BY <1>2, <1>4, <1>6
<1>8. ASSUME NEW k \in Nat, k \in U PROVE k + 1 \in U
  <2>1. ASSUME k + 1 <= n PROVE f[1 .. k + 1] = g[1 .. (k + 1) + 1]
    <3>1. k \in 0 .. n - 1 /\ k <= n /\ k + 1 \in 0 .. (n + 1) - 1 /\ k + 1 \in 1 .. n
      BY <1>1, <2>1
    <3>2. f[1 .. k] = g[1 .. k + 1]
      BY <1>8, <3>1
    <3>3. f[1 .. k + 1] = putchar(f[1 .. k], text[k + 1])
      BY <1>2, <3>1
    <3>4. g[1 .. (k + 1) + 1] = putchar(g[1 .. k + 1], long[(k + 1) + 1])
      BY <1>3, <3>1
    <3>5. long[(k + 1) + 1] = text[k + 1]
      BY <1>1, <3>1
    <3>. QED  BY <3>2, <3>3, <3>4, <3>5
  <2>. QED  BY <2>1
<1>9. Nat \subseteq U
  <2> HIDE DEF U
  <2>. QED  BY <1>7, <1>8, Induction
<1>10. f[1 .. n] = g[1 .. n + 1]
  BY <1>1, <1>9
<1>. QED  BY <1>2, <1>3, <1>10 DEF long

LEMMA FreshShows == Shows(clear_screen, P!Fresh)
<1> DEFINE s == clear_screen
           p == P!Fresh
<1>1. /\ s \in [cell : [Cells -> Symbols], x : 0 .. SCREEN_WIDE - 1, y : 0 .. SCREEN_HIGH - 1]
      /\ s.x = 0 /\ s.y = 0 /\ \A n \in Cells : s.cell[n] = Blank
  <2>1. Blank \in Symbols
    BY DEF Symbols
  <2>2. 0 \in 0 .. SCREEN_WIDE - 1 /\ 0 \in 0 .. SCREEN_HIGH - 1
    BY Sizes
  <2>. QED  BY <2>1, <2>2 DEF clear_screen
<1>2. Roll(p) /\ p.lost = FALSE /\ p.pen = 0 /\ p.top = 0 /\ DOMAIN p.ink = {}
  BY DEF P!Fresh, Roll
<1> HIDE DEF s, p
<1>3. (0 + 0) * SCREEN_WIDE + 0 = 0
  BY Sizes
<1>4. Agree(s, p)
  BY <1>1, <1>2, <1>3 DEF Agree
<1>. QED  BY <1>1, <1>2, <1>4 DEF Shows, OnScreen, s, p

-----------------------------------------------------------------------------
LEMMA Texty ==
  /\ Keys \subseteq Symbols /\ Nul \in Symbols /\ "newline" \in Symbols
  /\ Prompt \in Seq(Symbols) /\ HelpText \in Seq(Symbols) /\ Quote \in Seq(Symbols)
  /\ Residue \subseteq Seq(Symbols)
<1>1. "newline" \in Keys /\ Texts \subseteq Seq(Symbols)
  BY TerminalAssumption
<1>2. Keys \subseteq Symbols /\ Nul \in Symbols
  BY DEF Symbols
<1>3. Prompt \in Texts /\ HelpText \in Texts /\ Quote \in Texts /\ Residue \subseteq Texts
  BY DEF Texts
<1>. QED  BY <1>1, <1>2, <1>3

LEMMA BufferSize == CMD_BUF_SIZE \in Nat
BY Sizes DEF CMD_BUF_SIZE

(* What is read as the command is made of symbols, and so is the answer.   *)
LEMMA CommandIsText ==
  ASSUME cmd_buf \in [1 .. CMD_BUF_SIZE -> Symbols], NEW rest \in Residue
  PROVE  CString(rest) \in Seq(Symbols)
<1> DEFINE U == {i \in 1 .. Len(cmd_buf) : cmd_buf[i] = Nul}
           n == SelectInSeq(cmd_buf, LAMBDA c : c = Nul)
<1>1. cmd_buf \in Seq(Symbols) /\ Len(cmd_buf) = CMD_BUF_SIZE /\ Len(cmd_buf) \in Nat
  BY BufferSize
<1>2. CASE n = 0
  <2>1. CString(rest) = cmd_buf \o rest /\ rest \in Seq(Symbols)
    BY <1>2, Texty DEF CString
  <2>. QED  BY <1>1, <2>1
<1>3. CASE n # 0
  <2>1. n = Min(U) /\ U # {}
    BY <1>3 DEF SelectInSeq
  <2>2. n \in 1 .. Len(cmd_buf)
    <3>1. \E m \in U : \A i \in U : m <= i
      <4>1. U \subseteq Nat
        OBVIOUS
      <4> HIDE DEF U
      <4>. QED  BY <2>1, <4>1, Least
    <3>2. Min(U) \in U
      BY <3>1 DEF Min
    <3>. QED  BY <2>1, <3>2
  <2>3. CString(rest) = SubSeq(cmd_buf, 1, n - 1)
    BY <1>3 DEF CString
  <2> HIDE DEF n
  <2>4. n - 1 \in 0 .. Len(cmd_buf)
    BY <1>1, <2>2
  <2>5. SubSeq(cmd_buf, 1, n - 1) \in Seq(Symbols)
    <3>1. n - 1 \in Int /\ \A i \in 1 .. n - 1 : cmd_buf[i] \in Symbols
      <4> DEFINE m == CMD_BUF_SIZE
      <4>1. \A i \in 1 .. m : cmd_buf[i] \in Symbols
        OBVIOUS
      <4>2. m \in Nat /\ n - 1 \in 0 .. m
        BY <1>1, <2>4
      <4> HIDE DEF m
      <4>3. n - 1 \in Int /\ \A i \in 1 .. n - 1 : i \in 1 .. m
        BY <4>2
      <4>. QED  BY <4>1, <4>3
    <3>. QED  BY <3>1, SubSeqProperties
  <2>. QED  BY <2>3, <2>5
<1>. QED  BY <1>2, <1>3

LEMMA AnswerIsText ==
  ASSUME NEW cmd \in Seq(Symbols)
  PROVE  /\ Output(cmd) \o <<"newline">> \o Prompt \in Seq(Symbols)
         /\ <<"newline">> \o (Output(cmd) \o <<"newline">> \o Prompt) \in Seq(Symbols)
<1>1. Output(cmd) \in Seq(Symbols)
  BY Texty DEF Output
<1>2. <<"newline">> \in Seq(Symbols) /\ Prompt \in Seq(Symbols)
  BY Texty
<1> HIDE DEF Output
<1>3. Output(cmd) \o <<"newline">> \o Prompt \in Seq(Symbols)
  BY <1>1, <1>2
<1>. QED  BY <1>2, <1>3

-----------------------------------------------------------------------------
(* The inductive invariant.                                                *)
Buffered ==
  /\ cmd_buf \in [1 .. CMD_BUF_SIZE -> Symbols]
  /\ cur_cmd_buf_pos = IF Len(line) < CMD_BUF_SIZE THEN Len(line) ELSE CMD_BUF_SIZE
  /\ \A n \in 1 .. CMD_BUF_SIZE : cmd_buf[n] = IF n <= Len(line) THEN line[n] ELSE Nul

IInv ==
  /\ Shows(screen, paper)
  /\ started \in BOOLEAN /\ keys \in 0 .. MaxKeys
  /\ line \in Seq(Symbols)
  /\ IF started THEN Buffered ELSE line = <<>> /\ cur_cmd_buf_pos = 0

LEMMA EchoHolds ==
  ASSUME IInv, started, NEW c \in Keys, EchoKey(c)
  PROVE  Shows(screen, paper)' /\ Buffered' /\ (line \in Seq(Symbols))'
<1>1. c \in Symbols /\ Shows(screen, paper) /\ Buffered /\ line \in Seq(Symbols)
  BY Texty DEF IInv
<1>2. Shows(screen, paper)'
  <2>1. screen' = printf(screen, <<c>>) /\ paper' = P!WriteAll(paper, <<c>>)
    BY <1>1, OnePrinted DEF EchoKey
  <2>2. <<c>> \in Seq(Symbols)
    BY <1>1
  <2>3. Shows(printf(screen, <<c>>), P!WriteAll(paper, <<c>>))
    BY <1>1, <2>2, TextShows
  <2>. QED  BY <2>1, <2>3
<1> DEFINE n == Len(line)
           m == CMD_BUF_SIZE
<1>3. n \in Nat /\ m \in Nat
  BY <1>1, BufferSize
<1>4. CASE ~IsText(c)
  <2>1. line' = line /\ cmd_buf' = cmd_buf /\ cur_cmd_buf_pos' = cur_cmd_buf_pos
    BY <1>4 DEF EchoKey, add_char_to_buf
  <2>. QED  BY <1>1, <1>2, <2>1 DEF Buffered
<1>5. CASE IsText(c) /\ n < m
  <2>1. /\ line' = Append(line, c) /\ cmd_buf' = [cmd_buf EXCEPT ![n + 1] = c]
        /\ cur_cmd_buf_pos' = n + 1
    <3>1. cur_cmd_buf_pos = n
      BY <1>1, <1>5 DEF Buffered
    <3>. QED  BY <1>5, <3>1 DEF EchoKey, add_char_to_buf
  <2>2. /\ line' \in Seq(Symbols) /\ Len(line') = n + 1 /\ line'[n + 1] = c
        /\ \A i \in 1 .. n : line'[i] = line[i]
    BY <1>1, <2>1
  <2>3. \A i \in 1 .. m : cmd_buf[i] = IF i <= n THEN line[i] ELSE Nul
    BY <1>1 DEF Buffered
  <2>4. cmd_buf' \in [1 .. m -> Symbols] /\ cmd_buf'[n + 1] = c
        /\ \A i \in 1 .. m : i # n + 1 => cmd_buf'[i] = cmd_buf[i]
    <3>1. n + 1 \in 1 .. m
      BY <1>3, <1>5
    <3>. QED  BY <1>1, <2>1, <3>1 DEF Buffered
  <2>5. cur_cmd_buf_pos' = IF Len(line') < m THEN Len(line') ELSE m
    BY <1>3, <1>5, <2>1, <2>2
  <2>6. ASSUME NEW i \in 1 .. m PROVE cmd_buf'[i] = IF i <= Len(line') THEN line'[i] ELSE Nul
    <3> HIDE DEF n, m
    <3>1. CASE i = n + 1
      BY <1>3, <2>2, <2>4, <3>1
    <3>2. CASE i # n + 1
      <4>1. cmd_buf'[i] = IF i <= n THEN line[i] ELSE Nul
        BY <2>3, <2>4, <3>2
      <4>2. i <= n + 1 <=> i <= n
        BY <1>3, <3>2
      <4>3. i <= n => line'[i] = line[i]
        BY <1>3, <2>2
      <4>. QED  BY <2>2, <4>1, <4>2, <4>3
    <3>. QED  BY <3>1, <3>2
  <2>. QED  BY <1>2, <2>2, <2>4, <2>5, <2>6 DEF Buffered
<1>6. CASE IsText(c) /\ ~(n < m)
  <2>1. cur_cmd_buf_pos = m
    BY <1>1, <1>6 DEF Buffered
  <2>2. line' = Append(line, c) /\ cmd_buf' = cmd_buf /\ cur_cmd_buf_pos' = m
    BY <1>3, <1>6, <2>1 DEF EchoKey, add_char_to_buf
  <2>3. line' \in Seq(Symbols) /\ Len(line') = n + 1 /\ \A i \in 1 .. n : line'[i] = line[i]
    BY <1>1, <2>2
  <2>4. \A i \in 1 .. m : i \in 1 .. n /\ i <= n /\ i <= n + 1
    BY <1>3, <1>6
  <2>5. \A i \in 1 .. m : cmd_buf[i] = IF i <= n THEN line[i] ELSE Nul
    BY <1>1 DEF Buffered
  <2>6. \A i \in 1 .. m : cmd_buf'[i] = IF i <= Len(line') THEN line'[i] ELSE Nul
    BY <2>2, <2>3, <2>4, <2>5
  <2>7. cur_cmd_buf_pos' = IF Len(line') < m THEN Len(line') ELSE m
    BY <1>3, <1>6, <2>2, <2>3
  <2>8. cmd_buf' \in [1 .. m -> Symbols]
    BY <1>1, <2>2 DEF Buffered
  <2>. QED  BY <1>2, <2>3, <2>6, <2>7, <2>8 DEF Buffered
<1>. QED  BY <1>4, <1>5, <1>6

LEMMA EndHolds ==
  ASSUME IInv, started, EndLine
  PROVE  Shows(screen, paper)' /\ Buffered' /\ (line \in Seq(Symbols))'
<1>1. Shows(screen, paper) /\ Buffered /\ line \in Seq(Symbols)
  BY DEF IInv
<1>2. Shows(screen, paper)'
  <2>1. PICK rest \in Residue : run_cmd(rest)
    BY DEF EndLine
  <2> DEFINE cmd == CString(rest)
             text == Output(cmd) \o <<"newline">> \o Prompt
  <2>2. cmd \in Seq(Symbols)
    BY <1>1, CommandIsText DEF Buffered
  <2>3. /\ screen' = printf(IF cmd = ClearCmd THEN clear_screen
                            ELSE putchar(screen, "newline"), text)
        /\ paper' = IF cmd = ClearCmd THEN P!WriteAll(P!Fresh, text)
                    ELSE P!WriteAll(paper, <<"newline">> \o text)
    BY <2>1 DEF run_cmd
  <2> HIDE DEF cmd
  <2>4. text \in Seq(Symbols) /\ <<"newline">> \o text \in Seq(Symbols)
    BY <2>2, AnswerIsText
  <2> HIDE DEF text
  <2>5. CASE cmd = ClearCmd
    <3>1. screen' = printf(clear_screen, text) /\ paper' = P!WriteAll(P!Fresh, text)
      BY <2>3, <2>5
    <3>2. Shows(printf(clear_screen, text), P!WriteAll(P!Fresh, text))
      BY <2>4, FreshShows, TextShows
    <3>. QED  BY <3>1, <3>2
  <2>6. CASE cmd # ClearCmd
    <3> DEFINE long == <<"newline">> \o text
    <3>1. screen' = printf(screen, long)
      BY <2>3, <2>4, <2>6, PrintedAfter, Texty
    <3>2. paper' = P!WriteAll(paper, long) /\ long \in Seq(Symbols)
      BY <2>3, <2>4, <2>6
    <3> HIDE DEF long
    <3>3. Shows(printf(screen, long), P!WriteAll(paper, long))
      BY <1>1, <3>2, TextShows
    <3>. QED  BY <3>1, <3>2, <3>3
  <2>. QED  BY <2>5, <2>6
<1>3. line' = <<>> /\ cur_cmd_buf_pos' = 0
      /\ cmd_buf' = [n \in 1 .. CMD_BUF_SIZE |-> IF n <= cur_cmd_buf_pos THEN Nul ELSE cmd_buf[n]]
  BY DEF EndLine, clear_buf
<1>4. ASSUME NEW n \in 1 .. CMD_BUF_SIZE PROVE cmd_buf'[n] = Nul
  <2> DEFINE m == Len(line)
  <2>1. m \in Nat /\ CMD_BUF_SIZE \in Nat
    BY <1>1, BufferSize
  <2>2. /\ cur_cmd_buf_pos = IF m < CMD_BUF_SIZE THEN m ELSE CMD_BUF_SIZE
        /\ cmd_buf[n] = IF n <= m THEN line[n] ELSE Nul
    BY <1>1 DEF Buffered
  <2>3. cmd_buf'[n] = IF n <= cur_cmd_buf_pos THEN Nul ELSE cmd_buf[n]
    BY <1>3
  <2> HIDE DEF m
  <2>4. ~(n <= cur_cmd_buf_pos) => ~(n <= m)
    BY <2>1, <2>2
  <2>. QED  BY <2>2, <2>3, <2>4
<1>5. cmd_buf' \in [1 .. CMD_BUF_SIZE -> Symbols]
  <2>1. Nul \in Symbols
    BY Texty
  <2>. QED  BY <1>1, <1>3, <2>1 DEF Buffered
<1>6. Len(line') = 0 /\ line' \in Seq(Symbols)
  BY <1>3
<1>7. cur_cmd_buf_pos' = IF Len(line') < CMD_BUF_SIZE THEN Len(line') ELSE CMD_BUF_SIZE
  BY <1>3, <1>6, BufferSize
<1>8. \A n \in 1 .. CMD_BUF_SIZE : ~(n <= Len(line'))
  BY <1>6
<1>9. \A n \in 1 .. CMD_BUF_SIZE : cmd_buf'[n] = IF n <= Len(line') THEN line'[n] ELSE Nul
  BY <1>4, <1>8
<1>. QED  BY <1>2, <1>5, <1>6, <1>7, <1>9 DEF Buffered

LEMMA StartHolds ==
  ASSUME IInv, start_terminal
  PROVE  Shows(screen, paper)' /\ Buffered' /\ (line \in Seq(Symbols))'
<1>1. line' = <<>> /\ cur_cmd_buf_pos' = 0 /\ cmd_buf' = Zeros
  BY DEF IInv, start_terminal
<1>2. Shows(screen, paper)'
  <2>1. Shows(printf(screen, Prompt), P!WriteAll(paper, Prompt))
    BY TextShows, Texty DEF IInv
  <2>. QED  BY <2>1 DEF start_terminal
<1>3. Len(line') = 0 /\ line' \in Seq(Symbols)
  BY <1>1
<1>4. cmd_buf' \in [1 .. CMD_BUF_SIZE -> Symbols] /\ \A n \in 1 .. CMD_BUF_SIZE : cmd_buf'[n] = Nul
  BY <1>1, Texty DEF Zeros
<1>5. cur_cmd_buf_pos' = IF Len(line') < CMD_BUF_SIZE THEN Len(line') ELSE CMD_BUF_SIZE
  BY <1>1, <1>3, BufferSize
<1>6. \A n \in 1 .. CMD_BUF_SIZE : ~(n <= Len(line'))
  BY <1>3
<1>7. \A n \in 1 .. CMD_BUF_SIZE : cmd_buf'[n] = IF n <= Len(line') THEN line'[n] ELSE Nul
  BY <1>4, <1>6
<1>. QED  BY <1>2, <1>3, <1>4, <1>5, <1>7 DEF Buffered

(* The invariant of the terminal's loop.                                   *)
THEOREM Invariant == Spec => []IInv
<1>1. Init => IInv
  <2> SUFFICES ASSUME Init PROVE IInv
    OBVIOUS
  <2>1. screen = clear_screen /\ paper = P!Fresh /\ line = <<>> /\ cur_cmd_buf_pos = 0
        /\ started = FALSE /\ keys = 0
    BY DEF Init
  <2>2. line \in Seq(Symbols) /\ keys \in 0 .. MaxKeys /\ started \in BOOLEAN
    <3>1. <<>> \in Seq(Symbols)
      OBVIOUS
    <3>2. MaxKeys \in Nat /\ 0 \in 0 .. MaxKeys
      BY TerminalAssumption
    <3>. QED  BY <2>1, <3>1, <3>2
  <2>. QED  BY <2>1, <2>2, FreshShows DEF IInv
<1>2. IInv /\ [Next]_vars => IInv'
  <2> SUFFICES ASSUME IInv, [Next]_vars PROVE IInv'
    OBVIOUS
  <2>1. CASE start_terminal
    <3>1. started' = TRUE /\ keys' = keys
      BY <2>1 DEF start_terminal
    <3>. QED  BY <2>1, <3>1, StartHolds DEF IInv
  <2>2. ASSUME NEW c \in Keys, Loop(c) PROVE IInv'
    <3>1. started /\ started' = started /\ keys' \in 0 .. MaxKeys
      BY <2>2, TerminalAssumption DEF Loop, IInv
    <3>2. CASE EchoKey(c)
      BY <3>1, <3>2, EchoHolds DEF IInv
    <3>3. CASE c = "newline" /\ EndLine
      BY <3>1, <3>3, EndHolds DEF IInv
    <3>. QED  BY <2>2, <3>2, <3>3 DEF Loop
  <2>3. CASE UNCHANGED vars
    BY <2>3 DEF vars, IInv, Buffered
  <2>. QED  BY <2>1, <2>2, <2>3 DEF Next
<1>. QED  BY <1>1, <1>2, PTL DEF Spec

(* The screen shows what was printed, through scrolling, wrapping and      *)
(* backspaces, until a backspace leaves it at the top; the cursor never    *)
(* does.                                                                   *)
THEOREM ShowsPaper == Spec => []ScreenShowsPaper
<1>1. IInv => TypeOK
  <2> SUFFICES ASSUME IInv PROVE TypeOK
    OBVIOUS
  <2>1. OnScreen(screen) /\ started \in BOOLEAN /\ keys \in 0 .. MaxKeys
    BY DEF IInv, Shows
  <2>2. started => Len(cmd_buf) = CMD_BUF_SIZE
    BY BufferSize DEF IInv, Buffered
  <2>3. cur_cmd_buf_pos \in 0 .. CMD_BUF_SIZE
    <3>1. Len(line) \in Nat
      BY DEF IInv
    <3>. QED  BY <3>1, BufferSize DEF IInv, Buffered
  <2>. QED  BY <2>1, <2>2, <2>3 DEF TypeOK, OnScreen
<1>2. ASSUME IInv, ~paper.lost
      PROVE  /\ screen.cell = P!Window(paper)
             /\ screen.y * SCREEN_WIDE + screen.x = paper.pen - paper.top * SCREEN_WIDE
  <2>1. OnScreen(screen) /\ Agree(screen, paper)
    BY <1>2 DEF IInv, Shows
  <2>2. screen.cell = [n \in Cells |-> screen.cell[n]]
    BY <2>1 DEF OnScreen
  <2>3. \A n \in Cells : screen.cell[n] = IF paper.top * SCREEN_WIDE + n \in DOMAIN paper.ink
                                        THEN paper.ink[paper.top * SCREEN_WIDE + n] ELSE Blank
    BY <2>1 DEF Agree
  <2>4. screen.cell = P!Window(paper)
    BY <2>2, <2>3 DEF P!Window, Cells
  <2> DEFINE a == paper.top * SCREEN_WIDE
             b == screen.y * SCREEN_WIDE
  <2>5. (paper.top + screen.y) * SCREEN_WIDE = a + b /\ a \in Int /\ b \in Int
    <3>1. paper.top \in Int /\ screen.y \in Int
      BY <2>1, PenLine
    <3>. QED  BY <3>1, Lines
  <2>6. paper.pen = (paper.top + screen.y) * SCREEN_WIDE + screen.x /\ screen.x \in Int
    BY <2>1, PenLine, Sizes DEF Agree
  <2> HIDE DEF a, b
  <2>7. b + screen.x = paper.pen - a
    BY <2>5, <2>6
  <2>. QED  BY <2>4, <2>7 DEF a, b
<1>3. IInv => ScreenShowsPaper
  BY <1>1, <1>2 DEF ScreenShowsPaper
<1>. QED  BY <1>3, Invariant, PTL

(* The buffer holds the line that is typed, and nothing of an earlier one. *)
THEOREM HoldsLine == Spec => []BufferHoldsLine
<1>1. IInv => BufferHoldsLine
  BY DEF IInv, Buffered, BufferHoldsLine
<1>. QED  BY <1>1, Invariant, PTL
=============================================================================
