------------------------------ MODULE FlashProofs ------------------------------
(***************************************************************************)
(* Proofs about Flash, for every agent: any number of pages of any sizes,  *)
(* any buffer, any block, and for every address and length of a command.   *)
(*                                                                         *)
(* What a command has done is only known once the agent is back at its     *)
(* breakpoint with a result of 0 in r0; IInv follows one command from its  *)
(* call to there.  That needs the registers to be those of the call: IInv  *)
(* holds while no write has failed whose result is ignored (~astray), and  *)
(* every command begins anew, from nothing but the types (LInv).           *)
(***************************************************************************)
EXTENDS Flash, WellFoundedInduction, TLAPS

-----------------------------------------------------------------------------
(* The strengthening.                                                      *)

Calling == {"registers", "resume", "wait"}
Before == {"attach", "reset", "rom", "load"}
Places == {"idle", "header", "check", "data", "advance", "done"} \cup Before \cup Calling

TypeOK ==
    /\ part \in Agents /\ worn \subseteq Pages(part)
    /\ flash \in [Cells(part) -> Int] /\ before \in [Cells(part) -> Int]
    /\ ram \in [0 .. part.chunk - 1 -> Int]
    /\ regs \in [1 .. 3 -> Int]
    /\ pc \in {"elsewhere", "agent", "setup", "erase", "write"}
    /\ halted \in BOOLEAN /\ link \in BOOLEAN /\ astray \in BOOLEAN
    /\ agent \in Agents \cup {None} /\ (at # "idle" => agent # None)
    /\ cmd \in Ranges \cup {All, NoCommand} /\ (at # "idle" => cmd # NoCommand)
    /\ at \in Places /\ size \in Nat /\ addr \in Int /\ left \in Int
    /\ result \in {0, -1} /\ count \in Nat /\ faults \in Nat

\* A call is one of a function of the agent.
CallTyped ==
    at \in Calling =>
        /\ call.fn \in {"setup", "erase", "write"} /\ call.args \in [1 .. 3 -> Int]
        /\ call.next \in {"header", "done", "data", "advance"}

\* The core is back from a call that succeeded, of the agent that fits.
Back == agent = part /\ pc = "agent" /\ halted

Early == addr = cmd.addr /\ left = cmd.len

\* The range a command stands for, from the start of flash.
First == IF IsAll THEN 0 ELSE cmd.addr - part.base
Words == IF IsAll THEN Size(part) ELSE cmd.len

InFlash ==
    /\ cmd # NoCommand /\ agent = part
    /\ First \in Nat /\ Words \in Nat /\ First + Words <= Size(part)

\* erase has been called for all of it.
Ordered == InFlash /\ addr = part.base + First /\ left = Words

PageStart == \E p \in 1 .. Len(part.starts) : part.starts[p] = First
AllErased == \A i \in 0 .. Words - 1 : flash[First + i] = Erased

\* The first n words of the image are in flash.
InPlace(n) == \A i \in 0 .. n - 1 : flash[First + i] = Word(i)

\* Full buffers have been written, and the last one need not be full.
Progress ==
    /\ cmd.fn = "flash" /\ InFlash /\ PageStart
    /\ left \in 0 .. cmd.len /\ addr = part.base + First + Sent
    /\ (left = 0 \/ Sent % part.block = 0)
    /\ InPlace(Sent)

\* What a function has done when it returns 0.
Effect ==
    CASE call.fn = "setup" -> agent = part
      [] call.fn = "erase" -> PageStart /\ AllErased
      [] OTHER -> InPlace(Sent + Xfer)

Asked ==
    CASE call.fn = "setup" -> Early /\ call.args = <<0, 0, 0>> /\ call.next = "header"
      [] call.fn = "erase" ->
            /\ Ordered /\ call.args = <<addr, left, 0>>
            /\ call.next = IF cmd.fn = "erase" THEN "done" ELSE "data"
      [] OTHER ->
            /\ call.fn = "write" /\ Progress /\ left > 0
            /\ \A i \in 0 .. Xfer - 1 : ram[i] = Word(Sent + i)
            /\ call.args = <<addr, 0, Xfer>> /\ call.next = "advance"

Stage ==
    /\ at \in Before => Early
    /\ at \in {"rom", "load"} => pc = "elsewhere"
    /\ at \in Calling => Asked
    /\ at = "header" => Early /\ Back
    /\ at = "check" => Early /\ Back /\ size = Size(part)
    /\ at = "data" => Progress /\ Back
    /\ at = "advance" => Progress /\ Back /\ left > 0 /\ InPlace(Sent + Xfer)
    /\ at = "done" => cmd.fn = "erase" /\ InFlash /\ PageStart /\ AllErased

\* The core is either lost, or about to run the function with the arguments of
\* the call, or back.
Core ==
    /\ at = "registers" => pc = "elsewhere" \/ (pc = "agent" /\ halted)
    /\ at \in {"resume", "wait"} /\ pc # "elsewhere" =>
          IF pc = "agent" THEN at = "wait" /\ (regs[1] = 0 => Effect)
          ELSE pc = call.fn /\ regs = call.args

IInv == TypeOK /\ Stage /\ Core /\ ImageWritten /\ EraseRight /\ OthersKept

LInv == TypeOK /\ CallTyped /\ (~astray => IInv)

-----------------------------------------------------------------------------
(* Rounding up to blocks.                                                  *)

LEMMA Division == ASSUME NEW n \in Nat, NEW k \in Nat \ {0}
                  PROVE  /\ n \div k \in Nat /\ n % k \in 0 .. k - 1
                         /\ n = k * (n \div k) + (n % k)
  OBVIOUS

LEMMA Fewer == ASSUME NEW i \in Int, NEW j \in Int, NEW k \in Nat \ {0}, i < j
               PROVE  k * i + k <= k * j
  <1>1. k * (i + 1) <= k * j
    OBVIOUS
  <1>2. k * (i + 1) = k * i + k
    OBVIOUS
  <1> QED
    BY <1>1, <1>2

\* A multiple of k, told from what % says of it.
LEMMA Multiple == ASSUME NEW n \in Nat, NEW k \in Nat \ {0}, NEW j \in Int, n = k * j
                  PROVE  n % k = 0
  <1>1. n = k * (n \div k) + (n % k) /\ n \div k \in Nat /\ n % k \in 0 .. k - 1
    BY Division
  <1> DEFINE q == n \div k
             r == n % k
  <1>2. n = k * q + r /\ q \in Nat /\ r \in 0 .. k - 1
    BY <1>1
  <1> HIDE DEF q, r
  <1>3. q < j => k * q + k <= k * j
    BY <1>2, Fewer
  <1>4. j < q => k * j + k <= k * q
    BY <1>2, Fewer
  <1>5. k * q \in Int /\ k * j \in Int
    BY <1>2
  <1>6. q = j
    BY <1>2, <1>3, <1>4, <1>5
  <1>7. r = 0
    BY <1>2, <1>5, <1>6
  <1> QED
    BY <1>7 DEF r

LEMMA Multiples == ASSUME NEW m \in Nat, NEW n \in Nat, NEW k \in Nat \ {0},
                          m % k = 0, n % k = 0
                   PROVE  /\ (m + n) % k = 0
                          /\ n <= m => (m - n) % k = 0
  <1> PICK i \in Int, j \in Int : m = k * i /\ n = k * j
    <2>1. m = k * (m \div k) /\ n = k * (n \div k) /\ m \div k \in Int /\ n \div k \in Int
      BY Division
    <2> QED
      BY <2>1
  <1>1. m + n = k * (i + j) /\ m - n = k * (i - j) /\ i + j \in Int /\ i - j \in Int
    OBVIOUS
  <1>2. (m + n) % k = 0
    <2> DEFINE s == m + n
               t == i + j
    <2>1. s \in Nat /\ t \in Int /\ s = k * t
      BY <1>1
    <2> HIDE DEF s, t
    <2>2. s % k = 0
      BY <2>1, Multiple
    <2> QED
      BY <2>2 DEF s
  <1>3. ASSUME n <= m PROVE (m - n) % k = 0
    <2> DEFINE s == m - n
               t == i - j
    <2>1. s \in Nat /\ t \in Int /\ s = k * t
      BY <1>1, <1>3
    <2> HIDE DEF s, t
    <2>2. s % k = 0
      BY <2>1, Multiple
    <2> QED
      BY <2>2 DEF s
  <1> QED
    BY <1>2, <1>3

\* The least multiple of the block that has room for n words.
LEMMA RoundUpIs ==
  ASSUME NEW n \in Nat, NEW k \in Nat \ {0}
  PROVE  /\ RoundUp(n, k) \in Nat /\ RoundUp(n, k) >= n
         /\ \A d \in Nat : d % k = 0 /\ n <= d => RoundUp(n, k) <= d
  <1> DEFINE s == (n + k) - 1
             q == s \div k
             r == s % k
  <1>1. s \in Nat /\ q \in Nat /\ r \in 0 .. k - 1 /\ s = k * q + r
    <2>1. s \in Nat
      OBVIOUS
    <2> HIDE DEF s
    <2> QED
      BY <2>1, Division DEF q, r
  <1>2. RoundUp(n, k) = k * q
    <2>1. n + k - 1 = s
      OBVIOUS
    <2>2. RoundUp(n, k) = q * k
      BY <2>1 DEF RoundUp
    <2> HIDE DEF q
    <2> QED
      BY <1>1, <2>2
  <1>3. k * q \in Nat
    <2> HIDE DEF q
    <2> QED
      BY <1>1
  <1>4. k * q >= n
    <2>1. k * q + r = (n + k) - 1
      BY <1>1
    <2> HIDE DEF q, r
    <2> QED
      BY <1>1, <1>3, <2>1
  <1>5. ASSUME NEW d \in Nat, d % k = 0, n <= d PROVE k * q <= d
    <2>1. PICK j \in Nat : d = k * j
      <3>1. d \div k \in Nat /\ d = k * (d \div k)
        BY <1>5, Division
      <3> QED
        BY <3>1
    <2>2. k * q + r = (n + k) - 1
      BY <1>1
    <2> HIDE DEF q, r, s
    <2>3. j < q => k * j + k <= k * q
      BY <1>1, Fewer
    <2>4. q <= j => k * q <= k * j
      BY <1>1
    <2>5. k * j \in Nat
      OBVIOUS
    <2> QED
      BY <1>1, <1>3, <1>5, <2>1, <2>2, <2>3, <2>4, <2>5
  <1> QED
    BY <1>2, <1>3, <1>4, <1>5

-----------------------------------------------------------------------------
(* Pages.                                                                  *)

\* What is assumed of the agent that fits.
LEMMA Part ==
  ASSUME part \in Agents
  PROVE  /\ part.base \in Nat /\ part.starts \in Seq(Nat) /\ Len(part.starts) \in Nat \ {0}
         /\ part.chunk \in Nat \ {0} /\ part.block \in Nat \ {0} /\ part.aligned \in Nat \ {0}
         /\ part.pad \in Pads /\ part.empty \in Empties
         /\ part.chunk % part.block = 0
         /\ part.starts[1] = 0
         /\ \A p \in 1 .. Len(part.starts) : part.starts[p] \in Nat
         /\ \A p \in 1 .. Len(part.starts) : part.starts[p] % part.block = 0
         /\ \A p, q \in 1 .. Len(part.starts) : p < q => part.starts[p] < part.starts[q]
         /\ Size(part) \in Nat
  <1>1. part \in AgentRecord
    BY FlashAssumption
  <1>2. /\ part.base \in Nat /\ part.starts \in Seq(Nat)
        /\ part.chunk \in Nat \ {0} /\ part.block \in Nat \ {0} /\ part.aligned \in Nat \ {0}
        /\ part.pad \in Pads /\ part.empty \in Empties
    BY <1>1 DEF AgentRecord
  <1>3. part.starts # <<>>
    BY FlashAssumption
  <1>4. Len(part.starts) \in Nat \ {0}
    BY <1>2, <1>3
  <1>5. \A p \in 1 .. Len(part.starts) : part.starts[p] \in Nat
    BY <1>2
  <1> QED
    BY <1>2, <1>4, <1>5, FlashAssumption DEF Size

LEMMA PageIs ==
  ASSUME part \in Agents, NEW p \in Pages(part)
  PROVE  /\ p \in 1 .. Len(part.starts) /\ p + 1 \in 1 .. Len(part.starts)
         /\ part.starts[p] \in Nat /\ part.starts[p + 1] \in Nat
         /\ part.starts[p] < part.starts[p + 1]
  <1>1. Len(part.starts) \in Nat /\ p \in 1 .. Len(part.starts) - 1
    BY Part DEF Pages
  <1>2. p \in 1 .. Len(part.starts) /\ p + 1 \in 1 .. Len(part.starts) /\ p < p + 1
    BY <1>1
  <1> QED
    BY <1>2, Part

\* Every word of flash is in a page.
LEMMA Tiled ==
  ASSUME part \in Agents, NEW c \in Cells(part)
  PROVE  \E p \in Pages(part) : c \in PageCells(part, p)
  <1> DEFINE s == part.starts
             l == Len(s)
             T == {p \in 1 .. l : c < s[p]}
             R == {p \in Nat \X Nat : p[1] < p[2]}
  <1>1. /\ l \in Nat \ {0} /\ s[1] = 0 /\ \A p \in 1 .. l : s[p] \in Nat
        /\ c \in Nat /\ c < s[l]
    BY Part DEF Cells, Size
  <1>2. l \in T
    BY <1>1
  <1>3. \E m \in T : \A k \in T : ~ (<<k, m>> \in R)
    <2>1. T \subseteq Nat /\ T # {}
      BY <1>2, <1>1
    <2>2. IsWellFoundedOn(R, Nat)
      BY NatLessThanWellFounded DEF OpToRel
    <2> HIDE DEF T, R
    <2> QED
      BY <2>1, <2>2, WFMin
  <1>4. PICK m \in T : \A k \in T : ~ (k < m)
    <2>1. T \subseteq Nat
      BY <1>1
    <2>2. PICK m \in T : \A k \in T : ~ (<<k, m>> \in R)
      BY <1>3
    <2>3. \A k \in Nat : k < m => <<k, m>> \in R
      BY <2>1
    <2> HIDE DEF T, R
    <2> QED
      BY <2>1, <2>2, <2>3
  <1>5. m # 1
    BY <1>1, <1>4
  <1>6. m - 1 \in 1 .. l /\ m - 1 \notin T
    BY <1>1, <1>4, <1>5
  <1>7. s[m - 1] <= c /\ c < s[(m - 1) + 1] /\ m - 1 \in 1 .. l - 1
    BY <1>1, <1>4, <1>6
  <1>8. s[m - 1] \in Nat /\ s[(m - 1) + 1] \in Nat
    BY <1>1, <1>6, <1>4
  <1>9. m - 1 \in Pages(part) /\ c \in PageCells(part, m - 1)
    BY <1>1, <1>7, <1>8 DEF Pages, PageCells
  <1> QED
    BY <1>9

\* A page that has a word at or behind the start of another starts there too.
LEMMA Behind ==
  ASSUME part \in Agents, NEW p \in Pages(part), NEW q \in 1 .. Len(part.starts),
         NEW c \in PageCells(part, p), part.starts[q] <= c
  PROVE  part.starts[q] <= part.starts[p]
  <1>1. /\ \A i \in 1 .. Len(part.starts) : part.starts[i] \in Nat
        /\ \A i, j \in 1 .. Len(part.starts) : i < j => part.starts[i] < part.starts[j]
        /\ Len(part.starts) \in Nat
    BY Part
  <1>2. p \in 1 .. Len(part.starts) /\ p + 1 \in 1 .. Len(part.starts)
    BY <1>1 DEF Pages
  <1>3. c < part.starts[p + 1] /\ c \in Int
    BY <1>1, <1>2 DEF PageCells
  <1>4. ~ (p + 1 < q) /\ p + 1 # q
    BY <1>1, <1>2, <1>3
  <1>5. q = p \/ q < p
    BY <1>1, <1>2, <1>4
  <1>6. q < p => part.starts[q] < part.starts[p]
    BY <1>1, <1>2
  <1>7. part.starts[q] \in Nat /\ part.starts[p] \in Nat
    BY <1>1, <1>2
  <1> QED
    BY <1>5, <1>6, <1>7

-----------------------------------------------------------------------------
(* What the agent's functions promise.                                     *)

\* erase clears the pages it is asked for when it returns 0, from the start of
\* one of them, and never changes another.
LEMMA EraseIs ==
  ASSUME part \in Agents,
         NEW f \in [Cells(part) -> Int], NEW a \in Nat, NEW n \in Nat, a + n <= Size(part)
  PROVE  /\ EraseFlash(f, a, n).flash \in [Cells(part) -> Int]
         /\ EraseFlash(f, a, n).res \in {0, Failed}
         /\ EraseFlash(f, a, n).res = 0 =>
              /\ \E p \in 1 .. Len(part.starts) : part.starts[p] = a
              /\ \A i \in 0 .. n - 1 : EraseFlash(f, a, n).flash[a + i] = Erased
         /\ \A c \in Cells(part) :
              EraseFlash(f, a, n).flash[c] # f[c] =>
                \E p \in ToErase(a, n) : c \in PageCells(part, p)
  <1> DEFINE bad == ToErase(a, n) \cap worn
             ok == {p \in ToErase(a, n) : \A q \in bad : p < q}
             start == \E p \in Pages(part) \cup {Len(part.starts)} : part.starts[p] = a
             g == [c \in DOMAIN f |-> IF \E p \in ok : c \in PageCells(part, p)
                                      THEN Erased ELSE f[c]]
             e == IF ~start \/ (n = 0 /\ part.empty = "fails")
                  THEN [flash |-> f, res |-> Failed]
                  ELSE [flash |-> g, res |-> IF bad = {} THEN 0 ELSE Failed]
  <1>1. EraseFlash(f, a, n) = e
    BY DEF EraseFlash
  <1>2. g \in [Cells(part) -> Int]
    BY DEF Erased
  <1>3. e.flash \in {f, g} /\ e.res \in {0, Failed}
    <2> HIDE DEF g, bad, start
    <2> QED
      OBVIOUS
  <1>4. ASSUME NEW c \in Cells(part), e.flash[c] # f[c]
        PROVE  \E p \in ToErase(a, n) : c \in PageCells(part, p)
    <2>1. g[c] # f[c]
      <3> HIDE DEF g, e
      <3> QED
        BY <1>3, <1>4
    <2>2. g[c] = IF \E p \in ok : c \in PageCells(part, p) THEN Erased ELSE f[c]
      OBVIOUS
    <2> QED
      BY <2>1, <2>2
  <1>5. ASSUME e.res = 0
        PROVE  /\ \E p \in 1 .. Len(part.starts) : part.starts[p] = a
               /\ \A i \in 0 .. n - 1 : e.flash[a + i] = Erased
    <2>1. start /\ bad = {} /\ e.flash = g
      <3>1. Failed # 0
        BY DEF Failed
      <3> HIDE DEF g, bad, start
      <3> QED
        BY <3>1, <1>5
    <2>2. Len(part.starts) \in Nat \ {0} /\ Pages(part) \subseteq 1 .. Len(part.starts)
      BY Part DEF Pages
    <2>3. PICK q \in 1 .. Len(part.starts) : part.starts[q] = a
      BY <2>1, <2>2
    <2>4. ASSUME NEW i \in 0 .. n - 1 PROVE g[a + i] = Erased
      <3> DEFINE c == a + i
      <3>1. c \in Cells(part) /\ a <= c /\ c < a + n
        BY Part DEF Cells
      <3>2. PICK p \in Pages(part) : c \in PageCells(part, p)
        <4> HIDE DEF c
        <4> QED
          BY <3>1, Tiled
      <3>3. a <= part.starts[p]
        <4> HIDE DEF c
        <4> QED
          BY <2>3, <3>1, <3>2, Behind
      <3>4. part.starts[p] <= c /\ part.starts[p] \in Nat
        <4>1. \A j \in 1 .. Len(part.starts) : part.starts[j] \in Nat
          BY Part
        <4>2. p \in 1 .. Len(part.starts)
          BY <2>2
        <4>3. part.starts[p] \in Nat /\ c \in part.starts[p] .. part.starts[p + 1] - 1
          BY <3>2, <4>1, <4>2 DEF PageCells
        <4> HIDE DEF c
        <4> QED
          BY <4>3
      <3>5. p \in ToErase(a, n)
        <4> HIDE DEF c
        <4>1. c \in Int
          BY <3>1, Part DEF Cells
        <4> QED
          BY <3>1, <3>2, <3>3, <3>4, <4>1 DEF ToErase
      <3>6. p \in ok
        BY <2>1, <3>5
      <3> QED
        BY <3>1, <3>2, <3>6
    <2> QED
      BY <2>1, <2>3, <2>4
  <1> HIDE DEF e, g
  <1> QED
    BY <1>1, <1>2, <1>3, <1>4, <1>5

\* write writes what it is given when it returns 0, and changes nothing outside
\* of its blocks; the buffer stays a buffer.
Writes(f, a, buf, n) ==
    LET w == WriteFlash(f, a, buf, n) IN
      /\ w.flash \in [Cells(part) -> Int] /\ w.res \in {0, Failed}
      /\ w.res = 0 => \A i \in 0 .. n - 1 : w.flash[a + i] = buf[i]
      /\ \A c \in Cells(part) :
           w.flash[c] # f[c] => c \in a .. a + RoundUp(n, part.block) - 1
      /\ Source(buf, n) \in [0 .. part.chunk - 1 -> Int]

LEMMA WriteIs ==
  ASSUME part \in Agents,
         NEW f \in [Cells(part) -> Int], NEW buf \in [0 .. part.chunk - 1 -> Int],
         NEW a \in Nat, NEW n \in 0 .. part.chunk
  PROVE  Writes(f, a, buf, n)
  <1> DEFINE m == RoundUp(n, part.block)
             src == Source(buf, n)
             done == Programmed(f, a, src, m)
             e == IF a % part.aligned # 0 THEN [flash |-> f, res |-> Failed]
                  ELSE [flash |-> done,
                        res |-> IF \A i \in 0 .. m - 1 : done[a + i] = src[i] THEN 0 ELSE Failed]
  <1>1. WriteFlash(f, a, buf, n) = e
    BY DEF WriteFlash
  <1>2. m \in Nat /\ n <= m /\ m <= part.chunk
    <2>1. /\ n \in Nat /\ part.block \in Nat \ {0} /\ part.chunk \in Nat
          /\ part.chunk % part.block = 0 /\ n <= part.chunk
      BY Part
    <2> QED
      BY <2>1, RoundUpIs
  <1>3. src \in [0 .. part.chunk - 1 -> Int] /\ \A i \in 0 .. n - 1 : src[i] = buf[i]
    <2>1. part.chunk \in Nat
      BY Part
    <2> QED
      BY <2>1 DEF Source
  <1> HIDE DEF m, src
  <1>4. /\ done \in [Cells(part) -> Int]
        /\ \A c \in Cells(part) : done[c] # f[c] => c \in a .. a + m - 1
    <2>1. ASSUME NEW c \in Cells(part), c \in a .. a + m - 1 PROVE src[c - a] \in Int
      <3>1. c - a \in 0 .. part.chunk - 1
        BY <2>1, <1>2, Part DEF Cells
      <3> QED
        BY <3>1, <1>3
    <2> QED
      BY <2>1 DEF Programmed, Spoilt
  <1> HIDE DEF done
  <1>5. e.flash \in {f, done} /\ e.res \in {0, Failed}
    OBVIOUS
  <1>6. ASSUME e.res = 0 PROVE \A i \in 0 .. n - 1 : e.flash[a + i] = buf[i]
    <2>1. e.flash = done /\ \A i \in 0 .. m - 1 : done[a + i] = src[i]
      BY <1>6 DEF Failed
    <2>2. \A i \in 0 .. n - 1 : i \in 0 .. m - 1
      BY <1>2
    <2> QED
      BY <1>3, <2>1, <2>2
  <1>7. \A c \in Cells(part) : e.flash[c] # f[c] => c \in a .. a + m - 1
    <2> HIDE DEF e
    <2> QED
      BY <1>4, <1>5
  <1> HIDE DEF e
  <1> QED
    BY <1>1, <1>3, <1>4, <1>5, <1>6, <1>7 DEF m, src, Writes

-----------------------------------------------------------------------------
(* What a command covers.                                                  *)

\* What is said of cmd only.
LEMMA CmdIs ==
  ASSUME part \in Agents, cmd \in Ranges \cup {All, NoCommand}
  PROVE  /\ cmd.fn \in {"flash", "erase", "none"}
         /\ cmd.fn = "none" <=> cmd = NoCommand
         /\ cmd # All => cmd.addr \in Nat /\ cmd.len \in Nat
         /\ cmd = All => cmd.fn = "erase" /\ cmd.addr = 0 /\ cmd.len = -1
         /\ cmd.fn = "flash" => ~IsAll /\ First = cmd.addr - part.base /\ Words = cmd.len
         /\ cmd.addr \in Int /\ cmd.len \in Int
  <1>1. CASE cmd \in Ranges
    <2>1. PICK f \in {"flash", "erase"}, a \in Nat, n \in Nat :
             cmd = [fn |-> f, addr |-> a, len |-> n]
      <3>1. part.base \in Nat /\ Size(part) \in Nat
        BY Part
      <3> QED
        BY <1>1, <3>1 DEF Ranges
    <2>2. cmd # All /\ cmd # NoCommand
      BY <2>1 DEF All, NoCommand
    <2> QED
      BY <2>1, <2>2 DEF IsAll, First, Words
  <1>2. CASE cmd = All
    BY <1>2 DEF All, NoCommand, IsAll
  <1>3. CASE cmd = NoCommand
    BY <1>3 DEF All, NoCommand, IsAll
  <1> QED
    BY <1>1, <1>2, <1>3

LEMMA EraseCovers ==
  ASSUME part \in Agents, cmd \in Ranges \cup {All, NoCommand}, InFlash,
         NEW p \in ToErase(First, Words)
  PROVE  Covered(p)
  <1>1. CASE IsAll
    BY <1>1 DEF IsAll, Covered
  <1>2. CASE ~IsAll
    <2>1. First = cmd.addr - part.base /\ Words = cmd.len
      BY <1>2 DEF First, Words
    <2> DEFINE s == part.starts[p]
               t == part.starts[p + 1]
    <2>2. s \in Nat /\ t \in Nat /\ s < t
      BY PageIs DEF ToErase
    <2>3. s \in PageCells(part, p)
      <3> HIDE DEF s, t
      <3>1. s \in s .. t - 1
        BY <2>2
      <3> QED
        BY <3>1 DEF PageCells, s, t
    <2>4. s >= First /\ (s < First + Words \/ (part.empty = "page" /\ s = First))
      BY DEF ToErase
    <2>5. cmd.addr \in Nat /\ cmd.len \in Nat /\ part.base \in Nat
      BY <1>2, CmdIs, Part DEF IsAll
    <2>6. CASE s < First + Words
      <3>1. part.base + s \in cmd.addr .. cmd.addr + cmd.len - 1
        <4> HIDE DEF s
        <4> QED
          BY <2>1, <2>2, <2>4, <2>5, <2>6
      <3> QED
        BY <2>3, <3>1 DEF Covered
    <2>7. CASE part.empty = "page" /\ s = First
      <3>1. part.base + s = cmd.addr
        <4> HIDE DEF s
        <4> QED
          BY <2>1, <2>2, <2>5, <2>7
      <3> QED
        BY <2>7, <3>1 DEF Covered
    <2> QED
      BY <2>4, <2>6, <2>7
  <1> QED
    BY <1>1, <1>2

\* Writes are rounded up to blocks, and pages are whole blocks.
LEMMA WriteCovers ==
  ASSUME TypeOK, Progress, left > 0,
         NEW c \in First + Sent .. First + Sent + RoundUp(Xfer, part.block) - 1,
         NEW p \in Pages(part), c \in PageCells(part, p)
  PROVE  Covered(p)
  <1> DEFINE s == part.starts[p]
             k == part.block
             m == RoundUp(Xfer, part.block)
             b == First + Sent
             d == s - b
  <1>1. /\ First = cmd.addr - part.base /\ Words = cmd.len /\ cmd.addr \in Nat
        /\ cmd.len \in Nat /\ part.base \in Nat /\ First \in Nat
    BY CmdIs, Part DEF TypeOK, Progress, InFlash, All
  <1>2. Sent \in Nat /\ Sent % k = 0 /\ left \in Nat /\ Sent + left = cmd.len /\ left > 0
    BY <1>1 DEF Progress, Sent
  <1>3. Xfer \in Nat /\ Xfer <= left /\ k \in Nat \ {0}
    <2>1. agent.chunk \in Nat /\ part.block \in Nat \ {0}
      BY Part DEF Progress, InFlash, TypeOK
    <2> QED
      BY <1>2, <2>1 DEF Xfer
  <1>4. m \in Nat /\ \A j \in Nat : j % k = 0 /\ Xfer <= j => m <= j
    BY <1>3, RoundUpIs
  <1>5. PICK q \in 1 .. Len(part.starts) : part.starts[q] = First
    BY DEF Progress, PageStart
  <1>6. /\ s \in Nat /\ s % k = 0 /\ First % k = 0 /\ c \in s .. part.starts[p + 1] - 1
        /\ part.starts[p + 1] \in Nat
    <2>1. /\ p \in 1 .. Len(part.starts) /\ s \in Nat /\ part.starts[p + 1] \in Nat
          /\ part \in Agents
      BY PageIs DEF TypeOK
    <2>2. s % k = 0 /\ part.starts[q] % k = 0
      BY <2>1, Part
    <2>3. c \in s .. part.starts[p + 1] - 1
      BY DEF PageCells
    <2> QED
      BY <1>5, <2>1, <2>2, <2>3
  <1>7. b \in Nat /\ b % k = 0 /\ c >= b /\ c < b + m /\ c \in Int
    <2>1. First + Sent \in Nat /\ (First + Sent) % k = 0
      <3>1. k \in Nat \ {0}
        BY <1>3
      <3> HIDE DEF k
      <3>2. \A x, y \in Nat : x % k = 0 /\ y % k = 0 => (x + y) % k = 0
        BY <3>1, Multiples
      <3>3. First \in Nat /\ Sent \in Nat /\ First % k = 0 /\ Sent % k = 0
        BY <1>1, <1>2, <1>6
      <3> QED
        BY <3>2, <3>3
    <2> HIDE DEF m
    <2> QED
      BY <1>4, <2>1 DEF m
  <1>8. part.starts[q] <= s
    <2>1. part.starts[q] <= c /\ part \in Agents
      <3> HIDE DEF m
      <3> QED
        BY <1>1, <1>2, <1>5, <1>7 DEF TypeOK
    <2> QED
      BY <2>1, Behind
  <1> HIDE DEF s, k, m
  <1>9. ~ (b + Xfer <= s)
    <2>1. SUFFICES ASSUME b + Xfer <= s PROVE FALSE
      OBVIOUS
    <2>2. d \in Nat /\ Xfer <= d /\ b <= s
      BY <2>1, <1>3, <1>6, <1>7
    <2>3. d % k = 0
      <3> HIDE DEF b
      <3>1. (s - b) % k = 0
        BY <1>3, <1>6, <1>7, <2>2, Multiples
      <3> QED
        BY <3>1 DEF d
    <2>4. m <= d
      <3> HIDE DEF d
      <3> QED
        BY <1>4, <2>2, <2>3
    <2> QED
      BY <1>4, <1>6, <1>7, <2>4
  <1>10. part.base + s \in cmd.addr .. cmd.addr + cmd.len - 1
    <2>1. \A f, n, x, l, a, e, r \in Nat :
             /\ f = e - a /\ f <= r /\ ~ (f + n + x <= r) /\ n + x <= l
             => a + r \in e .. e + l - 1
      OBVIOUS
    <2>2. Sent + Xfer <= cmd.len
      BY <1>1, <1>2, <1>3
    <2>3. First <= s /\ First = cmd.addr - part.base /\ ~ (First + Sent + Xfer <= s)
      BY <1>1, <1>5, <1>8, <1>9
    <2>4. /\ s \in Nat /\ First \in Nat /\ Sent \in Nat /\ Xfer \in Nat
          /\ part.base \in Nat /\ cmd.addr \in Nat /\ cmd.len \in Nat
      BY <1>1, <1>2, <1>3, <1>6
    <2> QED
      BY <2>1, <2>2, <2>3, <2>4
  <1>11. s \in PageCells(part, p)
    <2>1. s \in s .. part.starts[p + 1] - 1
      BY <1>6
    <2> QED
      BY <2>1 DEF PageCells, s
  <1> QED
    BY <1>10, <1>11 DEF Covered

-----------------------------------------------------------------------------
(* What steps have in common.                                              *)

\* Nothing that the progress of a command is told from has changed.
LEMMA Steady ==
  ASSUME UNCHANGED <<part, agent, cmd, addr, left, count, flash>>
  PROVE  /\ First' = First /\ Words' = Words /\ Sent' = Sent /\ Xfer' = Xfer
         /\ Ranges' = Ranges /\ (InFlash => InFlash') /\ (Early => Early')
         /\ (Progress => Progress') /\ (Ordered => Ordered')
         /\ (PageStart => PageStart') /\ (AllErased => AllErased')
         /\ \A n \in Int : (InPlace(n) => InPlace(n)')
  <1>1. First' = First /\ Words' = Words /\ Sent' = Sent /\ Xfer' = Xfer
    BY DEF First, Words, Sent, Xfer, IsAll, Size
  <1>2. Ranges' = Ranges
    BY DEF Ranges, Size
  <1>3. \A i : Word(i)' = Word(i)
    BY DEF Word
  <1>4. \A n \in Int : (InPlace(n) => InPlace(n)')
    BY <1>1, <1>3 DEF InPlace
  <1>5. InPlace(Sent) => InPlace(Sent)'
    BY <1>1, <1>3 DEF InPlace
  <1>6. /\ InFlash => InFlash'
        /\ PageStart => PageStart'
        /\ AllErased => AllErased'
    BY <1>1 DEF InFlash, PageStart, AllErased, Size
  <1>7. (Progress => Progress') /\ (Ordered => Ordered') /\ (Early => Early')
    BY <1>1, <1>5, <1>6 DEF Progress, Ordered, Early
  <1> QED
    BY <1>1, <1>2, <1>4, <1>6, <1>7

\* While a function is called its effect is what is asked of it.
LEMMA SteadyCall ==
  ASSUME UNCHANGED <<part, agent, cmd, addr, left, count, flash, ram, call>>
  PROVE  (Asked => Asked') /\ (Effect => Effect')
  <1>1. /\ First' = First /\ Words' = Words /\ Sent' = Sent /\ Xfer' = Xfer
        /\ (InFlash => InFlash') /\ (Early => Early')
        /\ (Progress => Progress') /\ (Ordered => Ordered')
        /\ (PageStart => PageStart') /\ (AllErased => AllErased')
    BY Steady
  <1>2. \A i : Word(i)' = Word(i)
    BY DEF Word
  <1>3. InPlace(Sent + Xfer) => InPlace(Sent + Xfer)'
    BY <1>1, <1>2 DEF InPlace
  <1>4. Effect => Effect'
    BY <1>1, <1>3 DEF Effect
  <1>5. Asked => Asked'
    BY <1>1, <1>2 DEF Asked
  <1> QED
    BY <1>4, <1>5

LEMMA Kept ==
  ASSUME OthersKept, UNCHANGED <<part, before, flash, cmd>>
  PROVE  OthersKept'
  BY DEF OthersKept, Covered, Pages, PageCells

\* The promises are about commands that have returned.
LEMMA Promised ==
  ASSUME at' # "idle" \/ result' # 0
  PROVE  ImageWritten' /\ EraseRight'
  BY DEF ImageWritten, EraseRight, Reported

\* A command that fails has only to leave the other pages alone.
LEMMA Ends ==
  ASSUME TypeOK', OthersKept', at' = "idle", result' # 0
  PROVE  IInv'
  BY Promised DEF IInv, Stage, Core, Before, Calling

\* A step within a command.
LEMMA Goes ==
  ASSUME TypeOK', OthersKept', at' # "idle", Stage', Core'
  PROVE  IInv'
  BY Promised DEF IInv

-----------------------------------------------------------------------------
(* Types, which every step keeps, whatever has failed.                     *)

LEMMA EraseTyped ==
  ASSUME NEW f \in [Cells(part) -> Int], NEW a \in Int, NEW n \in Int
  PROVE  /\ EraseFlash(f, a, n).flash \in [Cells(part) -> Int]
         /\ EraseFlash(f, a, n).res \in Int
  <1> DEFINE bad == ToErase(a, n) \cap worn
             ok == {p \in ToErase(a, n) : \A q \in bad : p < q}
             start == \E p \in Pages(part) \cup {Len(part.starts)} : part.starts[p] = a
             g == [c \in DOMAIN f |-> IF \E p \in ok : c \in PageCells(part, p)
                                      THEN Erased ELSE f[c]]
             e == IF ~start \/ (n = 0 /\ part.empty = "fails")
                  THEN [flash |-> f, res |-> Failed]
                  ELSE [flash |-> g, res |-> IF bad = {} THEN 0 ELSE Failed]
  <1>1. EraseFlash(f, a, n) = e
    BY DEF EraseFlash
  <1>2. g \in [Cells(part) -> Int]
    BY DEF Erased
  <1>3. e.flash \in {f, g} /\ e.res \in {0, Failed}
    <2> HIDE DEF g, bad, start
    <2> QED
      OBVIOUS
  <1> HIDE DEF e, g
  <1> QED
    BY <1>1, <1>2, <1>3 DEF Failed

\* The agent that fits the target does not change.
LEMMA Same == ASSUME fixed' = fixed
              PROVE  /\ Ranges' = Ranges /\ part' = part /\ worn' = worn
                     /\ Cells(part)' = Cells(part) /\ Pages(part)' = Pages(part)
  BY DEF fixed, Ranges, Size, Cells, Pages

LEMMA SizeTyped == ASSUME NEW a \in Agents PROVE Size(a) \in Nat
  <1>1. a \in AgentRecord /\ a.starts # <<>>
    BY FlashAssumption
  <1>2. a.starts \in Seq(Nat)
    BY <1>1 DEF AgentRecord
  <1> QED
    BY <1>1, <1>2 DEF Size

LEMMA BeginTyped ==
  ASSUME TypeOK, NEW c \in Ranges \cup {All}, Begin(c)
  PROVE  TypeOK' /\ CallTyped'
  <1>1. /\ UNCHANGED <<target, fixed, agent, faults>>
        /\ count' = count + 1 /\ cmd' = c /\ before' = flash /\ astray' = FALSE /\ link' = TRUE
        /\ addr' = c.addr /\ left' = c.len
        /\ IF agent = None THEN at' = "idle" /\ result' = -1
           ELSE at' = "attach" /\ result' = result
    BY DEF Begin, Fail, Goto
  <1>2. Ranges' = Ranges
    BY <1>1, Same
  <1>3. c # NoCommand /\ c.addr \in Int /\ c.len \in Int
    <2>1. CASE c \in Ranges
      BY <2>1 DEF Ranges, NoCommand
    <2>2. CASE c = All
      BY <2>2 DEF All, NoCommand
    <2> QED
      BY <2>1, <2>2
  <1>4. size' \in Nat
    BY SizeTyped DEF Begin, TypeOK
  <1>5. at' \in Places /\ (at' # "idle" => agent' # None) /\ result' \in {0, -1}
    BY <1>1 DEF Places, Before, TypeOK
  <1>6. cmd' \in Ranges' \cup {All, NoCommand} /\ cmd' # NoCommand
    BY <1>1, <1>2, <1>3
  <1>7. TypeOK'
    <2>1. link' \in BOOLEAN /\ astray' \in BOOLEAN
      BY <1>1
    <2>2. /\ UNCHANGED <<part, worn, flash, ram, regs, pc, halted, agent, faults>>
          /\ before' = flash /\ count' = count + 1
      BY <1>1 DEF target, fixed
    <2>3. addr' \in Int /\ left' \in Int
      BY <1>1, <1>3
    <2> QED
      BY <1>4, <1>5, <1>6, <2>1, <2>2, <2>3 DEF TypeOK
  <1>8. CallTyped'
    BY <1>1 DEF CallTyped, Calling
  <1> QED
    BY <1>7, <1>8

LEMMA HostTyped ==
  ASSUME TypeOK, CallTyped,
         \/ \E a \in Agents \cup {None} : SetArch(a)
         \/ Attach \/ BootRom \/ LoadAgent \/ ReadHeader \/ CheckRange
         \/ WriteData \/ Advance \/ Done \/ Resume \/ Wait \/ LinkDown \/ LinkUp
         \/ UNCHANGED vars
  PROVE  TypeOK' /\ CallTyped'
  <1>1. fixed' = fixed
    BY DEF SetArch, Attach, BootRom, LoadAgent, ReadHeader, CheckRange, WriteData, Advance,
           Done, Resume, Wait, LinkDown, LinkUp, vars
  <1>2. Ranges' = Ranges
    BY <1>1, Same
  <1>3. ASSUME NEW a \in Agents \cup {None}, SetArch(a) PROVE TypeOK' /\ CallTyped'
    <2>1. TypeOK'
      BY <1>1, <1>2, <1>3 DEF SetArch, TypeOK, target, fixed, host, history
    <2>2. CallTyped'
      BY <1>3 DEF SetArch, CallTyped
    <2> QED
      BY <2>1, <2>2
  <1>4. CASE Attach
    <2>1. TypeOK'
      BY <1>1, <1>2, <1>4 DEF Attach, Goto, Fail, TypeOK, target, fixed, host, history,
                              Places, Before
    <2>2. CallTyped'
      BY <1>4 DEF Attach, Goto, Fail, CallTyped, Calling
    <2> QED
      BY <2>1, <2>2
  <1>5. CASE BootRom
    <2>1. TypeOK'
      BY <1>1, <1>2, <1>5 DEF BootRom, Goto, Fail, TypeOK, fixed, host, history, Places, Before
    <2>2. CallTyped'
      BY <1>5 DEF BootRom, Goto, Fail, CallTyped, Calling
    <2> QED
      BY <2>1, <2>2
  <1>6. CASE LoadAgent
    <2>1. TypeOK'
      BY <1>1, <1>2, <1>6 DEF LoadAgent, Goto, Fail, Invoke, TypeOK, target, fixed, host,
                              history, Places, Calling
    <2>2. CallTyped'
      BY <1>6 DEF LoadAgent, Goto, Fail, Invoke, CallTyped, Calling
    <2> QED
      BY <2>1, <2>2
  <1>7. CASE ReadHeader
    <2>1. TypeOK'
      <3>1. Size(part) \in Nat
        BY SizeTyped DEF TypeOK
      <3> QED
        BY <1>1, <1>2, <1>7, <3>1 DEF ReadHeader, Goto, Fail, TypeOK, target, fixed, history,
                                      Places
    <2>2. CallTyped'
      BY <1>7 DEF ReadHeader, Goto, Fail, CallTyped, Calling
    <2> QED
      BY <2>1, <2>2
  <1>8. CASE CheckRange
    <2>1. From \in Int /\ Length \in Int
      <3>1. agent.base \in Int
        <4>1. agent \in Agents
          BY <1>8 DEF CheckRange, TypeOK
        <4> QED
          BY <4>1, FlashAssumption DEF AgentRecord
      <3> QED
        BY <3>1 DEF From, Length, TypeOK
    <2>2. TypeOK'
      BY <1>1, <1>2, <1>8, <2>1 DEF CheckRange, Goto, Fail, Invoke, TypeOK, target, fixed,
                                    history, Places, Calling
    <2>3. CallTyped'
      BY <1>8, <2>1 DEF CheckRange, Goto, Fail, Invoke, CallTyped, Calling
    <2> QED
      BY <2>2, <2>3
  <1>9. CASE WriteData
    <2>1. Xfer \in Int /\ left \in Int /\ addr \in Int
      <3>1. agent.chunk \in Int
        <4>1. agent \in Agents
          BY <1>9 DEF WriteData, TypeOK
        <4> QED
          BY <4>1, FlashAssumption DEF AgentRecord
      <3>2. left \in Int /\ addr \in Int
        BY DEF TypeOK
      <3> QED
        BY <3>1, <3>2 DEF Xfer
    <2>2. ram' \in [0 .. part.chunk - 1 -> Int]
      <3>1. \A i \in 0 .. part.chunk - 1 : Word(Sent + i) \in Int
        <4>1. cmd.len \in Int /\ count \in Nat /\ part.chunk \in Int
          BY CmdIs, Part DEF TypeOK
        <4> QED
          BY <2>1, <4>1 DEF Word, Sent
      <3>2. \/ UNCHANGED ram
            \/ ram' = [i \in DOMAIN ram |-> IF i < Xfer THEN Word(Sent + i) ELSE ram[i]]
        BY <1>9 DEF WriteData
      <3> QED
        BY <3>1, <3>2 DEF TypeOK
    <2>3. TypeOK'
      BY <1>1, <1>2, <1>9, <2>2 DEF WriteData, Goto, Fail, Succeed, Invoke, TypeOK, fixed,
                                    host, history, Places, Calling
    <2>4. CallTyped'
      BY <1>9, <2>1 DEF WriteData, Goto, Fail, Succeed, Invoke, CallTyped, Calling
    <2> QED
      BY <2>3, <2>4
  <1>10. CASE Advance
    <2>1. Xfer \in Int
      <3>1. agent.chunk \in Int
        <4>1. agent \in Agents
          BY <1>10 DEF Advance, TypeOK
        <4> QED
          BY <4>1, FlashAssumption DEF AgentRecord
      <3> QED
        BY <3>1 DEF Xfer, TypeOK
    <2>2. addr' \in Int /\ left' \in Int
      BY <1>10, <2>1 DEF Advance, TypeOK
    <2>3. TypeOK'
      BY <1>1, <1>2, <1>10, <2>2 DEF Advance, Goto, TypeOK, target, fixed, history, Places
    <2>4. CallTyped'
      BY <1>10 DEF Advance, Goto, CallTyped, Calling
    <2> QED
      BY <2>3, <2>4
  <1>11. CASE Done
    <2>1. TypeOK'
      BY <1>1, <1>2, <1>11 DEF Done, Goto, Succeed, TypeOK, target, fixed, host, history, Places
    <2>2. CallTyped'
      BY <1>11 DEF Done, Goto, Succeed, CallTyped, Calling
    <2> QED
      BY <2>1, <2>2
  <1>12. CASE Resume
    <2>1. TypeOK'
      BY <1>1, <1>2, <1>12 DEF Resume, Goto, TypeOK, fixed, host, history, Places, Calling
    <2>2. CallTyped'
      BY <1>12 DEF Resume, Goto, CallTyped, Calling
    <2> QED
      BY <2>1, <2>2
  <1>13. CASE Wait
    <2>1. call.next \in {"header", "done", "data", "advance"}
      BY <1>13 DEF Wait, CallTyped, Calling
    <2>2. TypeOK'
      BY <1>1, <1>2, <1>13, <2>1 DEF Wait, Goto, Fail, TypeOK, target, fixed, host, history,
                                     Places
    <2>3. CallTyped'
      BY <1>13, <2>1 DEF Wait, Goto, Fail, CallTyped, Calling
    <2> QED
      BY <2>2, <2>3
  <1>14. CASE LinkDown \/ LinkUp
    <2>1. /\ UNCHANGED <<target, fixed, host, history, agent, at, call, result, count>>
          /\ link' \in BOOLEAN /\ faults' \in Nat
      <3>1. /\ UNCHANGED <<target, fixed, host, history, agent, at, call, result, count>>
            /\ (link' = TRUE \/ link' = FALSE) /\ (faults' = faults \/ faults' = faults + 1)
        BY <1>14 DEF LinkDown, LinkUp
      <3>2. faults' \in Nat
        BY <3>1 DEF TypeOK
      <3>3. link' \in BOOLEAN
        BY <3>1
      <3> QED
        BY <3>1, <3>2, <3>3
    <2>2. TypeOK'
      BY <1>2, <2>1 DEF TypeOK, target, fixed, host, history
    <2>3. CallTyped'
      BY <2>1 DEF CallTyped
    <2> QED
      BY <2>2, <2>3
  <1>15. CASE UNCHANGED vars
    <2>1. TypeOK'
      BY <1>2, <1>15 DEF vars, TypeOK, target, fixed, host, history
    <2>2. CallTyped'
      BY <1>15 DEF vars, CallTyped
    <2> QED
      BY <2>1, <2>2
  <1> QED
    BY <1>3, <1>4, <1>5, <1>6, <1>7, <1>8, <1>9, <1>10, <1>11, <1>12, <1>13, <1>14, <1>15

\* An agent that was led astray still writes to its flash and its buffer only.
LEMMA AgentTyped == ASSUME TypeOK, CallTyped, AgentRuns PROVE TypeOK' /\ CallTyped'
  <1>1. /\ UNCHANGED <<fixed, host, history, agent, link, at, call, result, count, faults>>
        /\ halted' = TRUE
    BY DEF AgentRuns
  <1>2. Ranges' = Ranges
    BY <1>1, Same
  <1> DEFINE Typed(f, buf, r, k) ==
               /\ f \in [Cells(part) -> Int] /\ buf \in [0 .. part.chunk - 1 -> Int]
               /\ r \in [1 .. 3 -> Int]
               /\ k \in {"elsewhere", "agent", "setup", "erase", "write"}
  <1>3. ASSUME NEW f \in [Cells(part) -> Int], NEW buf \in [0 .. part.chunk - 1 -> Int],
               NEW res \in Int, Return(f, buf, res)
        PROVE  Typed(flash', ram', regs', pc')
    BY <1>3 DEF Return, TypeOK
  <1>4. Typed(flash', ram', regs', pc')
    <2>1. flash \in [Cells(part) -> Int] /\ ram \in [0 .. part.chunk - 1 -> Int] /\ part \in Agents
      BY DEF TypeOK
    <2>2. CASE UNCHANGED <<flash, ram, regs>> /\ (pc' = "elsewhere" \/ UNCHANGED pc)
      BY <2>2 DEF TypeOK
    <2>3. CASE Return(flash, ram, 0) \/ Return(flash, ram, Failed)
      BY <1>3, <2>1, <2>3 DEF Failed
    <2>4. CASE Sane /\ LET e == EraseFlash(flash, FlashAddr, regs[2]) IN Return(e.flash, ram, e.res)
      <3> DEFINE e == EraseFlash(flash, FlashAddr, regs[2])
      <3>1. FlashAddr \in Int /\ regs[2] \in Int
        BY <2>1, <2>4, Part DEF Sane, TypeOK
      <3>2. e.flash \in [Cells(part) -> Int] /\ e.res \in Int
        BY <2>1, <3>1, EraseTyped
      <3>3. Return(e.flash, ram, e.res)
        BY <2>4
      <3> HIDE DEF e, Typed
      <3> QED
        BY <1>3, <2>1, <3>2, <3>3
    <2>5. CASE Sane /\ LET w == WriteFlash(flash, FlashAddr, ram, regs[3])
                       IN  Return(w.flash, Source(ram, regs[3]), w.res)
      <3> DEFINE w == WriteFlash(flash, FlashAddr, ram, regs[3])
                 src == Source(ram, regs[3])
      <3>1. FlashAddr \in Nat /\ regs[3] \in 0 .. part.chunk
        BY <2>1, <2>5, Part DEF Sane
      <3>2. w.flash \in [Cells(part) -> Int] /\ w.res \in {0, Failed}
            /\ src \in [0 .. part.chunk - 1 -> Int]
        BY <2>1, <3>1, WriteIs DEF Writes
      <3>3. Return(w.flash, src, w.res)
        BY <2>5
      <3>4. w.res \in Int
        BY <3>2 DEF Failed
      <3> HIDE DEF w, src, Typed
      <3> QED
        BY <1>3, <3>2, <3>3, <3>4
    <2> HIDE DEF Typed
    <2> QED
      BY <2>2, <2>3, <2>4, <2>5 DEF AgentRuns
  <1>5. TypeOK'
    BY <1>1, <1>2, <1>4 DEF TypeOK, fixed, host, history
  <1>6. CallTyped'
    BY <1>1 DEF CallTyped
  <1> QED
    BY <1>5, <1>6

LEMMA UnseenTyped ==
  ASSUME TypeOK, NEW lost \in BOOLEAN, Unseen(lost)
  PROVE  astray' \in BOOLEAN /\ faults' \in Nat /\ (astray => astray')
  BY DEF TypeOK, Unseen

LEMMA ResetTyped == ASSUME TypeOK, CallTyped, ResetStop PROVE TypeOK' /\ CallTyped'
  <1>1. /\ UNCHANGED <<flash, ram, fixed, host, before, agent, link, call, result, count>>
        /\ at = "reset" /\ at' \in {"rom", "load"} /\ halted' \in BOOLEAN
        /\ pc' \in {"elsewhere", pc} /\ regs' \in {<<Junk, Junk, Junk>>, regs}
    BY DEF ResetStop, Goto
  <1>2. astray' \in BOOLEAN /\ faults' \in Nat
    BY UnseenTyped DEF ResetStop
  <1>3. regs' \in [1 .. 3 -> Int]
    BY <1>1 DEF Junk, TypeOK
  <1>4. Ranges' = Ranges
    BY <1>1, Same
  <1>5. TypeOK'
    BY <1>1, <1>2, <1>3, <1>4 DEF TypeOK, fixed, host, Places, Before
  <1>6. CallTyped'
    BY <1>1 DEF CallTyped, Calling
  <1> QED
    BY <1>5, <1>6

LEMMA LoadTyped == ASSUME TypeOK, CallTyped, LoadRegisters PROVE TypeOK' /\ CallTyped'
  <1>1. /\ UNCHANGED <<flash, ram, halted, fixed, host, before, agent, link, call, result, count>>
        /\ at = "registers" /\ at' = "resume"
    BY DEF LoadRegisters, Goto
  <1>2. PICK lost \in IF link /\ halted THEN SUBSET Registers ELSE {Registers} :
           /\ regs' = [i \in 1 .. 3 |-> IF i \in lost THEN regs[i] ELSE call.args[i]]
           /\ pc' = IF 15 \in lost THEN pc ELSE call.fn
           /\ Unseen(halted /\ lost # {})
    BY DEF LoadRegisters
  <1>3. call.fn \in {"setup", "erase", "write"} /\ call.args \in [1 .. 3 -> Int]
    BY <1>1 DEF CallTyped, Calling
  <1>4. regs' \in [1 .. 3 -> Int] /\ pc' \in {"elsewhere", "agent", "setup", "erase", "write"}
    BY <1>2, <1>3 DEF TypeOK
  <1>5. astray' \in BOOLEAN /\ faults' \in Nat
    <2>1. (halted /\ lost # {}) \in BOOLEAN
      OBVIOUS
    <2> QED
      BY <1>2, <2>1, UnseenTyped
  <1>6. Ranges' = Ranges
    BY <1>1, Same
  <1>7. TypeOK'
    BY <1>1, <1>4, <1>5, <1>6 DEF TypeOK, fixed, host, Places, Calling
  <1>8. CallTyped'
    BY <1>1 DEF CallTyped, Calling
  <1> QED
    BY <1>7, <1>8

LEMMA TypesKept == ASSUME TypeOK, CallTyped, [Next]_vars PROVE TypeOK' /\ CallTyped'
  <1>1. ASSUME NEW c \in Ranges \cup {All}, Begin(c) PROVE TypeOK' /\ CallTyped'
    BY <1>1, BeginTyped
  <1>2. CASE ResetStop
    BY <1>2, ResetTyped
  <1>3. CASE LoadRegisters
    BY <1>3, LoadTyped
  <1>4. CASE AgentRuns
    BY <1>4, AgentTyped
  <1>5. CASE \/ \E a \in Agents \cup {None} : SetArch(a)
             \/ Attach \/ BootRom \/ LoadAgent \/ ReadHeader \/ CheckRange
             \/ WriteData \/ Advance \/ Done \/ Resume \/ Wait \/ LinkDown \/ LinkUp
             \/ UNCHANGED vars
    BY <1>5, HostTyped
  <1> QED
    BY <1>1, <1>2, <1>3, <1>4, <1>5 DEF Next

-----------------------------------------------------------------------------
(* The initial states.                                                     *)

LEMMA InitOk == Init => IInv
  <1> SUFFICES ASSUME Init PROVE IInv
    OBVIOUS
  <1>1. part \in Agents /\ part.chunk \in Nat \ {0} /\ Size(part) \in Nat
    BY Part DEF Init
  <1>2. TypeOK
    <2>1. flash \in [Cells(part) -> Int] /\ before \in [Cells(part) -> Int]
      BY DEF Init, Old
    <2>2. ram \in [0 .. part.chunk - 1 -> Int]
      BY DEF Init, Junk
    <2>3. regs \in [1 .. 3 -> Int]
      BY DEF Init, Junk
    <2>4. worn \subseteq Pages(part)
      BY DEF Init
    <2>5. /\ part \in Agents /\ pc = "elsewhere" /\ halted = FALSE /\ link = TRUE
          /\ astray = FALSE /\ agent = None /\ cmd = NoCommand /\ at = "idle"
          /\ size = 0 /\ addr = 0 /\ left = 0 /\ result = 0 /\ count = 0 /\ faults = 0
      BY DEF Init
    <2>6. cmd \in Ranges \cup {All, NoCommand} /\ agent \in Agents \cup {None}
      BY <2>5
    <2>7. /\ at \in Places /\ size \in Nat /\ addr \in Int /\ left \in Int
          /\ result \in {0, -1} /\ count \in Nat /\ faults \in Nat
      BY <2>5 DEF Places
    <2> HIDE DEF Init
    <2> QED
      BY <2>1, <2>2, <2>3, <2>4, <2>5, <2>6, <2>7 DEF TypeOK
  <1>3. Stage /\ Core
    BY DEF Init, Stage, Core, Before, Calling
  <1>4. ImageWritten /\ EraseRight
    BY DEF Init, ImageWritten, EraseRight, Reported
  <1>5. OthersKept
    BY DEF Init, OthersKept
  <1> QED
    BY <1>2, <1>3, <1>4, <1>5 DEF IInv

-----------------------------------------------------------------------------
(* Commands begin and find their agent.                                    *)

LEMMA ArchStep == ASSUME IInv, TypeOK', NEW a \in Agents \cup {None}, SetArch(a) PROVE IInv'
  <1>1. UNCHANGED <<target, fixed, host, before, link, at, call, result, count, faults>>
        /\ agent' = a /\ at = "idle"
    BY DEF SetArch, history
  <1>2. Stage' /\ Core'
    BY <1>1 DEF Stage, Core, Before, Calling
  <1>3. ImageWritten' /\ EraseRight'
    BY <1>1 DEF IInv, ImageWritten, EraseRight, Reported, Word, Cells, Size, target, fixed, host
  <1>4. OthersKept'
    BY <1>1, Kept DEF IInv, target, fixed, host
  <1> QED
    BY <1>2, <1>3, <1>4 DEF IInv

LEMMA BeginStep == ASSUME TypeOK, TypeOK', NEW c \in Ranges \cup {All}, Begin(c) PROVE IInv'
  <1>1. /\ UNCHANGED <<target, fixed>> /\ cmd' = c /\ before' = flash
        /\ addr' = c.addr /\ left' = c.len
        /\ IF agent = None THEN at' = "idle" /\ result' = -1
           ELSE at' = "attach"
    BY DEF Begin, Fail, Goto
  <1>2. OthersKept'
    BY <1>1 DEF OthersKept, target
  <1>3. at' # "idle" => Stage' /\ Core'
    BY <1>1 DEF Stage, Core, Before, Calling, Early
  <1> QED
    BY <1>1, <1>2, <1>3, Ends, Goes

LEMMA AttachStep == ASSUME IInv, TypeOK', Attach PROVE IInv'
  <1>1. /\ UNCHANGED <<target, fixed, host, before, agent, call, count, faults>>
        /\ at = "attach"
        /\ \/ link' = TRUE /\ at' = "reset" /\ result' = result
           \/ link' = link /\ at' = "idle" /\ result' = -1
    BY DEF Attach, Goto, Fail, history
  <1>2. OthersKept'
    BY <1>1, Kept DEF IInv, target, fixed, host
  <1>3. at' # "idle" => Stage' /\ Core'
    BY <1>1 DEF IInv, Stage, Core, Before, Calling, Early, host
  <1> QED
    BY <1>1, <1>2, <1>3, Ends, Goes

LEMMA ResetStopStep == ASSUME IInv, TypeOK', ResetStop, ~astray' PROVE IInv'
  <1>1. /\ UNCHANGED <<flash, fixed, host, before>>
        /\ at = "reset" /\ at' \in {"rom", "load"} /\ pc' = "elsewhere"
    BY DEF ResetStop, Goto, Unseen
  <1>2. OthersKept'
    BY <1>1, Kept DEF IInv, fixed, host
  <1>3. Stage' /\ Core'
    BY <1>1 DEF IInv, Stage, Core, Before, Calling, Early, host
  <1> QED
    BY <1>1, <1>2, <1>3, Goes

LEMMA BootRomStep == ASSUME IInv, TypeOK', BootRom PROVE IInv'
  <1>1. /\ UNCHANGED <<flash, ram, regs, pc, fixed, host, before, agent, link, call, count, faults>>
        /\ at = "rom"
        /\ \/ halted' \in BOOLEAN /\ at' = "load" /\ result' = result
           \/ halted' = halted /\ at' = "idle" /\ result' = -1
    BY DEF BootRom, Goto, Fail, history
  <1>2. OthersKept'
    BY <1>1, Kept DEF IInv, fixed, host
  <1>3. at' # "idle" => Stage' /\ Core'
    BY <1>1 DEF IInv, Stage, Core, Before, Calling, Early, host
  <1> QED
    BY <1>1, <1>2, <1>3, Ends, Goes

LEMMA LoadAgentStep == ASSUME IInv, TypeOK', LoadAgent PROVE IInv'
  <1>1. /\ UNCHANGED <<target, fixed, host, before, agent, link, count, faults>>
        /\ at = "load"
        /\ \/ /\ call' = [fn |-> "setup", args |-> <<0, 0, 0>>, next |-> "header"]
              /\ at' = "registers" /\ result' = result
           \/ at' = "idle" /\ result' = -1
    BY DEF LoadAgent, Goto, Fail, Invoke, history
  <1>2. OthersKept'
    BY <1>1, Kept DEF IInv, target, fixed, host
  <1>3. at' # "idle" => Stage' /\ Core'
    <2> SUFFICES ASSUME at' # "idle" PROVE Stage' /\ Core'
      OBVIOUS
    <2>1. pc = "elsewhere" /\ Early /\ at' = "registers"
      BY <1>1 DEF IInv, Stage, Before
    <2>2. Asked'
      BY <1>1, <2>1 DEF Asked, Early, host
    <2> QED
      BY <1>1, <2>1, <2>2 DEF Stage, Core, Before, Calling, target
  <1> QED
    BY <1>1, <1>2, <1>3, Ends, Goes

LEMMA ReadHeaderStep == ASSUME IInv, TypeOK', ReadHeader PROVE IInv'
  <1>1. /\ UNCHANGED <<target, fixed, cmd, addr, left, before, agent, link, call, count, faults>>
        /\ at = "header"
        /\ \/ size' = Size(part) /\ at' = "check" /\ result' = result
           \/ size' = size /\ at' = "idle" /\ result' = -1
    BY DEF ReadHeader, Goto, Fail, history
  <1>2. OthersKept'
    BY <1>1, Kept DEF IInv, target, fixed
  <1>3. at' # "idle" => Stage' /\ Core'
    <2> SUFFICES ASSUME at' # "idle" PROVE Stage' /\ Core'
      OBVIOUS
    <2>1. Early /\ Back /\ at' = "check" /\ size' = Size(part)
      BY <1>1 DEF IInv, Stage
    <2>2. Early' /\ Back' /\ Size(part)' = Size(part)
      BY <1>1, <2>1 DEF Early, Back, target, fixed, Size
    <2> QED
      BY <2>1, <2>2 DEF Stage, Core, Before, Calling
  <1> QED
    BY <1>1, <1>2, <1>3, Ends, Goes

-----------------------------------------------------------------------------
(* The calls of erase and write.                                           *)

LEMMA CheckRangeStep == ASSUME IInv, TypeOK', CheckRange PROVE IInv'
  <1>1. /\ UNCHANGED <<target, fixed, cmd, size, before, agent, link, count, faults>>
        /\ at = "check" /\ addr' = From /\ left' = Length
        /\ \/ /\ InRange /\ at' = "registers" /\ result' = result
              /\ call' = [fn |-> "erase", args |-> <<From, Length, 0>>,
                          next |-> IF cmd.fn = "erase" THEN "done" ELSE "data"]
           \/ at' = "idle" /\ result' = -1
    BY DEF CheckRange, Goto, Fail, Invoke, history
  <1>2. /\ Early /\ agent = part /\ pc = "agent" /\ halted /\ size = Size(part)
        /\ part \in Agents /\ cmd # NoCommand
    BY <1>1 DEF IInv, Stage, Back, TypeOK
  <1>3. /\ part.base \in Nat /\ Size(part) \in Nat /\ cmd.addr \in Int /\ cmd.len \in Int
        /\ (~IsAll => cmd.addr \in Nat /\ cmd.len \in Nat)
    BY <1>2, Part, CmdIs DEF IInv, TypeOK, IsAll
  <1>4. /\ From = part.base + First /\ Length = Words
        /\ From \in Int /\ Length \in Int
    BY <1>2, <1>3 DEF From, Length, First, Words, Early
  <1>5. OthersKept'
    BY <1>1, Kept DEF IInv, target, fixed
  <1>6. at' # "idle" => Stage' /\ Core'
    <2> SUFFICES ASSUME at' # "idle" PROVE Stage' /\ Core'
      OBVIOUS
    <2>1. First' = First /\ Words' = Words /\ part' = part /\ agent' = agent /\ cmd' = cmd
          /\ pc' = pc /\ halted' = halted
      BY <1>1 DEF First, Words, IsAll, Size, fixed, target
    <2>2. InFlash
      <3>1. From >= part.base /\ From + Length <= part.base + Size(part)
        BY <1>1, <1>2 DEF InRange
      <3>2. Words \in Nat
        BY <1>3 DEF Words
      <3>3. First \in Int
        BY <1>3 DEF First
      <3> QED
        BY <1>2, <1>3, <1>4, <3>1, <3>2, <3>3 DEF InFlash
    <2>3. Ordered'
      BY <1>1, <1>4, <2>1, <2>2 DEF Ordered, InFlash, Size
    <2>4. Asked'
      BY <1>1, <2>1, <2>3 DEF Asked
    <2> QED
      BY <1>1, <1>2, <2>1, <2>4 DEF Stage, Core, Before, Calling
  <1> QED
    BY <1>1, <1>5, <1>6, Ends, Goes

\* What is left to be written, and what goes next.
LEMMA XferIs ==
  ASSUME TypeOK, Progress, left > 0
  PROVE  /\ Xfer \in 1 .. part.chunk /\ Xfer <= left
         /\ Xfer # left => Xfer = part.chunk
         /\ Sent \in Nat /\ left \in Nat /\ cmd.len \in Nat /\ Sent + left = cmd.len
  <1>1. part.chunk \in Nat \ {0} /\ agent = part /\ cmd.len \in Nat /\ left \in Nat
    BY Part, CmdIs DEF TypeOK, Progress, InFlash, IsAll
  <1> QED
    BY <1>1 DEF Xfer, Sent, Progress

LEMMA WriteDataStep == ASSUME IInv, TypeOK', WriteData PROVE IInv'
  <1>1. /\ UNCHANGED <<flash, regs, pc, halted, fixed, host, before, agent, link, count, faults>>
        /\ at = "data"
        /\ \/ left = 0 /\ at' = "idle" /\ result' = 0 /\ UNCHANGED <<ram, call>>
           \/ /\ left > 0 /\ at' = "registers" /\ result' = result
              /\ ram' = [i \in DOMAIN ram |-> IF i < Xfer THEN Word(Sent + i) ELSE ram[i]]
              /\ call' = [fn |-> "write", args |-> <<addr, 0, Xfer>>, next |-> "advance"]
           \/ at' = "idle" /\ result' = -1 /\ UNCHANGED <<ram, call>>
    BY DEF WriteData, Goto, Fail, Succeed, Invoke, history
  <1>2. Progress /\ Back /\ TypeOK
    BY <1>1 DEF IInv, Stage
  <1>3. UNCHANGED <<part, agent, cmd, addr, left, count, flash>>
    BY <1>1 DEF fixed, host
  <1>4. Ranges' = Ranges /\ Progress' /\ Xfer' = Xfer /\ Sent' = Sent
    BY <1>2, <1>3, Steady
  <1>5. ram' \in [0 .. part.chunk - 1 -> Int]
    <2>1. ASSUME left > 0, NEW i \in 0 .. part.chunk - 1 PROVE Word(Sent + i) \in Int
      <3>1. Sent \in Nat /\ count \in Nat /\ part.chunk \in Nat
        BY <1>2, <2>1, XferIs, Part DEF TypeOK
      <3> QED
        BY <3>1 DEF Word
    <2> QED
      BY <1>1, <1>2, <2>1 DEF TypeOK
  <1>6. OthersKept'
    BY <1>1, Kept DEF IInv, fixed, host
  <1>7. CASE left = 0 /\ at' = "idle" /\ result' = 0 /\ UNCHANGED <<ram, call>>
    <2>0. /\ cmd.fn = "flash" /\ left \in 0 .. cmd.len /\ InPlace(Sent)
          /\ part \in Agents /\ cmd \in Ranges \cup {All, NoCommand} /\ cmd # NoCommand
      BY <1>2 DEF Progress, TypeOK, InFlash
    <2>1. /\ cmd.fn = "flash" /\ First = cmd.addr - part.base /\ Sent = cmd.len
          /\ cmd.len \in Nat /\ InPlace(Sent)
      <3>1. ~IsAll /\ First = cmd.addr - part.base /\ Words = cmd.len /\ cmd # All
        BY <2>0, CmdIs DEF All
      <3>2. cmd.len \in Nat
        BY <2>0, <3>1, CmdIs
      <3>3. Sent = cmd.len
        BY <2>0, <1>7, <3>1, <3>2 DEF Sent
      <3> QED
        BY <2>0, <3>1, <3>2, <3>3
    <2>2. ASSUME NEW i \in 0 .. cmd.len - 1 PROVE flash[cmd.addr - part.base + i] = Word(i)
      BY <2>1 DEF InPlace
    <2>3. ImageWritten'
      BY <1>3, <2>2 DEF ImageWritten, Word
    <2>4. EraseRight'
      BY <1>3, <2>1 DEF EraseRight
    <2>5. Stage' /\ Core'
      BY <1>7 DEF Stage, Core, Before, Calling
    <2> QED
      BY <1>6, <2>3, <2>4, <2>5 DEF IInv
  <1>8. CASE left > 0 /\ at' = "registers"
    <2>1. \A i \in 0 .. Xfer - 1 : ram'[i] = Word(Sent + i)
      <3>1. \A i \in 0 .. Xfer - 1 : i \in 0 .. part.chunk - 1 /\ i < Xfer
        <4>1. Xfer \in 1 .. part.chunk
          BY <1>2, <1>8, XferIs
        <4>2. part.chunk \in Nat
          BY <1>2, Part DEF TypeOK
        <4> QED
          BY <4>1, <4>2
      <3>2. DOMAIN ram = 0 .. part.chunk - 1
        BY <1>2 DEF TypeOK
      <3> QED
        BY <1>1, <1>8, <3>1, <3>2
    <2>2. Asked'
      <3>1. /\ call'.fn = "write" /\ call'.args = <<addr, 0, Xfer>> /\ call'.next = "advance"
        BY <1>1, <1>8
      <3>2. \A i \in 0 .. Xfer' - 1 : ram'[i] = Word(Sent + i)'
        BY <1>3, <1>4, <2>1 DEF Word
      <3> QED
        BY <1>3, <1>4, <1>8, <3>1, <3>2 DEF Asked
    <2>3. Stage' /\ Core'
      BY <1>1, <1>2, <1>8, <2>2 DEF Stage, Core, Before, Calling, Back
    <2> QED
      BY <1>6, <1>8, <2>3, Goes
  <1>9. CASE at' = "idle" /\ result' = -1
    BY <1>6, <1>9, Ends
  <1> QED
    BY <1>1, <1>7, <1>8, <1>9

LEMMA AdvanceStep == ASSUME IInv, TypeOK', Advance PROVE IInv'
  <1>1. /\ UNCHANGED <<target, fixed, cmd, size, before, agent, link, call, result, count, faults>>
        /\ at = "advance" /\ at' = "data" /\ addr' = addr + Xfer /\ left' = left - Xfer
    BY DEF Advance, Goto, history
  <1>2. Progress /\ Back /\ TypeOK /\ left > 0 /\ InPlace(Sent + Xfer)
    BY <1>1 DEF IInv, Stage
  <1>3. /\ Xfer \in 1 .. part.chunk /\ Xfer <= left /\ (Xfer # left => Xfer = part.chunk)
        /\ Sent \in Nat /\ left \in Nat /\ cmd.len \in Nat /\ Sent + left = cmd.len
        /\ part.chunk \in Nat /\ part.block \in Nat \ {0} /\ part.chunk % part.block = 0
    BY <1>2, XferIs, Part DEF TypeOK
  <1>4. OthersKept'
    BY <1>1, Kept DEF IInv, target, fixed
  <1>5. First' = First /\ Words' = Words /\ Sent' = Sent + Xfer /\ left' \in 0 .. cmd.len
    <2>1. First' = First /\ Words' = Words
      BY <1>1 DEF First, Words, IsAll, Size, fixed
    <2>2. Sent' = cmd.len - left'
      BY <1>1 DEF Sent
    <2> QED
      BY <1>1, <1>3, <2>1, <2>2
  <1>6. left' = 0 \/ Sent' % part.block = 0
    <2>1. CASE Xfer = left
      BY <1>1, <1>3, <2>1
    <2>2. CASE Xfer # left
      <3> DEFINE s == Sent
                 x == Xfer
                 k == part.block
      <3>1. s \in Nat /\ x \in Nat /\ k \in Nat \ {0} /\ s % k = 0 /\ x % k = 0
        BY <1>2, <1>3, <2>2 DEF Progress
      <3> HIDE DEF s, x, k
      <3>2. (s + x) % k = 0
        BY <3>1, Multiples
      <3> QED
        BY <1>5, <3>2 DEF s, x, k
    <2> QED
      BY <2>1, <2>2
  <1>7. Progress'
    <2>1. InFlash' /\ PageStart'
      BY <1>1, <1>2, <1>5 DEF Progress, InFlash, PageStart, Size, fixed
    <2>2. InPlace(Sent)'
      BY <1>1, <1>2, <1>5 DEF InPlace, Word, target
    <2>3. addr' = part.base + First + Sent + Xfer
      <3>1. addr = part.base + First + Sent /\ First \in Nat /\ part.base \in Nat
        BY <1>2, Part DEF Progress, InFlash, TypeOK
      <3> QED
        BY <1>1, <3>1
    <2>4. part.base + First + Sent + Xfer = part.base + First + (Sent + Xfer)
      <3>1. First \in Nat /\ part.base \in Nat
        BY <1>2, Part DEF Progress, InFlash, TypeOK
      <3> QED
        BY <1>3, <3>1
    <2>5. cmd'.fn = "flash" /\ cmd' = cmd /\ part' = part
      BY <1>1, <1>2 DEF Progress, fixed
    <2> QED
      BY <1>5, <1>6, <2>1, <2>2, <2>3, <2>4, <2>5 DEF Progress
  <1>8. Stage' /\ Core'
    <2>1. Back'
      BY <1>1, <1>2 DEF Back, target, fixed
    <2> QED
      BY <1>1, <1>7, <2>1 DEF Stage, Core, Before, Calling
  <1> QED
    BY <1>1, <1>4, <1>8, Goes

LEMMA DoneStep == ASSUME IInv, TypeOK', Done PROVE IInv'
  <1>1. /\ UNCHANGED <<target, fixed, host, before, agent, link, call, count, faults>>
        /\ at = "done" /\ at' = "idle" /\ result' = 0
    BY DEF Done, Goto, Succeed, history
  <1>2. cmd.fn = "erase" /\ InFlash /\ AllErased /\ TypeOK
    BY <1>1 DEF IInv, Stage
  <1>3. OthersKept'
    BY <1>1, Kept DEF IInv, target, fixed, host
  <1>4. ImageWritten' /\ Stage' /\ Core'
    BY <1>1, <1>2 DEF ImageWritten, Stage, Core, Before, Calling, host
  <1>5. EraseRight'
    <2>1. cmd.fn = "erase" => IF cmd = All THEN \A c \in Cells(part) : flash[c] = Erased
             ELSE \A i \in 0 .. cmd.len - 1 : flash[cmd.addr - part.base + i] = Erased
      <3>1. CASE cmd = All
        <4>1. \A i \in 0 .. Size(part) - 1 : flash[0 + i] = Erased
          BY <1>2, <3>1 DEF AllErased, First, Words, IsAll
        <4> QED
          BY <3>1, <4>1, Part DEF Cells, TypeOK, IInv
      <3>2. CASE cmd # All
        BY <1>2, <3>2 DEF AllErased, First, Words, IsAll
      <3> QED
        BY <3>1, <3>2
    <2> QED
      BY <1>1, <2>1 DEF EraseRight, target, fixed, host, Cells, Size
  <1> QED
    BY <1>3, <1>4, <1>5 DEF IInv

-----------------------------------------------------------------------------
(* The core runs a function of the agent.                                  *)

LEMMA LoadRegistersStep ==
  ASSUME IInv, CallTyped, TypeOK', LoadRegisters, ~astray'
  PROVE  IInv'
  <1>1. /\ UNCHANGED <<flash, ram, fixed, host, before, agent, call, count>>
        /\ at = "registers" /\ at' = "resume"
    BY DEF LoadRegisters, Goto
  <1>2. Asked /\ TypeOK /\ (pc = "elsewhere" \/ (pc = "agent" /\ halted))
    BY <1>1 DEF IInv, Stage, Core, Calling
  <1>3. /\ call.fn \in {"setup", "erase", "write"} /\ call.args \in [1 .. 3 -> Int]
    BY <1>1 DEF CallTyped, Calling
  <1>4. pc' = "elsewhere" \/ (pc' = call.fn /\ regs' = call.args)
    <2>1. PICK lost \in IF link /\ halted THEN SUBSET Registers ELSE {Registers} :
             /\ regs' = [i \in 1 .. 3 |-> IF i \in lost THEN regs[i] ELSE call.args[i]]
             /\ pc' = IF 15 \in lost THEN pc ELSE call.fn
             /\ astray' = (astray \/ (halted /\ lost # {}))
      BY DEF LoadRegisters, Unseen
    <2>2. CASE lost = {}
      <3>1. regs' = [i \in 1 .. 3 |-> call.args[i]] /\ pc' = call.fn
        BY <2>1, <2>2
      <3> QED
        BY <1>3, <3>1
    <2>3. CASE lost # {}
      BY <1>2, <2>1, <2>3 DEF Registers
    <2> QED
      BY <2>2, <2>3
  <1>5. Asked'
    BY <1>1, <1>2, SteadyCall DEF fixed, host
  <1>6. OthersKept'
    BY <1>1, Kept DEF IInv, fixed, host
  <1>7. Stage'
    BY <1>1, <1>5 DEF Stage, Before, Calling
  <1>8. Core'
    BY <1>1, <1>3, <1>4 DEF Core
  <1> QED
    BY <1>1, <1>6, <1>7, <1>8, Goes

LEMMA ResumeStep == ASSUME IInv, TypeOK', Resume PROVE IInv'
  <1>1. /\ UNCHANGED <<flash, ram, regs, pc, fixed, host, before, agent, link, call, result, count, faults>>
        /\ at = "resume" /\ at' = "wait" /\ halted' = (halted /\ ~link)
    BY DEF Resume, Goto, history
  <1>2. Asked /\ TypeOK
    BY <1>1 DEF IInv, Stage, Calling
  <1>3. Ranges' = Ranges /\ Asked'
    BY <1>1, <1>2, Steady, SteadyCall DEF fixed, host
  <1>4. OthersKept'
    BY <1>1, Kept DEF IInv, fixed, host
  <1>5. Stage'
    BY <1>1, <1>3 DEF Stage, Before, Calling
  <1>6. Core'
    BY <1>1 DEF IInv, Core
  <1> QED
    BY <1>1, <1>4, <1>5, <1>6, Goes

\* The agent's function is over when it has the effect its result stands for.
LEMMA ReturnStep ==
  ASSUME IInv, TypeOK', at = "wait", halted' = TRUE,
         NEW f \in [Cells(part) -> Int], NEW buf \in [0 .. part.chunk - 1 -> Int],
         NEW res \in Int, Return(f, buf, res), Asked', OthersKept', res = 0 => Effect',
         UNCHANGED <<fixed, host, before, agent, link, at, call, result, count, faults>>
  PROVE  IInv'
  <1>1. /\ flash' = f /\ ram' = buf /\ pc' = "agent"
        /\ regs' = [regs EXCEPT ![1] = res]
    BY DEF Return
  <1>2. regs' \in [1 .. 3 -> Int] /\ regs'[1] = res
    BY <1>1 DEF IInv, TypeOK
  <1>3. Stage' /\ Core'
    BY <1>1, <1>2 DEF Stage, Core, Before, Calling
  <1> QED
    BY <1>3, Goes

LEMMA Distinct ==
  ASSUME part \in Agents, NEW p \in Pages(part), NEW q \in Pages(part),
         NEW c \in PageCells(part, p), c \in PageCells(part, q)
  PROVE  p = q /\ c \in Cells(part)
  <1>1. /\ p \in 1 .. Len(part.starts) /\ q \in 1 .. Len(part.starts)
        /\ part.starts[p] \in Nat /\ part.starts[q] \in Nat
        /\ p + 1 \in 1 .. Len(part.starts) /\ part.starts[p + 1] \in Nat
    BY PageIs
  <1>2. part.starts[p] <= c /\ part.starts[q] <= c /\ c < part.starts[p + 1] /\ c \in Nat
    BY <1>1 DEF PageCells
  <1>3. part.starts[p] = part.starts[q]
    <2>1. part.starts[p] <= part.starts[q] /\ part.starts[q] <= part.starts[p]
      BY <1>1, <1>2, Behind
    <2> QED
      BY <1>1, <2>1
  <1>4. \A i, j \in 1 .. Len(part.starts) : i < j => part.starts[i] < part.starts[j]
    BY Part
  <1>5. p = q
    <2>1. ~ (p < q) /\ ~ (q < p)
      BY <1>1, <1>3, <1>4
    <2> QED
      BY <1>1, <2>1
  <1>6. part.starts[p + 1] <= Size(part) /\ Size(part) \in Nat
    <2>1. Len(part.starts) \in 1 .. Len(part.starts) /\ part.starts[Len(part.starts)] \in Nat
      BY Part
    <2>2. CASE p + 1 = Len(part.starts)
      BY <1>1, <2>2 DEF Size
    <2>3. CASE p + 1 # Len(part.starts)
      <3>1. p + 1 < Len(part.starts)
        BY <1>1, <2>1, <2>3
      <3>2. part.starts[p + 1] < part.starts[Len(part.starts)]
        BY <1>1, <1>4, <2>1, <3>1
      <3> QED
        BY <1>1, <2>1, <3>2 DEF Size
    <2> QED
      BY <2>2, <2>3
  <1> QED
    BY <1>1, <1>2, <1>5, <1>6 DEF Cells

\* A step that only changes pages of the command spares the others.
LEMMA Spared ==
  ASSUME part \in Agents, OthersKept, UNCHANGED <<part, before, cmd>>,
         \A p \in Pages(part) : \A c \in PageCells(part, p) :
            flash'[c] # flash[c] => Covered(p)
  PROVE  OthersKept'
  <1>1. ASSUME NEW p \in Pages(part), ~ Covered(p), NEW c \in PageCells(part, p)
        PROVE  flash'[c] = before[c]
    BY <1>1 DEF OthersKept
  <1>2. /\ Pages(part)' = Pages(part)
        /\ \A p : PageCells(part, p)' = PageCells(part, p) /\ Covered(p)' = Covered(p)
    BY DEF Covered, PageCells, Pages
  <1> QED
    BY <1>1, <1>2 DEF OthersKept

LEMMA AgentRunsStep == ASSUME IInv, TypeOK', AgentRuns PROVE IInv'
  <1>1. /\ UNCHANGED <<fixed, host, before, agent, link, at, call, result, count, faults>>
        /\ at = "wait" /\ ~halted /\ pc # "elsewhere" /\ halted' = TRUE
    BY DEF AgentRuns, history
  <1>2. TypeOK /\ Asked /\ OthersKept
    BY <1>1 DEF IInv, Stage, Calling
  <1>3. pc = "agent" \/ (pc = call.fn /\ regs = call.args)
    BY <1>1 DEF IInv, Core
  <1>4. UNCHANGED <<part, agent, cmd, addr, left, count>>
    BY <1>1 DEF fixed, host
  <1>5. part \in Agents /\ flash \in [Cells(part) -> Int] /\ ram \in [0 .. part.chunk - 1 -> Int]
    BY <1>2 DEF TypeOK
  <1>6. CASE UNCHANGED <<flash, ram, regs>> /\ (pc' = "elsewhere" \/ (pc = "agent" /\ UNCHANGED pc))
    <2>1. Asked' /\ (Effect => Effect')
      BY <1>1, <1>2, <1>4, <1>6, SteadyCall
    <2>2. OthersKept'
      BY <1>1, <1>2, <1>4, <1>6, Kept
    <2>3. Stage'
      BY <1>1, <2>1 DEF Stage, Before, Calling
    <2>4. Core'
      BY <1>1, <1>6, <2>1 DEF IInv, Core
    <2> QED
      BY <1>1, <2>2, <2>3, <2>4, Goes
  <1>7. CASE pc = "setup" /\ Return(flash, ram, IF Fits THEN 0 ELSE Failed)
    <2>1. call.fn = "setup"
      BY <1>3, <1>7
    <2>2. UNCHANGED <<flash, ram>>
      BY <1>7 DEF Return
    <2>3. Asked' /\ OthersKept'
      BY <1>1, <1>2, <1>4, <2>2, SteadyCall, Kept
    <2> DEFINE res == IF Fits THEN 0 ELSE Failed
    <2>4. res \in Int /\ (res = 0 => Effect')
      BY <1>1, <1>4, <2>1 DEF Effect, Fits, Failed
    <2> HIDE DEF res
    <2> QED
      BY <1>1, <1>5, <1>7, <2>3, <2>4, ReturnStep DEF res
  <1>8. CASE pc = "erase" /\ Return(EraseFlash(flash, FlashAddr, regs[2]).flash, ram,
                                    EraseFlash(flash, FlashAddr, regs[2]).res)
    <2> DEFINE e == EraseFlash(flash, First, Words)
    <2>1. call.fn = "erase" /\ Ordered /\ regs = <<addr, left, 0>>
      BY <1>2, <1>3, <1>8 DEF Asked
    <2>2. FlashAddr = First /\ regs[2] = Words
      <3>1. part.base \in Nat /\ First \in Nat
        BY <1>5, <2>1, Part DEF Ordered, InFlash
      <3> QED
        BY <2>1, <3>1 DEF FlashAddr, Ordered
    <2>3. Return(e.flash, ram, e.res)
      BY <1>8, <2>2
    <2>4. First \in Nat /\ Words \in Nat /\ First + Words <= Size(part)
      BY <2>1 DEF Ordered, InFlash
    <2>5. /\ e.flash \in [Cells(part) -> Int] /\ e.res \in {0, Failed}
          /\ e.res = 0 =>
               /\ \E p \in 1 .. Len(part.starts) : part.starts[p] = First
               /\ \A i \in 0 .. Words - 1 : e.flash[First + i] = Erased
          /\ \A c \in Cells(part) :
               e.flash[c] # flash[c] =>
                 \E p \in ToErase(First, Words) : c \in PageCells(part, p)
      BY <1>5, <2>4, EraseIs
    <2> HIDE DEF e
    <2>6. flash' = e.flash /\ ram' = ram
      BY <2>3 DEF Return
    <2>7. First' = First /\ Words' = Words
      BY <1>4 DEF First, Words, IsAll, Size
    <2>8. Asked'
      <3>1. Ordered'
        BY <1>4, <2>1, <2>7 DEF Ordered, InFlash, Size
      <3> QED
        BY <1>1, <1>2, <1>4, <2>1, <3>1 DEF Asked
    <2>9. e.res = 0 => Effect'
      BY <1>1, <1>4, <2>1, <2>5, <2>6, <2>7 DEF Effect, PageStart, AllErased
    <2>10. OthersKept'
      <3>1. ASSUME NEW p \in Pages(part), NEW c \in PageCells(part, p), flash'[c] # flash[c]
            PROVE  Covered(p)
        <4>1. c \in Cells(part)
          BY <1>5, Distinct
        <4>2. PICK q \in ToErase(First, Words) : c \in PageCells(part, q)
          BY <2>5, <2>6, <3>1, <4>1
        <4>3. p = q
          BY <1>5, <4>2, Distinct DEF ToErase
        <4> QED
          BY <1>2, <2>1, <4>3, EraseCovers DEF TypeOK, Ordered
      <3> QED
        BY <1>1, <1>2, <1>4, <1>5, <3>1, Spared
    <2>11. e.res \in Int
      BY <2>5 DEF Failed
    <2> QED
      BY <1>1, <1>5, <2>3, <2>5, <2>8, <2>9, <2>10, <2>11, ReturnStep
  <1>9. CASE pc = "write" /\ Return(WriteFlash(flash, FlashAddr, ram, regs[3]).flash,
                                    Source(ram, regs[3]),
                                    WriteFlash(flash, FlashAddr, ram, regs[3]).res)
    <2> DEFINE a == First + Sent
               w == WriteFlash(flash, a, ram, Xfer)
               m == RoundUp(Xfer, part.block)
    <2>1. /\ call.fn = "write" /\ Progress /\ left > 0 /\ regs = <<addr, 0, Xfer>>
          /\ call.args = <<addr, 0, Xfer>> /\ call.next = "advance"
          /\ \A i \in 0 .. Xfer - 1 : ram[i] = Word(Sent + i)
      BY <1>2, <1>3, <1>9 DEF Asked
    <2>2. /\ Xfer \in 1 .. part.chunk /\ Xfer <= left /\ Sent \in Nat /\ left \in Nat
          /\ First \in Nat /\ part.base \in Nat /\ part.chunk \in Nat
      BY <1>2, <1>5, <2>1, XferIs, Part DEF Progress, InFlash
    <2>3. FlashAddr = a /\ regs[3] = Xfer /\ a \in Nat
      BY <2>1, <2>2 DEF FlashAddr, Progress
    <2>4. Return(w.flash, Source(ram, Xfer), w.res)
      BY <1>9, <2>3
    <2>5. /\ w.flash \in [Cells(part) -> Int] /\ w.res \in {0, Failed}
          /\ w.res = 0 => \A i \in 0 .. Xfer - 1 : w.flash[a + i] = ram[i]
          /\ \A c \in Cells(part) : w.flash[c] # flash[c] => c \in a .. a + m - 1
          /\ Source(ram, Xfer) \in [0 .. part.chunk - 1 -> Int]
      <3>1. a \in Nat /\ Xfer \in 0 .. part.chunk
        BY <2>2, <2>3
      <3>2. \A b \in Nat, n \in 0 .. part.chunk : Writes(flash, b, ram, n)
        BY <1>5, WriteIs
      <3> HIDE DEF a
      <3>3. Writes(flash, a, ram, Xfer)
        BY <3>1, <3>2
      <3> QED
        BY <3>3 DEF Writes
    <2> HIDE DEF w
    <2>6. flash' = w.flash /\ ram' = Source(ram, Xfer)
      BY <2>4 DEF Return
    <2>7. First' = First /\ Words' = Words /\ Sent' = Sent /\ Xfer' = Xfer
      BY <1>4 DEF First, Words, Sent, Xfer, IsAll, Size
    <2>8. InPlace(Sent)'
      <3>1. ASSUME NEW i \in 0 .. Sent - 1 PROVE flash'[First + i] = Word(i)
        <4>1. First + i \in Cells(part) /\ ~ (First + i \in a .. a + m - 1)
          <5>1. First + Sent <= Size(part) /\ Size(part) \in Nat
            <6>1. cmd.len = Words /\ First + Words <= Size(part) /\ Sent + left = cmd.len
              BY <1>2, <2>1, CmdIs, XferIs DEF Progress, InFlash, TypeOK
            <6>2. Size(part) \in Nat
              BY <1>5, Part
            <6> QED
              BY <2>2, <6>1, <6>2
          <5>2. First + i < a /\ First + i \in Nat /\ First + i < Size(part)
            BY <2>2, <5>1
          <5> HIDE DEF a, m
          <5> QED
            BY <2>3, <5>1, <5>2 DEF Cells
        <4>2. flash[First + i] = Word(i)
          BY <2>1 DEF Progress, InPlace
        <4> QED
          BY <2>5, <2>6, <4>1, <4>2
      <3> QED
        BY <1>4, <2>7, <3>1 DEF InPlace, Word
    <2>9. w.res = 0 => InPlace(Sent + Xfer)'
      <3> SUFFICES ASSUME w.res = 0, NEW i \in 0 .. (Sent + Xfer) - 1
                   PROVE  flash'[First + i] = Word(i)
        BY <1>4, <2>7 DEF InPlace, Word
      <3>1. CASE i < Sent
        <4>1. i \in 0 .. Sent - 1
          BY <2>2, <3>1
        <4> QED
          BY <1>4, <2>7, <2>8, <4>1 DEF InPlace, Word
      <3>2. CASE ~ (i < Sent)
        <4> DEFINE j == i - Sent
        <4>1. j \in 0 .. Xfer - 1 /\ a + j = First + i /\ Sent + j = i
          BY <2>2, <3>2
        <4> HIDE DEF j, a
        <4>2. flash'[a + j] = ram[j] /\ ram[j] = Word(Sent + j)
          BY <2>1, <2>5, <2>6, <4>1
        <4> QED
          BY <4>1, <4>2
      <3> QED
        BY <3>1, <3>2
    <2>10. \A i \in 0 .. Xfer - 1 : Source(ram, Xfer)[i] = ram[i]
      <3>1. \A i \in 0 .. Xfer - 1 : i \in 0 .. part.chunk - 1 /\ ~ (i >= Xfer)
        BY <2>2
      <3> QED
        BY <1>5, <3>1 DEF Source
    <2>11. Progress'
      <3>1. InFlash' /\ PageStart'
        BY <1>4, <2>1, <2>7 DEF Progress, InFlash, PageStart, Size
      <3> QED
        BY <1>4, <2>1, <2>7, <2>8, <3>1 DEF Progress
    <2>12. Asked'
      <3>1. \A i \in 0 .. Xfer - 1 : ram'[i] = Word(Sent + i)
        BY <2>1, <2>6, <2>10
      <3>2. \A i \in 0 .. Xfer' - 1 : ram'[i] = Word(Sent + i)'
        BY <1>4, <2>7, <3>1 DEF Word
      <3> QED
        BY <1>1, <1>4, <2>1, <2>7, <2>11, <3>2 DEF Asked
    <2>13. w.res = 0 => Effect'
      BY <1>1, <2>1, <2>7, <2>9 DEF Effect
    <2>14. OthersKept'
      <3>1. ASSUME NEW p \in Pages(part), NEW c \in PageCells(part, p), flash'[c] # flash[c]
            PROVE  Covered(p)
        <4>1. c \in Cells(part)
          BY <1>5, Distinct
        <4>2. c \in First + Sent .. First + Sent + RoundUp(Xfer, part.block) - 1
          BY <2>5, <2>6, <3>1, <4>1
        <4> QED
          BY <1>2, <2>1, <4>2, WriteCovers
      <3> QED
        BY <1>1, <1>2, <1>4, <1>5, <3>1, Spared
    <2>15. w.res \in Int
      BY <2>5 DEF Failed
    <2> QED
      BY <1>1, <2>4, <2>5, <2>12, <2>13, <2>14, <2>15, ReturnStep
  <1> QED
    BY <1>1, <1>6, <1>7, <1>8, <1>9 DEF AgentRuns

LEMMA WaitStep == ASSUME IInv, TypeOK', Wait PROVE IInv'
  <1>1. /\ UNCHANGED <<target, fixed, host, before, agent, link, count, faults>>
        /\ at = "wait"
        /\ \/ Returned /\ at' = call.next /\ result' = result
           \/ at' = "idle" /\ result' = -1
    BY DEF Wait, Goto, Fail, history
  <1>2. Asked /\ TypeOK
    BY <1>1 DEF IInv, Stage, Calling
  <1>3. UNCHANGED <<part, agent, cmd, addr, left, count, flash>>
    BY <1>1 DEF fixed, host, target
  <1>4. Ranges' = Ranges
    BY <1>3, Steady
  <1>5. OthersKept'
    BY <1>1, Kept DEF IInv, fixed, host, target
  <1>6. CASE at' = "idle" /\ result' = -1
    BY <1>5, <1>6, Ends
  <1>7. CASE Returned /\ at' = call.next /\ result' = result
    <2>1. pc = "agent" /\ halted /\ Effect
      BY <1>1, <1>7 DEF Returned, IInv, Core
    <2>2. /\ call.next \in {"header", "done", "data", "advance"}
          /\ call.next = "header" => Early /\ agent = part
          /\ call.next = "done" => cmd.fn = "erase" /\ InFlash /\ PageStart /\ AllErased
          /\ call.next = "data" => Progress
          /\ call.next = "advance" => Progress /\ left > 0 /\ InPlace(Sent + Xfer)
      <3>1. CASE call.fn = "setup"
        BY <1>2, <2>1, <3>1 DEF Asked, Effect
      <3>2. CASE call.fn = "erase"
        <4>1. /\ Ordered /\ PageStart /\ AllErased
              /\ call.next = IF cmd.fn = "erase" THEN "done" ELSE "data"
          BY <1>2, <2>1, <3>2 DEF Asked, Effect
        <4>2. ASSUME cmd.fn # "erase" PROVE Progress
          <5>1. cmd.fn = "flash" /\ Words = cmd.len /\ InFlash /\ left = Words
            BY <1>2, <4>1, <4>2, CmdIs DEF TypeOK, Ordered, InFlash
          <5>2. Sent = 0 /\ left \in 0 .. cmd.len /\ First \in Nat /\ part.base \in Nat
            <6>1. part.base \in Nat /\ First \in Nat /\ Words \in Nat
              BY <1>2, <5>1, Part DEF InFlash, TypeOK
            <6> QED
              BY <5>1, <6>1 DEF Sent
          <5>3. 0 % part.block = 0
            <6>1. part.block \in Nat \ {0}
              BY <1>2, Part DEF TypeOK
            <6> QED
              BY <6>1
          <5>4. addr = part.base + First + Sent
            BY <4>1, <5>2 DEF Ordered
          <5>5. InPlace(Sent)
            BY <5>2 DEF InPlace
          <5> QED
            BY <4>1, <5>1, <5>2, <5>3, <5>4, <5>5 DEF Progress
        <4> QED
          BY <4>1, <4>2 DEF Ordered
      <3>3. CASE call.fn \notin {"setup", "erase"}
        BY <1>2, <2>1, <3>3 DEF Asked, Effect
      <3> QED
        BY <3>1, <3>2, <3>3
    <2>3. /\ (InFlash => InFlash') /\ (Early => Early') /\ (Progress => Progress')
          /\ (PageStart => PageStart') /\ (AllErased => AllErased')
      BY <1>3, Steady
    <2>4. InPlace(Sent + Xfer) => InPlace(Sent + Xfer)'
      BY <1>3 DEF InPlace, Word, First, Sent, Xfer, IsAll
    <2>5. Progress => agent = part
      BY DEF Progress, InFlash
    <2>6. agent = part => Back'
      BY <1>1, <2>1 DEF Back, fixed, target
    <2>7. Stage' /\ Core'
      BY <1>3, <1>7, <2>2, <2>3, <2>4, <2>5, <2>6 DEF Stage, Core, Before, Calling
    <2> QED
      BY <1>5, <1>7, <2>2, <2>7, Goes
  <1> QED
    BY <1>1, <1>6, <1>7

LEMMA LinkStep == ASSUME IInv, TypeOK', LinkDown \/ LinkUp PROVE IInv'
  <1>1. /\ UNCHANGED <<target, fixed, host, before, agent, at, call, result, count>>
        /\ at # "idle"
    BY DEF LinkDown, LinkUp, history
  <1>2. Stage /\ Core
    BY DEF IInv
  <1>3. UNCHANGED <<part, agent, cmd, addr, left, count, flash, ram, call>>
    BY <1>1 DEF fixed, host, target
  <1>4. /\ (InFlash => InFlash') /\ (Early => Early') /\ (Progress => Progress')
        /\ (PageStart => PageStart') /\ (AllErased => AllErased')
    BY <1>3, Steady
  <1>5. (Asked => Asked') /\ (Effect => Effect')
    BY <1>3, SteadyCall
  <1>6. OthersKept'
    BY <1>1, Kept DEF IInv, fixed, host, target
  <1>7. InPlace(Sent + Xfer) => InPlace(Sent + Xfer)'
    BY <1>3 DEF InPlace, Word, First, Sent, Xfer, IsAll
  <1>8. (Back => Back') /\ Size(part)' = Size(part)
    BY <1>1 DEF Back, fixed, target, Size
  <1>9. Stage'
    BY <1>1, <1>2, <1>4, <1>5, <1>7, <1>8 DEF Stage, target, host
  <1>10. Core'
    BY <1>1, <1>2, <1>5 DEF Core, target
  <1> QED
    BY <1>1, <1>6, <1>9, <1>10, Goes

-----------------------------------------------------------------------------
(* The theorems.                                                           *)

LEMMA StutterStep == ASSUME IInv, TypeOK', UNCHANGED vars PROVE IInv'
  <1>1. /\ UNCHANGED <<part, worn, flash, before, ram, regs, pc, halted, agent, cmd, at, size>>
        /\ UNCHANGED <<addr, left, result, count, call>>
    BY DEF vars, target, fixed, host, history
  <1>2. /\ (InFlash => InFlash') /\ (Early => Early') /\ (Progress => Progress')
        /\ (PageStart => PageStart') /\ (AllErased => AllErased')
    BY <1>1, Steady
  <1>3. (Asked => Asked') /\ (Effect => Effect')
    BY <1>1, SteadyCall
  <1>4. OthersKept'
    BY <1>1, Kept DEF IInv
  <1>5. InPlace(Sent + Xfer) => InPlace(Sent + Xfer)'
    BY <1>1 DEF InPlace, Word, First, Sent, Xfer, IsAll
  <1>6. (Back => Back') /\ Size(part)' = Size(part)
    BY <1>1 DEF Back, Size
  <1>7. Stage'
    BY <1>1, <1>2, <1>3, <1>5, <1>6 DEF IInv, Stage
  <1>8. Core'
    BY <1>1, <1>3 DEF IInv, Core
  <1>9. ImageWritten' /\ EraseRight'
    BY <1>1 DEF IInv, ImageWritten, EraseRight, Reported, Word, Cells, Size
  <1> QED
    BY <1>4, <1>7, <1>8, <1>9 DEF IInv

\* What failed since a command began stays failed until the next one.
LEMMA AstrayStays ==
  ASSUME TypeOK, [Next]_vars, astray
  PROVE  astray' \/ \E c \in Ranges \cup {All} : Begin(c)
  <1>1. CASE ResetStop
    BY <1>1, UnseenTyped DEF ResetStop
  <1>2. CASE LoadRegisters
    <2>1. PICK lost : Unseen(halted /\ lost # {})
      BY <1>2 DEF LoadRegisters
    <2>2. (halted /\ lost # {}) \in BOOLEAN
      OBVIOUS
    <2> QED
      BY <2>1, <2>2, UnseenTyped
  <1>3. CASE \/ \E a \in Agents \cup {None} : SetArch(a)
             \/ Attach \/ BootRom \/ LoadAgent \/ ReadHeader \/ CheckRange
             \/ WriteData \/ Advance \/ Done \/ Resume \/ AgentRuns \/ Wait
             \/ LinkDown \/ LinkUp \/ UNCHANGED vars
    <2>1. history' = history
      BY <1>3 DEF SetArch, Attach, BootRom, LoadAgent, ReadHeader, CheckRange, WriteData,
                  Advance, Done, Resume, AgentRuns, Wait, LinkDown, LinkUp, vars
    <2> QED
      BY <2>1 DEF history
  <1> QED
    BY <1>1, <1>2, <1>3 DEF Next

\* One step of a command of which no ignored write has failed.
LEMMA FollowedStep == ASSUME IInv, CallTyped, TypeOK', [Next]_vars, ~astray' PROVE IInv'
  <1>1. ASSUME NEW a \in Agents \cup {None}, SetArch(a) PROVE IInv'
    BY <1>1, ArchStep
  <1>2. ASSUME NEW c \in Ranges \cup {All}, Begin(c) PROVE IInv'
    BY <1>2, BeginStep DEF IInv
  <1>3. CASE Attach \/ ResetStop \/ BootRom \/ LoadAgent \/ ReadHeader \/ CheckRange
    BY <1>3, AttachStep, ResetStopStep, BootRomStep, LoadAgentStep, ReadHeaderStep, CheckRangeStep
  <1>4. CASE WriteData \/ Advance \/ Done
    BY <1>4, WriteDataStep, AdvanceStep, DoneStep
  <1>5. CASE LoadRegisters \/ Resume \/ AgentRuns \/ Wait
    BY <1>5, LoadRegistersStep, ResumeStep, AgentRunsStep, WaitStep
  <1>6. CASE LinkDown \/ LinkUp
    BY <1>6, LinkStep
  <1>7. CASE UNCHANGED vars
    BY <1>7, StutterStep
  <1> QED
    BY <1>1, <1>2, <1>3, <1>4, <1>5, <1>6, <1>7 DEF Next

LEMMA NextStep == LInv /\ [Next]_vars => LInv'
  <1> SUFFICES ASSUME LInv, [Next]_vars PROVE LInv'
    OBVIOUS
  <1>1. TypeOK' /\ CallTyped'
    BY TypesKept DEF LInv
  <1>2. ASSUME ~astray' PROVE IInv'
    <2>1. CASE astray
      <3>1. PICK c \in Ranges \cup {All} : Begin(c)
        BY <1>2, <2>1, AstrayStays DEF LInv
      <3> QED
        BY <1>1, <3>1, BeginStep DEF LInv
    <2>2. CASE ~astray
      BY <1>1, <1>2, <2>2, FollowedStep DEF LInv
    <2> QED
      BY <2>1, <2>2
  <1> QED
    BY <1>1, <1>2 DEF LInv

\* The invariant that follows a command from its call to the agent's answer
\* (run_flash_agent, invoke), as long as no write failed whose result is ignored.
THEOREM CommandCorrect == Spec => []LInv
  <1>1. Init => LInv
    BY InitOk DEF LInv, IInv, CallTyped, Calling, Init
  <1>2. LInv /\ [Next]_vars => LInv'
    BY NextStep
  <1> QED
    BY <1>1, <1>2, PTL DEF Spec

\* What is written stays within the agent's buffer and the target's flash, and
\* the host's variables keep their types, whatever fails.
THEOREM TypeCorrect == Spec => []TypeOK
  <1>1. LInv => TypeOK
    BY DEF LInv
  <1> QED
    BY <1>1, CommandCorrect, PTL

\* A flash command that returns success has put its whole image in place,
\* whatever the agent's buffer and blocks, and wherever the link fails: unless it
\* failed at the reset or a write to a register, whose results are ignored.
THEOREM ImagesInPlace == Spec => []FlashRight
  <1>1. LInv => FlashRight
    BY DEF LInv, IInv, FlashRight
  <1> QED
    BY <1>1, CommandCorrect, PTL

\* Unless one of those failed, an erase that returns success has left nothing of
\* its range, and no command changes a page that is not its own, whether it
\* succeeds or not.
THEOREM ErasesExact == Spec => []EraseExact
  <1>1. LInv => EraseExact
    BY DEF LInv, IInv, EraseExact
  <1> QED
    BY <1>1, CommandCorrect, PTL

==============================================================================
