------------------------------ MODULE JtagProofs ------------------------------
(***************************************************************************)
(* The JTAG engine, proved for every transaction: any number of scans of   *)
(* any width up to what the engine takes, with any TAPs before and after.  *)
(***************************************************************************)
EXTENDS Jtag, WellFoundedInduction, TLAPS

-----------------------------------------------------------------------------
(* Induction over the clocks of a transaction, as an induction over a set of *)
(* natural numbers.                                                          *)

LEMMA LessIsWellFounded == IsWellFoundedOn({p \in Nat \X Nat : p[1] < p[2]}, Nat)
  BY NatLessThanWellFounded DEF OpToRel

LEMMA SetInduction ==
  ASSUME NEW S, 0 \in S, \A n \in Nat : n \in S => n + 1 \in S
  PROVE  Nat \subseteq S
  <1> DEFINE T == Nat \ S
             R == {p \in Nat \X Nat : p[1] < p[2]}
  <1>1. SUFFICES ASSUME T # {} PROVE FALSE
    OBVIOUS
  <1>2. \E m \in T : \A k \in T : ~ (<<k, m>> \in R)
    <2>1. T \subseteq Nat /\ IsWellFoundedOn(R, Nat)
      BY LessIsWellFounded
    <2> HIDE DEF T, R
    <2> QED
      BY <1>1, <2>1, WFMin
  <1>3. PICK m \in T : \A k \in T : ~ (k < m)
    BY <1>2
  <1>4. m - 1 \in Nat /\ m - 1 \notin T
    BY <1>3
  <1> QED
    BY <1>3, <1>4

-----------------------------------------------------------------------------
(* Clocking bits through the TAP.                                          *)

Bits == {0, 1}
Scans == {"IR", "DR"} \X Nat
Taps == [state : TapStates, shifted : Nat, seen : Seq(Scans)]

Run(t, s) == After(t, s, Len(s))

\* What After counts on: the function it defines exists.
Clocks(f, t, s, n) ==
    f = [i \in 0 .. n |-> IF i = 0 THEN t ELSE Clock(f[i - 1], s[i])]
TheClocks(t, s, n) == CHOOSE f : Clocks(f, t, s, n)

LEMMA AfterIs == ASSUME NEW t, NEW s, NEW n PROVE After(t, s, n) = TheClocks(t, s, n)[n]
  BY DEF After, TheClocks, Clocks

LEMMA ClocksExist ==
  ASSUME NEW t, NEW s, NEW n \in Nat PROVE Clocks(TheClocks(t, s, n), t, s, n)
  <1> DEFINE S == {k \in Nat : \E f : Clocks(f, t, s, k)}
  <1>1. 0 \in S
    <2>1. Clocks([i \in 0 .. 0 |-> t], t, s, 0)
      BY DEF Clocks
    <2> QED
      BY <2>1
  <1>2. ASSUME NEW k \in Nat, k \in S PROVE k + 1 \in S
    <2>1. PICK f : Clocks(f, t, s, k)
      BY <1>2
    <2> DEFINE g == [i \in 0 .. k + 1 |-> IF i = k + 1 THEN Clock(f[k], s[k + 1]) ELSE f[i]]
    <2>2. Clocks(g, t, s, k + 1)
      BY <2>1 DEF Clocks
    <2> QED
      BY <2>2
  <1>3. Nat \subseteq S
    <2> HIDE DEF S
    <2> QED
      BY <1>1, <1>2, SetInduction
  <1> QED
    BY <1>3 DEF TheClocks

LEMMA ClocksAgree ==
  ASSUME NEW t, NEW s, NEW n \in Nat, NEW k \in 0 .. n
  PROVE  TheClocks(t, s, n)[k] = TheClocks(t, s, k)[k]
  <1> DEFINE f == TheClocks(t, s, n)
             g == TheClocks(t, s, k)
             S == {i \in Nat : i <= k => f[i] = g[i]}
  <1>1. Clocks(f, t, s, n) /\ Clocks(g, t, s, k)
    BY ClocksExist
  <1> HIDE DEF f, g
  <1>2. 0 \in S
    BY <1>1 DEF Clocks
  <1>3. ASSUME NEW i \in Nat, i \in S PROVE i + 1 \in S
    <2>1. SUFFICES ASSUME i + 1 <= k PROVE f[i + 1] = g[i + 1]
      OBVIOUS
    <2>2. f[i + 1] = Clock(f[i], s[i + 1]) /\ g[i + 1] = Clock(g[i], s[i + 1])
      BY <1>1, <2>1 DEF Clocks
    <2>3. f[i] = g[i]
      BY <1>3, <2>1
    <2> QED
      BY <2>2, <2>3
  <1>4. Nat \subseteq S
    <2> HIDE DEF S
    <2> QED
      BY <1>2, <1>3, SetInduction
  <1> QED
    BY <1>4 DEF f, g

LEMMA AfterStep ==
  ASSUME NEW t, NEW s, NEW n \in Nat
  PROVE  After(t, s, 0) = t /\ After(t, s, n + 1) = Clock(After(t, s, n), s[n + 1])
  <1> DEFINE f == TheClocks(t, s, n + 1)
  <1>1. Clocks(f, t, s, n + 1)
    BY ClocksExist
  <1>2. f[n] = TheClocks(t, s, n)[n]
    BY ClocksAgree
  <1>3. Clocks(TheClocks(t, s, 0), t, s, 0)
    BY ClocksExist
  <1> HIDE DEF f
  <1>4. f[n + 1] = Clock(f[n], s[n + 1])
    BY <1>1 DEF Clocks
  <1>5. TheClocks(t, s, 0)[0] = t
    BY <1>3 DEF Clocks
  <1> QED
    BY <1>2, <1>4, <1>5, AfterIs DEF f

LEMMA ClockType == ASSUME NEW t \in Taps, NEW b \in Bits PROVE Clock(t, b) \in Taps
  BY DEF Clock, Taps, Bits, TapStates, Next, Scans

LEMMA ClockOne ==
  ASSUME NEW x
  PROVE  /\ Clock(x, 1).state = Next[x.state][2]
         /\ Clock(x, 1).state = "RESET" => Clock(x, 1).seen = <<>>
  <1> DEFINE to == Next[x.state][1 + 1]
             n == CASE x.state \in {"DRSHIFT", "IRSHIFT"} -> x.shifted + 1
                    [] x.state \in {"DRCAPTURE", "IRCAPTURE"} -> 0
                    [] OTHER -> x.shifted
             q == CASE to = "RESET" -> <<>>
                    [] to = "DRUPDATE" -> Append(x.seen, <<"DR", x.shifted>>)
                    [] to = "IRUPDATE" -> Append(x.seen, <<"IR", x.shifted>>)
                    [] OTHER -> x.seen
  <1>1. Clock(x, 1) = [state |-> to, shifted |-> n, seen |-> q]
    BY DEF Clock
  <1>2. to = Next[x.state][2]
    OBVIOUS
  <1>3. to = "RESET" => q = <<>>
    <2> HIDE DEF to
    <2> QED
      OBVIOUS
  <1> HIDE DEF to, n, q
  <1> QED
    BY <1>1, <1>2, <1>3

LEMMA AfterType ==
  ASSUME NEW t \in Taps, NEW s \in Seq(Bits), NEW n \in 0 .. Len(s)
  PROVE  After(t, s, n) \in Taps
  <1> DEFINE S == {k \in Nat : k <= Len(s) => After(t, s, k) \in Taps}
  <1>1. 0 \in S
    BY AfterStep
  <1>2. ASSUME NEW k \in Nat, k \in S PROVE k + 1 \in S
    <2>1. SUFFICES ASSUME k + 1 <= Len(s) PROVE After(t, s, k + 1) \in Taps
      OBVIOUS
    <2>2. After(t, s, k) \in Taps /\ s[k + 1] \in Bits
      BY <1>2, <2>1
    <2>3. After(t, s, k + 1) = Clock(After(t, s, k), s[k + 1])
      BY AfterStep
    <2> QED
      BY <2>2, <2>3, ClockType
  <1>3. Nat \subseteq S
    <2> HIDE DEF S
    <2> QED
      BY <1>1, <1>2, SetInduction
  <1> QED
    BY <1>3

\* Appended bits are clocked after those before.
LEMMA AfterPrefix ==
  ASSUME NEW t, NEW s \in Seq(Bits), NEW r \in Seq(Bits), NEW n \in 0 .. Len(s)
  PROVE  After(t, s \o r, n) = After(t, s, n)
  <1> DEFINE S == {k \in Nat : k <= Len(s) => After(t, s \o r, k) = After(t, s, k)}
  <1>1. 0 \in S
    BY AfterStep
  <1>2. ASSUME NEW k \in Nat, k \in S PROVE k + 1 \in S
    <2>1. SUFFICES ASSUME k + 1 <= Len(s)
                   PROVE  After(t, s \o r, k + 1) = After(t, s, k + 1)
      OBVIOUS
    <2>2. (s \o r)[k + 1] = s[k + 1]
      BY <2>1
    <2>3. After(t, s \o r, k) = After(t, s, k)
      BY <1>2, <2>1
    <2>4. After(t, s \o r, k + 1) = Clock(After(t, s \o r, k), (s \o r)[k + 1])
      BY AfterStep
    <2>5. After(t, s, k + 1) = Clock(After(t, s, k), s[k + 1])
      BY AfterStep
    <2> QED
      BY <2>2, <2>3, <2>4, <2>5
  <1>3. Nat \subseteq S
    <2> HIDE DEF S
    <2> QED
      BY <1>1, <1>2, SetInduction
  <1> QED
    BY <1>3

LEMMA AfterConcat ==
  ASSUME NEW t, NEW s \in Seq(Bits), NEW r \in Seq(Bits), NEW n \in 0 .. Len(r)
  PROVE  After(t, s \o r, Len(s) + n) = After(Run(t, s), r, n)
  <1> DEFINE S == {k \in Nat : k <= Len(r) =>
                       After(t, s \o r, Len(s) + k) = After(Run(t, s), r, k)}
  <1>1. 0 \in S
    <2>1. After(Run(t, s), r, 0) = Run(t, s)
      BY AfterStep
    <2>2. After(t, s \o r, Len(s)) = Run(t, s)
      BY AfterPrefix DEF Run
    <2> QED
      BY <2>1, <2>2
  <1>2. ASSUME NEW k \in Nat, k \in S PROVE k + 1 \in S
    <2>1. SUFFICES ASSUME k + 1 <= Len(r)
                   PROVE  After(t, s \o r, Len(s) + (k + 1)) = After(Run(t, s), r, k + 1)
      OBVIOUS
    <2>0. \A i \in Nat : After(t, s \o r, i + 1) = Clock(After(t, s \o r, i), (s \o r)[i + 1])
      BY AfterStep
    <2> PICK m \in Nat : m = Len(s) + k
      OBVIOUS
    <2>2. m + 1 = Len(s) + (k + 1) /\ (s \o r)[m + 1] = r[k + 1]
      BY <2>1
    <2>3. After(t, s \o r, m) = After(Run(t, s), r, k)
      BY <1>2, <2>1
    <2>4. After(t, s \o r, m + 1) = Clock(After(t, s \o r, m), (s \o r)[m + 1])
      BY <2>0, Zenon
    <2>5. After(Run(t, s), r, k + 1) = Clock(After(Run(t, s), r, k), r[k + 1])
      BY AfterStep
    <2>6. After(t, s \o r, m + 1) = After(Run(t, s), r, k + 1)
      BY <2>2, <2>3, <2>4, <2>5
    <2> QED
      BY <2>2, <2>6, Zenon
  <1>3. Nat \subseteq S
    <2> HIDE DEF S
    <2> QED
      BY <1>1, <1>2, SetInduction
  <1> QED
    BY <1>3

LEMMA RunConcat ==
  ASSUME NEW t, NEW s \in Seq(Bits), NEW r \in Seq(Bits)
  PROVE  Run(t, s \o r) = Run(Run(t, s), r)
  <1>1. Len(s \o r) = Len(s) + Len(r) /\ Len(r) \in 0 .. Len(r)
    OBVIOUS
  <1> QED
    BY <1>1, AfterConcat DEF Run

-----------------------------------------------------------------------------
(* The pieces the engine appends, clocked.                                 *)

Tap(s, n, q) == [state |-> s, shifted |-> n, seen |-> q]

LEMMA TapIs == ASSUME NEW t \in Taps PROVE t = Tap(t.state, t.shifted, t.seen)
  BY DEF Taps, Tap

LEMMA ResetRow == \A n, q : Clock(Tap("RESET", n, q), 0) = Tap("IDLE", n, q)
  <1>1. Next["RESET"][1] = "IDLE"
    BY DEF Next
  <1> QED
    BY <1>1 DEF Clock, Tap

\* A register is updated.
LEMMA Updating ==
  ASSUME NEW s, NEW n, NEW q, s \notin {"DRSHIFT", "IRSHIFT", "DRCAPTURE", "IRCAPTURE"}
  PROVE  /\ Next[s][2] = "DRUPDATE" =>
              Clock(Tap(s, n, q), 1) = Tap("DRUPDATE", n, Append(q, <<"DR", n>>))
         /\ Next[s][2] = "IRUPDATE" =>
              Clock(Tap(s, n, q), 1) = Tap("IRUPDATE", n, Append(q, <<"IR", n>>))
  <1> DEFINE t == Tap(s, n, q)  to == Next[t.state][1 + 1]
             shifted == CASE t.state \in {"DRSHIFT", "IRSHIFT"} -> t.shifted + 1
                          [] t.state \in {"DRCAPTURE", "IRCAPTURE"} -> 0
                          [] OTHER -> t.shifted
             seen == CASE to = "RESET" -> <<>>
                       [] to = "DRUPDATE" -> Append(t.seen, <<"DR", t.shifted>>)
                       [] to = "IRUPDATE" -> Append(t.seen, <<"IR", t.shifted>>)
                       [] OTHER -> t.seen
  <1>1. t.state = s /\ t.shifted = n /\ t.seen = q
    BY DEF Tap
  <1>2. Clock(t, 1) = Tap(to, shifted, seen)
    BY DEF Clock, Tap
  <1>3. to = Next[s][2]
    <2>1. t.state = s /\ 1 + 1 = 2
      BY <1>1
    <2> HIDE DEF t
    <2> QED
      BY <2>1
  <1> HIDE DEF t
  <1>4. shifted = n
    BY <1>1
  <1> HIDE DEF shifted, to
  <1>5. to = "DRUPDATE" => seen = Append(q, <<"DR", n>>)
    BY <1>1
  <1>6. to = "IRUPDATE" => seen = Append(q, <<"IR", n>>)
    BY <1>1
  <1> QED
    BY <1>2, <1>3, <1>4, <1>5, <1>6 DEF t

\* The rows of the state machine the engine uses.
LEMMA Rows ==
  /\ \A n, q : Clock(Tap("IDLE", n, q), 0) = Tap("IDLE", n, q)
  /\ \A n, q : Clock(Tap("IDLE", n, q), 1) = Tap("DRSELECT", n, q)
  /\ \A n, q : Clock(Tap("DRSELECT", n, q), 0) = Tap("DRCAPTURE", n, q)
  /\ \A n, q : Clock(Tap("DRSELECT", n, q), 1) = Tap("IRSELECT", n, q)
  /\ \A n, q : Clock(Tap("IRSELECT", n, q), 0) = Tap("IRCAPTURE", n, q)
  /\ \A n, q : Clock(Tap("DRCAPTURE", n, q), 0) = Tap("DRSHIFT", 0, q)
  /\ \A n, q : Clock(Tap("DRCAPTURE", n, q), 1) = Tap("DREXIT1", 0, q)
  /\ \A n, q : Clock(Tap("IRCAPTURE", n, q), 0) = Tap("IRSHIFT", 0, q)
  /\ \A n, q : Clock(Tap("DREXIT1", n, q), 0) = Tap("DRPAUSE", n, q)
  /\ \A n, q : Clock(Tap("DREXIT1", n, q), 1) = Tap("DRUPDATE", n, Append(q, <<"DR", n>>))
  /\ \A n, q : Clock(Tap("IREXIT1", n, q), 1) = Tap("IRUPDATE", n, Append(q, <<"IR", n>>))
  /\ \A n, q : Clock(Tap("DRPAUSE", n, q), 1) = Tap("DREXIT2", n, q)
  /\ \A n, q : Clock(Tap("DREXIT2", n, q), 1) = Tap("DRUPDATE", n, Append(q, <<"DR", n>>))
  /\ \A n, q : Clock(Tap("DRUPDATE", n, q), 0) = Tap("IDLE", n, q)
  /\ \A n, q : Clock(Tap("DRUPDATE", n, q), 1) = Tap("DRSELECT", n, q)
  /\ \A n, q : Clock(Tap("IRUPDATE", n, q), 0) = Tap("IDLE", n, q)
  <1>1. /\ Next["IDLE"][1] = "IDLE" /\ Next["IDLE"][2] = "DRSELECT"
        /\ Next["DRSELECT"][1] = "DRCAPTURE" /\ Next["DRSELECT"][2] = "IRSELECT"
        /\ Next["IRSELECT"][1] = "IRCAPTURE"
        /\ Next["DRCAPTURE"][1] = "DRSHIFT" /\ Next["DRCAPTURE"][2] = "DREXIT1"
        /\ Next["IRCAPTURE"][1] = "IRSHIFT"
        /\ Next["DREXIT1"][1] = "DRPAUSE" /\ Next["DREXIT1"][2] = "DRUPDATE"
        /\ Next["IREXIT1"][2] = "IRUPDATE"
        /\ Next["DRPAUSE"][2] = "DREXIT2" /\ Next["DREXIT2"][2] = "DRUPDATE"
        /\ Next["DRUPDATE"][1] = "IDLE" /\ Next["DRUPDATE"][2] = "DRSELECT"
        /\ Next["IRUPDATE"][1] = "IDLE"
    BY DEF Next
  <1>2. /\ \A n, q : Clock(Tap("IDLE", n, q), 0) = Tap("IDLE", n, q)
        /\ \A n, q : Clock(Tap("IDLE", n, q), 1) = Tap("DRSELECT", n, q)
        /\ \A n, q : Clock(Tap("DRSELECT", n, q), 0) = Tap("DRCAPTURE", n, q)
        /\ \A n, q : Clock(Tap("DRSELECT", n, q), 1) = Tap("IRSELECT", n, q)
    BY <1>1 DEF Clock, Tap
  <1>3. /\ \A n, q : Clock(Tap("IRSELECT", n, q), 0) = Tap("IRCAPTURE", n, q)
        /\ \A n, q : Clock(Tap("DRCAPTURE", n, q), 0) = Tap("DRSHIFT", 0, q)
        /\ \A n, q : Clock(Tap("DRCAPTURE", n, q), 1) = Tap("DREXIT1", 0, q)
        /\ \A n, q : Clock(Tap("IRCAPTURE", n, q), 0) = Tap("IRSHIFT", 0, q)
    BY <1>1 DEF Clock, Tap
  <1>4. /\ \A n, q : Clock(Tap("DREXIT1", n, q), 0) = Tap("DRPAUSE", n, q)
        /\ \A n, q : Clock(Tap("DRPAUSE", n, q), 1) = Tap("DREXIT2", n, q)
        /\ \A n, q : Clock(Tap("DRUPDATE", n, q), 0) = Tap("IDLE", n, q)
        /\ \A n, q : Clock(Tap("DRUPDATE", n, q), 1) = Tap("DRSELECT", n, q)
    BY <1>1 DEF Clock, Tap
  <1>5. \A n, q : Clock(Tap("IRUPDATE", n, q), 0) = Tap("IDLE", n, q)
    BY <1>1 DEF Clock, Tap
  <1>6. \A n, q : Clock(Tap("DREXIT1", n, q), 1) = Tap("DRUPDATE", n, Append(q, <<"DR", n>>))
    <2> DEFINE s == "DREXIT1"
    <2>1. s \notin {"DRSHIFT", "IRSHIFT", "DRCAPTURE", "IRCAPTURE"} /\ Next[s][2] = "DRUPDATE"
      BY <1>1
    <2> HIDE DEF s
    <2>2. \A n, q : Clock(Tap(s, n, q), 1) = Tap("DRUPDATE", n, Append(q, <<"DR", n>>))
      BY <2>1, Updating
    <2> QED
      BY <2>2 DEF s
  <1>7. \A n, q : Clock(Tap("IREXIT1", n, q), 1) = Tap("IRUPDATE", n, Append(q, <<"IR", n>>))
    <2> DEFINE s == "IREXIT1"
    <2>1. s \notin {"DRSHIFT", "IRSHIFT", "DRCAPTURE", "IRCAPTURE"} /\ Next[s][2] = "IRUPDATE"
      BY <1>1
    <2> HIDE DEF s
    <2>2. \A n, q : Clock(Tap(s, n, q), 1) = Tap("IRUPDATE", n, Append(q, <<"IR", n>>))
      BY <2>1, Updating
    <2> QED
      BY <2>2 DEF s
  <1>8. \A n, q : Clock(Tap("DREXIT2", n, q), 1) = Tap("DRUPDATE", n, Append(q, <<"DR", n>>))
    <2> DEFINE s == "DREXIT2"
    <2>1. s \notin {"DRSHIFT", "IRSHIFT", "DRCAPTURE", "IRCAPTURE"} /\ Next[s][2] = "DRUPDATE"
      BY <1>1
    <2> HIDE DEF s
    <2>2. \A n, q : Clock(Tap(s, n, q), 1) = Tap("DRUPDATE", n, Append(q, <<"DR", n>>))
      BY <2>1, Updating
    <2> QED
      BY <2>2 DEF s
  <1> QED
    BY <1>2, <1>3, <1>4, <1>5, <1>6, <1>7, <1>8

LEMMA ShiftRows ==
  ASSUME NEW n, NEW q, NEW reg \in {"IR", "DR"}
  PROVE  /\ Clock(Tap(ShiftOf[reg], n, q), 0) = Tap(ShiftOf[reg], n + 1, q)
         /\ Clock(Tap(ShiftOf[reg], n, q), 1) = Tap(Exit1Of[reg], n + 1, q)
  <1>1. /\ Next["DRSHIFT"][1] = "DRSHIFT" /\ Next["DRSHIFT"][2] = "DREXIT1"
        /\ Next["IRSHIFT"][1] = "IRSHIFT" /\ Next["IRSHIFT"][2] = "IREXIT1"
    BY DEF Next
  <1> QED
    BY <1>1 DEF Clock, Tap, ShiftOf, Exit1Of

\* A run of few clocks, one after the other.
LEMMA Run1 ==
  ASSUME NEW t, NEW a
  PROVE  Run(t, <<a>>) = Clock(t, a)
  <1> DEFINE s == <<a>>
  <1>1. Len(s) = 1 /\ s[1] = a
    OBVIOUS
  <1>2. \A n \in Nat : After(t, s, n + 1) = Clock(After(t, s, n), s[n + 1])
    BY AfterStep
  <1>3. After(t, s, 0) = t
    BY AfterStep
  <1> HIDE DEF s
  <1>4. After(t, s, 1) = Clock(t, a)
    BY <1>1, <1>2, <1>3
  <1> QED
    BY <1>1, <1>4 DEF Run, s

LEMMA Run2 ==
  ASSUME NEW t, NEW a, NEW b
  PROVE  Run(t, <<a, b>>) = Clock(Clock(t, a), b)
  <1> DEFINE s == <<a, b>>
  <1>1. Len(s) = 2 /\ s[1] = a /\ s[2] = b
    OBVIOUS
  <1>2. \A n \in Nat : After(t, s, n + 1) = Clock(After(t, s, n), s[n + 1])
    BY AfterStep
  <1>3. After(t, s, 0) = t
    BY AfterStep
  <1> HIDE DEF s
  <1>4. After(t, s, 2) = Clock(Clock(t, a), b)
    BY <1>1, <1>2, <1>3
  <1> QED
    BY <1>1, <1>4 DEF Run, s

LEMMA Run3 ==
  ASSUME NEW t, NEW a, NEW b, NEW c
  PROVE  Run(t, <<a, b, c>>) = Clock(Clock(Clock(t, a), b), c)
  <1> DEFINE s == <<a, b, c>>
  <1>1. Len(s) = 3 /\ s[1] = a /\ s[2] = b /\ s[3] = c
    OBVIOUS
  <1>2. \A n \in Nat : After(t, s, n + 1) = Clock(After(t, s, n), s[n + 1])
    BY AfterStep
  <1>3. After(t, s, 0) = t
    BY AfterStep
  <1> HIDE DEF s
  <1>4. After(t, s, 3) = Clock(Clock(Clock(t, a), b), c)
    BY <1>1, <1>2, <1>3
  <1> QED
    BY <1>1, <1>4 DEF Run, s

LEMMA Run4 ==
  ASSUME NEW t, NEW a, NEW b, NEW c, NEW d
  PROVE  Run(t, <<a, b, c, d>>) = Clock(Clock(Clock(Clock(t, a), b), c), d)
  <1> DEFINE s == <<a, b, c, d>>
  <1>1. Len(s) = 4 /\ s[1] = a /\ s[2] = b /\ s[3] = c /\ s[4] = d
    OBVIOUS
  <1>2. \A n \in Nat : After(t, s, n + 1) = Clock(After(t, s, n), s[n + 1])
    BY AfterStep
  <1>3. After(t, s, 0) = t
    BY AfterStep
  <1> HIDE DEF s
  <1>4. After(t, s, 4) = Clock(Clock(Clock(Clock(t, a), b), c), d)
    BY <1>1, <1>2, <1>3
  <1> QED
    BY <1>1, <1>4 DEF Run, s

LEMMA Run5 ==
  ASSUME NEW t, NEW a, NEW b, NEW c, NEW d, NEW e
  PROVE  Run(t, <<a, b, c, d, e>>) = Clock(Clock(Clock(Clock(Clock(t, a), b), c), d), e)
  <1> DEFINE s == <<a, b, c, d, e>>
  <1>1. Len(s) = 5 /\ s[1] = a /\ s[2] = b /\ s[3] = c /\ s[4] = d /\ s[5] = e
    OBVIOUS
  <1>2. \A n \in Nat : After(t, s, n + 1) = Clock(After(t, s, n), s[n + 1])
    BY AfterStep
  <1>3. After(t, s, 0) = t
    BY AfterStep
  <1> HIDE DEF s
  <1>4. After(t, s, 5) = Clock(Clock(Clock(Clock(Clock(t, a), b), c), d), e)
    BY <1>1, <1>2, <1>3
  <1> QED
    BY <1>1, <1>4 DEF Run, s

LEMMA Run6 ==
  ASSUME NEW t, NEW a, NEW b, NEW c, NEW d, NEW e, NEW f
  PROVE  Run(t, <<a, b, c, d, e, f>>) = Clock(Clock(Clock(Clock(Clock(Clock(t, a), b), c), d), e), f)
  <1> DEFINE s == <<a, b, c, d, e, f>>
  <1>1. Len(s) = 6 /\ s[1] = a /\ s[2] = b /\ s[3] = c /\ s[4] = d /\ s[5] = e /\ s[6] = f
    OBVIOUS
  <1>2. \A n \in Nat : After(t, s, n + 1) = Clock(After(t, s, n), s[n + 1])
    BY AfterStep
  <1>3. After(t, s, 0) = t
    BY AfterStep
  <1> HIDE DEF s
  <1>4. After(t, s, 6) = Clock(Clock(Clock(Clock(Clock(Clock(t, a), b), c), d), e), f)
    BY <1>1, <1>2, <1>3
  <1> QED
    BY <1>1, <1>4 DEF Run, s

\* The moves: what each does to the TAPs.
LEMMA IdleMoves ==
  ASSUME NEW n, NEW q
  PROVE  /\ Run(Tap("IDLE", n, q), FromIdle["IRSHIFT"]) = Tap("IRSHIFT", 0, q)
         /\ Run(Tap("IDLE", n, q), FromIdle["DRSHIFT"]) = Tap("DRSHIFT", 0, q)
  <1>1. FromIdle["IRSHIFT"] = <<1, 1, 0, 0>> /\ FromIdle["DRSHIFT"] = <<1, 0, 0>>
    BY DEF FromIdle
  <1>2. Run(Tap("IDLE", n, q), FromIdle["IRSHIFT"]) = Tap("IRSHIFT", 0, q)
    <2>1. Run(Tap("IDLE", n, q), <<1, 1, 0, 0>>) = Clock(Clock(Clock(Clock(Tap("IDLE", n, q), 1), 1), 0), 0)
      BY Run4
    <2>2. /\ Clock(Tap("IDLE", n, q), 1) = Tap("DRSELECT", n, q)
          /\ Clock(Tap("DRSELECT", n, q), 1) = Tap("IRSELECT", n, q)
          /\ Clock(Tap("IRSELECT", n, q), 0) = Tap("IRCAPTURE", n, q)
          /\ Clock(Tap("IRCAPTURE", n, q), 0) = Tap("IRSHIFT", 0, q)
      BY Rows
    <2> QED
      BY <1>1, <2>1, <2>2
  <1>3. Run(Tap("IDLE", n, q), FromIdle["DRSHIFT"]) = Tap("DRSHIFT", 0, q)
    <2>1. Run(Tap("IDLE", n, q), <<1, 0, 0>>) = Clock(Clock(Clock(Tap("IDLE", n, q), 1), 0), 0)
      BY Run3
    <2>2. /\ Clock(Tap("IDLE", n, q), 1) = Tap("DRSELECT", n, q)
          /\ Clock(Tap("DRSELECT", n, q), 0) = Tap("DRCAPTURE", n, q)
          /\ Clock(Tap("DRCAPTURE", n, q), 0) = Tap("DRSHIFT", 0, q)
      BY Rows
    <2> QED
      BY <1>1, <2>1, <2>2
  <1> QED
    BY <1>2, <1>3

LEMMA Moves ==
  ASSUME NEW n, NEW q
  PROVE  /\ Run(Tap("DRPAUSE", n, q), FromPause["IRSHIFT"]) = Tap("IRSHIFT", 0, Append(q, <<"DR", n>>))
         /\ Run(Tap("DRPAUSE", n, q), FromPause["DRSHIFT"]) = Tap("DRSHIFT", 0, Append(q, <<"DR", n>>))
         /\ Run(Tap("DRPAUSE", n, q), FromPause["IDLE"]) = Tap("IDLE", n, Append(q, <<"DR", n>>))
         /\ Run(Tap("DREXIT1", n, q), FromExit1["IDLE"]) = Tap("IDLE", n, Append(q, <<"DR", n>>))
         /\ Run(Tap("IREXIT1", n, q), FromExit1["IDLE"]) = Tap("IDLE", n, Append(q, <<"IR", n>>))
         /\ Run(Tap("DREXIT1", n, q), FromExit1["DRPAUSE"]) = Tap("DRPAUSE", n, q)
  <1>1. /\ FromPause["IRSHIFT"] = <<1, 1, 1, 1, 0, 0>> /\ FromPause["DRSHIFT"] = <<1, 1, 1, 0, 0>>
        /\ FromPause["IDLE"] = <<1, 1, 0>>
        /\ FromExit1["IDLE"] = <<1, 0>> /\ FromExit1["DRPAUSE"] = <<0>>
    BY DEF FromPause, FromExit1
  <1>4. Run(Tap("DRPAUSE", n, q), FromPause["IRSHIFT"]) = Tap("IRSHIFT", 0, Append(q, <<"DR", n>>))
    <2>1. Run(Tap("DRPAUSE", n, q), <<1, 1, 1, 1, 0, 0>>) = Clock(Clock(Clock(Clock(Clock(Clock(Tap("DRPAUSE", n, q), 1), 1), 1), 1), 0), 0)
      BY Run6
    <2>2. /\ Clock(Tap("DRPAUSE", n, q), 1) = Tap("DREXIT2", n, q)
          /\ Clock(Tap("DREXIT2", n, q), 1) = Tap("DRUPDATE", n, Append(q, <<"DR", n>>))
          /\ Clock(Tap("DRUPDATE", n, Append(q, <<"DR", n>>)), 1) = Tap("DRSELECT", n, Append(q, <<"DR", n>>))
          /\ Clock(Tap("DRSELECT", n, Append(q, <<"DR", n>>)), 1) = Tap("IRSELECT", n, Append(q, <<"DR", n>>))
          /\ Clock(Tap("IRSELECT", n, Append(q, <<"DR", n>>)), 0) = Tap("IRCAPTURE", n, Append(q, <<"DR", n>>))
          /\ Clock(Tap("IRCAPTURE", n, Append(q, <<"DR", n>>)), 0) = Tap("IRSHIFT", 0, Append(q, <<"DR", n>>))
      BY Rows
    <2> QED
      BY <1>1, <2>1, <2>2
  <1>5. Run(Tap("DRPAUSE", n, q), FromPause["DRSHIFT"]) = Tap("DRSHIFT", 0, Append(q, <<"DR", n>>))
    <2>1. Run(Tap("DRPAUSE", n, q), <<1, 1, 1, 0, 0>>) = Clock(Clock(Clock(Clock(Clock(Tap("DRPAUSE", n, q), 1), 1), 1), 0), 0)
      BY Run5
    <2>2. /\ Clock(Tap("DRPAUSE", n, q), 1) = Tap("DREXIT2", n, q)
          /\ Clock(Tap("DREXIT2", n, q), 1) = Tap("DRUPDATE", n, Append(q, <<"DR", n>>))
          /\ Clock(Tap("DRUPDATE", n, Append(q, <<"DR", n>>)), 1) = Tap("DRSELECT", n, Append(q, <<"DR", n>>))
          /\ Clock(Tap("DRSELECT", n, Append(q, <<"DR", n>>)), 0) = Tap("DRCAPTURE", n, Append(q, <<"DR", n>>))
          /\ Clock(Tap("DRCAPTURE", n, Append(q, <<"DR", n>>)), 0) = Tap("DRSHIFT", 0, Append(q, <<"DR", n>>))
      BY Rows
    <2> QED
      BY <1>1, <2>1, <2>2
  <1>6. Run(Tap("DRPAUSE", n, q), FromPause["IDLE"]) = Tap("IDLE", n, Append(q, <<"DR", n>>))
    <2>1. Run(Tap("DRPAUSE", n, q), <<1, 1, 0>>) = Clock(Clock(Clock(Tap("DRPAUSE", n, q), 1), 1), 0)
      BY Run3
    <2>2. /\ Clock(Tap("DRPAUSE", n, q), 1) = Tap("DREXIT2", n, q)
          /\ Clock(Tap("DREXIT2", n, q), 1) = Tap("DRUPDATE", n, Append(q, <<"DR", n>>))
          /\ Clock(Tap("DRUPDATE", n, Append(q, <<"DR", n>>)), 0) = Tap("IDLE", n, Append(q, <<"DR", n>>))
      BY Rows
    <2> QED
      BY <1>1, <2>1, <2>2
  <1>7. Run(Tap("DREXIT1", n, q), FromExit1["IDLE"]) = Tap("IDLE", n, Append(q, <<"DR", n>>))
    <2>1. Run(Tap("DREXIT1", n, q), <<1, 0>>) = Clock(Clock(Tap("DREXIT1", n, q), 1), 0)
      BY Run2
    <2>2. /\ Clock(Tap("DREXIT1", n, q), 1) = Tap("DRUPDATE", n, Append(q, <<"DR", n>>))
          /\ Clock(Tap("DRUPDATE", n, Append(q, <<"DR", n>>)), 0) = Tap("IDLE", n, Append(q, <<"DR", n>>))
      BY Rows
    <2> QED
      BY <1>1, <2>1, <2>2
  <1>8. Run(Tap("IREXIT1", n, q), FromExit1["IDLE"]) = Tap("IDLE", n, Append(q, <<"IR", n>>))
    <2>1. Run(Tap("IREXIT1", n, q), <<1, 0>>) = Clock(Clock(Tap("IREXIT1", n, q), 1), 0)
      BY Run2
    <2>2. /\ Clock(Tap("IREXIT1", n, q), 1) = Tap("IRUPDATE", n, Append(q, <<"IR", n>>))
          /\ Clock(Tap("IRUPDATE", n, Append(q, <<"IR", n>>)), 0) = Tap("IDLE", n, Append(q, <<"IR", n>>))
      BY Rows
    <2> QED
      BY <1>1, <2>1, <2>2
  <1>9. Run(Tap("DREXIT1", n, q), FromExit1["DRPAUSE"]) = Tap("DRPAUSE", n, q)
    <2>1. Run(Tap("DREXIT1", n, q), <<0>>) = Clock(Tap("DREXIT1", n, q), 0)
      BY Run1
    <2>2. /\ Clock(Tap("DREXIT1", n, q), 0) = Tap("DRPAUSE", n, q)
      BY Rows
    <2> QED
      BY <1>1, <2>1, <2>2
  <1> QED
    BY <1>4, <1>5, <1>6, <1>7, <1>8, <1>9

-----------------------------------------------------------------------------
(* Scans: bits shifted in, and the reset.                                  *)

LEMMA PieceTypes ==
  ASSUME NEW k \in Nat
  PROVE  /\ Zeros(k) \in Seq(Bits) /\ Len(Zeros(k)) = k
         /\ LastOne(k) \in Seq(Bits) /\ Len(LastOne(k)) = k
         /\ \A i \in 1 .. k : Zeros(k)[i] = 0 /\ LastOne(k)[i] = IF i = k THEN 1 ELSE 0
  BY DEF Zeros, LastOne, Bits

\* While TMS stays 0 the TAPs shift.
LEMMA Shifting ==
  ASSUME NEW reg \in {"IR", "DR"}, NEW m \in Nat, NEW q, NEW s, NEW k \in Nat,
         \A i \in 1 .. k : s[i] = 0
  PROVE  After(Tap(ShiftOf[reg], m, q), s, k) = Tap(ShiftOf[reg], m + k, q)
  <1> DEFINE S == {i \in Nat : i <= k =>
                       After(Tap(ShiftOf[reg], m, q), s, i) = Tap(ShiftOf[reg], m + i, q)}
  <1>1. 0 \in S
    <2>1. \A t : After(t, s, 0) = t
      BY AfterStep
    <2>2. m + 0 = m
      OBVIOUS
    <2> QED
      BY <2>1, <2>2
  <1>2. ASSUME NEW i \in Nat, i \in S PROVE i + 1 \in S
    <2>1. SUFFICES ASSUME i + 1 <= k
                   PROVE  After(Tap(ShiftOf[reg], m, q), s, i + 1) = Tap(ShiftOf[reg], m + (i + 1), q)
      OBVIOUS
    <2>2. s[i + 1] = 0
      BY <2>1
    <2>3. After(Tap(ShiftOf[reg], m, q), s, i) = Tap(ShiftOf[reg], m + i, q)
      BY <1>2, <2>1
    <2>4. \A t : After(t, s, i + 1) = Clock(After(t, s, i), s[i + 1])
      BY AfterStep
    <2>5. \A n : Clock(Tap(ShiftOf[reg], n, q), 0) = Tap(ShiftOf[reg], n + 1, q)
      BY ShiftRows
    <2>6. (m + i) + 1 = m + (i + 1)
      OBVIOUS
    <2> QED
      BY <2>2, <2>3, <2>4, <2>5, <2>6
  <1>3. Nat \subseteq S
    <2> HIDE DEF S
    <2> QED
      BY <1>1, <1>2, SetInduction
  <1> QED
    BY <1>3

LEMMA ShiftZeros ==
  ASSUME NEW reg \in {"IR", "DR"}, NEW m \in Nat, NEW q, NEW k \in Nat
  PROVE  Run(Tap(ShiftOf[reg], m, q), Zeros(k)) = Tap(ShiftOf[reg], m + k, q)
  <1>1. Len(Zeros(k)) = k /\ \A i \in 1 .. k : Zeros(k)[i] = 0
    BY PieceTypes
  <1>2. \A s : (\A i \in 1 .. k : s[i] = 0) =>
                   After(Tap(ShiftOf[reg], m, q), s, k) = Tap(ShiftOf[reg], m + k, q)
    BY Shifting
  <1> QED
    BY <1>1, <1>2 DEF Run

\* The last bit of all leaves the shift state; until it comes they shift.
LEMMA ShiftToLast ==
  ASSUME NEW reg \in {"IR", "DR"}, NEW m \in Nat, NEW q, NEW k \in Nat, NEW j \in Nat, j < k
  PROVE  After(Tap(ShiftOf[reg], m, q), LastOne(k), j) = Tap(ShiftOf[reg], m + j, q)
  <1>1. \A i \in 1 .. j : LastOne(k)[i] = 0
    BY DEF LastOne
  <1> QED
    BY <1>1, Shifting

LEMMA ShiftLast ==
  ASSUME NEW reg \in {"IR", "DR"}, NEW m \in Nat, NEW q, NEW k \in Nat \ {0}
  PROVE  Run(Tap(ShiftOf[reg], m, q), LastOne(k)) = Tap(Exit1Of[reg], m + k, q)
  <1> DEFINE s == LastOne(k)
             t == Tap(ShiftOf[reg], m, q)
  <1>1. Len(s) = k /\ s[k] = 1
    BY DEF LastOne
  <1>2. After(t, s, k - 1) = Tap(ShiftOf[reg], m + (k - 1), q)
    <2>1. \A j \in Nat : j < k => After(t, s, j) = Tap(ShiftOf[reg], m + j, q)
      BY ShiftToLast
    <2>2. k - 1 \in Nat /\ k - 1 < k
      OBVIOUS
    <2> QED
      BY <2>1, <2>2
  <1>3. After(t, s, k) = Clock(After(t, s, k - 1), s[k])
    <2>1. \A j \in Nat : After(t, s, j + 1) = Clock(After(t, s, j), s[j + 1])
      BY AfterStep
    <2>2. k - 1 \in Nat /\ (k - 1) + 1 = k
      OBVIOUS
    <2> HIDE DEF s, t
    <2> QED
      BY <2>1, <2>2
  <1>4. \A n : Clock(Tap(ShiftOf[reg], n, q), 1) = Tap(Exit1Of[reg], n + 1, q)
    BY ShiftRows
  <1>5. (m + (k - 1)) + 1 = m + k
    OBVIOUS
  <1> QED
    BY <1>1, <1>2, <1>3, <1>4, <1>5 DEF Run

\* Idling.
LEMMA IdleZeros ==
  ASSUME NEW n, NEW q, NEW k \in Nat
  PROVE  Run(Tap("IDLE", n, q), Zeros(k)) = Tap("IDLE", n, q)
  <1> DEFINE s == Zeros(k)
             S == {i \in Nat : i <= k => After(Tap("IDLE", n, q), s, i) = Tap("IDLE", n, q)}
  <1>1. 0 \in S
    BY AfterStep
  <1>2. ASSUME NEW i \in Nat, i \in S PROVE i + 1 \in S
    <2>1. SUFFICES ASSUME i + 1 <= k PROVE After(Tap("IDLE", n, q), s, i + 1) = Tap("IDLE", n, q)
      OBVIOUS
    <2>2. s[i + 1] = 0
      BY <2>1, PieceTypes
    <2>3. After(Tap("IDLE", n, q), s, i) = Tap("IDLE", n, q)
      BY <1>2, <2>1
    <2>4. \A t : After(t, s, i + 1) = Clock(After(t, s, i), s[i + 1])
      BY AfterStep
    <2>5. Clock(Tap("IDLE", n, q), 0) = Tap("IDLE", n, q)
      BY Rows
    <2> QED
      BY <2>2, <2>3, <2>4, <2>5
  <1>3. Nat \subseteq S
    <2> HIDE DEF S
    <2> QED
      BY <1>1, <1>2, SetInduction
  <1> QED
    BY <1>3, PieceTypes DEF Run

\* Whatever state they were in, eight ones and a zero leave the TAPs idle, with
\* no scan to be seen.
LEMMA Reset ==
  ASSUME NEW t \in Taps
  PROVE  \E n \in Nat : Run(t, ResetBits) = Tap("IDLE", n, <<>>)
  <1> DEFINE A(i) == After(t, ResetBits, i)
  <1>1. /\ ResetBits \in Seq(Bits) /\ Len(ResetBits) = 9
        /\ ResetBits[1] = 1 /\ ResetBits[2] = 1 /\ ResetBits[3] = 1 /\ ResetBits[4] = 1
        /\ ResetBits[5] = 1 /\ ResetBits[6] = 1 /\ ResetBits[7] = 1 /\ ResetBits[8] = 1
        /\ ResetBits[9] = 0
    BY DEF ResetBits, Bits
  <1>2. \A i \in 0 .. 9 : A(i) \in Taps
    BY <1>1, AfterType
  <1>3. \A i \in Nat : A(i + 1) = Clock(A(i), ResetBits[i + 1])
    BY AfterStep
  <1> HIDE DEF A
  <1>4. /\ A(1) = Clock(A(0), 1) /\ A(2) = Clock(A(1), 1) /\ A(3) = Clock(A(2), 1)
        /\ A(4) = Clock(A(3), 1) /\ A(5) = Clock(A(4), 1) /\ A(6) = Clock(A(5), 1)
        /\ A(7) = Clock(A(6), 1) /\ A(8) = Clock(A(7), 1) /\ A(9) = Clock(A(8), 0)
    BY <1>1, <1>3
  <1>5. \A x \in Taps : /\ Clock(x, 1).state = Next[x.state][2]
                        /\ Clock(x, 1).state = "RESET" => Clock(x, 1).seen = <<>>
    BY ClockOne
  <1>6. \A s \in TapStates :
           Next[s][2] \in {"RESET", "DRSELECT", "IRSELECT", "DREXIT1", "IREXIT1", "DREXIT2",
                           "IREXIT2", "DRUPDATE", "IRUPDATE"}
    BY DEF Next, TapStates
  <1>7. \A s \in {"RESET", "DRSELECT", "IRSELECT", "DREXIT1", "IREXIT1", "DREXIT2",
                  "IREXIT2", "DRUPDATE", "IRUPDATE"} :
           Next[s][2] \in {"RESET", "DRSELECT", "IRSELECT", "DRUPDATE", "IRUPDATE"}
    BY DEF Next
  <1>8. /\ \A s \in {"RESET", "DRSELECT", "IRSELECT", "DRUPDATE", "IRUPDATE"} :
              Next[s][2] \in {"RESET", "DRSELECT", "IRSELECT"}
        /\ \A s \in {"RESET", "DRSELECT", "IRSELECT"} : Next[s][2] \in {"RESET", "IRSELECT"}
        /\ \A s \in {"RESET", "IRSELECT"} : Next[s][2] = "RESET"
        /\ Next["RESET"][1] = "IDLE" /\ Next["RESET"][2] = "RESET"
    BY DEF Next
  <1>9. A(0).state \in TapStates
    BY <1>2 DEF Taps
  <1>10. A(1).state \in {"RESET", "DRSELECT", "IRSELECT", "DREXIT1", "IREXIT1", "DREXIT2",
                         "IREXIT2", "DRUPDATE", "IRUPDATE"}
    BY <1>2, <1>4, <1>5, <1>6, <1>9
  <1>11. A(2).state \in {"RESET", "DRSELECT", "IRSELECT", "DRUPDATE", "IRUPDATE"}
    BY <1>2, <1>4, <1>5, <1>7, <1>10
  <1>12. A(3).state \in {"RESET", "DRSELECT", "IRSELECT"}
    BY <1>2, <1>4, <1>5, <1>8, <1>11
  <1>13. A(4).state \in {"RESET", "IRSELECT"}
    BY <1>2, <1>4, <1>5, <1>8, <1>12
  <1>14. A(5).state = "RESET" /\ A(6).state = "RESET" /\ A(7).state = "RESET" /\ A(8).state = "RESET"
    BY <1>2, <1>4, <1>5, <1>8, <1>13
  <1>15. A(8).seen = <<>>
    BY <1>2, <1>4, <1>5, <1>14
  <1>16. A(9) = Tap("IDLE", A(8).shifted, <<>>)
    <2>1. A(8) = Tap("RESET", A(8).shifted, <<>>)
      <3>1. A(8) \in Taps
        BY <1>2
      <3>2. A(8) = Tap(A(8).state, A(8).shifted, A(8).seen)
        BY <3>1, TapIs
      <3> QED
        BY <1>14, <1>15, <3>2
    <2>2. Clock(Tap("RESET", A(8).shifted, <<>>), 0) = Tap("IDLE", A(8).shifted, <<>>)
      BY ResetRow
    <2> QED
      BY <1>4, <2>1, <2>2, Zenon
  <1>17. A(8).shifted \in Nat
    BY <1>2 DEF Taps
  <1> QED
    BY <1>1, <1>16, <1>17 DEF Run, A

LEMMA AppendThree ==
  ASSUME NEW S, NEW q \in Seq(S), NEW x \in S, NEW y \in S, NEW z \in S
  PROVE  Append(Append(Append(q, x), y), z) = q \o <<x, y, z>>
  <1>1. Append(Append(Append(q, x), y), z) \in Seq(S) /\ q \o <<x, y, z>> \in Seq(S)
    OBVIOUS
  <1>2. Len(Append(Append(Append(q, x), y), z)) = Len(q \o <<x, y, z>>)
    OBVIOUS
  <1>3. \A i \in 1 .. Len(q) + 3 : Append(Append(Append(q, x), y), z)[i] = (q \o <<x, y, z>>)[i]
    OBVIOUS
  <1> QED
    BY <1>1, <1>2, <1>3

\* The opening of a cJTAG transaction: two scans of no bits, one of one.
LEMMA Opening ==
  ASSUME NEW n, NEW q \in Seq(Scans)
  PROVE  Run(Tap("IDLE", n, q), <<1,0,1,1, 1,0,1,1, 1,0,0,1,1,0>>)
           = Tap("IDLE", 1, q \o <<<<"DR", 0>>, <<"DR", 0>>, <<"DR", 1>>>>)
  <1> DEFINE a == <<1, 0, 1, 1>>
             b == <<1, 0, 0, 1, 1, 0>>
             q1 == Append(q, <<"DR", 0>>)
             q2 == Append(q1, <<"DR", 0>>)
             q3 == Append(q2, <<"DR", 1>>)
  <1>1. a \in Seq(Bits) /\ b \in Seq(Bits) /\ a \o a \in Seq(Bits)
    BY DEF Bits
  <1>2. <<1,0,1,1, 1,0,1,1, 1,0,0,1,1,0>> = (a \o a) \o b
    OBVIOUS
  <1>3. q3 = q \o <<<<"DR", 0>>, <<"DR", 0>>, <<"DR", 1>>>>
    <2>1. <<"DR", 0>> \in Scans /\ <<"DR", 1>> \in Scans
      BY DEF Scans
    <2> QED
      BY <2>1, AppendThree
  <1>4. \A t : Run(t, (a \o a) \o b) = Run(Run(Run(t, a), a), b)
    <2>1. \A t : Run(t, (a \o a) \o b) = Run(Run(t, a \o a), b)
      BY <1>1, RunConcat
    <2>2. \A t : Run(t, a \o a) = Run(Run(t, a), a)
      BY <1>1, RunConcat
    <2> HIDE DEF a, b
    <2> QED
      BY <2>1, <2>2
  <1>5. \A t : /\ Run(t, a) = Clock(Clock(Clock(Clock(t, 1), 0), 1), 1)
               /\ Run(t, b) = Clock(Clock(Clock(Clock(Clock(Clock(t, 1), 0), 0), 1), 1), 0)
    BY Run4, Run6
  <1>6. /\ \A m : Clock(Tap("IDLE", m, q), 1) = Tap("DRSELECT", m, q)
        /\ \A m, p : Clock(Tap("DRUPDATE", m, p), 1) = Tap("DRSELECT", m, p)
        /\ \A m, p : Clock(Tap("DRSELECT", m, p), 0) = Tap("DRCAPTURE", m, p)
        /\ \A m, p : Clock(Tap("DRCAPTURE", m, p), 1) = Tap("DREXIT1", 0, p)
        /\ \A m, p : Clock(Tap("DRCAPTURE", m, p), 0) = Tap("DRSHIFT", 0, p)
        /\ \A m, p : Clock(Tap("DREXIT1", m, p), 1) = Tap("DRUPDATE", m, Append(p, <<"DR", m>>))
        /\ \A m, p : Clock(Tap("DRUPDATE", m, p), 0) = Tap("IDLE", m, p)
    BY Rows
  <1>7. \A p : Clock(Tap("DRSHIFT", 0, p), 1) = Tap("DREXIT1", 1, p)
    <2>1. \A m, p : Clock(Tap("DRSHIFT", m, p), 1) = Tap("DREXIT1", m + 1, p)
      BY ShiftRows DEF ShiftOf, Exit1Of
    <2> QED
      BY <2>1
  <1> HIDE DEF a, b
  <1>8. Run(Tap("IDLE", n, q), a) = Tap("DRUPDATE", 0, q1)
    BY <1>5, <1>6
  <1>9. Run(Tap("DRUPDATE", 0, q1), a) = Tap("DRUPDATE", 0, q2)
    BY <1>5, <1>6
  <1>10. Run(Tap("DRUPDATE", 0, q2), b) = Tap("IDLE", 1, q3)
    BY <1>5, <1>6, <1>7
  <1> QED
    BY <1>2, <1>3, <1>4, <1>8, <1>9, <1>10

\* A parameter of a cJTAG command is seen as the length of a scan.
LEMMA Parameter ==
  ASSUME NEW n, NEW q, NEW cp \in Nat
  PROVE  /\ CJtagBits(cp) \in Seq(Bits) /\ CJtagBits(cp) # <<>>
         /\ Run(Tap("IDLE", n, q), CJtagBits(cp)) = Tap("IDLE", cp, Append(q, <<"DR", cp>>))
  <1> DEFINE z == Zeros(cp)
             a == <<1, 0>>
             b == <<1, 1, 0>>
  <1>1. CASE cp = 0
    <2>1. CJtagBits(cp) = <<1, 0, 1, 1, 0>>
      BY <1>1 DEF CJtagBits
    <2>2. Run(Tap("IDLE", n, q), <<1, 0, 1, 1, 0>>)
            = Clock(Clock(Clock(Clock(Clock(Tap("IDLE", n, q), 1), 0), 1), 1), 0)
      BY Run5
    <2>3. /\ Clock(Tap("IDLE", n, q), 1) = Tap("DRSELECT", n, q)
          /\ Clock(Tap("DRSELECT", n, q), 0) = Tap("DRCAPTURE", n, q)
          /\ Clock(Tap("DRCAPTURE", n, q), 1) = Tap("DREXIT1", 0, q)
          /\ Clock(Tap("DREXIT1", 0, q), 1) = Tap("DRUPDATE", 0, Append(q, <<"DR", 0>>))
          /\ Clock(Tap("DRUPDATE", 0, Append(q, <<"DR", 0>>)), 0) = Tap("IDLE", 0, Append(q, <<"DR", 0>>))
      BY Rows
    <2>4. CJtagBits(cp) \in Seq(Bits) /\ CJtagBits(cp) # <<>>
      BY <2>1 DEF Bits
    <2> QED
      BY <1>1, <2>1, <2>2, <2>3, <2>4
  <1>2. CASE cp # 0
    <2>1. CJtagBits(cp) = (a \o z) \o b
      BY <1>2 DEF CJtagBits
    <2>2. a \in Seq(Bits) /\ b \in Seq(Bits) /\ Len(a) = 2
      BY DEF Bits
    <2>3. z \in Seq(Bits) /\ Len(z) = cp
      BY PieceTypes
    <2>4. \A i \in 1 .. cp : z[i] = 0
      BY PieceTypes
    <2> HIDE DEF z
    <2>5. a \o z \in Seq(Bits) /\ (a \o z) \o b \in Seq(Bits) /\ (a \o z) \o b # <<>>
      BY <2>2, <2>3
    <2>6. \A t : Run(t, (a \o z) \o b) = Run(Run(Run(t, a), z), b)
      <3>1. \A t : Run(t, (a \o z) \o b) = Run(Run(t, a \o z), b)
        BY <2>2, <2>5, RunConcat
      <3>2. \A t : Run(t, a \o z) = Run(Run(t, a), z)
        BY <2>2, <2>3, RunConcat
      <3> HIDE DEF a, b
      <3> QED
        BY <3>1, <3>2
    <2>7. \A t : Run(t, a) = Clock(Clock(t, 1), 0) /\ Run(t, b) = Clock(Clock(Clock(t, 1), 1), 0)
      BY Run2, Run3
    <2>8. Run(Tap("IDLE", n, q), a) = Tap("DRCAPTURE", n, q)
      <3>1. /\ Clock(Tap("IDLE", n, q), 1) = Tap("DRSELECT", n, q)
            /\ Clock(Tap("DRSELECT", n, q), 0) = Tap("DRCAPTURE", n, q)
        BY Rows
      <3> HIDE DEF a
      <3> QED
        BY <2>7, <3>1
    <2>9. Run(Tap("DRCAPTURE", n, q), z) = Tap("DRSHIFT", cp - 1, q)
      <3> DEFINE S == {i \in Nat : i + 1 <= cp =>
                           After(Tap("DRCAPTURE", n, q), z, i + 1) = Tap("DRSHIFT", i, q)}
      <3>1. \A t, i : i \in Nat => After(t, z, 0) = t /\ After(t, z, i + 1) = Clock(After(t, z, i), z[i + 1])
        BY AfterStep
      <3>2. 0 \in S
        <4>1. Clock(Tap("DRCAPTURE", n, q), 0) = Tap("DRSHIFT", 0, q)
          BY Rows
        <4>2. z[1] = 0 /\ 0 + 1 = 1
          BY <1>2, <2>4
        <4> QED
          BY <3>1, <4>1, <4>2
      <3>3. ASSUME NEW i \in Nat, i \in S PROVE i + 1 \in S
        <4>1. SUFFICES ASSUME (i + 1) + 1 <= cp
                       PROVE  After(Tap("DRCAPTURE", n, q), z, (i + 1) + 1) = Tap("DRSHIFT", i + 1, q)
          OBVIOUS
        <4>2. After(Tap("DRCAPTURE", n, q), z, i + 1) = Tap("DRSHIFT", i, q)
          BY <3>3, <4>1
        <4>3. z[(i + 1) + 1] = 0 /\ i + 1 \in Nat
          BY <2>4, <4>1
        <4>4. Clock(Tap("DRSHIFT", i, q), 0) = Tap("DRSHIFT", i + 1, q)
          BY ShiftRows DEF ShiftOf
        <4>5. \A x, j : j \in Nat => After(x, z, j + 1) = Clock(After(x, z, j), z[j + 1])
          BY <3>1
        <4>6. After(Tap("DRCAPTURE", n, q), z, (i + 1) + 1)
                = Clock(After(Tap("DRCAPTURE", n, q), z, i + 1), z[(i + 1) + 1])
          BY <4>3, <4>5, Zenon
        <4> QED
          BY <4>2, <4>3, <4>4, <4>6
      <3>4. Nat \subseteq S
        <4> HIDE DEF S
        <4> QED
          BY <3>2, <3>3, SetInduction
      <3>5. cp - 1 \in S /\ (cp - 1) + 1 = cp
        BY <1>2, <3>4
      <3> QED
        BY <2>3, <3>5 DEF Run
    <2>10. Run(Tap("DRSHIFT", cp - 1, q), b) = Tap("IDLE", cp, Append(q, <<"DR", cp>>))
      <3>1. Clock(Tap("DRSHIFT", cp - 1, q), 1) = Tap("DREXIT1", cp, q)
        <4>1. Clock(Tap("DRSHIFT", cp - 1, q), 1) = Tap("DREXIT1", (cp - 1) + 1, q)
          BY ShiftRows DEF ShiftOf, Exit1Of
        <4> QED
          BY <4>1
      <3>2. /\ Clock(Tap("DREXIT1", cp, q), 1) = Tap("DRUPDATE", cp, Append(q, <<"DR", cp>>))
            /\ Clock(Tap("DRUPDATE", cp, Append(q, <<"DR", cp>>)), 0) = Tap("IDLE", cp, Append(q, <<"DR", cp>>))
        BY Rows
      <3> HIDE DEF b
      <3> QED
        BY <2>7, <3>1, <3>2
    <2> HIDE DEF a, b
    <2> QED
      BY <2>1, <2>5, <2>6, <2>8, <2>9, <2>10
  <1> QED
    BY <1>1, <1>2

-----------------------------------------------------------------------------
(* Where the results are taken from.                                       *)

Offsets(f, b, n) ==
    f = [i \in 1 .. n |-> IF i = 1 THEN 0 ELSE f[i - 1] + b[i - 1]]
TheOffsets(b, n) == CHOOSE f : Offsets(f, b, n)

LEMMA OffsetIs == ASSUME NEW t, NEW n PROVE ResultOffset(t, n) = TheOffsets(t.bits, n)[n]
  BY DEF ResultOffset, TheOffsets, Offsets

LEMMA OffsetsExist ==
  ASSUME NEW b, NEW n \in Nat PROVE Offsets(TheOffsets(b, n), b, n)
  <1> DEFINE S == {k \in Nat : \E f : Offsets(f, b, k)}
  <1>1. 0 \in S
    <2>1. Offsets([i \in 1 .. 0 |-> 0], b, 0)
      BY DEF Offsets
    <2> QED
      BY <2>1
  <1>2. ASSUME NEW k \in Nat, k \in S PROVE k + 1 \in S
    <2>1. PICK f : Offsets(f, b, k)
      BY <1>2
    <2> DEFINE g == [i \in 1 .. k + 1 |-> IF i = 1 THEN 0
                                          ELSE IF i = k + 1 THEN f[k] + b[k] ELSE f[i]]
    <2>2. Offsets(g, b, k + 1)
      BY <2>1 DEF Offsets
    <2> QED
      BY <2>2
  <1>3. Nat \subseteq S
    <2> HIDE DEF S
    <2> QED
      BY <1>1, <1>2, SetInduction
  <1> QED
    BY <1>3 DEF TheOffsets

\* The offset of a piece depends on the pieces before it.
LEMMA OffsetsAgree ==
  ASSUME NEW b, NEW c, NEW n \in Nat, NEW m \in Nat, NEW k \in Nat \ {0}, k <= n, k <= m,
         \A i \in 1 .. k - 1 : b[i] = c[i]
  PROVE  TheOffsets(b, n)[k] = TheOffsets(c, m)[k]
  <1> DEFINE f == TheOffsets(b, n)
             g == TheOffsets(c, m)
             S == {i \in Nat : i + 1 <= k => f[i + 1] = g[i + 1]}
  <1>1. Offsets(f, b, n) /\ Offsets(g, c, m)
    BY OffsetsExist
  <1> HIDE DEF f, g
  <1>2. 0 \in S
    BY <1>1 DEF Offsets
  <1>3. ASSUME NEW i \in Nat, i \in S PROVE i + 1 \in S
    <2>1. SUFFICES ASSUME (i + 1) + 1 <= k PROVE f[(i + 1) + 1] = g[(i + 1) + 1]
      OBVIOUS
    <2>2. f[(i + 1) + 1] = f[i + 1] + b[i + 1] /\ g[(i + 1) + 1] = g[i + 1] + c[i + 1]
      BY <1>1, <2>1 DEF Offsets
    <2>3. f[i + 1] = g[i + 1] /\ b[i + 1] = c[i + 1]
      BY <1>3, <2>1
    <2> QED
      BY <2>2, <2>3
  <1>4. Nat \subseteq S
    <2> HIDE DEF S
    <2> QED
      BY <1>2, <1>3, SetInduction
  <1>5. f[k] = g[k]
    <2>1. k - 1 \in S /\ (k - 1) + 1 = k
      BY <1>4
    <2> QED
      BY <2>1
  <1> QED
    BY <1>5 DEF f, g

LEMMA OffsetStep ==
  ASSUME NEW t
  PROVE  /\ ResultOffset(t, 1) = 0
         /\ \A n \in Nat \ {0} : ResultOffset(t, n + 1) = ResultOffset(t, n) + t.bits[n]
  <1>1. ResultOffset(t, 1) = 0
    <2>1. Offsets(TheOffsets(t.bits, 1), t.bits, 1)
      BY OffsetsExist
    <2> QED
      BY <2>1, OffsetIs DEF Offsets
  <1>2. ASSUME NEW n \in Nat \ {0}
        PROVE  ResultOffset(t, n + 1) = ResultOffset(t, n) + t.bits[n]
    <2> DEFINE f == TheOffsets(t.bits, n + 1)
    <2>1. Offsets(f, t.bits, n + 1)
      BY OffsetsExist
    <2>2. f[n] = TheOffsets(t.bits, n)[n]
      <3>1. \A b : \A m \in Nat : n <= m => TheOffsets(b, m)[n] = TheOffsets(b, n)[n]
        BY OffsetsAgree
      <3>2. n + 1 \in Nat /\ n <= n + 1
        OBVIOUS
      <3> QED
        BY <3>1, <3>2
    <2> HIDE DEF f
    <2>3. f[n + 1] = f[n] + t.bits[n]
      BY <2>1 DEF Offsets
    <2> QED
      BY <2>2, <2>3, OffsetIs DEF f
  <1> QED
    BY <1>1, <1>2

LEMMA OffsetKept ==
  ASSUME NEW t, NEW u, NEW n \in Nat \ {0}, \A i \in 1 .. n - 1 : t.bits[i] = u.bits[i]
  PROVE  ResultOffset(t, n) = ResultOffset(u, n)
  <1>1. \A b, c : (\A i \in 1 .. n - 1 : b[i] = c[i]) => TheOffsets(b, n)[n] = TheOffsets(c, n)[n]
    BY OffsetsAgree
  <1> QED
    BY <1>1, OffsetIs

-----------------------------------------------------------------------------
(* Transactions: what appending to one keeps.                              *)

Txns == [state : TapStates \cup {"UNKNOWN"}, status : {0, -1},
         pads : [{"IR", "DR"} -> [pre : Nat, post : Nat]],
         tms : Seq(Bits), bits : Seq(Nat \ {0}), want : Seq(BOOLEAN)]

\* The pieces make up the bits, one after the other.
Whole(t) ==
    /\ Len(t.tms) <= MaxBits
    /\ Len(t.want) = Len(t.bits)
    /\ ResultOffset(t, Len(t.bits) + 1) = Len(t.tms)
    /\ \A n \in 1 .. Len(t.bits) : /\ ResultOffset(t, n) \in Nat
                                   /\ ResultOffset(t, n) + t.bits[n] <= Len(t.tms)

Ok(t) == t \in Txns /\ Whole(t)

\* u is t after some operation: a failure stays, and the pads do.
Kept(t, u) == Ok(u) /\ u.pads = t.pads /\ (u.status = 0 => t.status = 0)

\* What ResultsInPlace says of a transaction that starts with the TAPs at x.
Placed(x, t) ==
    \A n \in DOMAIN t.bits : t.want[n] =>
        LET first == After(x, t.tms, ResultOffset(t, n))
            last == After(x, t.tms, ResultOffset(t, n) + t.bits[n] - 1)
        IN  /\ first.state = "DRSHIFT" /\ first.shifted = t.pads["DR"].pre
            /\ last.state = "DRSHIFT" /\ last.shifted = first.shifted + t.bits[n] - 1

\* u is t with the bits s appended as one piece.
Grown(t, u, s, w) ==
    /\ u.tms = t.tms \o s /\ u.bits = Append(t.bits, Len(s)) /\ u.want = Append(t.want, w)
    /\ u.pads = t.pads

LEMMA GrownOffsets ==
  ASSUME NEW t \in Txns, NEW u \in Txns, NEW s, NEW w, Grown(t, u, s, w)
  PROVE  \A n \in 1 .. Len(t.bits) + 1 : ResultOffset(u, n) = ResultOffset(t, n)
  <1>1. t.bits \in Seq(Nat \ {0}) /\ u.bits = Append(t.bits, Len(s))
    BY DEF Txns, Grown
  <1>2. \A i \in 1 .. Len(t.bits) : u.bits[i] = t.bits[i]
    BY <1>1
  <1>3. SUFFICES ASSUME NEW n \in 1 .. Len(t.bits) + 1
                 PROVE  ResultOffset(u, n) = ResultOffset(t, n)
    OBVIOUS
  <1>4. n \in Nat \ {0} /\ \A i \in 1 .. n - 1 : u.bits[i] = t.bits[i]
    BY <1>1, <1>2
  <1> QED
    BY <1>4, OffsetKept

LEMMA GrownWhole ==
  ASSUME NEW t \in Txns, NEW u \in Txns, NEW s \in Seq(Bits), NEW w \in BOOLEAN,
         Whole(t), Grown(t, u, s, w), Len(u.tms) <= MaxBits
  PROVE  Whole(u)
  <1>1. /\ t.bits \in Seq(Nat \ {0}) /\ t.tms \in Seq(Bits) /\ t.want \in Seq(BOOLEAN)
        /\ u.bits = Append(t.bits, Len(s)) /\ u.tms = t.tms \o s /\ u.want = Append(t.want, w)
    BY DEF Txns, Grown
  <1> DEFINE k == Len(t.bits)
  <1>2. /\ k \in Nat /\ Len(u.bits) = k + 1 /\ u.bits[k + 1] = Len(s)
        /\ \A i \in 1 .. k : u.bits[i] = t.bits[i] /\ t.bits[i] \in Nat
        /\ Len(u.tms) = Len(t.tms) + Len(s) /\ Len(u.want) = Len(t.want) + 1
        /\ Len(s) \in Nat /\ Len(t.tms) \in Nat
    BY <1>1
  <1>3. \A n \in 1 .. k + 1 : ResultOffset(u, n) = ResultOffset(t, n)
    BY GrownOffsets
  <1>4. \A n \in Nat \ {0} : ResultOffset(u, n + 1) = ResultOffset(u, n) + u.bits[n]
    BY OffsetStep
  <1>5. /\ ResultOffset(t, k + 1) = Len(t.tms) /\ Len(t.want) = k
        /\ \A n \in 1 .. k : /\ ResultOffset(t, n) \in Nat
                             /\ ResultOffset(t, n) + t.bits[n] <= Len(t.tms)
    BY DEF Whole
  <1> HIDE DEF k
  <1>6. ResultOffset(u, k + 1) = Len(t.tms)
    BY <1>2, <1>3, <1>5
  <1>7. k + 1 \in Nat \ {0}
    BY <1>2
  <1>8. ResultOffset(u, (k + 1) + 1) = Len(u.tms)
    BY <1>2, <1>4, <1>6, <1>7
  <1>9. ASSUME NEW n \in 1 .. k + 1
        PROVE  ResultOffset(u, n) \in Nat /\ ResultOffset(u, n) + u.bits[n] <= Len(u.tms)
    <2>1. CASE n = k + 1
      BY <1>2, <1>6, <2>1
    <2>2. CASE n \in 1 .. k
      <3>1. ResultOffset(u, n) = ResultOffset(t, n) /\ u.bits[n] = t.bits[n] /\ t.bits[n] \in Nat
        BY <1>2, <1>3, <2>2
      <3>2. ResultOffset(t, n) \in Nat /\ ResultOffset(t, n) + t.bits[n] <= Len(t.tms)
        BY <1>5, <2>2
      <3>3. Len(u.tms) = Len(t.tms) + Len(s) /\ Len(s) \in Nat /\ Len(t.tms) \in Nat
        BY <1>2
      <3> QED
        BY <3>1, <3>2, <3>3
    <2> QED
      BY <1>2, <2>1, <2>2
  <1> QED
    BY <1>2, <1>5, <1>8, <1>9 DEF Whole

LEMMA GrownPlaced ==
  ASSUME NEW x, NEW t \in Txns, NEW u \in Txns, NEW s \in Seq(Bits), NEW w \in BOOLEAN,
         Whole(t), Grown(t, u, s, w), s # <<>>, Placed(x, t),
         w => \E q : /\ Run(x, t.tms) = Tap("DRSHIFT", t.pads["DR"].pre, q)
                     /\ After(Run(x, t.tms), s, Len(s) - 1)
                          = Tap("DRSHIFT", t.pads["DR"].pre + (Len(s) - 1), q)
  PROVE  Placed(x, u)
  <1>1. /\ t.bits \in Seq(Nat \ {0}) /\ t.tms \in Seq(Bits) /\ t.want \in Seq(BOOLEAN)
        /\ u.bits = Append(t.bits, Len(s)) /\ u.tms = t.tms \o s /\ u.want = Append(t.want, w)
        /\ u.pads = t.pads /\ t.pads["DR"].pre \in Nat
    BY DEF Txns, Grown
  <1> DEFINE k == Len(t.bits)
             off(n) == ResultOffset(t, n)
             pre == t.pads["DR"].pre
  <1>2. /\ k \in Nat /\ Len(t.want) = k /\ DOMAIN u.bits = 1 .. k + 1 /\ DOMAIN t.bits = 1 .. k
        /\ u.bits[k + 1] = Len(s) /\ u.want[k + 1] = w
        /\ \A i \in 1 .. k : u.bits[i] = t.bits[i] /\ t.bits[i] \in Nat \ {0} /\ u.want[i] = t.want[i]
        /\ Len(s) \in Nat \ {0} /\ Len(t.tms) \in Nat
    <2>1. Len(t.want) = k
      BY DEF Whole
    <2>2. Len(s) \in Nat \ {0}
      OBVIOUS
    <2>3. \A i \in 1 .. k : u.bits[i] = t.bits[i] /\ t.bits[i] \in Nat \ {0}
      BY <1>1
    <2>4. \A i \in 1 .. k : u.want[i] = t.want[i]
      BY <1>1, <2>1
    <2>5. u.want[k + 1] = w
      BY <1>1, <2>1
    <2>6. /\ k \in Nat /\ DOMAIN u.bits = 1 .. k + 1 /\ DOMAIN t.bits = 1 .. k
          /\ u.bits[k + 1] = Len(s) /\ Len(t.tms) \in Nat
      BY <1>1
    <2> QED
      BY <2>1, <2>2, <2>3, <2>4, <2>5, <2>6
  <1>3. \A n \in 1 .. k + 1 : ResultOffset(u, n) = off(n)
    BY GrownOffsets
  <1>4. /\ off(k + 1) = Len(t.tms)
        /\ \A n \in 1 .. k : off(n) \in Nat /\ off(n) + t.bits[n] <= Len(t.tms)
    BY DEF Whole
  <1>5. \A m \in 0 .. Len(t.tms) : After(x, u.tms, m) = After(x, t.tms, m)
    BY <1>1, AfterPrefix
  <1>6. \A m \in 0 .. Len(s) : After(x, u.tms, Len(t.tms) + m) = After(Run(x, t.tms), s, m)
    <2>1. \A y : y \in Seq(Bits) => \A m \in 0 .. Len(s) :
             After(x, y \o s, Len(y) + m) = After(Run(x, y), s, m)
      BY AfterConcat
    <2>2. t.tms \in Seq(Bits) /\ u.tms = t.tms \o s
      BY <1>1
    <2> QED
      BY <2>1, <2>2, Zenon
  <1>7. \A n \in 1 .. k : t.want[n] =>
           /\ After(x, t.tms, off(n)).state = "DRSHIFT" /\ After(x, t.tms, off(n)).shifted = pre
           /\ After(x, t.tms, off(n) + t.bits[n] - 1).state = "DRSHIFT"
           /\ After(x, t.tms, off(n) + t.bits[n] - 1).shifted
                = After(x, t.tms, off(n)).shifted + t.bits[n] - 1
    BY <1>2 DEF Placed
  <1> HIDE DEF k, off, pre
  <1>8. ASSUME NEW n \in 1 .. k, u.want[n]
        PROVE  /\ After(x, u.tms, off(n)).state = "DRSHIFT" /\ After(x, u.tms, off(n)).shifted = pre
               /\ After(x, u.tms, off(n) + u.bits[n] - 1).state = "DRSHIFT"
               /\ After(x, u.tms, off(n) + u.bits[n] - 1).shifted
                    = After(x, u.tms, off(n)).shifted + u.bits[n] - 1
    <2>1. off(n) \in 0 .. Len(t.tms) /\ off(n) + t.bits[n] - 1 \in 0 .. Len(t.tms)
      <3>1. off(n) \in Nat /\ off(n) + t.bits[n] <= Len(t.tms)
        BY <1>4
      <3>2. t.bits[n] \in Nat \ {0} /\ Len(t.tms) \in Nat
        BY <1>2
      <3> QED
        BY <3>1, <3>2
    <2>2. u.want[n] = t.want[n] /\ u.bits[n] = t.bits[n]
      BY <1>2
    <2>3. /\ After(x, u.tms, off(n)) = After(x, t.tms, off(n))
          /\ After(x, u.tms, off(n) + t.bits[n] - 1) = After(x, t.tms, off(n) + t.bits[n] - 1)
      BY <1>5, <2>1
    <2> QED
      BY <1>7, <1>8, <2>2, <2>3
  <1>9. ASSUME w
        PROVE  /\ After(x, u.tms, Len(t.tms)).state = "DRSHIFT"
               /\ After(x, u.tms, Len(t.tms)).shifted = pre
               /\ After(x, u.tms, Len(t.tms) + Len(s) - 1).state = "DRSHIFT"
               /\ After(x, u.tms, Len(t.tms) + Len(s) - 1).shifted = pre + Len(s) - 1
    <2>1. PICK q : /\ Run(x, t.tms) = Tap("DRSHIFT", pre, q)
                   /\ After(Run(x, t.tms), s, Len(s) - 1) = Tap("DRSHIFT", pre + (Len(s) - 1), q)
      BY <1>9 DEF pre
    <2>2. After(x, u.tms, Len(t.tms)) = Run(x, t.tms)
      BY <1>2, <1>5 DEF Run
    <2>3. After(x, u.tms, Len(t.tms) + Len(s) - 1) = After(Run(x, t.tms), s, Len(s) - 1)
      <3>1. Len(s) - 1 \in 0 .. Len(s) /\ Len(t.tms) + Len(s) - 1 = Len(t.tms) + (Len(s) - 1)
        BY <1>2
      <3> QED
        BY <1>6, <3>1
    <2>4. pre + (Len(s) - 1) = pre + Len(s) - 1
      BY <1>1, <1>2 DEF pre
    <2>5. /\ Tap("DRSHIFT", pre, q).state = "DRSHIFT" /\ Tap("DRSHIFT", pre, q).shifted = pre
          /\ Tap("DRSHIFT", pre + (Len(s) - 1), q).state = "DRSHIFT"
          /\ Tap("DRSHIFT", pre + (Len(s) - 1), q).shifted = pre + (Len(s) - 1)
      BY DEF Tap
    <2> QED
      BY <2>1, <2>2, <2>3, <2>4, <2>5
  <1>10. SUFFICES ASSUME NEW n \in 1 .. k + 1, u.want[n]
                  PROVE  /\ After(x, u.tms, off(n)).state = "DRSHIFT" /\ After(x, u.tms, off(n)).shifted = pre
                         /\ After(x, u.tms, off(n) + u.bits[n] - 1).state = "DRSHIFT"
                         /\ After(x, u.tms, off(n) + u.bits[n] - 1).shifted
                              = After(x, u.tms, off(n)).shifted + u.bits[n] - 1
    <2>1. u.pads["DR"].pre = pre
      BY <1>1 DEF pre
    <2> QED
      BY <1>2, <1>3, <2>1 DEF Placed
  <1>11. CASE n = k + 1
    <2>1. off(n) = Len(t.tms) /\ u.bits[n] = Len(s) /\ w
      BY <1>2, <1>4, <1>10, <1>11
    <2> QED
      BY <1>9, <2>1
  <1> QED
    BY <1>2, <1>8, <1>10, <1>11

-----------------------------------------------------------------------------
(* The operations of the engine, one by one.                               *)

\* The TAPs that start at x are at g when t has been clocked.
At(x, t, g) == Placed(x, t) /\ Run(x, t.tms) = g

States == TapStates \cup {"UNKNOWN"}

\* Nothing here depends on the state tracked or the status.
LEMMA OkSame ==
  ASSUME NEW t \in Txns, NEW u \in Txns,
         u.tms = t.tms, u.bits = t.bits, u.want = t.want, u.pads = t.pads
  PROVE  /\ Whole(t) => Whole(u)
         /\ \A x, g : At(x, t, g) => At(x, u, g)
  <1>1. \A n : ResultOffset(u, n) = ResultOffset(t, n)
    BY OffsetIs
  <1> QED
    BY <1>1 DEF Whole, At, Placed

LEMMA SetState ==
  ASSUME NEW t, Ok(t), NEW st \in States
  PROVE  /\ Kept(t, [t EXCEPT !.state = st])
         /\ [t EXCEPT !.state = st].state = st
         /\ [t EXCEPT !.state = st].status = t.status
         /\ \A x, g : At(x, t, g) => At(x, [t EXCEPT !.state = st], g)
  <1> DEFINE u == [t EXCEPT !.state = st]
  <1>1. t \in Txns /\ Whole(t)
    BY DEF Ok
  <1>2. /\ u \in Txns /\ u.tms = t.tms /\ u.bits = t.bits /\ u.want = t.want /\ u.pads = t.pads
        /\ u.state = st /\ u.status = t.status
    BY <1>1 DEF Txns, States
  <1> HIDE DEF u
  <1>3. Whole(u) /\ \A x, g : At(x, t, g) => At(x, u, g)
    BY <1>1, <1>2, OkSame
  <1>4. Kept(t, u)
    BY <1>2, <1>3 DEF Kept, Ok
  <1> QED
    BY <1>2, <1>3, <1>4 DEF u

LEMMA KeptFailing ==
  ASSUME NEW t, Ok(t)
  PROVE  Kept(t, Failing(t)) /\ Failing(t).status = -1
  <1> DEFINE u == Failing(t)
  <1>1. t \in Txns /\ Whole(t)
    BY DEF Ok
  <1>2. /\ u \in Txns /\ u.tms = t.tms /\ u.bits = t.bits /\ u.want = t.want /\ u.pads = t.pads
        /\ u.status = -1
    BY <1>1 DEF Txns, Failing
  <1> HIDE DEF u
  <1>3. Whole(u)
    BY <1>1, <1>2, OkSame
  <1>4. Kept(t, u)
    BY <1>2, <1>3 DEF Kept, Ok
  <1> QED
    BY <1>2, <1>4 DEF u

LEMMA KeptTrans ==
  ASSUME NEW t, NEW u, NEW v, Kept(t, u), Kept(u, v) PROVE Kept(t, v)
  BY DEF Kept

\* A piece is appended whole, or the transaction fails.
LEMMA KeptAppend ==
  ASSUME NEW t, Ok(t), NEW s \in Seq(Bits), s # <<>>, NEW w \in BOOLEAN
  PROVE  /\ Kept(t, TxnAppend(t, s, w))
         /\ TxnAppend(t, s, w).status = 0 =>
               /\ TxnAppend(t, s, w).state = t.state
               /\ Grown(t, TxnAppend(t, s, w), s, w)
  <1>1. CASE Full(t, Len(s))
    <2>1. TxnAppend(t, s, w) = Failing(t)
      BY <1>1 DEF TxnAppend
    <2> QED
      BY <2>1, KeptFailing
  <1>2. CASE ~ Full(t, Len(s))
    <2> DEFINE u == [t EXCEPT !.tms = @ \o s, !.bits = Append(@, Len(s)), !.want = Append(@, w)]
    <2>1. TxnAppend(t, s, w) = u
      BY <1>2 DEF TxnAppend
    <2>2. t \in Txns /\ Whole(t)
      BY DEF Ok
    <2>3. /\ t.tms \in Seq(Bits) /\ t.bits \in Seq(Nat \ {0}) /\ t.want \in Seq(BOOLEAN)
          /\ Len(s) \in Nat \ {0}
      BY <2>2 DEF Txns
    <2>4. t.tms \o s \in Seq(Bits) /\ Append(t.bits, Len(s)) \in Seq(Nat \ {0})
          /\ Append(t.want, w) \in Seq(BOOLEAN)
      BY <2>3
    <2>5. /\ u.tms = t.tms \o s /\ u.bits = Append(t.bits, Len(s)) /\ u.want = Append(t.want, w)
          /\ u.pads = t.pads /\ u.state = t.state /\ u.status = t.status
      BY <2>2 DEF Txns
    <2>6. u \in Txns
      BY <2>2, <2>4 DEF Txns
    <2> HIDE DEF u
    <2>7. Grown(t, u, s, w)
      BY <2>5 DEF Grown
    <2>8. Len(u.tms) <= MaxBits
      <3>1. ~ (MaxBits - Len(t.tms) < Len(s))
        BY <1>2 DEF Full
      <3>2. Len(t.tms) \in Nat /\ Len(s) \in Nat /\ MaxBits \in Nat
        BY <2>3, JtagAssumption
      <3>3. Len(u.tms) = Len(t.tms) + Len(s)
        BY <2>3, <2>5
      <3> QED
        BY <3>1, <3>2, <3>3
    <2>9. Whole(u)
      BY <2>2, <2>6, <2>7, <2>8, GrownWhole
    <2>10. Kept(t, u)
      BY <2>5, <2>6, <2>9 DEF Kept, Ok
    <2> QED
      BY <2>1, <2>5, <2>7, <2>10
  <1> QED
    BY <1>1, <1>2

LEMMA AtAppend ==
  ASSUME NEW x, NEW g, NEW t, Ok(t), At(x, t, g), NEW s \in Seq(Bits), s # <<>>, NEW w \in BOOLEAN,
         TxnAppend(t, s, w).status = 0,
         w => \E q : /\ g = Tap("DRSHIFT", t.pads["DR"].pre, q)
                     /\ After(g, s, Len(s) - 1) = Tap("DRSHIFT", t.pads["DR"].pre + (Len(s) - 1), q)
  PROVE  At(x, TxnAppend(t, s, w), Run(g, s))
  <1> DEFINE u == TxnAppend(t, s, w)
  <1>1. Kept(t, u) /\ Grown(t, u, s, w)
    BY KeptAppend
  <1> HIDE DEF u
  <1>2. t \in Txns /\ Whole(t) /\ u \in Txns
    BY <1>1 DEF Ok, Kept
  <1>3. Placed(x, t) /\ Run(x, t.tms) = g
    BY DEF At
  <1>4. Placed(x, u)
    BY <1>1, <1>2, <1>3, GrownPlaced
  <1>5. t.tms \in Seq(Bits) /\ u.tms = t.tms \o s
    BY <1>1, <1>2 DEF Txns, Grown
  <1>6. Run(x, u.tms) = Run(g, s)
    BY <1>3, <1>5, RunConcat
  <1> QED
    BY <1>4, <1>6 DEF At, u

LEMMA Paths ==
  ASSUME NEW from, NEW dst \in DOMAIN Path(from)
  PROVE  Path(from)[dst] \in Seq(Bits) /\ Path(from)[dst] # <<>> /\ dst \in States
  <1>1. /\ DOMAIN FromIdle = {"IRSHIFT", "DRSHIFT"} /\ DOMAIN FromPause = {"IRSHIFT", "DRSHIFT", "IDLE"}
        /\ DOMAIN FromExit1 = {"IRSHIFT", "DRSHIFT", "IDLE", "DRPAUSE"}
    BY DEF FromIdle, FromPause, FromExit1
  <1> DEFINE Good == {s \in Seq(Bits) : s # <<>>}
  <1>0. /\ <<1, 1, 0, 0>> \in Good /\ <<1, 0, 0>> \in Good /\ <<1, 1, 1, 1, 0, 0>> \in Good
        /\ <<1, 1, 1, 0, 0>> \in Good /\ <<1, 1, 0>> \in Good /\ <<1, 0>> \in Good /\ <<0>> \in Good
    BY DEF Bits
  <1>9. \A s \in Good : s \in Seq(Bits) /\ s # <<>>
    OBVIOUS
  <1> HIDE DEF Good
  <1>2. \A d \in DOMAIN FromIdle : FromIdle[d] \in Good
    <2>1. FromIdle["IRSHIFT"] = <<1, 1, 0, 0>> /\ FromIdle["DRSHIFT"] = <<1, 0, 0>>
      BY DEF FromIdle
    <2> QED
      BY <1>0, <1>1, <2>1
  <1>3. \A d \in DOMAIN FromPause : FromPause[d] \in Good
    <2>1. /\ FromPause["IRSHIFT"] = <<1, 1, 1, 1, 0, 0>> /\ FromPause["DRSHIFT"] = <<1, 1, 1, 0, 0>>
          /\ FromPause["IDLE"] = <<1, 1, 0>>
      BY DEF FromPause
    <2> QED
      BY <1>0, <1>1, <2>1
  <1>4. \A d \in DOMAIN FromExit1 : FromExit1[d] \in Good
    <2>1. /\ FromExit1["IRSHIFT"] = <<1, 1, 1, 0, 0>> /\ FromExit1["DRSHIFT"] = <<1, 1, 0, 0>>
          /\ FromExit1["IDLE"] = <<1, 0>> /\ FromExit1["DRPAUSE"] = <<0>>
      BY DEF FromExit1
    <2> QED
      BY <1>0, <1>1, <2>1
  <1>5. {"IRSHIFT", "DRSHIFT", "IDLE", "DRPAUSE"} \subseteq States
    BY DEF States, TapStates, Next
  <1>6. \/ Path(from) = FromIdle \/ Path(from) = FromPause \/ Path(from) = FromExit1
        \/ DOMAIN Path(from) = {}
    BY DEF Path
  <1> QED
    BY <1>1, <1>2, <1>3, <1>4, <1>5, <1>6, <1>9

LEMMA KeptMove ==
  ASSUME NEW t, Ok(t), NEW dst \in States
  PROVE  /\ Kept(t, Move(t, dst))
         /\ Move(t, dst).status = 0 => Move(t, dst).state = dst
  <1>1. CASE t.state = dst
    <2>1. Move(t, dst) = t
      BY <1>1 DEF Move
    <2> QED
      BY <1>1, <2>1 DEF Kept
  <1>2. CASE t.state # dst /\ dst \in DOMAIN Path(t.state)
    <2> DEFINE u == TxnAppend(t, Path(t.state)[dst], FALSE)
    <2>1. Move(t, dst) = [u EXCEPT !.state = dst]
      BY <1>2 DEF Move
    <2>2. Kept(t, u)
      BY <1>2, Paths, KeptAppend
    <2> HIDE DEF u
    <2>3. Kept(u, [u EXCEPT !.state = dst]) /\ [u EXCEPT !.state = dst].state = dst
      BY <2>2, SetState DEF Kept
    <2> QED
      BY <2>1, <2>2, <2>3, KeptTrans
  <1>3. CASE t.state # dst /\ dst \notin DOMAIN Path(t.state)
    <2> DEFINE u == Failing(t)
    <2>1. Move(t, dst) = [u EXCEPT !.state = "UNKNOWN"]
      BY <1>3 DEF Move
    <2>2. Kept(t, u) /\ u.status = -1
      BY KeptFailing
    <2>3. "UNKNOWN" \in States
      BY DEF States
    <2> HIDE DEF u
    <2>4. Kept(u, [u EXCEPT !.state = "UNKNOWN"]) /\ [u EXCEPT !.state = "UNKNOWN"].status = u.status
      BY <2>2, <2>3, SetState DEF Kept
    <2>5. Kept(t, [u EXCEPT !.state = "UNKNOWN"])
      BY <2>2, <2>4, KeptTrans
    <2>6. Move(t, dst).status # 0
      BY <2>1, <2>2, <2>4
    <2> QED
      BY <2>1, <2>5, <2>6
  <1> QED
    BY <1>1, <1>2, <1>3

\* A move that the engine knows brings the TAPs where it says.
LEMMA AtMove ==
  ASSUME NEW x, NEW g, NEW t, Ok(t), At(x, t, g), NEW dst \in States, Move(t, dst).status = 0
  PROVE  \/ t.state = dst /\ Move(t, dst) = t
         \/ /\ t.state # dst /\ dst \in DOMAIN Path(t.state)
            /\ At(x, Move(t, dst), Run(g, Path(t.state)[dst]))
  <1>1. CASE t.state = dst
    BY <1>1 DEF Move
  <1>2. CASE t.state # dst /\ dst \in DOMAIN Path(t.state)
    <2> DEFINE s == Path(t.state)[dst]
               u == TxnAppend(t, s, FALSE)
    <2>1. Move(t, dst) = [u EXCEPT !.state = dst]
      BY <1>2 DEF Move
    <2>2. s \in Seq(Bits) /\ s # <<>>
      BY <1>2, Paths
    <2>3. Kept(t, u)
      BY <2>2, KeptAppend
    <2>4. u.status = 0
      <3> HIDE DEF u
      <3> QED
        BY <2>1, <2>3, SetState DEF Kept
    <2>5. At(x, u, Run(g, s))
      <3> HIDE DEF s
      <3> QED
        BY <2>2, <2>4, AtAppend
    <2> HIDE DEF u, s
    <2>6. At(x, [u EXCEPT !.state = dst], Run(g, s))
      BY <2>3, <2>5, SetState DEF Kept
    <2> QED
      BY <1>2, <2>1, <2>6 DEF s
  <1>3. CASE t.state # dst /\ dst \notin DOMAIN Path(t.state)
    <2>1. Move(t, dst) = [Failing(t) EXCEPT !.state = "UNKNOWN"]
      BY <1>3 DEF Move
    <2>2. t \in Txns
      BY DEF Ok
    <2>3. [Failing(t) EXCEPT !.state = "UNKNOWN"].status = -1
      BY <2>2 DEF Failing, Txns
    <2> QED
      BY <2>1, <2>3
  <1> QED
    BY <1>1, <1>2, <1>3

\* One scan through the chain: the bits of the TAPs before, of this one, and of
\* those after, and then on to Exit1.
LEMMA ShiftRight ==
  ASSUME NEW t, Ok(t), NEW reg \in {"IR", "DR"}, NEW count \in Nat \ {0},
         NEW want \in BOOLEAN, want => reg = "DR"
  PROVE  /\ Kept(t, Shift(t, reg, count, want))
         /\ Shift(t, reg, count, want).status = 0 =>
               /\ Shift(t, reg, count, want).state = Exit1Of[reg]
               /\ \A x, q : At(x, t, Tap(ShiftOf[reg], 0, q)) =>
                     At(x, Shift(t, reg, count, want),
                        Tap(Exit1Of[reg], count + t.pads[reg].pre + t.pads[reg].post, q))
  <1> DEFINE pre == t.pads[reg].pre
             post == t.pads[reg].post
             start == IF t.state = ShiftOf[reg] THEN t ELSE Failing(t)
             before == IF pre = 0 THEN start ELSE TxnAppend(start, Zeros(pre), FALSE)
             mid == TxnAppend(before, Zeros(count), want)
             all == IF post = 0 THEN TxnAppend(before, LastOne(count), want)
                    ELSE TxnAppend(mid, LastOne(post), FALSE)
             u == [all EXCEPT !.state = Exit1Of[reg]]
  <1>1. Shift(t, reg, count, want) = u
    BY DEF Shift
  <1>2. pre \in Nat /\ post \in Nat /\ t.pads["DR"].pre \in Nat
    BY DEF Ok, Txns
  <1>3. Exit1Of[reg] \in States
    BY DEF Exit1Of, States, TapStates, Next
  <1>20. /\ \A k \in Nat : Zeros(k) \in Seq(Bits) /\ Len(Zeros(k)) = k
        /\ \A k \in Nat : LastOne(k) \in Seq(Bits) /\ Len(LastOne(k)) = k
    BY PieceTypes
  <1>21. /\ \A k \in Nat \ {0} : Zeros(k) \in Seq(Bits) /\ Zeros(k) # <<>>
        /\ \A k \in Nat \ {0} : LastOne(k) \in Seq(Bits) /\ LastOne(k) # <<>>
    BY <1>20
  <1>22. \A m \in Nat, k \in Nat : \A q :
            Run(Tap(ShiftOf[reg], m, q), Zeros(k)) = Tap(ShiftOf[reg], m + k, q)
    BY ShiftZeros
  <1>23. \A m \in Nat, k \in Nat \ {0} : \A q :
            /\ Run(Tap(ShiftOf[reg], m, q), LastOne(k)) = Tap(Exit1Of[reg], m + k, q)
            /\ After(Tap(ShiftOf[reg], m, q), LastOne(k), k - 1) = Tap(ShiftOf[reg], m + (k - 1), q)
    <2>1. SUFFICES ASSUME NEW m \in Nat, NEW k \in Nat \ {0}, NEW q
                   PROVE  /\ Run(Tap(ShiftOf[reg], m, q), LastOne(k)) = Tap(Exit1Of[reg], m + k, q)
                          /\ After(Tap(ShiftOf[reg], m, q), LastOne(k), k - 1)
                               = Tap(ShiftOf[reg], m + (k - 1), q)
      OBVIOUS
    <2>2. Run(Tap(ShiftOf[reg], m, q), LastOne(k)) = Tap(Exit1Of[reg], m + k, q)
      BY ShiftLast
    <2>3. After(Tap(ShiftOf[reg], m, q), LastOne(k), k - 1) = Tap(ShiftOf[reg], m + (k - 1), q)
      <3>1. \A j \in Nat : j < k => After(Tap(ShiftOf[reg], m, q), LastOne(k), j)
                                      = Tap(ShiftOf[reg], m + j, q)
        BY ShiftToLast
      <3>2. k - 1 \in Nat /\ k - 1 < k
        OBVIOUS
      <3> QED
        BY <3>1, <3>2
    <2> QED
      BY <2>2, <2>3
  <1>4. Kept(t, start) /\ (start.status = 0 => start = t)
    BY KeptFailing DEF Kept
  <1> HIDE DEF start
  <1>5. /\ Kept(start, before)
        /\ before.status = 0 => \A x, q : At(x, start, Tap(ShiftOf[reg], 0, q)) =>
                                     At(x, before, Tap(ShiftOf[reg], pre, q))
    <2>1. CASE pre = 0
      BY <1>4, <2>1 DEF Kept
    <2>2. CASE pre # 0
      <3>1. before = TxnAppend(start, Zeros(pre), FALSE) /\ Ok(start)
        BY <1>4, <2>2 DEF Kept
      <3>2. Zeros(pre) \in Seq(Bits) /\ Zeros(pre) # <<>>
        BY <1>2, <1>21, <2>2
      <3>3. \A q : Run(Tap(ShiftOf[reg], 0, q), Zeros(pre)) = Tap(ShiftOf[reg], pre, q)
        <4>1. \A q : Run(Tap(ShiftOf[reg], 0, q), Zeros(pre)) = Tap(ShiftOf[reg], 0 + pre, q)
          BY <1>2, ShiftZeros
        <4>2. 0 + pre = pre
          BY <1>2
        <4> QED
          BY <4>1, <4>2, Zenon
      <3> HIDE DEF before, pre
      <3>4. Kept(start, before)
        BY <3>1, <3>2, KeptAppend
      <3>5. \A x, g : before.status = 0 /\ At(x, start, g) => At(x, before, Run(g, Zeros(pre)))
        BY <3>1, <3>2, AtAppend
      <3> QED
        BY <3>3, <3>4, <3>5
    <2> QED
      BY <2>1, <2>2
  <1> HIDE DEF before
  <1>6. before.status = 0 => start.status = 0 /\ start = t
    BY <1>4, <1>5 DEF Kept
  <1>7. Ok(before) /\ before.pads = t.pads /\ (want => before.pads["DR"].pre = pre)
    BY <1>4, <1>5 DEF Kept
  <1>8. Kept(t, before)
    BY <1>4, <1>5, KeptTrans
  <1>9. /\ Kept(before, all)
        /\ all.status = 0 => \A x, q : At(x, before, Tap(ShiftOf[reg], pre, q)) =>
                                  At(x, all, Tap(Exit1Of[reg], count + pre + post, q))
    <2>1. CASE post = 0
      <3>1. all = TxnAppend(before, LastOne(count), want)
        BY <2>1
      <3>2. LastOne(count) \in Seq(Bits) /\ LastOne(count) # <<>> /\ Len(LastOne(count)) = count
        BY <1>20, <1>21
      <3>3. \A q : /\ Run(Tap(ShiftOf[reg], pre, q), LastOne(count)) = Tap(Exit1Of[reg], pre + count, q)
                   /\ After(Tap(ShiftOf[reg], pre, q), LastOne(count), count - 1)
                        = Tap(ShiftOf[reg], pre + (count - 1), q)
        <4> HIDE DEF pre
        <4> QED
          BY <1>2, <1>23
      <3>4. pre + count = count + pre + post
        BY <1>2, <2>1
      <3> HIDE DEF all, pre
      <3>5. Kept(before, all)
        BY <1>7, <3>1, <3>2, KeptAppend
      <3>6. ASSUME NEW x, NEW q, all.status = 0, At(x, before, Tap(ShiftOf[reg], pre, q))
            PROVE  At(x, all, Tap(Exit1Of[reg], count + pre + post, q))
        <4> DEFINE g == Tap(ShiftOf[reg], pre, q)
                   s == LastOne(count)
        <4>1. want => /\ g = Tap("DRSHIFT", before.pads["DR"].pre, q)
                      /\ After(g, s, Len(s) - 1) = Tap("DRSHIFT", before.pads["DR"].pre + (Len(s) - 1), q)
          BY <1>7, <3>2, <3>3 DEF ShiftOf
        <4>2. Run(g, s) = Tap(Exit1Of[reg], count + pre + post, q)
          BY <3>3, <3>4
        <4>3. At(x, before, g) /\ s \in Seq(Bits) /\ s # <<>>
          BY <3>2, <3>6
        <4>4. all = TxnAppend(before, s, want)
          BY <3>1
        <4> HIDE DEF g, s
        <4>5. At(x, all, Run(g, s))
          BY <1>7, <3>6, <4>1, <4>3, <4>4, AtAppend
        <4> QED
          BY <4>2, <4>5
      <3> QED
        BY <3>5, <3>6
    <2>2. CASE post # 0
      <3>1. all = TxnAppend(mid, LastOne(post), FALSE)
        BY <2>2
      <3>2. /\ LastOne(post) \in Seq(Bits) /\ LastOne(post) # <<>>
            /\ Zeros(count) \in Seq(Bits) /\ Zeros(count) # <<>> /\ Len(Zeros(count)) = count
        BY <1>2, <1>20, <1>21, <2>2
      <3>3. \A q : /\ Run(Tap(ShiftOf[reg], pre, q), Zeros(count)) = Tap(ShiftOf[reg], pre + count, q)
                   /\ After(Tap(ShiftOf[reg], pre, q), Zeros(count), count - 1)
                        = Tap(ShiftOf[reg], pre + (count - 1), q)
        <4>1. \A q : Run(Tap(ShiftOf[reg], pre, q), Zeros(count)) = Tap(ShiftOf[reg], pre + count, q)
          <5> HIDE DEF pre
          <5> QED
            BY <1>2, <1>22
        <4>2. \A q : After(Tap(ShiftOf[reg], pre, q), Zeros(count), count - 1)
                       = Tap(ShiftOf[reg], pre + (count - 1), q)
          <5>1. count - 1 \in Nat /\ \A i \in 1 .. count - 1 : Zeros(count)[i] = 0
            BY DEF Zeros
          <5>2. \A s, k : k \in Nat /\ (\A i \in 1 .. k : s[i] = 0) =>
                   \A q : After(Tap(ShiftOf[reg], pre, q), s, k) = Tap(ShiftOf[reg], pre + k, q)
            BY <1>2, Shifting
          <5> QED
            BY <5>1, <5>2
        <4> QED
          BY <4>1, <4>2
      <3>4. \A q : Run(Tap(ShiftOf[reg], pre + count, q), LastOne(post))
                     = Tap(Exit1Of[reg], count + pre + post, q)
        <4>1. \A m \in Nat : \A q : Run(Tap(ShiftOf[reg], m, q), LastOne(post)) = Tap(Exit1Of[reg], m + post, q)
          <5> HIDE DEF post
          <5> QED
            BY <1>2, <1>23, <2>2
        <4>2. pre + count \in Nat /\ (pre + count) + post = count + pre + post
          BY <1>2
        <4> HIDE DEF pre, post
        <4> QED
          BY <4>1, <4>2
      <3>5. Kept(before, mid)
        BY <1>7, <3>2, KeptAppend
      <3> HIDE DEF all, pre, mid, post
      <3>6. Kept(mid, all)
        BY <3>1, <3>2, <3>5, KeptAppend DEF Kept
      <3>7. ASSUME NEW x, NEW q, all.status = 0, At(x, before, Tap(ShiftOf[reg], pre, q))
            PROVE  At(x, all, Tap(Exit1Of[reg], count + pre + post, q))
        <4> DEFINE g == Tap(ShiftOf[reg], pre, q)
                   s == Zeros(count)
        <4>1. want => /\ g = Tap("DRSHIFT", before.pads["DR"].pre, q)
                      /\ After(g, s, Len(s) - 1) = Tap("DRSHIFT", before.pads["DR"].pre + (Len(s) - 1), q)
          BY <1>7, <3>2, <3>3 DEF ShiftOf
        <4>2. Run(g, s) = Tap(ShiftOf[reg], pre + count, q)
          BY <3>3
        <4>3. At(x, before, g) /\ s \in Seq(Bits) /\ s # <<>>
          BY <3>2, <3>7
        <4>4. mid = TxnAppend(before, s, want) /\ mid.status = 0
          BY <3>6, <3>7 DEF mid, Kept
        <4> HIDE DEF g, s
        <4>5. At(x, mid, Run(g, s))
          BY <1>7, <4>1, <4>3, <4>4, AtAppend
        <4>6. At(x, all, Run(Run(g, s), LastOne(post)))
          <5>1. \A h : At(x, mid, h) => At(x, all, Run(h, LastOne(post)))
            BY <3>1, <3>2, <3>5, <3>7, AtAppend DEF Kept
          <5> QED
            BY <4>5, <5>1
        <4> QED
          BY <3>4, <4>2, <4>6
      <3>8. Kept(before, all)
        BY <3>5, <3>6, KeptTrans
      <3> QED
        BY <3>7, <3>8
    <2> QED
      BY <2>1, <2>2
  <1> HIDE DEF all, mid
  <1>10. /\ Kept(all, u) /\ u.state = Exit1Of[reg] /\ u.status = all.status
         /\ \A x, g : At(x, all, g) => At(x, u, g)
    BY <1>3, <1>9, SetState DEF Kept
  <1> HIDE DEF u
  <1>11. Kept(t, u)
    BY <1>8, <1>9, <1>10, KeptTrans
  <1>12. ASSUME u.status = 0, NEW x, NEW q, At(x, t, Tap(ShiftOf[reg], 0, q))
         PROVE  At(x, u, Tap(Exit1Of[reg], count + pre + post, q))
    <2>1. all.status = 0 /\ before.status = 0 /\ start = t
      BY <1>6, <1>9, <1>10, <1>12 DEF Kept
    <2>2. At(x, before, Tap(ShiftOf[reg], pre, q))
      BY <1>5, <1>12, <2>1
    <2> QED
      BY <1>9, <1>10, <2>1, <2>2
  <1> QED
    BY <1>1, <1>10, <1>11, <1>12

-----------------------------------------------------------------------------
(* A transaction that starts with the TAPs at x and has been asked for some  *)
(* scans.                                                                    *)

\* While it has not failed, the TAPs are idle and saw just these scans, or they
\* pause before the last is seen.
Follows(x, t, ask) ==
    t.status = 0 =>
        /\ Placed(x, t)
        /\ \/ t.state = "IDLE" /\ \E n \in Nat : At(x, t, Tap("IDLE", n, ask))
           \/ /\ t.state = "DRPAUSE"
              /\ \E n \in Nat, q \in Seq(Scans) : /\ ask = Append(q, <<"DR", n>>)
                                                  /\ At(x, t, Tap("DRPAUSE", n, q))

LEMMA AppendIsConcat ==
  ASSUME NEW S, NEW q \in Seq(S), NEW e \in S PROVE q \o <<e>> = Append(q, e)
  OBVIOUS

LEMMA GoShift ==
  ASSUME NEW x, NEW t, Ok(t), NEW ask, Follows(x, t, ask), NEW reg \in {"IR", "DR"},
         Move(t, ShiftOf[reg]).status = 0
  PROVE  At(x, Move(t, ShiftOf[reg]), Tap(ShiftOf[reg], 0, ask))
  <1> DEFINE dst == ShiftOf[reg]
             u == Move(t, dst)
  <1>1. dst \in {"IRSHIFT", "DRSHIFT"} /\ dst \in States
    BY DEF ShiftOf, States, TapStates, Next
  <1>2. Path("IDLE") = FromIdle /\ Path("DRPAUSE") = FromPause
    BY DEF Path
  <1>3. \A n, q : /\ Run(Tap("IDLE", n, q), FromIdle[dst]) = Tap(dst, 0, q)
                  /\ Run(Tap("DRPAUSE", n, q), FromPause[dst]) = Tap(dst, 0, Append(q, <<"DR", n>>))
    <2>1. /\ \A n, q : Run(Tap("IDLE", n, q), FromIdle["IRSHIFT"]) = Tap("IRSHIFT", 0, q)
          /\ \A n, q : Run(Tap("IDLE", n, q), FromIdle["DRSHIFT"]) = Tap("DRSHIFT", 0, q)
      BY IdleMoves
    <2>2. \A n, q : /\ Run(Tap("DRPAUSE", n, q), FromPause["IRSHIFT"]) = Tap("IRSHIFT", 0, Append(q, <<"DR", n>>))
                    /\ Run(Tap("DRPAUSE", n, q), FromPause["DRSHIFT"]) = Tap("DRSHIFT", 0, Append(q, <<"DR", n>>))
      BY Moves
    <2> HIDE DEF dst
    <2>3. CASE dst = "IRSHIFT"
      BY <2>1, <2>2, <2>3, Zenon
    <2>4. CASE dst = "DRSHIFT"
      BY <2>1, <2>2, <2>4, Zenon
    <2> QED
      BY <1>1, <2>3, <2>4
  <1> HIDE DEF dst
  <1>4. t.status = 0
    BY <1>1, KeptMove DEF Kept, dst
  <1>5. \A g : At(x, t, g) /\ t.state # dst => At(x, u, Run(g, Path(t.state)[dst]))
    BY <1>1, AtMove DEF dst
  <1> HIDE DEF u
  <1>6. CASE t.state = "IDLE" /\ \E n \in Nat : At(x, t, Tap("IDLE", n, ask))
    <2>1. PICK n \in Nat : At(x, t, Tap("IDLE", n, ask))
      BY <1>6
    <2> QED
      BY <1>1, <1>2, <1>3, <1>5, <1>6, <2>1 DEF u, dst
  <1>7. CASE /\ t.state = "DRPAUSE"
             /\ \E n \in Nat, q \in Seq(Scans) : ask = Append(q, <<"DR", n>>) /\ At(x, t, Tap("DRPAUSE", n, q))
    <2>1. PICK n \in Nat, q \in Seq(Scans) : ask = Append(q, <<"DR", n>>) /\ At(x, t, Tap("DRPAUSE", n, q))
      BY <1>7
    <2>2. At(x, u, Run(Tap("DRPAUSE", n, q), FromPause[dst]))
      BY <1>1, <1>2, <1>5, <1>7, <2>1
    <2>3. Run(Tap("DRPAUSE", n, q), FromPause[dst]) = Tap(dst, 0, Append(q, <<"DR", n>>))
      BY <1>3
    <2>4. At(x, u, Tap(dst, 0, ask))
      BY <2>1, <2>2, <2>3
    <2> QED
      BY <2>4 DEF u, dst
  <1> QED
    BY <1>4, <1>6, <1>7 DEF Follows

LEMMA GoIdle ==
  ASSUME NEW x, NEW t, Ok(t), NEW ask, Follows(x, t, ask), Move(t, "IDLE").status = 0
  PROVE  \E n \in Nat : At(x, Move(t, "IDLE"), Tap("IDLE", n, ask))
  <1>1. "IDLE" \in States
    BY DEF States, TapStates, Next
  <1>2. t.status = 0
    BY <1>1, KeptMove DEF Kept
  <1>3. CASE t.state = "IDLE" /\ \E n \in Nat : At(x, t, Tap("IDLE", n, ask))
    <2>1. Move(t, "IDLE") = t
      BY <1>3 DEF Move
    <2> QED
      BY <1>3, <2>1
  <1>4. CASE /\ t.state = "DRPAUSE"
             /\ \E n \in Nat, q \in Seq(Scans) : ask = Append(q, <<"DR", n>>) /\ At(x, t, Tap("DRPAUSE", n, q))
    <2>1. PICK n \in Nat, q \in Seq(Scans) : ask = Append(q, <<"DR", n>>) /\ At(x, t, Tap("DRPAUSE", n, q))
      BY <1>4
    <2>2. At(x, Move(t, "IDLE"), Run(Tap("DRPAUSE", n, q), Path(t.state)["IDLE"]))
      <3>1. \A g : At(x, t, g) /\ t.state # "IDLE" => At(x, Move(t, "IDLE"), Run(g, Path(t.state)["IDLE"]))
        BY <1>1, AtMove
      <3> QED
        BY <1>4, <2>1, <3>1
    <2>3. Path(t.state) = FromPause
      BY <1>4 DEF Path
    <2>4. Run(Tap("DRPAUSE", n, q), FromPause["IDLE"]) = Tap("IDLE", n, Append(q, <<"DR", n>>))
      BY Moves
    <2> QED
      BY <2>1, <2>2, <2>3, <2>4
  <1> QED
    BY <1>2, <1>3, <1>4 DEF Follows

\* A scan asked for is seen next, and of the length asked for with the pads.
LEMMA ScanFollows ==
  ASSUME NEW x, NEW t, Ok(t), NEW ask \in Seq(Scans), Follows(x, t, ask),
         NEW reg \in {"IR", "DR"}, NEW count \in Nat \ {0}, NEW want \in BOOLEAN, want => reg = "DR",
         NEW end \in {"IDLE", "DRPAUSE", "IRPAUSE"}, end = "DRPAUSE" => reg = "DR"
  PROVE  /\ Kept(t, Scan(t, reg, count, want, end))
         /\ Follows(x, Scan(t, reg, count, want, end),
                    ask \o <<<<reg, count + t.pads[reg].pre + t.pads[reg].post>>>>)
  <1> DEFINE m == Move(t, ShiftOf[reg])
             s == Shift(m, reg, count, want)
             u == Move(s, end)
             n == count + t.pads[reg].pre + t.pads[reg].post
  <1>1. Scan(t, reg, count, want, end) = u
    BY DEF Scan
  <1>2. ShiftOf[reg] \in States /\ Exit1Of[reg] \in {"IREXIT1", "DREXIT1"} /\ end \in States
    BY DEF ShiftOf, Exit1Of, States, TapStates, Next
  <1>3. n \in Nat
    BY DEF Ok, Txns
  <1>4. Kept(t, m) /\ (m.status = 0 => At(x, m, Tap(ShiftOf[reg], 0, ask)))
    BY <1>2, KeptMove, GoShift
  <1> HIDE DEF m
  <1>5. Ok(m) /\ m.pads = t.pads
    BY <1>4 DEF Kept
  <1>6. /\ Kept(m, s)
        /\ s.status = 0 => s.state = Exit1Of[reg] /\ At(x, s, Tap(Exit1Of[reg], n, ask))
    <2>1. /\ Kept(m, s)
          /\ s.status = 0 =>
               /\ s.state = Exit1Of[reg]
               /\ \A q : At(x, m, Tap(ShiftOf[reg], 0, q)) =>
                     At(x, s, Tap(Exit1Of[reg], count + m.pads[reg].pre + m.pads[reg].post, q))
      BY <1>5, ShiftRight
    <2>2. s.status = 0 => m.status = 0
      BY <2>1 DEF Kept
    <2> HIDE DEF s
    <2> QED
      BY <1>4, <1>5, <2>1, <2>2
  <1> HIDE DEF s, n
  <1>7. Kept(s, u) /\ (u.status = 0 => u.state = end)
    BY <1>2, <1>6, KeptMove DEF Kept
  <1>8. Kept(t, u)
    BY <1>4, <1>6, <1>7, KeptTrans
  <1>9. ASSUME u.status = 0
        PROVE  Follows(x, u, Append(ask, <<reg, n>>))
    <2>1. s.status = 0 /\ s.state = Exit1Of[reg] /\ At(x, s, Tap(Exit1Of[reg], n, ask)) /\ Ok(s)
      BY <1>6, <1>7, <1>9 DEF Kept
    <2>2. /\ s.state # end /\ end \in DOMAIN Path(s.state)
          /\ At(x, u, Run(Tap(Exit1Of[reg], n, ask), Path(s.state)[end]))
      <3>1. \A g : At(x, s, g) => \/ s.state = end
                                  \/ /\ end \in DOMAIN Path(s.state)
                                     /\ At(x, u, Run(g, Path(s.state)[end]))
        BY <1>2, <1>9, <2>1, AtMove
      <3>2. s.state # end
        BY <1>2, <2>1
      <3> HIDE DEF u
      <3> QED
        BY <2>1, <3>1, <3>2
    <2>3. Path(s.state) = FromExit1
      BY <1>2, <2>1 DEF Path
    <2>4. end \in {"IDLE", "DRPAUSE"}
      BY <2>2, <2>3 DEF FromExit1
    <2> HIDE DEF u
    <2>5. CASE end = "IDLE"
      <3>1. Run(Tap(Exit1Of[reg], n, ask), FromExit1["IDLE"]) = Tap("IDLE", n, Append(ask, <<reg, n>>))
        <4>1. /\ Run(Tap("DREXIT1", n, ask), FromExit1["IDLE"]) = Tap("IDLE", n, Append(ask, <<"DR", n>>))
              /\ Run(Tap("IREXIT1", n, ask), FromExit1["IDLE"]) = Tap("IDLE", n, Append(ask, <<"IR", n>>))
          BY Moves
        <4> QED
          BY <4>1 DEF Exit1Of
      <3>2. At(x, u, Tap("IDLE", n, Append(ask, <<reg, n>>)))
        BY <2>2, <2>3, <2>5, <3>1
      <3>3. u.state = "IDLE"
        BY <1>7, <1>9, <2>5
      <3> QED
        BY <1>3, <3>2, <3>3 DEF Follows, At
    <2>6. CASE end = "DRPAUSE"
      <3>1. Run(Tap("DREXIT1", n, ask), FromExit1["DRPAUSE"]) = Tap("DRPAUSE", n, ask)
        BY Moves
      <3>2. At(x, u, Tap("DRPAUSE", n, ask))
        BY <2>2, <2>3, <2>6, <3>1 DEF Exit1Of
      <3>3. u.state = "DRPAUSE" /\ reg = "DR"
        BY <1>7, <1>9, <2>6
      <3> QED
        BY <1>3, <3>2, <3>3 DEF Follows, At
    <2> QED
      BY <2>4, <2>5, <2>6
  <1>10. ask \o <<<<reg, n>>>> = Append(ask, <<reg, n>>)
    <2>1. <<reg, n>> \in Scans
      BY <1>3 DEF Scans
    <2> QED
      BY <2>1, AppendIsConcat
  <1>11. Follows(x, u, ask \o <<<<reg, n>>>>)
    <2> HIDE DEF u
    <2>1. u.status # 0 => Follows(x, u, Append(ask, <<reg, n>>))
      BY DEF Follows
    <2> QED
      BY <1>9, <1>10, <2>1
  <1> QED
    BY <1>1, <1>8, <1>11 DEF n

\* The cJTAG opening, its commands, and idling: all from IDLE to IDLE.
LEMMA IdlePiece ==
  ASSUME NEW x, NEW t, Ok(t), NEW ask, NEW n \in Nat, NEW s \in Seq(Bits), s # <<>>,
         NEW m \in Nat, NEW after, Run(Tap("IDLE", n, ask), s) = Tap("IDLE", m, after),
         TxnAppend(t, s, FALSE).status = 0, t.state = "IDLE", At(x, t, Tap("IDLE", n, ask))
  PROVE  TxnAppend(t, s, FALSE).state = "IDLE" /\ At(x, TxnAppend(t, s, FALSE), Tap("IDLE", m, after))
  <1>1. TxnAppend(t, s, FALSE).state = "IDLE"
    BY KeptAppend
  <1>2. At(x, TxnAppend(t, s, FALSE), Run(Tap("IDLE", n, ask), s))
    <2>1. \A g : At(x, t, g) => At(x, TxnAppend(t, s, FALSE), Run(g, s))
      BY AtAppend
    <2> QED
      BY <2>1
  <1> QED
    BY <1>1, <1>2

LEMMA IdleFollows ==
  ASSUME NEW x, NEW t, NEW ask, NEW n \in Nat, t.state = "IDLE", At(x, t, Tap("IDLE", n, ask))
  PROVE  Follows(x, t, ask)
  BY DEF Follows, At

LEMMA OpenFollows ==
  ASSUME NEW x, NEW t, Ok(t), NEW ask \in Seq(Scans), Follows(x, t, ask)
  PROVE  /\ Kept(t, CJtagOpen(t))
         /\ Follows(x, CJtagOpen(t), ask \o <<<<"DR", 0>>, <<"DR", 0>>, <<"DR", 1>>>>)
  <1> DEFINE m == Move(t, "IDLE")
             s == <<1,0,1,1, 1,0,1,1, 1,0,0,1,1,0>>
             u == TxnAppend(m, s, FALSE)
             after == ask \o <<<<"DR", 0>>, <<"DR", 0>>, <<"DR", 1>>>>
  <1>1. CJtagOpen(t) = u
    BY DEF CJtagOpen
  <1>2. "IDLE" \in States
    BY DEF States, TapStates, Next
  <1>3. /\ Kept(t, m)
        /\ m.status = 0 => m.state = "IDLE" /\ \E n \in Nat : At(x, m, Tap("IDLE", n, ask))
    BY <1>2, KeptMove, GoIdle
  <1>4. s \in Seq(Bits) /\ s # <<>>
    BY DEF Bits
  <1>5. \A n : Run(Tap("IDLE", n, ask), s) = Tap("IDLE", 1, after)
    BY Opening
  <1> HIDE DEF m, s, after
  <1>6. Kept(m, u)
    BY <1>3, <1>4, KeptAppend DEF Kept
  <1>7. ASSUME u.status = 0 PROVE Follows(x, u, after)
    <2>1. m.status = 0 /\ Ok(m)
      BY <1>3, <1>6, <1>7 DEF Kept
    <2>2. PICK n \in Nat : At(x, m, Tap("IDLE", n, ask))
      BY <1>3, <2>1
    <2>3. Run(Tap("IDLE", n, ask), s) = Tap("IDLE", 1, after)
      BY <1>5
    <2>4. u.state = "IDLE" /\ At(x, u, Tap("IDLE", 1, after))
      BY <1>3, <1>4, <1>7, <2>1, <2>2, <2>3, IdlePiece
    <2> QED
      BY <2>4, IdleFollows
  <1>8. u.status # 0 => Follows(x, u, after)
    BY DEF Follows
  <1>9. Kept(t, u)
    BY <1>3, <1>6, KeptTrans
  <1> QED
    BY <1>1, <1>7, <1>8, <1>9 DEF after

LEMMA CmdFollows ==
  ASSUME NEW x, NEW t, Ok(t), NEW ask \in Seq(Scans), Follows(x, t, ask),
         NEW cp0 \in Nat, NEW cp1 \in Nat
  PROVE  /\ Kept(t, CJtagCmd(t, cp0, cp1))
         /\ Follows(x, CJtagCmd(t, cp0, cp1), ask \o <<<<"DR", cp0>>, <<"DR", cp1>>>>)
  <1> DEFINE m == Move(t, "IDLE")
             v == TxnAppend(m, CJtagBits(cp0), FALSE)
             u == TxnAppend(v, CJtagBits(cp1), FALSE)
             a0 == Append(ask, <<"DR", cp0>>)
             a1 == Append(a0, <<"DR", cp1>>)
  <1>1. CJtagCmd(t, cp0, cp1) = u \/ CJtagCmd(t, cp0, cp1) = Failing(m)
    BY DEF CJtagCmd
  <1>2. "IDLE" \in States
    BY DEF States, TapStates, Next
  <1>3. /\ Kept(t, m)
        /\ m.status = 0 => m.state = "IDLE" /\ \E n \in Nat : At(x, m, Tap("IDLE", n, ask))
    BY <1>2, KeptMove, GoIdle
  <1>4. /\ CJtagBits(cp0) \in Seq(Bits) /\ CJtagBits(cp0) # <<>>
        /\ CJtagBits(cp1) \in Seq(Bits) /\ CJtagBits(cp1) # <<>>
        /\ \A n : Run(Tap("IDLE", n, ask), CJtagBits(cp0)) = Tap("IDLE", cp0, a0)
        /\ \A n : Run(Tap("IDLE", n, a0), CJtagBits(cp1)) = Tap("IDLE", cp1, a1)
    <2>1. \A n, q : /\ CJtagBits(cp0) \in Seq(Bits) /\ CJtagBits(cp0) # <<>>
                    /\ Run(Tap("IDLE", n, q), CJtagBits(cp0)) = Tap("IDLE", cp0, Append(q, <<"DR", cp0>>))
      BY Parameter
    <2>2. \A n, q : /\ CJtagBits(cp1) \in Seq(Bits) /\ CJtagBits(cp1) # <<>>
                    /\ Run(Tap("IDLE", n, q), CJtagBits(cp1)) = Tap("IDLE", cp1, Append(q, <<"DR", cp1>>))
      BY Parameter
    <2> QED
      BY <2>1, <2>2
  <1>5. ask \o <<<<"DR", cp0>>, <<"DR", cp1>>>> = a1
    <2>1. <<"DR", cp0>> \in Scans /\ <<"DR", cp1>> \in Scans
      BY DEF Scans
    <2>2. \A S : \A q \in Seq(S), e \in S, f \in S : q \o <<e, f>> = Append(Append(q, e), f)
      OBVIOUS
    <2> QED
      BY <2>1, <2>2
  <1> HIDE DEF m, a0, a1
  <1>6. Kept(m, v)
    BY <1>3, <1>4, KeptAppend DEF Kept
  <1> HIDE DEF v
  <1>7. Kept(v, u)
    BY <1>4, <1>6, KeptAppend DEF Kept
  <1>8. ASSUME u.status = 0 PROVE Follows(x, u, a1)
    <2>1. v.status = 0 /\ m.status = 0 /\ Ok(m) /\ Ok(v)
      BY <1>3, <1>6, <1>7, <1>8 DEF Kept
    <2>2. PICK n \in Nat : At(x, m, Tap("IDLE", n, ask))
      BY <1>3, <2>1
    <2>3. v.state = "IDLE" /\ At(x, v, Tap("IDLE", cp0, a0))
      <3>1. Run(Tap("IDLE", n, ask), CJtagBits(cp0)) = Tap("IDLE", cp0, a0)
        BY <1>4
      <3> QED
        BY <1>3, <1>4, <2>1, <2>2, <3>1, IdlePiece DEF v
    <2>4. u.state = "IDLE" /\ At(x, u, Tap("IDLE", cp1, a1))
      <3>1. Run(Tap("IDLE", cp0, a0), CJtagBits(cp1)) = Tap("IDLE", cp1, a1)
        BY <1>4
      <3> QED
        BY <1>4, <1>8, <2>1, <2>3, <3>1, IdlePiece
    <2> QED
      BY <2>4, IdleFollows
  <1>9. u.status # 0 => Follows(x, u, a1)
    BY DEF Follows
  <1>10. Kept(t, u)
    BY <1>3, <1>6, <1>7, KeptTrans
  <1> HIDE DEF u
  <1>11. Kept(t, Failing(m)) /\ Follows(x, Failing(m), a1)
    <2>1. Kept(m, Failing(m)) /\ Failing(m).status = -1
      BY <1>3, KeptFailing DEF Kept
    <2> QED
      BY <1>3, <2>1, KeptTrans DEF Follows
  <1> QED
    BY <1>1, <1>5, <1>8, <1>9, <1>10, <1>11

LEMMA IdlingFollows ==
  ASSUME NEW x, NEW t, Ok(t), NEW ask, Follows(x, t, ask)
  PROVE  /\ Kept(t, TxnAppend(Move(t, "IDLE"), Zeros(8), FALSE))
         /\ Follows(x, TxnAppend(Move(t, "IDLE"), Zeros(8), FALSE), ask)
  <1> DEFINE m == Move(t, "IDLE")
             s == Zeros(8)
             u == TxnAppend(m, s, FALSE)
  <1>2. "IDLE" \in States
    BY DEF States, TapStates, Next
  <1>3. /\ Kept(t, m)
        /\ m.status = 0 => m.state = "IDLE" /\ \E n \in Nat : At(x, m, Tap("IDLE", n, ask))
    BY <1>2, KeptMove, GoIdle
  <1>4. s \in Seq(Bits) /\ s # <<>>
    <2>1. s \in Seq(Bits) /\ Len(s) = 8
      BY PieceTypes
    <2> HIDE DEF s
    <2> QED
      BY <2>1
  <1>5. \A n : Run(Tap("IDLE", n, ask), s) = Tap("IDLE", n, ask)
    BY IdleZeros
  <1> HIDE DEF m, s
  <1>6. Kept(m, u)
    BY <1>3, <1>4, KeptAppend DEF Kept
  <1>7. ASSUME u.status = 0 PROVE Follows(x, u, ask)
    <2>1. m.status = 0 /\ Ok(m)
      BY <1>3, <1>6, <1>7 DEF Kept
    <2>2. PICK n \in Nat : At(x, m, Tap("IDLE", n, ask))
      BY <1>3, <2>1
    <2>3. Run(Tap("IDLE", n, ask), s) = Tap("IDLE", n, ask)
      BY <1>5
    <2>4. u.state = "IDLE" /\ At(x, u, Tap("IDLE", n, ask))
      BY <1>3, <1>4, <1>7, <2>1, <2>2, <2>3, IdlePiece
    <2> QED
      BY <2>4, IdleFollows
  <1>8. u.status # 0 => Follows(x, u, ask)
    BY DEF Follows
  <1>9. Kept(t, u)
    BY <1>3, <1>6, KeptTrans
  <1> QED
    BY <1>7, <1>8, <1>9 DEF m, s

\* connect_ti starts by resetting the TAPs, wherever they are.
LEMMA FreshOk ==
  ASSUME NEW t \in Txns, t.tms = <<>>, t.bits = <<>>, t.want = <<>>
  PROVE  Ok(t) /\ \A x : At(x, t, x)
  <1>1. Whole(t)
    <2>1. ResultOffset(t, 1) = 0
      BY OffsetStep
    <2> QED
      BY <2>1, JtagAssumption DEF Whole
  <1>2. \A x : Run(x, <<>>) = x
    <2>1. Len(<<>>) = 0
      OBVIOUS
    <2> QED
      BY <2>1, AfterStep DEF Run
  <1>3. \A x : Placed(x, t)
    <2>1. DOMAIN t.bits = {}
      OBVIOUS
    <2> QED
      BY <2>1 DEF Placed
  <1> QED
    BY <1>1, <1>2, <1>3 DEF Ok, At

LEMMA FreshType ==
  /\ Fresh \in Txns
  /\ \A p \in [{"IR", "DR"} -> [pre : Nat, post : Nat]] :
        [Fresh EXCEPT !.state = "IDLE", !.pads = p] \in Txns
  <1>1. <<>> \in Seq(Bits) /\ <<>> \in Seq(Nat \ {0}) /\ <<>> \in Seq(BOOLEAN)
    OBVIOUS
  <1>2. NoPads \in [{"IR", "DR"} -> [pre : Nat, post : Nat]]
    BY DEF NoPads
  <1>3. {"IDLE", "UNKNOWN"} \subseteq TapStates \cup {"UNKNOWN"}
    BY DEF TapStates, Next
  <1>4. \A p \in [{"IR", "DR"} -> [pre : Nat, post : Nat]], s \in {"IDLE", "UNKNOWN"} :
           [state |-> s, status |-> 0, pads |-> p, tms |-> <<>>, bits |-> <<>>, want |-> <<>>] \in Txns
    BY <1>1, <1>3 DEF Txns
  <1>5. Fresh = [state |-> "UNKNOWN", status |-> 0, pads |-> NoPads,
                 tms |-> <<>>, bits |-> <<>>, want |-> <<>>]
    BY DEF Fresh
  <1>6. \A p : [Fresh EXCEPT !.state = "IDLE", !.pads = p]
                  = [state |-> "IDLE", status |-> 0, pads |-> p, tms |-> <<>>, bits |-> <<>>, want |-> <<>>]
    <2> DEFINE r == [state |-> "IDLE", status |-> 0, pads |-> NoPads,
                     tms |-> <<>>, bits |-> <<>>, want |-> <<>>]
    <2>1. [Fresh EXCEPT !.state = "IDLE"] = r
      BY DEF Fresh
    <2>2. \A p : [r EXCEPT !.pads = p]
                  = [state |-> "IDLE", status |-> 0, pads |-> p, tms |-> <<>>, bits |-> <<>>, want |-> <<>>]
      OBVIOUS
    <2> HIDE DEF r
    <2> QED
      BY <2>1, <2>2
  <1> QED
    BY <1>2, <1>4, <1>5, <1>6

LEMMA ConnectFollows ==
  ASSUME NEW x \in Taps
  PROVE  Ok(AnyToRti(Fresh)) /\ Follows(x, AnyToRti(Fresh), <<>>)
  <1> DEFINE v == TxnAppend(Fresh, ResetBits, FALSE)
             u == [v EXCEPT !.state = "IDLE"]
  <1>1. AnyToRti(Fresh) = u
    BY DEF AnyToRti
  <1>2. Ok(Fresh) /\ At(x, Fresh, x)
    <2>1. Fresh \in Txns
      BY FreshType
    <2>2. Fresh.tms = <<>> /\ Fresh.bits = <<>> /\ Fresh.want = <<>>
      BY DEF Fresh
    <2> QED
      BY <2>1, <2>2, FreshOk
  <1>3. ResetBits \in Seq(Bits) /\ ResetBits # <<>>
    BY DEF ResetBits, Bits
  <1>4. "IDLE" \in States
    BY DEF States, TapStates, Next
  <1>5. Kept(Fresh, v)
    BY <1>2, <1>3, KeptAppend
  <1>6. v.status = 0 => At(x, v, Run(x, ResetBits))
    BY <1>2, <1>3, AtAppend
  <1> HIDE DEF v
  <1>7. Kept(v, u) /\ u.state = "IDLE" /\ u.status = v.status /\ \A g : At(x, v, g) => At(x, u, g)
    BY <1>4, <1>5, SetState DEF Kept
  <1> HIDE DEF u
  <1>8. PICK n \in Nat : Run(x, ResetBits) = Tap("IDLE", n, <<>>)
    BY Reset
  <1>9. u.status = 0 => At(x, u, Tap("IDLE", n, <<>>))
    BY <1>6, <1>7, <1>8
  <1>10. Ok(u)
    BY <1>7 DEF Kept
  <1>11. Follows(x, u, <<>>)
    BY <1>7, <1>9 DEF Follows, At
  <1> QED
    BY <1>1, <1>10, <1>11

-----------------------------------------------------------------------------
(* The invariant.                                                          *)

JInv ==
    /\ Ok(txn)
    /\ open \in BOOLEAN /\ reached \in BOOLEAN
    /\ asked \in Seq(Scans)
    /\ tap \in Taps
    /\ reached => tap.state = "IDLE"
    /\ open => Follows(tap, txn, asked)

LEMMA JInit == Init => JInv
  <1> SUFFICES ASSUME Init PROVE JInv
    OBVIOUS
  <1>1. txn = Fresh /\ open = FALSE /\ asked = <<>> /\ reached = FALSE
    BY DEF Init
  <1>2. tap \in Taps
    <2>1. {<<>>} \subseteq Seq(Scans) /\ {0} \subseteq Nat
      OBVIOUS
    <2>2. \A S, N, M : {<<>>} \subseteq M /\ {0} \subseteq N =>
             [state : S, shifted : {0}, seen : {<<>>}] \subseteq [state : S, shifted : N, seen : M]
      OBVIOUS
    <2> QED
      BY <2>1, <2>2 DEF Init, Taps
  <1>3. Ok(Fresh)
    <2>1. Fresh \in Txns
      BY FreshType
    <2>2. Fresh.tms = <<>> /\ Fresh.bits = <<>> /\ Fresh.want = <<>>
      BY DEF Fresh
    <2> QED
      BY <2>1, <2>2, FreshOk
  <1>4. <<>> \in Seq(Scans)
    OBVIOUS
  <1> QED
    BY <1>1, <1>2, <1>3, <1>4 DEF JInv

\* A client asks for more: the transaction follows what was asked.
LEMMA JAsk ==
  ASSUME JInv, NEW t, NEW scans \in Seq(Scans), Ask(t, scans),
         Ok(t), Follows(tap, t, asked \o scans)
  PROVE  JInv'
  <1>1. /\ open' = open /\ tap' = tap /\ reached' = reached /\ txn' = t
        /\ asked' = asked \o scans
    BY DEF Ask
  <1>2. asked' \in Seq(Scans)
    BY <1>1 DEF JInv
  <1>4. Ok(txn') /\ Follows(tap', txn', asked')
    BY <1>1
  <1> QED
    BY <1>1, <1>2, <1>4 DEF JInv

\* A new transaction, for a client that asked for nothing yet.
LEMMA JBegin ==
  ASSUME JInv, NEW t, Begin(t), reached' = reached,
         Ok(t), Follows([tap EXCEPT !.seen = <<>>], t, <<>>)
  PROVE  JInv'
  <1>1. /\ open' = TRUE /\ txn' = t /\ asked' = <<>> /\ tap' = [tap EXCEPT !.seen = <<>>]
    BY DEF Begin
  <1>2. <<>> \in Seq(Scans)
    OBVIOUS
  <1>3. tap' \in Taps /\ tap'.state = tap.state
    BY <1>1, <1>2 DEF JInv, Taps
  <1>4. Ok(txn') /\ Follows(tap', txn', asked')
    BY <1>1
  <1> QED
    BY <1>1, <1>2, <1>3, <1>4 DEF JInv

LEMMA JBeginConnect == ASSUME JInv, BeginConnect PROVE JInv'
  <1>1. <<>> \in Seq(Scans)
    OBVIOUS
  <1>2. [tap EXCEPT !.seen = <<>>] \in Taps
    BY <1>1 DEF JInv, Taps
  <1>3. Ok(AnyToRti(Fresh)) /\ Follows([tap EXCEPT !.seen = <<>>], AnyToRti(Fresh), <<>>)
    BY <1>2, ConnectFollows
  <1> QED
    BY <1>3, JBegin DEF BeginConnect

LEMMA JBeginIdle == ASSUME JInv, NEW pads \in Chains, BeginIdle(pads) PROVE JInv'
  <1> DEFINE t == [Fresh EXCEPT !.state = "IDLE", !.pads = pads]
             x == [tap EXCEPT !.seen = <<>>]
  <1>1. reached /\ Begin(t) /\ reached' = reached
    BY DEF BeginIdle
  <1>2. pads \in [{"IR", "DR"} -> [pre : Nat, post : Nat]]
    BY JtagAssumption
  <1>3. t \in Txns
    BY <1>2, FreshType
  <1>4. t.tms = <<>> /\ t.bits = <<>> /\ t.want = <<>> /\ t.state = "IDLE"
    BY DEF Fresh
  <1>5. x = Tap("IDLE", tap.shifted, <<>>) /\ tap.shifted \in Nat
    BY <1>1 DEF JInv, Taps, Tap
  <1> HIDE DEF t, x
  <1>6. Ok(t) /\ At(x, t, x)
    BY <1>3, <1>4, FreshOk
  <1>7. At(x, t, Tap("IDLE", tap.shifted, <<>>))
    BY <1>5, <1>6
  <1>8. Follows(x, t, <<>>)
    BY <1>4, <1>5, <1>7, IdleFollows
  <1> QED
    BY <1>1, <1>6, <1>8, JBegin DEF x

LEMMA JScan ==
  ASSUME JInv, open, NEW n \in Widths, NEW want \in BOOLEAN,
         NEW reg \in {"IR", "DR"}, want => reg = "DR",
         NEW end \in {"IDLE", "DRPAUSE", "IRPAUSE"}, end = "DRPAUSE" => reg = "DR",
         Ask(Scan(txn, reg, n, want, end), <<<<reg, Width(reg, n)>>>>)
  PROVE  JInv'
  <1> DEFINE u == Scan(txn, reg, n, want, end)
             w == n + txn.pads[reg].pre + txn.pads[reg].post
  <1>1. n \in Nat \ {0}
    BY JtagAssumption
  <1>2. Ok(txn) /\ asked \in Seq(Scans) /\ Follows(tap, txn, asked)
    BY DEF JInv
  <1>3. Kept(txn, u) /\ Follows(tap, u, asked \o <<<<reg, w>>>>)
    BY <1>1, <1>2, ScanFollows
  <1>4. w \in Nat
    BY <1>1, <1>2 DEF Ok, Txns
  <1>5. Width(reg, n) = w
    BY DEF Width
  <1> HIDE DEF u, w
  <1>6. <<<<reg, w>>>> \in Seq(Scans)
    <2>1. <<reg, w>> \in Scans
      BY <1>4 DEF Scans
    <2> QED
      BY <2>1
  <1>7. Ask(u, <<<<reg, w>>>>) /\ Ok(u)
    BY <1>3, <1>5 DEF u, Kept
  <1> QED
    BY <1>3, <1>6, <1>7, JAsk

LEMMA JScans ==
  ASSUME JInv, NEW n \in Widths, NEW want \in BOOLEAN,
         AskIR(n) \/ AskIRp(n) \/ AskDR(n, want) \/ AskDRp(n, want)
  PROVE  JInv'
  <1>1. open
    BY DEF AskIR, AskIRp, AskDR, AskDRp, Ask
  <1>2. CASE AskIR(n)
    BY <1>1, <1>2, JScan DEF AskIR
  <1>3. CASE AskIRp(n)
    BY <1>1, <1>3, JScan DEF AskIRp
  <1>4. CASE AskDR(n, want)
    BY <1>1, <1>4, JScan DEF AskDR
  <1>5. CASE AskDRp(n, want)
    BY <1>1, <1>5, JScan DEF AskDRp
  <1> QED
    BY <1>2, <1>3, <1>4, <1>5

LEMMA JOpen == ASSUME JInv, AskOpen PROVE JInv'
  <1> DEFINE u == CJtagOpen(txn)
             q == <<<<"DR", 0>>, <<"DR", 0>>, <<"DR", 1>>>>
  <1>1. Ask(u, q) /\ open
    BY DEF AskOpen, Ask
  <1>2. q \in Seq(Scans)
    <2>1. <<"DR", 0>> \in Scans /\ <<"DR", 1>> \in Scans
      BY DEF Scans
    <2> QED
      BY <2>1
  <1>3. Kept(txn, u) /\ Follows(tap, u, asked \o q)
    BY <1>1, OpenFollows DEF JInv
  <1> HIDE DEF u, q
  <1> QED
    BY <1>1, <1>2, <1>3, JAsk DEF Kept

LEMMA JCmd == ASSUME JInv, NEW cp \in CJtagArgs, AskCmd(cp) PROVE JInv'
  <1> DEFINE u == CJtagCmd(txn, cp[1], cp[2])
             q == <<<<"DR", cp[1]>>, <<"DR", cp[2]>>>>
  <1>1. Ask(u, q) /\ open
    BY DEF AskCmd, Ask
  <1>2. cp[1] \in Nat /\ cp[2] \in Nat
    BY JtagAssumption
  <1>3. q \in Seq(Scans)
    <2>1. <<"DR", cp[1]>> \in Scans /\ <<"DR", cp[2]>> \in Scans
      BY <1>2 DEF Scans
    <2> QED
      BY <2>1
  <1>4. Kept(txn, u) /\ Follows(tap, u, asked \o q)
    <2>1. \A a, b \in Nat : Kept(txn, CJtagCmd(txn, a, b))
                            /\ Follows(tap, CJtagCmd(txn, a, b), asked \o <<<<"DR", a>>, <<"DR", b>>>>)
      BY <1>1, CmdFollows DEF JInv
    <2> QED
      BY <1>2, <2>1
  <1> HIDE DEF u, q
  <1> QED
    BY <1>1, <1>3, <1>4, JAsk DEF Kept

LEMMA JIdle == ASSUME JInv, AskIdle PROVE JInv'
  <1> DEFINE u == TxnAppend(Move(txn, "IDLE"), Zeros(8), FALSE)
  <1>1. Ask(u, <<>>) /\ open
    BY DEF AskIdle, Ask
  <1>2. Kept(txn, u) /\ Follows(tap, u, asked)
    BY <1>1, IdlingFollows DEF JInv
  <1>3. <<>> \in Seq(Scans) /\ asked \o <<>> = asked
    <2>1. asked \in Seq(Scans)
      BY DEF JInv
    <2> QED
      BY <2>1
  <1> HIDE DEF u
  <1>4. Ok(u) /\ Follows(tap, u, asked \o <<>>)
    BY <1>2, <1>3 DEF Kept
  <1> QED
    BY <1>1, <1>3, <1>4, JAsk

\* The bits are clocked and the TAPs are idle.
LEMMA Clocked ==
  ASSUME JInv, CanExec, txn.status = 0
  PROVE  /\ After(tap, txn.tms, Len(txn.tms)) \in Taps
         /\ After(tap, txn.tms, Len(txn.tms)).state = "IDLE"
  <1>1. Follows(tap, txn, asked) /\ txn.tms \in Seq(Bits) /\ tap \in Taps
    BY DEF JInv, CanExec, Ok, Txns
  <1>2. After(tap, txn.tms, Len(txn.tms)) \in Taps
    <2>1. Len(txn.tms) \in 0 .. Len(txn.tms)
      BY <1>1
    <2> QED
      BY <1>1, <2>1, AfterType
  <1>3. PICK n \in Nat : At(tap, txn, Tap("IDLE", n, asked))
    BY <1>1 DEF CanExec, Follows
  <1>4. Tap("IDLE", n, asked).state = "IDLE"
    BY DEF Tap
  <1> QED
    BY <1>2, <1>3, <1>4 DEF At, Run

LEMMA JEnd == ASSUME JInv, Exec \/ ExecRefused \/ ExecFail \/ TargetReset PROVE JInv'
  <1> DEFINE g == After(tap, txn.tms, Len(txn.tms))
  <1>1. open' = FALSE /\ txn' = txn /\ asked' = asked
    BY DEF Exec, ExecRefused, ExecFail, TargetReset
  <1>2. CASE Exec
    <2>1. tap' = g /\ reached' = TRUE /\ CanExec /\ txn.status = 0
      BY <1>2 DEF Exec
    <2>2. tap' \in Taps /\ tap'.state = "IDLE"
      BY <2>1, Clocked
    <2> QED
      BY <1>1, <2>1, <2>2 DEF JInv
  <1>3. CASE ExecRefused
    BY <1>1, <1>3 DEF ExecRefused, JInv
  <1>4. CASE ExecFail
    <2>1. tap' \in {tap, g} /\ reached' = reached /\ CanExec /\ txn.status = 0
      BY <1>4 DEF ExecFail
    <2>2. tap' \in Taps /\ (reached => tap'.state = "IDLE")
      <3>1. g \in Taps /\ g.state = "IDLE"
        BY <2>1, Clocked
      <3> HIDE DEF g
      <3> QED
        BY <2>1, <3>1 DEF JInv
    <2> QED
      BY <1>1, <2>1, <2>2 DEF JInv
  <1>5. CASE TargetReset
    <2>1. tap' = [state |-> "RESET", shifted |-> 0, seen |-> <<>>] /\ reached' = FALSE
      BY <1>5 DEF TargetReset
    <2>2. "RESET" \in TapStates /\ <<>> \in Seq(Scans)
      BY DEF TapStates, Next
    <2>3. tap' \in Taps
      BY <2>1, <2>2 DEF Taps
    <2> QED
      BY <1>1, <2>1, <2>3 DEF JInv
  <1> QED
    BY <1>2, <1>3, <1>4, <1>5

LEMMA JStep == JInv /\ [JNext]_vars => JInv'
  <1> SUFFICES ASSUME JInv, [JNext]_vars PROVE JInv'
    OBVIOUS
  <1>1. CASE UNCHANGED vars
    BY <1>1 DEF JInv, vars
  <1>2. CASE JNext
    <2>1. CASE BeginConnect
      BY <2>1, JBeginConnect
    <2>2. CASE \E pads \in Chains : BeginIdle(pads)
      BY <2>2, JBeginIdle
    <2>3. CASE \E n \in Widths : AskIR(n) \/ AskIRp(n)
      BY <2>3, JScans
    <2>4. CASE \E n \in Widths, want \in BOOLEAN : AskDR(n, want) \/ AskDRp(n, want)
      BY <2>4, JScans
    <2>5. CASE AskOpen
      BY <2>5, JOpen
    <2>6. CASE \E cp \in CJtagArgs : AskCmd(cp)
      BY <2>6, JCmd
    <2>7. CASE AskIdle
      BY <2>7, JIdle
    <2>8. CASE Exec \/ ExecRefused \/ ExecFail \/ TargetReset
      BY <2>8, JEnd
    <2> QED
      BY <1>2, <2>1, <2>2, <2>3, <2>4, <2>5, <2>6, <2>7, <2>8 DEF JNext, Client
  <1> QED
    BY <1>1, <1>2

\* The invariant of the engine: what is queued, clocked from where the TAP is,
\* leads to the state the engine tracks with the scans asked so far.
THEOREM JCorrect == Spec => []JInv
  BY JInit, JStep, PTL DEF Spec

\* JTypeOK: no transaction grows beyond the bits it has room for.  (Of the table of
\* results jtag.c does not check the index, and nothing is said of it here.)
THEOREM TypeCorrect == Spec => []JTypeOK
  <1>1. JInv => JTypeOK
    BY DEF JInv, JTypeOK, Ok, Txns, Whole, Taps
  <1> QED
    BY <1>1, JCorrect, PTL

\* StateTracked: the engine never sees the target, and yet the state it tracks
\* is the one the TAPs are in.
THEOREM StateAlwaysTracked == Spec => []StateTracked
  <1>1. JInv => StateTracked
    <2> SUFFICES ASSUME JInv, open, txn.status = 0 PROVE Target.state = txn.state
      BY DEF StateTracked
    <2>1. Follows(tap, txn, asked)
      BY DEF JInv
    <2>2. Target = Run(tap, txn.tms)
      BY DEF Target, Run
    <2>3. \A s, n, q : Tap(s, n, q).state = s
      BY DEF Tap
    <2> QED
      BY <2>1, <2>2, <2>3 DEF Follows, At
  <1> QED
    BY <1>1, JCorrect, PTL

\* ScansAsAsked: for any number of scans, of any width, with any TAPs before and
\* after, the target updates its registers as asked and not once more.
THEOREM ScansAlwaysAsAsked == Spec => []ScansAsAsked
  <1>1. JInv => ScansAsAsked
    <2> SUFFICES ASSUME JInv, open, txn.status = 0, txn.state = "IDLE" PROVE Target.seen = asked
      BY DEF ScansAsAsked
    <2>1. Follows(tap, txn, asked)
      BY DEF JInv
    <2>2. Target = Run(tap, txn.tms)
      BY DEF Target, Run
    <2>3. \A s, n, q : Tap(s, n, q).seen = q
      BY DEF Tap
    <2> QED
      BY <2>1, <2>2, <2>3 DEF Follows, At
  <1> QED
    BY <1>1, JCorrect, PTL

\* ResultsInPlace: every result is taken from the bits its own TAP shifts out.
THEOREM ResultsAlwaysInPlace == Spec => []ResultsInPlace
  <1>1. JInv => ResultsInPlace
    BY DEF JInv, ResultsInPlace, Follows, Placed
  <1> QED
    BY <1>1, JCorrect, PTL
==============================================================================
