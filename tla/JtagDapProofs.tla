----------------------------- MODULE JtagDapProofs -----------------------------
(***************************************************************************)
(* JtagDap implements TargetMemory, and tells of every access it dropped,  *)
(* for every size of memory, number of tries and choice of faults.         *)
(*                                                                         *)
(* A transaction is up to sixteen scans, any of which may have to wait, so *)
(* it is followed scan by scan: what one scan does (Loaded, Dropped,       *)
(* Becomes), what a request of the code does that way (SelectPair ...      *)
(* CommitPair), and what the whole transaction comes to (ReadTransaction   *)
(* and the like).  The argument is that a port which dropped or failed at  *)
(* something starts nothing more until CSW is written, so that what the    *)
(* status at the end says of the transaction is true of all of it.         *)
(***************************************************************************)
EXTENDS JtagDap, SequenceTheorems, WellFoundedInduction, TLAPS

-----------------------------------------------------------------------------
(* The debug port, by its parts.                                           *)

Port(ir, enabled, orun, err, pending, hung, tar, buffer) ==
    [ir |-> ir, enabled |-> enabled, orun |-> orun, err |-> err,
     pending |-> pending, hung |-> hung, tar |-> tar, buffer |-> buffer]

\* A debug port, whatever is in it.
IsPort(p) ==
    /\ p = Port(p.ir, p.enabled, p.orun, p.err, p.pending, p.hung, p.tar, p.buffer)
    /\ {p.enabled, p.orun, p.err, p.pending, p.hung} \subseteq BOOLEAN

LEMMA Parts ==
  ASSUME NEW i, NEW e, NEW o, NEW r, NEW n, NEW g, NEW t, NEW b
  PROVE  LET p == Port(i, e, o, r, n, g, t, b) IN
         /\ p.ir = i /\ p.enabled = e /\ p.orun = o /\ p.err = r
         /\ p.pending = n /\ p.hung = g /\ p.tar = t /\ p.buffer = b
  BY DEF Port

LEMMA PortTyped ==
  ASSUME NEW i, NEW e \in BOOLEAN, NEW o \in BOOLEAN, NEW r \in BOOLEAN,
         NEW n \in BOOLEAN, NEW g \in BOOLEAN, NEW t, NEW b
  PROVE  IsPort(Port(i, e, o, r, n, g, t, b))
  <1> DEFINE p == Port(i, e, o, r, n, g, t, b)
  <1>1. /\ p.ir = i /\ p.enabled = e /\ p.orun = o /\ p.err = r
        /\ p.pending = n /\ p.hung = g /\ p.tar = t /\ p.buffer = b
    BY Parts
  <1> HIDE DEF p
  <1>2. p = Port(p.ir, p.enabled, p.orun, p.err, p.pending, p.hung, p.tar, p.buffer)
    BY <1>1 DEF p
  <1> QED
    BY <1>1, <1>2 DEF IsPort

\* Values of the flags, as terms.
Yes == TRUE
No == FALSE
Either(x, y) == x \/ y

\* The port with one part changed.
SetIr(p, x) == [p EXCEPT !.ir = x]
SetEnabled(p, x) == [p EXCEPT !.enabled = x]
SetOrun(p, x) == [p EXCEPT !.orun = x]
SetErr(p, x) == [p EXCEPT !.err = x]
SetPending(p, x) == [p EXCEPT !.pending = x]
SetHung(p, x) == [p EXCEPT !.hung = x]
SetTar(p, x) == [p EXCEPT !.tar = x]
SetBuffer(p, x) == [p EXCEPT !.buffer = x]

LEMMA Changed ==
  ASSUME NEW i, NEW e, NEW o, NEW r, NEW n, NEW g, NEW t, NEW b, NEW x
  PROVE  LET p == Port(i, e, o, r, n, g, t, b) IN
         /\ SetIr(p, x) = Port(x, e, o, r, n, g, t, b)
         /\ SetEnabled(p, x) = Port(i, x, o, r, n, g, t, b)
         /\ SetOrun(p, x) = Port(i, e, x, r, n, g, t, b)
         /\ SetErr(p, x) = Port(i, e, o, x, n, g, t, b)
         /\ SetPending(p, x) = Port(i, e, o, r, x, g, t, b)
         /\ SetHung(p, x) = Port(i, e, o, r, n, x, t, b)
         /\ SetTar(p, x) = Port(i, e, o, r, n, g, x, b)
         /\ SetBuffer(p, x) = Port(i, e, o, r, n, g, t, x)
  <1> DEFINE p == Port(i, e, o, r, n, g, t, b)
  <1>1. SetIr(p, x) = Port(x, e, o, r, n, g, t, b)
    BY DEF SetIr, Port
  <1>2. SetEnabled(p, x) = Port(i, x, o, r, n, g, t, b)
    BY DEF SetEnabled, Port
  <1>3. SetOrun(p, x) = Port(i, e, x, r, n, g, t, b)
    BY DEF SetOrun, Port
  <1>4. SetErr(p, x) = Port(i, e, o, x, n, g, t, b)
    BY DEF SetErr, Port
  <1>5. SetPending(p, x) = Port(i, e, o, r, x, g, t, b)
    BY DEF SetPending, Port
  <1>6. SetHung(p, x) = Port(i, e, o, r, n, x, t, b)
    BY DEF SetHung, Port
  <1>7. SetTar(p, x) = Port(i, e, o, r, n, g, x, b)
    BY DEF SetTar, Port
  <1>8. SetBuffer(p, x) = Port(i, e, o, r, n, g, t, x)
    BY DEF SetBuffer, Port
  <1> QED
    BY <1>1, <1>2, <1>3, <1>4, <1>5, <1>6, <1>7, <1>8

\* A scan that has to wait.
LEMMA WaitIs ==
  ASSUME NEW i, NEW e, NEW o, NEW r, NEW n, NEW g, NEW t, NEW b, NEW hang
  PROVE  Wait(Port(i, e, o, r, n, g, t, b), hang) =
            Port(i, e, Either(o, e), r, n, Either(g, hang), t, b)
  <1> DEFINE p == Port(i, e, o, r, n, g, t, b)
             q == SetOrun(p, Either(p.orun, p.enabled))
  <1>1. Wait(p, hang) = SetHung(q, Either(q.hung, hang))
    BY DEF Wait, SetOrun, SetHung, Either
  <1>2. Either(p.orun, p.enabled) = Either(o, e)
    BY Parts
  <1>3. q = Port(i, e, Either(o, e), r, n, g, t, b)
    <2> HIDE DEF p
    <2>1. q = SetOrun(p, Either(o, e))
      BY <1>2
    <2> QED
      BY <2>1, Changed DEF p
  <1> HIDE DEF q
  <1>4. Either(q.hung, hang) = Either(g, hang)
    BY <1>3, Parts
  <1>5. Wait(p, hang) = SetHung(q, Either(g, hang))
    <2> HIDE DEF p
    <2> QED
      BY <1>1, <1>4
  <1> QED
    BY <1>3, <1>5, Changed

\* The flags a read of the status gets.
StatusOf(e, o, r) == (IF o THEN {"STICKYORUN"} ELSE {}) \cup
                     (IF r THEN {"STICKYERR"} ELSE {}) \cup
                     (IF e THEN {"PWRUPACK"} ELSE {})

\* A request to the debug port that is taken.
LEMMA DpTaken ==
  ASSUME NEW e, NEW o, NEW r, NEW n, NEW g, NEW t, NEW b, NEW bus, NEW out
  PROVE  LET p == Port("DPACC", e, o, r, n, g, t, b) IN
         /\ Accept(p, Wr("SELECT", 0), bus) = Port("DPACC", e, o, r, No, g, t, b)
         /\ Accept(p, Wr("CSW", 0), bus) = Port("DPACC", Yes, No, No, No, g, t, b)
         /\ Accept(p, Rd("CSW", out), bus) =
              Port("DPACC", e, o, r, No, g, t, [word |-> NoWord, flags |-> StatusOf(e, o, r)])
         /\ Accept(p, Rd("RDBUFF", out), bus) = Port("DPACC", e, o, r, No, g, t, Nothing)
  <1> DEFINE p == Port("DPACC", e, o, r, n, g, t, b)
             q == SetPending(p, No)
  <1>1. q = Port("DPACC", e, o, r, No, g, t, b)
    BY Changed
  <1>2. p.ir = "DPACC"
    BY Parts
  <1>3. /\ Accept(p, Wr("SELECT", 0), bus) = DpWrite(q, Wr("SELECT", 0))
        /\ Accept(p, Wr("CSW", 0), bus) = DpWrite(q, Wr("CSW", 0))
        /\ Accept(p, Rd("CSW", out), bus) = DpRead(q, Rd("CSW", out))
        /\ Accept(p, Rd("RDBUFF", out), bus) = DpRead(q, Rd("RDBUFF", out))
    <2> HIDE DEF p
    <2> QED
      BY <1>2 DEF Accept, Wr, Rd, SetPending, No
  <1> HIDE DEF p, q
  <1>4. DpWrite(q, Wr("SELECT", 0)) = q
    BY DEF DpWrite, Wr
  <1>5. DpWrite(q, Wr("CSW", 0)) = Port("DPACC", Yes, No, No, No, g, t, b)
    <2>1. DpWrite(q, Wr("CSW", 0)) = SetEnabled(SetErr(SetOrun(q, No), No), Yes)
      BY DEF DpWrite, Wr, SetEnabled, SetErr, SetOrun, No, Yes
    <2>2. SetOrun(q, No) = Port("DPACC", e, No, r, No, g, t, b)
      BY <1>1, Changed
    <2>3. SetErr(Port("DPACC", e, No, r, No, g, t, b), No) =
            Port("DPACC", e, No, No, No, g, t, b)
      BY Changed
    <2>4. SetEnabled(Port("DPACC", e, No, No, No, g, t, b), Yes) =
            Port("DPACC", Yes, No, No, No, g, t, b)
      BY Changed
    <2> QED
      BY <2>1, <2>2, <2>3, <2>4
  <1>6. Flags(q) = StatusOf(e, o, r)
    <2>1. Flags(q) = StatusOf(q.enabled, q.orun, q.err)
      BY DEF Flags, StatusOf
    <2>2. q.enabled = e /\ q.orun = o /\ q.err = r
      BY <1>1, Parts
    <2> QED
      BY <2>1, <2>2
  <1>7. DpRead(q, Rd("CSW", out)) =
          Port("DPACC", e, o, r, No, g, t, [word |-> NoWord, flags |-> StatusOf(e, o, r)])
    <2>1. DpRead(q, Rd("CSW", out)) = SetBuffer(q, [word |-> NoWord, flags |-> Flags(q)])
      BY DEF DpRead, Rd, SetBuffer
    <2> DEFINE x == [word |-> NoWord, flags |-> StatusOf(e, o, r)]
    <2>2. [word |-> NoWord, flags |-> Flags(q)] = x
      BY <1>6
    <2> HIDE DEF x
    <2>3. SetBuffer(q, x) = Port("DPACC", e, o, r, No, g, t, x)
      BY <1>1, Changed
    <2> QED
      BY <2>1, <2>2, <2>3 DEF x
  <1>8. DpRead(q, Rd("RDBUFF", out)) = Port("DPACC", e, o, r, No, g, t, Nothing)
    <2>1. DpRead(q, Rd("RDBUFF", out)) = SetBuffer(q, Nothing)
      BY DEF DpRead, Rd, SetBuffer
    <2> QED
      BY <1>1, <2>1, Changed
  <1> QED
    BY <1>1, <1>3, <1>4, <1>5, <1>7, <1>8 DEF p

\* A request to the access port that is taken: it does something only while no
\* sticky flag is set.
LEMMA ApRefused ==
  ASSUME NEW e, NEW o, NEW r, NEW n, NEW g, NEW t, NEW b, NEW bus, NEW s, o \/ r \/ ~e
  PROVE  Accept(Port("APACC", e, o, r, n, g, t, b), s, bus) =
            Port("APACC", e, o, r, No, g, t, Nothing)
  <1> DEFINE p == Port("APACC", e, o, r, n, g, t, b)
             q == SetPending(p, No)
  <1>1. q = Port("APACC", e, o, r, No, g, t, b)
    BY Changed
  <1>2. p.ir = "APACC"
    BY Parts
  <1>3. Accept(p, s, bus) = ApAccess(q, s, bus)
    <2> HIDE DEF p
    <2> QED
      BY <1>2 DEF Accept, SetPending, No
  <1> HIDE DEF p, q
  <1>4. q.orun = o /\ q.err = r /\ q.enabled = e
    BY <1>1, Parts
  <1>5. q.orun \/ q.err \/ ~q.enabled
    BY <1>4
  <1>6. ApAccess(q, s, bus) = SetBuffer(q, Nothing)
    BY <1>5 DEF ApAccess, SetBuffer
  <1>7. SetBuffer(q, Nothing) = Port("APACC", e, o, r, No, g, t, Nothing)
    BY <1>1, Changed
  <1> QED
    BY <1>3, <1>6, <1>7 DEF p

LEMMA ApTaken ==
  ASSUME NEW e, NEW o, NEW r, NEW n, NEW g, NEW t, NEW b, NEW bus, NEW v, ~ (o \/ r \/ ~e)
  PROVE  LET p == Port("APACC", e, o, r, n, g, t, b) IN
         /\ Accept(p, Wr("CSW", 0), bus) = Port("APACC", e, o, r, Yes, g, t, b)
         /\ Accept(p, Wr("TAR", v), bus) = Port("APACC", e, o, r, Yes, g, v, b)
         /\ Accept(p, Wr("DRW", v), bus) = Port("APACC", e, o, bus, Yes, g, t, Nothing)
         /\ Accept(p, Rd("DRW", "none"), bus) =
              Port("APACC", e, o, bus, Yes, g, t, IF bus THEN Nothing ELSE Word(mem[t]))
  <1> DEFINE p == Port("APACC", e, o, r, n, g, t, b)
             q == SetPending(p, No)
             q1 == SetPending(q, Yes)
             x == IF bus THEN Nothing ELSE Word(mem[t])
  <1>1. q = Port("APACC", e, o, r, No, g, t, b)
    BY Changed
  <1>2. p.ir = "APACC"
    BY Parts
  <1>3. \A s : Accept(p, s, bus) = ApAccess(q, s, bus)
    <2> HIDE DEF p
    <2> QED
      BY <1>2 DEF Accept, SetPending, No
  <1> HIDE DEF p, q
  <1>4. q.orun = o /\ q.err = r /\ q.enabled = e /\ q.tar = t
    BY <1>1, Parts
  <1>5. q1 = Port("APACC", e, o, r, Yes, g, t, b)
    BY <1>1, Changed
  <1>6. ~ (q.orun \/ q.err \/ ~q.enabled)
    BY <1>4
  <1>7. /\ ApAccess(q, Wr("CSW", 0), bus) = q1
        /\ ApAccess(q, Wr("TAR", v), bus) = SetTar(q1, v)
    BY <1>6 DEF ApAccess, Wr, SetTar, SetPending, Yes
  <1>8. ApAccess(q, Wr("DRW", v), bus) = SetBuffer(SetErr(q1, bus), Nothing)
    BY <1>6 DEF ApAccess, Wr, SetErr, SetBuffer, SetPending, Yes
  <1>9. ApAccess(q, Rd("DRW", "none"), bus) =
          SetBuffer(SetErr(q1, bus), IF ~bus THEN Word(mem[q.tar]) ELSE Nothing)
    BY <1>6 DEF ApAccess, Rd, SetErr, SetBuffer, SetPending, Yes
  <1>10. (IF ~bus THEN Word(mem[q.tar]) ELSE Nothing) = x
    BY <1>4
  <1> HIDE DEF x, q1
  <1>11. SetTar(q1, v) = Port("APACC", e, o, r, Yes, g, v, b)
    BY <1>5, Changed
  <1>12. SetErr(q1, bus) = Port("APACC", e, o, bus, Yes, g, t, b)
    BY <1>5, Changed
  <1>13. /\ SetBuffer(Port("APACC", e, o, bus, Yes, g, t, b), Nothing) =
              Port("APACC", e, o, bus, Yes, g, t, Nothing)
         /\ SetBuffer(Port("APACC", e, o, bus, Yes, g, t, b), x) =
              Port("APACC", e, o, bus, Yes, g, t, x)
    BY Changed
  <1>14. Accept(p, Rd("DRW", "none"), bus) = Port("APACC", e, o, bus, Yes, g, t, x)
    BY <1>3, <1>9, <1>10, <1>12, <1>13
  <1>15. Accept(p, Wr("DRW", v), bus) = Port("APACC", e, o, bus, Yes, g, t, Nothing)
    BY <1>3, <1>8, <1>12, <1>13
  <1>16. /\ Accept(p, Wr("CSW", 0), bus) = Port("APACC", e, o, r, Yes, g, t, b)
         /\ Accept(p, Wr("TAR", v), bus) = Port("APACC", e, o, r, Yes, g, v, b)
    BY <1>3, <1>5, <1>7, <1>11
  <1> QED
    BY <1>14, <1>15, <1>16 DEF p, x

-----------------------------------------------------------------------------
(* A run: a transaction on its way through its scans.                      *)

Outs == {"a", "b", "u", "none"}
Run(d, g, st) == [dp |-> d, got |-> g, store |-> st]

\* Overrun detection is on before an access can be started, and an access that
\* hangs has already had a scan wait for it.
Sound(d) == (d.pending => d.enabled) /\ (d.hung => d.pending /\ d.orun)

IsRun(h) == /\ h = Run(h.dp, h.got, h.store)
            /\ IsPort(h.dp) /\ Sound(h.dp)
            /\ DOMAIN h.got = Outs

\* Nothing was dropped and nothing failed; something was.
Fine(d) == d.enabled /\ ~d.orun /\ ~d.err
Spoilt(d) == d.enabled /\ (d.orun \/ d.err)
Plain(h) == h.dp.buffer.flags = {}

\* What a scan leaves alone.
SameGot(h, k, out) == DOMAIN k.got = DOMAIN h.got /\ \A x \in Outs \ {out} : k.got[x] = h.got[x]

LEMMA RunParts ==
  ASSUME NEW d, NEW g, NEW st
  PROVE  Run(d, g, st).dp = d /\ Run(d, g, st).got = g /\ Run(d, g, st).store = st
  BY DEF Run

LEMMA RunTyped ==
  ASSUME NEW d, NEW g, NEW st, IsPort(d), Sound(d), DOMAIN g = Outs
  PROVE  IsRun(Run(d, g, st))
  <1> DEFINE h == Run(d, g, st)
  <1>1. h.dp = d /\ h.got = g /\ h.store = st
    BY RunParts
  <1> HIDE DEF h
  <1>2. h = Run(h.dp, h.got, h.store)
    BY <1>1 DEF h
  <1> QED
    BY <1>1, <1>2 DEF IsRun, h

\* An instruction is loaded.
Loaded(h, k, ir) ==
    /\ IsRun(k)
    /\ k.got = h.got /\ k.store = h.store
    /\ k.dp.ir = ir
    /\ k.dp.enabled = h.dp.enabled /\ k.dp.orun = h.dp.orun /\ k.dp.err = h.dp.err
    /\ k.dp.pending = h.dp.pending /\ k.dp.hung = h.dp.hung
    /\ k.dp.tar = h.dp.tar /\ k.dp.buffer = h.dp.buffer

LEMMA IrScan ==
  ASSUME NEW h, IsRun(h), NEW ir, NEW w, NEW hang, NEW bus
  PROVE  Loaded(h, Scan(h, Ir(ir), w, hang, bus), ir)
  <1> DEFINE d == h.dp
             q == Port(ir, d.enabled, d.orun, d.err, d.pending, d.hung, d.tar, d.buffer)
  <1>1. IsPort(d) /\ Sound(d) /\ DOMAIN h.got = Outs /\ h = Run(d, h.got, h.store)
    BY DEF IsRun
  <1>2. SetIr(d, ir) = q
    BY <1>1, Changed DEF IsPort
  <1>3. Scan(h, Ir(ir), w, hang, bus) = [h EXCEPT !.dp = SetIr(h.dp, ir)]
    BY DEF Scan, Ir, SetIr
  <1>4. /\ q.ir = ir /\ q.enabled = d.enabled /\ q.orun = d.orun /\ q.err = d.err
        /\ q.pending = d.pending /\ q.hung = d.hung /\ q.tar = d.tar /\ q.buffer = d.buffer
    BY Parts
  <1>5. IsPort(q)
    BY <1>1, PortTyped DEF IsPort
  <1> HIDE DEF q
  <1>6. Sound(q)
    BY <1>1, <1>4 DEF Sound
  <1>7. Scan(h, Ir(ir), w, hang, bus) = Run(q, h.got, h.store)
    BY <1>1, <1>2, <1>3 DEF Run
  <1> QED
    BY <1>1, <1>4, <1>5, <1>6, <1>7, RunTyped, RunParts DEF Loaded

\* A scan that finds an access still running, and is dropped.
Dropped(h, k, s) ==
    /\ IsRun(k)
    /\ k.store = h.store
    /\ k.got[s.out].ack = "WAIT" /\ k.got[s.out].flags = {}
    /\ SameGot(h, k, s.out)
    /\ k.dp.ir = h.dp.ir /\ k.dp.buffer = h.dp.buffer /\ k.dp.pending
    /\ Spoilt(k.dp)

MustWait(h, w) == h.dp.pending /\ (w \/ h.dp.hung)

LEMMA WaitScan ==
  ASSUME NEW h, IsRun(h), NEW s, s.op # "ir", s.out \in Outs, h.dp.ir # "ABORT",
         NEW w, NEW hang, NEW bus, {w, hang} \subseteq BOOLEAN, MustWait(h, w)
  PROVE  Dropped(h, Scan(h, s, w, hang, bus), s)
  <1> DEFINE d == h.dp
             q == Port(d.ir, d.enabled, Either(d.orun, d.enabled), d.err, d.pending,
                       Either(d.hung, hang), d.tar, d.buffer)
             v == [Garbage EXCEPT !.ack = "WAIT"]
             g == [h.got EXCEPT ![s.out] = v]
  <1>1. IsPort(d) /\ Sound(d) /\ DOMAIN h.got = Outs
    BY DEF IsRun
  <1>2. Wait(d, hang) = q
    BY <1>1, WaitIs DEF IsPort
  <1>3. Scan(h, s, w, hang, bus) = Run(Wait(h.dp, hang), g, h.store)
    BY DEF Scan, Run, MustWait
  <1>4. /\ q.ir = d.ir /\ q.enabled = d.enabled /\ q.orun = Either(d.orun, d.enabled) /\ q.err = d.err
        /\ q.pending = d.pending /\ q.hung = Either(d.hung, hang) /\ q.tar = d.tar
        /\ q.buffer = d.buffer
    BY Parts
  <1>5. IsPort(q)
    <2>1. Either(d.orun, d.enabled) \in BOOLEAN /\ Either(d.hung, hang) \in BOOLEAN
      BY DEF Either
    <2> QED
      BY <1>1, <2>1, PortTyped DEF IsPort
  <1> HIDE DEF q
  <1>6. Sound(q) /\ Spoilt(q)
    BY <1>1, <1>4 DEF Sound, Spoilt, IsPort, Either, MustWait
  <1>7. v.ack = "WAIT" /\ v.flags = {}
    BY DEF Garbage
  <1> HIDE DEF v
  <1>8. DOMAIN g = Outs /\ g[s.out] = v /\ \A x \in Outs \ {s.out} : g[x] = h.got[x]
    BY <1>1
  <1> HIDE DEF g
  <1>9. Scan(h, s, w, hang, bus) = Run(q, g, h.store)
    BY <1>2, <1>3
  <1>10. Dropped(h, Run(q, g, h.store), s)
    <2> DEFINE k == Run(q, g, h.store)
    <2>1. k.dp = q /\ k.got = g /\ k.store = h.store
      BY RunParts
    <2>2. IsRun(k)
      BY <1>5, <1>6, <1>8, RunTyped
    <2> HIDE DEF k
    <2> QED
      BY <1>1, <1>4, <1>6, <1>7, <1>8, <2>1, <2>2 DEF Dropped, SameGot, k, MustWait
  <1> QED
    BY <1>9, <1>10

\* A scan that is taken: what the last one left comes out, and the port and the
\* memory become what they are said to.
Answer(h) == [ack |-> "OK", word |-> h.dp.buffer.word, flags |-> h.dp.buffer.flags]
Kept(h, s, bus) == IF Stores(h.dp, s) /\ ~bus THEN <<h.dp.tar, s.val>> ELSE h.store

Becomes(h, k, out, e, o, r, n, t, b, st) ==
    /\ IsRun(k)
    /\ k.got[out] = Answer(h) /\ SameGot(h, k, out)
    /\ k.store = st
    /\ k.dp.ir = h.dp.ir /\ k.dp.enabled = e /\ k.dp.orun = o /\ k.dp.err = r
    /\ k.dp.pending = n /\ k.dp.hung = h.dp.hung /\ k.dp.tar = t /\ k.dp.buffer = b

Free(h, w) == ~MustWait(h, w)
OnlyIf(x, y) == x => y

LEMMA Take ==
  ASSUME NEW h, IsRun(h), NEW s, s.op # "ir", s.out \in Outs, h.dp.ir # "ABORT",
         NEW w, NEW hang, NEW bus, Free(h, w),
         NEW e, NEW o, NEW r, NEW n, NEW t, NEW b, {e, o, r, n} \subseteq BOOLEAN, OnlyIf(n, e),
         Accept(h.dp, s, bus) = Port(h.dp.ir, e, o, r, n, h.dp.hung, t, b)
  PROVE  Becomes(h, Scan(h, s, w, hang, bus), s.out, e, o, r, n, t, b, Kept(h, s, bus))
  <1> DEFINE d == h.dp
             q == Port(d.ir, e, o, r, n, d.hung, t, b)
             v == Answer(h)
             g == [h.got EXCEPT ![s.out] = v]
             st == Kept(h, s, bus)
  <1>1. IsPort(d) /\ Sound(d) /\ DOMAIN h.got = Outs
    BY DEF IsRun
  <1>2. Scan(h, s, w, hang, bus) = Run(Accept(h.dp, s, bus), g, st)
    BY DEF Scan, Run, MustWait, Free, Answer, Kept
  <1>3. /\ q.ir = d.ir /\ q.enabled = e /\ q.orun = o /\ q.err = r
        /\ q.pending = n /\ q.hung = d.hung /\ q.tar = t /\ q.buffer = b
    BY Parts
  <1>4. IsPort(q)
    BY <1>1, PortTyped DEF IsPort
  <1> HIDE DEF q
  <1>5. Sound(q)
    BY <1>1, <1>3 DEF Sound, Free, MustWait, OnlyIf, IsPort
  <1> HIDE DEF v
  <1>6. DOMAIN g = Outs /\ g[s.out] = v /\ \A x \in Outs \ {s.out} : g[x] = h.got[x]
    BY <1>1
  <1> HIDE DEF g, st
  <1>7. Scan(h, s, w, hang, bus) = Run(q, g, st)
    BY <1>2 DEF q
  <1>8. Becomes(h, Run(q, g, st), s.out, e, o, r, n, t, b, st)
    <2> DEFINE k == Run(q, g, st)
    <2>1. k.dp = q /\ k.got = g /\ k.store = st
      BY RunParts
    <2>2. IsRun(k)
      BY <1>4, <1>5, <1>6, RunTyped
    <2> HIDE DEF k
    <2> QED
      BY <1>1, <1>3, <1>6, <2>1, <2>2 DEF Becomes, SameGot, k, v
  <1> QED
    BY <1>7, <1>8 DEF st

\* What the words of the requests say.
LEMMA Requests ==
  ASSUME NEW reg, NEW val, NEW out
  PROVE  /\ Wr(reg, val).op = "wr" /\ Wr(reg, val).reg = reg /\ Wr(reg, val).val = val
         /\ Wr(reg, val).out = "none"
         /\ Rd(reg, out).op = "rd" /\ Rd(reg, out).reg = reg /\ Rd(reg, out).out = out
         /\ Wr(reg, val).op # "ir" /\ Rd(reg, out).op # "ir"
  BY DEF Wr, Rd

StatusWord(d) == [word |-> NoWord, flags |-> StatusOf(d.enabled, d.orun, d.err)]

LEMMA TakeDp ==
  ASSUME NEW h, IsRun(h), h.dp.ir = "DPACC", NEW out \in Outs,
         NEW w, NEW hang, NEW bus, Free(h, w)
  PROVE  LET d == h.dp IN
         /\ Becomes(h, Scan(h, Wr("SELECT", 0), w, hang, bus), "none",
                    d.enabled, d.orun, d.err, No, d.tar, d.buffer, h.store)
         /\ Becomes(h, Scan(h, Wr("CSW", 0), w, hang, bus), "none",
                    Yes, No, No, No, d.tar, d.buffer, h.store)
         /\ Becomes(h, Scan(h, Rd("CSW", out), w, hang, bus), out,
                    d.enabled, d.orun, d.err, No, d.tar, StatusWord(d), h.store)
         /\ Becomes(h, Scan(h, Rd("RDBUFF", out), w, hang, bus), out,
                    d.enabled, d.orun, d.err, No, d.tar, Nothing, h.store)
  <1> DEFINE d == h.dp
  <1>1. IsPort(d)
    BY DEF IsRun
  <1>2. d = Port("DPACC", d.enabled, d.orun, d.err, d.pending, d.hung, d.tar, d.buffer)
    BY <1>1 DEF IsPort
  <1>3. /\ Accept(d, Wr("SELECT", 0), bus) =
             Port(d.ir, d.enabled, d.orun, d.err, No, d.hung, d.tar, d.buffer)
        /\ Accept(d, Wr("CSW", 0), bus) = Port(d.ir, Yes, No, No, No, d.hung, d.tar, d.buffer)
        /\ Accept(d, Rd("CSW", out), bus) =
             Port(d.ir, d.enabled, d.orun, d.err, No, d.hung, d.tar, StatusWord(d))
        /\ Accept(d, Rd("RDBUFF", out), bus) =
             Port(d.ir, d.enabled, d.orun, d.err, No, d.hung, d.tar, Nothing)
    BY <1>2, DpTaken DEF StatusWord
  <1>4. \A s : Kept(h, s, bus) = h.store
    BY DEF Kept, Stores
  <1>5. /\ {d.enabled, d.orun, d.err, No} \subseteq BOOLEAN /\ OnlyIf(No, d.enabled)
        /\ {Yes, No, No, No} \subseteq BOOLEAN /\ OnlyIf(No, Yes)
    BY <1>1 DEF IsPort, Yes, No, OnlyIf
  <1>6. "none" \in Outs /\ h.dp.ir # "ABORT"
    BY DEF Outs
  <1>7. Becomes(h, Scan(h, Wr("SELECT", 0), w, hang, bus), "none",
                d.enabled, d.orun, d.err, No, d.tar, d.buffer, h.store)
    <2> DEFINE s == Wr("SELECT", 0)
    <2>1. s.op # "ir" /\ s.out = "none"
      BY Requests
    <2> HIDE DEF s
    <2>2. Accept(d, s, bus) = Port(d.ir, d.enabled, d.orun, d.err, No, d.hung, d.tar, d.buffer)
      BY <1>3 DEF s
    <2> HIDE DEF d
    <2>3. Becomes(h, Scan(h, s, w, hang, bus), s.out,
                  d.enabled, d.orun, d.err, No, d.tar, d.buffer, Kept(h, s, bus))
      BY <1>5, <1>6, <2>1, <2>2, Take DEF d
    <2> QED
      BY <1>4, <2>1, <2>3 DEF s
  <1>8. Becomes(h, Scan(h, Wr("CSW", 0), w, hang, bus), "none",
                Yes, No, No, No, d.tar, d.buffer, h.store)
    <2> DEFINE s == Wr("CSW", 0)
    <2>1. s.op # "ir" /\ s.out = "none"
      BY Requests
    <2> HIDE DEF s
    <2>2. Accept(d, s, bus) = Port(d.ir, Yes, No, No, No, d.hung, d.tar, d.buffer)
      BY <1>3 DEF s
    <2>3. Becomes(h, Scan(h, s, w, hang, bus), s.out,
                  Yes, No, No, No, d.tar, d.buffer, Kept(h, s, bus))
      BY <1>5, <1>6, <2>1, <2>2, Take
    <2> QED
      BY <1>4, <2>1, <2>3 DEF s
  <1>9. Becomes(h, Scan(h, Rd("CSW", out), w, hang, bus), out,
                d.enabled, d.orun, d.err, No, d.tar, StatusWord(d), h.store)
    <2> DEFINE s == Rd("CSW", out)
    <2>1. s.op # "ir" /\ s.out = out
      BY Requests
    <2> HIDE DEF s
    <2>2. Accept(d, s, bus) = Port(d.ir, d.enabled, d.orun, d.err, No, d.hung, d.tar, StatusWord(d))
      BY <1>3 DEF s
    <2>3. Becomes(h, Scan(h, s, w, hang, bus), s.out,
                  d.enabled, d.orun, d.err, No, d.tar, StatusWord(d), Kept(h, s, bus))
      BY <1>5, <1>6, <2>1, <2>2, Take
    <2> QED
      BY <1>4, <2>1, <2>3 DEF s
  <1>10. Becomes(h, Scan(h, Rd("RDBUFF", out), w, hang, bus), out,
                 d.enabled, d.orun, d.err, No, d.tar, Nothing, h.store)
    <2> DEFINE s == Rd("RDBUFF", out)
    <2>1. s.op # "ir" /\ s.out = out
      BY Requests
    <2> HIDE DEF s
    <2>2. Accept(d, s, bus) = Port(d.ir, d.enabled, d.orun, d.err, No, d.hung, d.tar, Nothing)
      BY <1>3 DEF s
    <2>3. Becomes(h, Scan(h, s, w, hang, bus), s.out,
                  d.enabled, d.orun, d.err, No, d.tar, Nothing, Kept(h, s, bus))
      BY <1>5, <1>6, <2>1, <2>2, Take
    <2> QED
      BY <1>4, <2>1, <2>3 DEF s
  <1> QED
    BY <1>7, <1>8, <1>9, <1>10

\* While a sticky flag is set nothing is started; otherwise an access is, and the
\* memory's may fail.
LEMMA TakeApSpoilt ==
  ASSUME NEW h, IsRun(h), h.dp.ir = "APACC", Spoilt(h.dp), NEW s, s.op # "ir", s.out \in Outs,
         NEW w, NEW hang, NEW bus, Free(h, w)
  PROVE  Becomes(h, Scan(h, s, w, hang, bus), s.out, h.dp.enabled, h.dp.orun, h.dp.err, No,
                 h.dp.tar, Nothing, h.store)
  <1> DEFINE d == h.dp
  <1>1. IsPort(d)
    BY DEF IsRun
  <1>2. d = Port("APACC", d.enabled, d.orun, d.err, d.pending, d.hung, d.tar, d.buffer)
    BY <1>1 DEF IsPort
  <1>3. d.orun \/ d.err \/ ~d.enabled
    BY DEF Spoilt
  <1>4. Accept(d, s, bus) = Port(d.ir, d.enabled, d.orun, d.err, No, d.hung, d.tar, Nothing)
    <2> DEFINE e == d.enabled  o == d.orun  r == d.err
    <2>1. o \/ r \/ ~e
      BY <1>3
    <2>2. d = Port("APACC", e, o, r, d.pending, d.hung, d.tar, d.buffer)
      BY <1>2
    <2>3. d.ir = "APACC"
      OBVIOUS
    <2> HIDE DEF e, o, r
    <2>4. Accept(Port("APACC", e, o, r, d.pending, d.hung, d.tar, d.buffer), s, bus) =
            Port("APACC", e, o, r, No, d.hung, d.tar, Nothing)
      BY <2>1, ApRefused
    <2> QED
      BY <2>2, <2>3, <2>4 DEF e, o, r
  <1>5. Kept(h, s, bus) = h.store
    BY DEF Kept, Stores, Spoilt
  <1>6. {d.enabled, d.orun, d.err, No} \subseteq BOOLEAN /\ OnlyIf(No, d.enabled)
    BY <1>1 DEF IsPort, No, OnlyIf
  <1>7. h.dp.ir # "ABORT"
    OBVIOUS
  <1>8. Becomes(h, Scan(h, s, w, hang, bus), s.out, d.enabled, d.orun, d.err, No,
                d.tar, Nothing, Kept(h, s, bus))
    BY <1>4, <1>6, <1>7, Take
  <1> QED
    BY <1>5, <1>8

Fetched(d, bus) == IF bus THEN Nothing ELSE Word(mem[d.tar])
Put(h, val, bus) == IF bus THEN h.store ELSE <<h.dp.tar, val>>

LEMMA TakeApFine ==
  ASSUME NEW h, IsRun(h), h.dp.ir = "APACC", Fine(h.dp), NEW v,
         NEW w, NEW hang, NEW bus, {bus} \subseteq BOOLEAN, Free(h, w)
  PROVE  LET d == h.dp IN
         /\ Becomes(h, Scan(h, Wr("CSW", 0), w, hang, bus), "none",
                    d.enabled, d.orun, d.err, Yes, d.tar, d.buffer, h.store)
         /\ Becomes(h, Scan(h, Wr("TAR", v), w, hang, bus), "none",
                    d.enabled, d.orun, d.err, Yes, v, d.buffer, h.store)
         /\ Becomes(h, Scan(h, Wr("DRW", v), w, hang, bus), "none",
                    d.enabled, d.orun, bus, Yes, d.tar, Nothing, Put(h, v, bus))
         /\ Becomes(h, Scan(h, Rd("DRW", "none"), w, hang, bus), "none",
                    d.enabled, d.orun, bus, Yes, d.tar, Fetched(d, bus), h.store)
  <1> DEFINE d == h.dp
  <1>1. IsPort(d)
    BY DEF IsRun
  <1>2. /\ Accept(d, Wr("CSW", 0), bus) =
             Port(d.ir, d.enabled, d.orun, d.err, Yes, d.hung, d.tar, d.buffer)
        /\ Accept(d, Wr("TAR", v), bus) =
             Port(d.ir, d.enabled, d.orun, d.err, Yes, d.hung, v, d.buffer)
        /\ Accept(d, Wr("DRW", v), bus) =
             Port(d.ir, d.enabled, d.orun, bus, Yes, d.hung, d.tar, Nothing)
        /\ Accept(d, Rd("DRW", "none"), bus) =
             Port(d.ir, d.enabled, d.orun, bus, Yes, d.hung, d.tar, Fetched(d, bus))
    <2> DEFINE e == d.enabled  o == d.orun  r == d.err  t == d.tar
               p == Port("APACC", e, o, r, d.pending, d.hung, t, d.buffer)
    <2>1. ~ (o \/ r \/ ~e)
      BY DEF Fine
    <2>2. d = p
      BY <1>1 DEF IsPort
    <2>3. d.ir = "APACC"
      OBVIOUS
    <2>4. Fetched(d, bus) = IF bus THEN Nothing ELSE Word(mem[t])
      BY DEF Fetched
    <2> HIDE DEF e, o, r, t
    <2>5. /\ Accept(p, Wr("CSW", 0), bus) = Port("APACC", e, o, r, Yes, d.hung, t, d.buffer)
          /\ Accept(p, Wr("TAR", v), bus) = Port("APACC", e, o, r, Yes, d.hung, v, d.buffer)
          /\ Accept(p, Wr("DRW", v), bus) = Port("APACC", e, o, bus, Yes, d.hung, t, Nothing)
          /\ Accept(p, Rd("DRW", "none"), bus) =
               Port("APACC", e, o, bus, Yes, d.hung, t, IF bus THEN Nothing ELSE Word(mem[t]))
      BY <2>1, ApTaken
    <2> HIDE DEF p
    <2> QED
      BY <2>2, <2>3, <2>4, <2>5 DEF e, o, r, t
  <1>3. /\ {d.enabled, d.orun, d.err, Yes} \subseteq BOOLEAN /\ OnlyIf(Yes, d.enabled)
        /\ {d.enabled, d.orun, bus, Yes} \subseteq BOOLEAN
    BY <1>1 DEF IsPort, Yes, OnlyIf, Fine
  <1>4. "none" \in Outs /\ h.dp.ir # "ABORT"
    BY DEF Outs
  <1>5. Becomes(h, Scan(h, Wr("CSW", 0), w, hang, bus), "none", d.enabled, d.orun, d.err, Yes, d.tar, d.buffer, h.store)
    <2> DEFINE s == Wr("CSW", 0)
    <2>1. s.op # "ir" /\ s.out = "none" /\ s.reg = "CSW"
      BY Requests DEF Rd
    <2> HIDE DEF s
    <2>2. Accept(d, s, bus) = Port(d.ir, d.enabled, d.orun, d.err, Yes, d.hung, d.tar, d.buffer)
      BY <1>2 DEF s
    <2>3. Kept(h, s, bus) = h.store
      BY <2>1 DEF Kept, Stores, Put, Fine
    <2>4. Becomes(h, Scan(h, s, w, hang, bus), s.out, d.enabled, d.orun, d.err, Yes, d.tar, d.buffer, Kept(h, s, bus))
      BY <1>3, <1>4, <2>1, <2>2, Take
    <2> QED
      BY <2>1, <2>3, <2>4 DEF s
  <1>6. Becomes(h, Scan(h, Wr("TAR", v), w, hang, bus), "none", d.enabled, d.orun, d.err, Yes, v, d.buffer, h.store)
    <2> DEFINE s == Wr("TAR", v)
    <2>1. s.op # "ir" /\ s.out = "none" /\ s.reg = "TAR"
      BY Requests DEF Rd
    <2> HIDE DEF s
    <2>2. Accept(d, s, bus) = Port(d.ir, d.enabled, d.orun, d.err, Yes, d.hung, v, d.buffer)
      BY <1>2 DEF s
    <2>3. Kept(h, s, bus) = h.store
      BY <2>1 DEF Kept, Stores, Put, Fine
    <2>4. Becomes(h, Scan(h, s, w, hang, bus), s.out, d.enabled, d.orun, d.err, Yes, v, d.buffer, Kept(h, s, bus))
      BY <1>3, <1>4, <2>1, <2>2, Take
    <2> QED
      BY <2>1, <2>3, <2>4 DEF s
  <1>7. Becomes(h, Scan(h, Wr("DRW", v), w, hang, bus), "none", d.enabled, d.orun, bus, Yes, d.tar, Nothing, Put(h, v, bus))
    <2> DEFINE s == Wr("DRW", v)
    <2>1. s.op # "ir" /\ s.out = "none" /\ s.op = "wr" /\ s.reg = "DRW" /\ s.val = v
      BY Requests DEF Rd
    <2> HIDE DEF s
    <2>2. Accept(d, s, bus) = Port(d.ir, d.enabled, d.orun, bus, Yes, d.hung, d.tar, Nothing)
      BY <1>2 DEF s
    <2>3. Kept(h, s, bus) = Put(h, v, bus)
      BY <2>1 DEF Kept, Stores, Put, Fine
    <2>4. Becomes(h, Scan(h, s, w, hang, bus), s.out, d.enabled, d.orun, bus, Yes, d.tar, Nothing, Kept(h, s, bus))
      BY <1>3, <1>4, <2>1, <2>2, Take
    <2> QED
      BY <2>1, <2>3, <2>4 DEF s
  <1>8. Becomes(h, Scan(h, Rd("DRW", "none"), w, hang, bus), "none", d.enabled, d.orun, bus, Yes, d.tar, Fetched(d, bus), h.store)
    <2> DEFINE s == Rd("DRW", "none")
    <2>1. s.op # "ir" /\ s.out = "none" /\ s.op = "rd"
      BY Requests DEF Rd
    <2> HIDE DEF s
    <2>2. Accept(d, s, bus) = Port(d.ir, d.enabled, d.orun, bus, Yes, d.hung, d.tar, Fetched(d, bus))
      BY <1>2 DEF s
    <2>3. Kept(h, s, bus) = h.store
      BY <2>1 DEF Kept, Stores, Put, Fine
    <2>4. Becomes(h, Scan(h, s, w, hang, bus), s.out, d.enabled, d.orun, bus, Yes, d.tar, Fetched(d, bus), Kept(h, s, bus))
      BY <1>3, <1>4, <2>1, <2>2, Take
    <2> QED
      BY <2>1, <2>3, <2>4 DEF s
  <1> QED
    BY <1>5, <1>6, <1>7, <1>8

-----------------------------------------------------------------------------
(* Requests of a memory call.  f: a fault happens in the transaction.  Once *)
(* something was dropped or failed, nothing more is started.                *)

Live(h) == IsRun(h) /\ Plain(h) /\ h.dp.enabled

\* From h to k: a request that is dropped spoils the rest.
Follows(h, k, f) ==
    /\ Live(k)
    /\ Spoilt(h.dp) => Spoilt(k.dp) /\ k.store = h.store
    /\ Fine(h.dp) => Fine(k.dp) \/ (f /\ k.store = h.store)

\* What is read was not disturbed.
SameU(h, k) == k.got["u"] = h.got["u"] /\ k.got["a"] = h.got["a"] /\ k.got["b"] = h.got["b"]

LEMMA FineOrSpoilt ==
  ASSUME NEW d, IsPort(d), d.enabled
  PROVE  (Fine(d) \/ Spoilt(d)) /\ ~ (Fine(d) /\ Spoilt(d))
  BY DEF Fine, Spoilt, IsPort

\* A request that is dropped.
LEMMA DroppedFollows ==
  ASSUME NEW h, NEW h1, NEW k, NEW s, NEW ir, Live(h), Loaded(h, h1, ir), ir \in {"DPACC", "APACC"},
         s.op # "ir", s.out = "none",
         NEW w, NEW hang, NEW bus, NEW f, {w, hang} \subseteq BOOLEAN, OnlyIf(w, f),
         MustWait(h1, w), k = Scan(h1, s, w, hang, bus)
  PROVE  Follows(h, k, f) /\ SameU(h, k) /\ Spoilt(k.dp)
  <1>1. Dropped(h1, k, s)
    <2>1. "none" \in Outs
      BY DEF Outs
    <2>2. h1.dp.ir # "ABORT" /\ IsRun(h1)
      BY DEF Loaded
    <2> QED
      BY <2>1, <2>2, WaitScan
  <1>2. SameU(h, k)
    BY <1>1 DEF Dropped, SameGot, SameU, Loaded, Outs
  <1>3. Live(k)
    BY <1>1 DEF Dropped, Live, Plain, Loaded, Spoilt
  <1>4. Spoilt(k.dp) /\ k.store = h.store
    BY <1>1 DEF Dropped, Loaded
  <1>5. Fine(h.dp) => f
    BY DEF MustWait, Loaded, Live, IsRun, Sound, Fine, OnlyIf
  <1> QED
    BY <1>2, <1>3, <1>4, <1>5 DEF Follows

Neutral(h, k) == Fine(k.dp) => /\ Fine(h.dp) /\ k.store = h.store
                               /\ k.dp.tar = h.dp.tar /\ k.dp.buffer = h.dp.buffer
Aims(h, k, a) == Fine(k.dp) => Fine(h.dp) /\ k.store = h.store /\ k.dp.tar = a
Reads(h, k) == Fine(k.dp) => /\ Fine(h.dp) /\ k.store = h.store
                             /\ k.dp.buffer = Word(mem[h.dp.tar])
Writes(h, k, v) == Fine(k.dp) => Fine(h.dp) /\ k.store = <<h.dp.tar, v>>

LEMMA PlainWords ==
  Nothing.flags = {} /\ \A w : Word(w).flags = {} /\ Word(w).word = w
  BY DEF Nothing, Word

\* A request to the access port while a sticky flag is set.
LEMMA RefusedFollows ==
  ASSUME NEW h, NEW h1, NEW k, NEW s, Live(h), Loaded(h, h1, "APACC"),
         s.op # "ir", s.out = "none", Spoilt(h.dp),
         NEW w, NEW hang, NEW bus, NEW f, Free(h1, w), k = Scan(h1, s, w, hang, bus)
  PROVE  Follows(h, k, f) /\ SameU(h, k) /\ Spoilt(k.dp)
  <1> DEFINE d == h1.dp
  <1>1. IsRun(h1) /\ d.ir = "APACC" /\ Spoilt(d) /\ "none" \in Outs
    BY DEF Loaded, Spoilt, Outs
  <1>2. Becomes(h1, k, "none", d.enabled, d.orun, d.err, No, d.tar, Nothing, h1.store)
    BY <1>1, TakeApSpoilt
  <1>3. Live(k)
    BY <1>1, <1>2, PlainWords DEF Becomes, Live, Plain, Spoilt
  <1>4. SameU(h, k)
    BY <1>2 DEF Becomes, SameGot, SameU, Loaded, Outs
  <1>5. Spoilt(k.dp) /\ k.store = h.store
    BY <1>1, <1>2 DEF Becomes, Loaded, Spoilt
  <1>6. ~Fine(h.dp)
    BY DEF Fine, Spoilt
  <1> QED
    BY <1>3, <1>4, <1>5, <1>6 DEF Follows

LEMMA SelectStep ==
  ASSUME NEW h, NEW h1, NEW k, Live(h), Loaded(h, h1, "DPACC"),
         NEW w, NEW hang, NEW bus, NEW f, {w, hang} \subseteq BOOLEAN, OnlyIf(w, f),
         k = Scan(h1, Wr("SELECT", 0), w, hang, bus)
  PROVE  Follows(h, k, f) /\ SameU(h, k) /\ Neutral(h, k)
  <1>1. CASE MustWait(h1, w)
    <2> DEFINE s == Wr("SELECT", 0)
    <2>1. s.op # "ir" /\ s.out = "none"
      BY Requests
    <2>2. k = Scan(h1, s, w, hang, bus)
      OBVIOUS
    <2> HIDE DEF s
    <2>3. Follows(h, k, f) /\ SameU(h, k) /\ Spoilt(k.dp)
      BY <1>1, <2>1, <2>2, DroppedFollows
    <2> QED
      BY <2>3 DEF Neutral, Fine, Spoilt
  <1>2. CASE Free(h1, w)
    <2> DEFINE d == h1.dp
    <2>1. IsRun(h1) /\ d.ir = "DPACC" /\ "none" \in Outs
      BY DEF Loaded, Outs
    <2>2. Becomes(h1, k, "none", d.enabled, d.orun, d.err, No, d.tar, d.buffer, h1.store)
      BY <1>2, <2>1, TakeDp
    <2>3. Live(k)
      BY <2>2 DEF Becomes, Live, Plain, Loaded
    <2>4. SameU(h, k)
      BY <2>2 DEF Becomes, SameGot, SameU, Loaded, Outs
    <2>5. /\ k.store = h.store /\ k.dp.tar = h.dp.tar /\ k.dp.buffer = h.dp.buffer
          /\ Fine(k.dp) = Fine(h.dp) /\ Spoilt(k.dp) = Spoilt(h.dp)
      BY <2>2 DEF Becomes, Loaded, Fine, Spoilt
    <2> QED
      BY <2>3, <2>4, <2>5 DEF Follows, Neutral
  <1> QED
    BY <1>1, <1>2 DEF Free

LEMMA CswStep ==
  ASSUME NEW h, NEW h1, NEW k, Live(h), Loaded(h, h1, "APACC"),
         NEW w, NEW hang, NEW bus, NEW f, {w, hang, bus} \subseteq BOOLEAN, OnlyIf(w, f),
         OnlyIf(bus, f), k = Scan(h1, Wr("CSW", 0), w, hang, bus)
  PROVE  Follows(h, k, f) /\ SameU(h, k) /\ Neutral(h, k)
  <1> DEFINE s == Wr("CSW", 0)
  <1>1. s.op # "ir" /\ s.out = "none" /\ k = Scan(h1, s, w, hang, bus)
    BY Requests
  <1>2. CASE MustWait(h1, w)
    <2> HIDE DEF s
    <2>1. Follows(h, k, f) /\ SameU(h, k) /\ Spoilt(k.dp)
      BY <1>1, <1>2, DroppedFollows
    <2> QED
      BY <2>1 DEF Neutral, Fine, Spoilt
  <1>3. CASE Free(h1, w) /\ Spoilt(h.dp)
    <2> HIDE DEF s
    <2>1. Follows(h, k, f) /\ SameU(h, k) /\ Spoilt(k.dp)
      BY <1>1, <1>3, RefusedFollows
    <2> QED
      BY <2>1 DEF Neutral, Fine, Spoilt
  <1>4. CASE Free(h1, w) /\ Fine(h.dp)
    <2> DEFINE d == h1.dp
    <2>1. IsRun(h1) /\ d.ir = "APACC" /\ "none" \in Outs /\ Fine(d)
      BY <1>4 DEF Loaded, Outs, Fine
    <2>2. Becomes(h1, k, "none", d.enabled, d.orun, d.err, Yes, d.tar, d.buffer, h1.store)
      BY <1>4, <2>1, TakeApFine
    <2>3. Live(k)
      BY <2>1, <2>2, PlainWords DEF Becomes, Live, Plain, Loaded, Fine, Fetched
    <2>4. SameU(h, k)
      BY <2>2 DEF Becomes, SameGot, SameU, Loaded, Outs
    <2>5. ~Spoilt(h.dp)
      BY <1>4 DEF Fine, Spoilt
    <2>6. Fine(k.dp) \/ (f /\ k.store = h.store)
      BY <2>1, <2>2 DEF Becomes, Loaded, Fine, OnlyIf, Put
    <2>7. Neutral(h, k)
      BY <1>4, <2>2 DEF Neutral, Becomes, Loaded, Fine, Fetched, Put
    <2> QED
      BY <2>3, <2>4, <2>5, <2>6, <2>7 DEF Follows
  <1>5. Fine(h.dp) \/ Spoilt(h.dp)
    BY FineOrSpoilt DEF Live, IsRun
  <1> QED
    BY <1>2, <1>3, <1>4, <1>5 DEF Free

LEMMA TarStep ==
  ASSUME NEW h, NEW h1, NEW k, Live(h), Loaded(h, h1, "APACC"), NEW v,
         NEW w, NEW hang, NEW bus, NEW f, {w, hang, bus} \subseteq BOOLEAN, OnlyIf(w, f),
         OnlyIf(bus, f), k = Scan(h1, Wr("TAR", v), w, hang, bus)
  PROVE  Follows(h, k, f) /\ SameU(h, k) /\ Aims(h, k, v)
  <1> DEFINE s == Wr("TAR", v)
  <1>1. s.op # "ir" /\ s.out = "none" /\ k = Scan(h1, s, w, hang, bus)
    BY Requests
  <1>2. CASE MustWait(h1, w)
    <2> HIDE DEF s
    <2>1. Follows(h, k, f) /\ SameU(h, k) /\ Spoilt(k.dp)
      BY <1>1, <1>2, DroppedFollows
    <2> QED
      BY <2>1 DEF Aims, Fine, Spoilt
  <1>3. CASE Free(h1, w) /\ Spoilt(h.dp)
    <2> HIDE DEF s
    <2>1. Follows(h, k, f) /\ SameU(h, k) /\ Spoilt(k.dp)
      BY <1>1, <1>3, RefusedFollows
    <2> QED
      BY <2>1 DEF Aims, Fine, Spoilt
  <1>4. CASE Free(h1, w) /\ Fine(h.dp)
    <2> DEFINE d == h1.dp
    <2>1. IsRun(h1) /\ d.ir = "APACC" /\ "none" \in Outs /\ Fine(d)
      BY <1>4 DEF Loaded, Outs, Fine
    <2>2. Becomes(h1, k, "none", d.enabled, d.orun, d.err, Yes, v, d.buffer, h1.store)
      BY <1>4, <2>1, TakeApFine
    <2>3. Live(k)
      BY <2>1, <2>2, PlainWords DEF Becomes, Live, Plain, Loaded, Fine, Fetched
    <2>4. SameU(h, k)
      BY <2>2 DEF Becomes, SameGot, SameU, Loaded, Outs
    <2>5. ~Spoilt(h.dp)
      BY <1>4 DEF Fine, Spoilt
    <2>6. Fine(k.dp) \/ (f /\ k.store = h.store)
      BY <2>1, <2>2 DEF Becomes, Loaded, Fine, OnlyIf, Put
    <2>7. Aims(h, k, v)
      BY <1>4, <2>2 DEF Aims, Becomes, Loaded, Fine, Fetched, Put
    <2> QED
      BY <2>3, <2>4, <2>5, <2>6, <2>7 DEF Follows
  <1>5. Fine(h.dp) \/ Spoilt(h.dp)
    BY FineOrSpoilt DEF Live, IsRun
  <1> QED
    BY <1>2, <1>3, <1>4, <1>5 DEF Free

LEMMA DrwRead ==
  ASSUME NEW h, NEW h1, NEW k, Live(h), Loaded(h, h1, "APACC"),
         NEW w, NEW hang, NEW bus, NEW f, {w, hang, bus} \subseteq BOOLEAN, OnlyIf(w, f),
         OnlyIf(bus, f), k = Scan(h1, Rd("DRW", "none"), w, hang, bus)
  PROVE  Follows(h, k, f) /\ SameU(h, k) /\ Reads(h, k)
  <1> DEFINE s == Rd("DRW", "none")
  <1>1. s.op # "ir" /\ s.out = "none" /\ k = Scan(h1, s, w, hang, bus)
    BY Requests
  <1>2. CASE MustWait(h1, w)
    <2> HIDE DEF s
    <2>1. Follows(h, k, f) /\ SameU(h, k) /\ Spoilt(k.dp)
      BY <1>1, <1>2, DroppedFollows
    <2> QED
      BY <2>1 DEF Reads, Fine, Spoilt
  <1>3. CASE Free(h1, w) /\ Spoilt(h.dp)
    <2> HIDE DEF s
    <2>1. Follows(h, k, f) /\ SameU(h, k) /\ Spoilt(k.dp)
      BY <1>1, <1>3, RefusedFollows
    <2> QED
      BY <2>1 DEF Reads, Fine, Spoilt
  <1>4. CASE Free(h1, w) /\ Fine(h.dp)
    <2> DEFINE d == h1.dp
    <2>1. IsRun(h1) /\ d.ir = "APACC" /\ "none" \in Outs /\ Fine(d)
      BY <1>4 DEF Loaded, Outs, Fine
    <2>2. Becomes(h1, k, "none", d.enabled, d.orun, bus, Yes, d.tar, Fetched(d, bus), h1.store)
      BY <1>4, <2>1, TakeApFine
    <2>3. Live(k)
      BY <2>1, <2>2, PlainWords DEF Becomes, Live, Plain, Loaded, Fine, Fetched
    <2>4. SameU(h, k)
      BY <2>2 DEF Becomes, SameGot, SameU, Loaded, Outs
    <2>5. ~Spoilt(h.dp)
      BY <1>4 DEF Fine, Spoilt
    <2>6. Fine(k.dp) \/ (f /\ k.store = h.store)
      BY <2>1, <2>2 DEF Becomes, Loaded, Fine, OnlyIf, Put
    <2>7. Reads(h, k)
      BY <1>4, <2>2 DEF Reads, Becomes, Loaded, Fine, Fetched, Put
    <2> QED
      BY <2>3, <2>4, <2>5, <2>6, <2>7 DEF Follows
  <1>5. Fine(h.dp) \/ Spoilt(h.dp)
    BY FineOrSpoilt DEF Live, IsRun
  <1> QED
    BY <1>2, <1>3, <1>4, <1>5 DEF Free

LEMMA DrwWrite ==
  ASSUME NEW h, NEW h1, NEW k, Live(h), Loaded(h, h1, "APACC"), NEW v,
         NEW w, NEW hang, NEW bus, NEW f, {w, hang, bus} \subseteq BOOLEAN, OnlyIf(w, f),
         OnlyIf(bus, f), k = Scan(h1, Wr("DRW", v), w, hang, bus)
  PROVE  Follows(h, k, f) /\ SameU(h, k) /\ Writes(h, k, v)
  <1> DEFINE s == Wr("DRW", v)
  <1>1. s.op # "ir" /\ s.out = "none" /\ k = Scan(h1, s, w, hang, bus)
    BY Requests
  <1>2. CASE MustWait(h1, w)
    <2> HIDE DEF s
    <2>1. Follows(h, k, f) /\ SameU(h, k) /\ Spoilt(k.dp)
      BY <1>1, <1>2, DroppedFollows
    <2> QED
      BY <2>1 DEF Writes, Fine, Spoilt
  <1>3. CASE Free(h1, w) /\ Spoilt(h.dp)
    <2> HIDE DEF s
    <2>1. Follows(h, k, f) /\ SameU(h, k) /\ Spoilt(k.dp)
      BY <1>1, <1>3, RefusedFollows
    <2> QED
      BY <2>1 DEF Writes, Fine, Spoilt
  <1>4. CASE Free(h1, w) /\ Fine(h.dp)
    <2> DEFINE d == h1.dp
    <2>1. IsRun(h1) /\ d.ir = "APACC" /\ "none" \in Outs /\ Fine(d)
      BY <1>4 DEF Loaded, Outs, Fine
    <2>2. Becomes(h1, k, "none", d.enabled, d.orun, bus, Yes, d.tar, Nothing, Put(h1, v, bus))
      BY <1>4, <2>1, TakeApFine
    <2>3. Live(k)
      BY <2>1, <2>2, PlainWords DEF Becomes, Live, Plain, Loaded, Fine, Fetched
    <2>4. SameU(h, k)
      BY <2>2 DEF Becomes, SameGot, SameU, Loaded, Outs
    <2>5. ~Spoilt(h.dp)
      BY <1>4 DEF Fine, Spoilt
    <2>6. Fine(k.dp) \/ (f /\ k.store = h.store)
      BY <2>1, <2>2 DEF Becomes, Loaded, Fine, OnlyIf, Put
    <2>7. Writes(h, k, v)
      BY <1>4, <2>2 DEF Writes, Becomes, Loaded, Fine, Fetched, Put
    <2> QED
      BY <2>3, <2>4, <2>5, <2>6, <2>7 DEF Follows
  <1>5. Fine(h.dp) \/ Spoilt(h.dp)
    BY FineOrSpoilt DEF Live, IsRun
  <1> QED
    BY <1>2, <1>3, <1>4, <1>5 DEF Free

\* The read of RDBUFF that fetches what a read of memory got.
Fetches(h, k) == Fine(k.dp) => /\ Fine(h.dp) /\ k.store = h.store
                               /\ k.got["u"].word = h.dp.buffer.word

LEMMA FetchStep ==
  ASSUME NEW h, NEW h1, NEW k, Live(h), Loaded(h, h1, "DPACC"),
         NEW w, NEW hang, NEW bus, NEW f, {w, hang} \subseteq BOOLEAN, OnlyIf(w, f),
         k = Scan(h1, Rd("RDBUFF", "u"), w, hang, bus)
  PROVE  /\ Follows(h, k, f) /\ Fetches(h, k) /\ k.dp.ir = "DPACC"
         /\ k.got["a"] = h.got["a"] /\ k.got["b"] = h.got["b"]
  <1> DEFINE d == h1.dp
             s == Rd("RDBUFF", "u")
  <1>1. IsRun(h1) /\ d.ir = "DPACC" /\ "u" \in Outs /\ d.ir # "ABORT"
    BY DEF Loaded, Outs
  <1>2. s.op # "ir" /\ s.out = "u" /\ k = Scan(h1, s, w, hang, bus)
    BY Requests
  <1>3. CASE MustWait(h1, w)
    <2> HIDE DEF s
    <2>1. Dropped(h1, k, s)
      BY <1>1, <1>2, <1>3, WaitScan
    <2>2. Live(k) /\ Spoilt(k.dp) /\ k.store = h.store
      BY <2>1 DEF Dropped, Live, Plain, Loaded, Spoilt
    <2>3. Fine(h.dp) => f
      BY <1>3 DEF MustWait, Loaded, Live, IsRun, Sound, Fine, OnlyIf
    <2>4. k.got["a"] = h.got["a"] /\ k.got["b"] = h.got["b"] /\ k.dp.ir = "DPACC"
      BY <1>1, <1>2, <2>1 DEF Dropped, SameGot, Loaded, Outs
    <2>5. ~Fine(k.dp)
      BY <2>2 DEF Fine, Spoilt
    <2> QED
      BY <2>2, <2>3, <2>4, <2>5 DEF Follows, Fetches
  <1>4. CASE Free(h1, w)
    <2>1. Becomes(h1, k, "u", d.enabled, d.orun, d.err, No, d.tar, Nothing, h1.store)
      BY <1>1, <1>4, TakeDp
    <2>2. Live(k)
      BY <2>1, PlainWords DEF Becomes, Live, Plain, Loaded
    <2>3. /\ k.got["a"] = h.got["a"] /\ k.got["b"] = h.got["b"] /\ k.dp.ir = "DPACC"
          /\ k.got["u"].word = h.dp.buffer.word
      BY <1>1, <2>1 DEF Becomes, SameGot, Loaded, Outs, Answer
    <2>4. k.store = h.store /\ Fine(k.dp) = Fine(h.dp) /\ Spoilt(k.dp) = Spoilt(h.dp)
      BY <2>1 DEF Becomes, Loaded, Fine, Spoilt
    <2> QED
      BY <2>2, <2>3, <2>4 DEF Follows, Fetches
  <1> QED
    BY <1>3, <1>4 DEF Free

-----------------------------------------------------------------------------
(* Reading the status: the flags come with the read of RDBUFF, which never *)
(* has to wait when the read before it was taken.                          *)

Told(h, k, out, out2) ==
    /\ k.got[out].ack = "OK" /\ k.got[out2].ack = "OK"
    /\ k.got[out2].flags = StatusOf(h.dp.enabled, h.dp.orun, h.dp.err)
    /\ k.dp.enabled = h.dp.enabled /\ k.dp.orun = h.dp.orun /\ k.dp.err = h.dp.err
    /\ ~k.dp.pending

Untold(k, out, out2) ==
    k.got[out].ack = "WAIT" /\ k.got[out2].flags = {} /\ Spoilt(k.dp)

StatusRead(h, k, w, out, out2) ==
    /\ IsRun(k) /\ Plain(k) /\ k.store = h.store /\ (h.dp.enabled => k.dp.enabled)
    /\ \A x \in Outs \ {out, out2} : k.got[x] = h.got[x]
    /\ IF MustWait(h, w) THEN Untold(k, out, out2) ELSE Told(h, k, out, out2)

LEMMA StatusStep ==
  ASSUME NEW h, NEW k1, NEW k, NEW out \in Outs, NEW out2 \in Outs, out # out2,
         IsRun(h), Plain(h), h.dp.ir = "DPACC",
         NEW w, NEW w2, NEW hang, NEW bus, {w, w2, hang} \subseteq BOOLEAN,
         k1 = Scan(h, Rd("CSW", out), w, hang, bus), k = Scan(k1, Rd("RDBUFF", out2), w2, hang, bus)
  PROVE  StatusRead(h, k, w, out, out2)
  <1> DEFINE s == Rd("CSW", out)
             s2 == Rd("RDBUFF", out2)
             d == h.dp
  <1>1. /\ s.op # "ir" /\ s.out = out /\ k1 = Scan(h, s, w, hang, bus)
        /\ s2.op # "ir" /\ s2.out = out2 /\ k = Scan(k1, s2, w2, hang, bus)
    BY Requests
  <1>2. d.ir # "ABORT"
    OBVIOUS
  <1>3. CASE MustWait(h, w)
    <2> HIDE DEF s
    <2>1. Dropped(h, k1, s)
      BY <1>1, <1>2, <1>3, WaitScan
    <2> DEFINE e == k1.dp
    <2>2. /\ IsRun(k1) /\ e.ir = "DPACC" /\ e.ir # "ABORT" /\ Plain(k1) /\ Spoilt(e)
          /\ k1.got[out].ack = "WAIT" /\ k1.store = h.store
          /\ \A x \in Outs \ {out} : k1.got[x] = h.got[x]
      BY <1>1, <2>1 DEF Dropped, SameGot, Plain
    <2>3. CASE MustWait(k1, w2)
      <3> HIDE DEF s2
      <3>1. Dropped(k1, k, s2)
        BY <1>1, <2>2, <2>3, WaitScan
      <3> QED
        BY <1>1, <1>3, <2>2, <3>1 DEF Dropped, SameGot, Plain, Untold, Spoilt, StatusRead
    <2>4. CASE Free(k1, w2)
      <3>1. Becomes(k1, k, out2, e.enabled, e.orun, e.err, No, e.tar, Nothing, k1.store)
        BY <2>2, <2>4, TakeDp
      <3>2. IsRun(k) /\ Plain(k)
        BY <3>1, PlainWords DEF Becomes, Plain
      <3>3. k.got[out2].flags = {}
        BY <2>2, <3>1 DEF Becomes, Answer, Plain
      <3> QED
        BY <1>3, <2>2, <3>1, <3>2, <3>3 DEF Becomes, SameGot, Untold, Spoilt, StatusRead
    <2> QED
      BY <2>3, <2>4 DEF Free
  <1>4. CASE ~MustWait(h, w)
    <2>1. Free(h, w)
      BY <1>4 DEF Free
    <2>2. Becomes(h, k1, out, d.enabled, d.orun, d.err, No, d.tar, StatusWord(d), h.store)
      BY <2>1, TakeDp
    <2> DEFINE e == k1.dp
    <2>3. /\ IsRun(k1) /\ e.ir = "DPACC" /\ k1.got[out].ack = "OK" /\ k1.store = h.store
          /\ \A x \in Outs \ {out} : k1.got[x] = h.got[x]
          /\ e.enabled = d.enabled /\ e.orun = d.orun /\ e.err = d.err
          /\ e.buffer.flags = StatusOf(d.enabled, d.orun, d.err)
      BY <2>2 DEF Becomes, SameGot, Answer, StatusWord
    <2>4. Free(k1, w2)
      BY <2>2 DEF Becomes, Free, MustWait, No
    <2>5. Becomes(k1, k, out2, e.enabled, e.orun, e.err, No, e.tar, Nothing, k1.store)
      BY <2>3, <2>4, TakeDp
    <2>6. IsRun(k) /\ Plain(k)
      BY <2>5, PlainWords DEF Becomes, Plain
    <2>7. k.got[out2].ack = "OK" /\ k.got[out2].flags = e.buffer.flags
      BY <2>5 DEF Becomes, Answer
    <2>8. ~k.dp.pending
      BY <2>5 DEF Becomes, No
    <2> QED
      BY <1>4, <2>3, <2>5, <2>6, <2>7, <2>8 DEF Becomes, SameGot, Told, StatusRead
  <1> QED
    BY <1>3, <1>4

\* dap_commit.
Acked(k) == /\ k.got["a"].ack = "OK" /\ k.got["b"].ack = "OK"
            /\ k.got["b"].flags \cap {"STICKYORUN", "STICKYERR"} = {}

Ready(d) == Fine(d) /\ ~d.pending

LEMMA CommitStep ==
  ASSUME NEW h, NEW k1, NEW k, Live(h), h.dp.ir = "DPACC",
         NEW w, NEW w2, NEW hang, NEW bus, NEW f, {w, w2, hang} \subseteq BOOLEAN, OnlyIf(w, f),
         k1 = Scan(h, Rd("CSW", "a"), w, hang, bus), k = Scan(k1, Rd("RDBUFF", "b"), w2, hang, bus)
  PROVE  /\ Live(k) /\ k.store = h.store /\ k.got["u"] = h.got["u"]
         /\ Acked(k) => Fine(h.dp) /\ Ready(k.dp)
         /\ Fine(h.dp) /\ ~Acked(k) => f
  <1>1. /\ IsRun(k) /\ Plain(k) /\ k.store = h.store /\ (h.dp.enabled => k.dp.enabled)
        /\ \A x \in Outs \ {"a", "b"} : k.got[x] = h.got[x]
        /\ IF MustWait(h, w) THEN Untold(k, "a", "b") ELSE Told(h, k, "a", "b")
    <2> DEFINE out == "a"
               out2 == "b"
    <2>1. out \in Outs /\ out2 \in Outs /\ out # out2
      BY DEF Outs
    <2>2. IsRun(h) /\ Plain(h)
      BY DEF Live
    <2>3. k1 = Scan(h, Rd("CSW", out), w, hang, bus) /\ k = Scan(k1, Rd("RDBUFF", out2), w2, hang, bus)
      OBVIOUS
    <2> HIDE DEF out, out2
    <2>4. StatusRead(h, k, w, out, out2)
      BY <2>1, <2>2, <2>3, StatusStep
    <2> QED
      BY <2>4 DEF out, out2, StatusRead
  <1>2. Live(k) /\ k.got["u"] = h.got["u"]
    BY <1>1 DEF Live, Outs
  <1>3. CASE MustWait(h, w)
    <2>1. ~Acked(k)
      BY <1>1, <1>3 DEF Untold, Acked
    <2>2. Fine(h.dp) => f
      BY <1>3 DEF MustWait, Live, IsRun, Sound, Fine, OnlyIf
    <2> QED
      BY <1>1, <1>2, <2>1, <2>2
  <1>4. CASE ~MustWait(h, w)
    <2>1. Told(h, k, "a", "b")
      BY <1>1, <1>4
    <2>2. Acked(k) <=> Fine(h.dp)
      <3> DEFINE o == h.dp.orun  r == h.dp.err  e == h.dp.enabled
      <3>1. Acked(k) <=> StatusOf(e, o, r) \cap {"STICKYORUN", "STICKYERR"} = {}
        BY <2>1 DEF Told, Acked
      <3>2. Fine(h.dp) <=> ~o /\ ~r
        BY DEF Live, Fine
      <3>3. {e, o, r} \subseteq BOOLEAN
        BY DEF Live, IsRun, IsPort
      <3> HIDE DEF e, o, r
      <3>4. (StatusOf(e, o, r) \cap {"STICKYORUN", "STICKYERR"} = {}) <=> ~o /\ ~r
        BY <3>3 DEF StatusOf
      <3> QED
        BY <3>1, <3>2, <3>4
    <2>3. Fine(h.dp) => Ready(k.dp)
      BY <2>1 DEF Told, Fine, Ready
    <2> QED
      BY <1>1, <1>2, <2>2, <2>3
  <1> QED
    BY <1>3, <1>4

-----------------------------------------------------------------------------
(* Powering the debug domain up.                                           *)

LEMMA AbortStep ==
  ASSUME NEW h, IsRun(h), Plain(h), h.dp.ir = "ABORT", NEW w, NEW hang, NEW bus
  PROVE  LET k == Scan(h, Wr("ABORT", 0), w, hang, bus) IN
         IsRun(k) /\ Plain(k) /\ k.store = h.store /\ ~k.dp.pending
  <1> DEFINE d == h.dp
             q == Port(d.ir, d.enabled, d.orun, d.err, No, No, d.tar, d.buffer)
  <1>1. IsPort(d) /\ DOMAIN h.got = Outs /\ h = Run(d, h.got, h.store)
    BY DEF IsRun
  <1>2. SetHung(SetPending(d, No), No) = q
    <2>1. SetPending(d, No) = Port(d.ir, d.enabled, d.orun, d.err, No, d.hung, d.tar, d.buffer)
      BY <1>1, Changed DEF IsPort
    <2> QED
      BY <2>1, Changed
  <1>3. Scan(h, Wr("ABORT", 0), w, hang, bus) =
          [h EXCEPT !.dp = SetHung(SetPending(h.dp, No), No)]
    BY DEF Scan, Wr, SetHung, SetPending, No
  <1>4. /\ q.ir = d.ir /\ q.enabled = d.enabled /\ q.orun = d.orun /\ q.err = d.err
        /\ q.pending = No /\ q.hung = No /\ q.tar = d.tar /\ q.buffer = d.buffer
    BY Parts
  <1>5. IsPort(q)
    <2>1. No \in BOOLEAN
      BY DEF No
    <2> QED
      BY <1>1, <2>1, PortTyped DEF IsPort
  <1> HIDE DEF q
  <1>6. Sound(q) /\ ~q.pending
    BY <1>4 DEF Sound, No
  <1>7. Scan(h, Wr("ABORT", 0), w, hang, bus) = Run(q, h.got, h.store)
    BY <1>1, <1>2, <1>3 DEF Run
  <1>8. IsRun(Run(q, h.got, h.store))
    BY <1>1, <1>5, <1>6, RunTyped
  <1> QED
    BY <1>4, <1>6, <1>7, <1>8, RunParts DEF Plain

LEMMA PowerStep ==
  ASSUME NEW h, NEW h1, NEW k, IsRun(h), Plain(h), Loaded(h, h1, "DPACC"),
         NEW w, NEW hang, NEW bus, {w, hang} \subseteq BOOLEAN,
         k = Scan(h1, Wr("CSW", 0), w, hang, bus)
  PROVE  /\ IsRun(k) /\ Plain(k) /\ k.store = h.store
         /\ ~MustWait(h1, w) => Ready(k.dp)
  <1> DEFINE d == h1.dp
             s == Wr("CSW", 0)
  <1>1. IsRun(h1) /\ d.ir = "DPACC" /\ d.ir # "ABORT" /\ "none" \in Outs
    BY DEF Loaded, Outs
  <1>2. s.op # "ir" /\ s.out = "none" /\ k = Scan(h1, s, w, hang, bus)
    BY Requests
  <1>3. CASE MustWait(h1, w)
    <2> HIDE DEF s
    <2>1. Dropped(h1, k, s)
      BY <1>1, <1>2, <1>3, WaitScan
    <2> QED
      BY <1>3, <2>1 DEF Dropped, Plain, Loaded
  <1>4. CASE Free(h1, w)
    <2>1. Becomes(h1, k, "none", Yes, No, No, No, d.tar, d.buffer, h1.store)
      BY <1>1, <1>4, TakeDp
    <2>2. IsRun(k) /\ Plain(k) /\ k.store = h.store
      BY <2>1 DEF Becomes, Plain, Loaded
    <2>3. Ready(k.dp)
      BY <2>1 DEF Becomes, Ready, Fine, Yes, No
    <2> QED
      BY <2>2, <2>3
  <1> QED
    BY <1>3, <1>4 DEF Free

-----------------------------------------------------------------------------
(* Induction over the scans of a transaction, as an induction over a set of *)
(* natural numbers: the function Scanned defines exists.                   *)

LEMMA LessIsWellFounded == IsWellFoundedOn({p \in Nat \X Nat : p[1] < p[2]}, Nat)
  BY NatLessThanWellFounded DEF OpToRel

LEMMA SetInduction ==
  ASSUME NEW S, 0 \in S, \A n \in Nat : n \in S => n + 1 \in S
  PROVE  Nat \subseteq S
  <1> DEFINE T == Nat \ S
             R == {p \in Nat \X Nat : p[1] < p[2]}
  <1>1. SUFFICES ASSUME T # {} PROVE FALSE
    OBVIOUS
  <1>2. \E m \in T : \A k \in T : ~ (<<k, m>> \in R)
    <2>1. T \subseteq Nat /\ IsWellFoundedOn(R, Nat)
      BY LessIsWellFounded
    <2> HIDE DEF T, R
    <2> QED
      BY <1>1, <2>1, WFMin
  <1>3. PICK m \in T : \A k \in T : ~ (k < m)
    BY <1>2
  <1>4. m - 1 \in Nat /\ m - 1 \notin T
    BY <1>3
  <1> QED
    BY <1>3, <1>4

Start0 == Run(dp, Unread, <<>>)

IsScans(f, scans, b, hang, bus, n) ==
    f = [i \in 0 .. n |-> IF i = 0 THEN Start0 ELSE Scan(f[i - 1], scans[i], i \in b, hang, bus)]
TheScans(scans, b, hang, bus) ==
    CHOOSE f : IsScans(f, scans, b, hang, bus, Len(scans))

LEMMA ScannedIs ==
  ASSUME NEW scans, NEW b, NEW hang, NEW bus
  PROVE  Scanned(scans, b, hang, bus) = TheScans(scans, b, hang, bus)[Len(scans)]
  BY DEF Scanned, TheScans, IsScans, Start0, Run

LEMMA ScansExist ==
  ASSUME NEW scans, NEW b, NEW hang, NEW bus, Len(scans) \in Nat
  PROVE  IsScans(TheScans(scans, b, hang, bus), scans, b, hang, bus, Len(scans))
  <1> DEFINE S == {k \in Nat : \E f : IsScans(f, scans, b, hang, bus, k)}
  <1>1. 0 \in S
    <2>1. IsScans([i \in 0 .. 0 |-> Start0], scans, b, hang, bus, 0)
      BY DEF IsScans
    <2> QED
      BY <2>1
  <1>2. ASSUME NEW k \in Nat, k \in S PROVE k + 1 \in S
    <2>1. PICK f : IsScans(f, scans, b, hang, bus, k)
      BY <1>2
    <2> DEFINE x == Scan(f[k], scans[k + 1], (k + 1) \in b, hang, bus)
               g == [i \in 0 .. k + 1 |-> IF i = k + 1 THEN x ELSE f[i]]
    <2>2. IsScans(g, scans, b, hang, bus, k + 1)
      BY <2>1 DEF IsScans
    <2> QED
      BY <2>2
  <1>3. Nat \subseteq S
    <2> HIDE DEF S
    <2> QED
      BY <1>1, <1>2, SetInduction
  <1> QED
    BY <1>3 DEF TheScans

\* The transaction after each scan.
Waits(i, b) == i \in b

Steps(f, scans, b, hang, bus) ==
    /\ f[0] = Start0
    /\ \A i \in 1 .. Len(scans) : f[i] = Scan(f[i - 1], scans[i], Waits(i, b), hang, bus)
    /\ Scanned(scans, b, hang, bus) = f[Len(scans)]
HasSteps(scans, b, hang, bus) == \E f : Steps(f, scans, b, hang, bus)

LEMMA ScanByScan ==
  ASSUME NEW scans, NEW b, NEW hang, NEW bus, Len(scans) \in Nat
  PROVE  HasSteps(scans, b, hang, bus)
  <1>1. IsScans(TheScans(scans, b, hang, bus), scans, b, hang, bus, Len(scans))
    BY ScansExist
  <1> DEFINE f == TheScans(scans, b, hang, bus)
  <1>2. f[0] = Start0
    BY <1>1 DEF IsScans
  <1>3. \A i \in 1 .. Len(scans) : f[i] = Scan(f[i - 1], scans[i], Waits(i, b), hang, bus)
    BY <1>1 DEF IsScans, Waits
  <1>4. Scanned(scans, b, hang, bus) = f[Len(scans)]
    BY ScannedIs
  <1> QED
    BY <1>2, <1>3, <1>4 DEF HasSteps, Steps

-----------------------------------------------------------------------------
(* The queues the calls make.                                              *)

Queued(q, ir) == [scans |-> q, cached_ir |-> ir]

LEMMA QueueIs ==
  ASSUME NEW q, NEW s
  PROVE  /\ Queue(Queued(q, "none"), "DPACC", s) = Queued(q \o <<Ir("DPACC"), s>>, "DPACC")
         /\ Queue(Queued(q, "none"), "ABORT", s) = Queued(q \o <<Ir("ABORT"), s>>, "ABORT")
         /\ Queue(Queued(q, "APACC"), "DPACC", s) = Queued(q \o <<Ir("DPACC"), s>>, "DPACC")
         /\ Queue(Queued(q, "DPACC"), "APACC", s) = Queued(q \o <<Ir("APACC"), s>>, "APACC")
         /\ Queue(Queued(q, "DPACC"), "DPACC", s) = Queued(q \o <<s>>, "DPACC")
         /\ \A ir : Queued(q, ir).scans = q
  BY DEF Queue, Queued

\* The scans in the order they are queued: d and a load DPACC and APACC, s selects
\* the bank, c, t and m go to the access port, v and u fetch, x and y commit.
Joins(d, s, a, c, t, m, u, x, y) ==
    /\ <<>> \o <<d, s>> = <<d, s>>
    /\ <<d, s>> \o <<a, c>> = <<d, s, a, c>>
    /\ <<d, s, a, c>> \o <<d, s>> = <<d, s, a, c, d, s>>
    /\ <<d, s, a, c, d, s>> \o <<a, t>> = <<d, s, a, c, d, s, a, t>>
    /\ <<d, s, a, c, d, s, a, t>> \o <<d, s>> = <<d, s, a, c, d, s, a, t, d, s>>
    /\ <<d, s, a, c, d, s, a, t, d, s>> \o <<a, m>> = <<d, s, a, c, d, s, a, t, d, s, a, m>>
    /\ <<d, s, a, c, d, s, a, t, d, s, a, m>> \o <<d, u>> = <<d, s, a, c, d, s, a, t, d, s, a, m, d, u>>
    /\ <<d, s, a, c, d, s, a, t, d, s, a, m, d, u>> \o <<x>> = <<d, s, a, c, d, s, a, t, d, s, a, m, d, u, x>>
    /\ <<d, s, a, c, d, s, a, t, d, s, a, m, d, u, x>> \o <<y>> = <<d, s, a, c, d, s, a, t, d, s, a, m, d, u, x, y>>
    /\ <<d, s, a, c, d, s, a, t, d, s, a, m>> \o <<d, x>> = <<d, s, a, c, d, s, a, t, d, s, a, m, d, x>>
    /\ <<d, s, a, c, d, s, a, t, d, s, a, m, d, x>> \o <<y>> = <<d, s, a, c, d, s, a, t, d, s, a, m, d, x, y>>

LEMMA Joined ==
  ASSUME NEW d, NEW s, NEW a, NEW c, NEW t, NEW m, NEW u, NEW x, NEW y
  PROVE  Joins(d, s, a, c, t, m, u, x, y)
  <1> DEFINE X == {d, s, a, c, t, m, u, x, y}
  <1>1. <<>> \o <<d, s>> = <<d, s>>
    <2> DEFINE q == <<>> \o <<d, s>>
               r == <<d, s>>
    <2>1. q \in Seq(X) /\ r \in Seq(X) /\ Len(q) = 2 /\ Len(r) = 2
      OBVIOUS
    <2>2. \A i \in 1 .. 2 : q[i] = r[i]
      OBVIOUS
    <2> HIDE DEF q, r, X
    <2>3. q = r
      BY <2>1, <2>2, SeqEqual
    <2> QED
      BY <2>3 DEF q, r
  <1>2. <<d, s>> \o <<a, c>> = <<d, s, a, c>>
    <2> DEFINE q == <<d, s>> \o <<a, c>>
               r == <<d, s, a, c>>
    <2>1. q \in Seq(X) /\ r \in Seq(X) /\ Len(q) = 4 /\ Len(r) = 4
      OBVIOUS
    <2>2. \A i \in 1 .. 4 : q[i] = r[i]
      OBVIOUS
    <2> HIDE DEF q, r, X
    <2>3. q = r
      BY <2>1, <2>2, SeqEqual
    <2> QED
      BY <2>3 DEF q, r
  <1>3. <<d, s, a, c>> \o <<d, s>> = <<d, s, a, c, d, s>>
    <2> DEFINE q == <<d, s, a, c>> \o <<d, s>>
               r == <<d, s, a, c, d, s>>
    <2>1. q \in Seq(X) /\ r \in Seq(X) /\ Len(q) = 6 /\ Len(r) = 6
      OBVIOUS
    <2>2. \A i \in 1 .. 6 : q[i] = r[i]
      OBVIOUS
    <2> HIDE DEF q, r, X
    <2>3. q = r
      BY <2>1, <2>2, SeqEqual
    <2> QED
      BY <2>3 DEF q, r
  <1>4. <<d, s, a, c, d, s>> \o <<a, t>> = <<d, s, a, c, d, s, a, t>>
    <2> DEFINE q == <<d, s, a, c, d, s>> \o <<a, t>>
               r == <<d, s, a, c, d, s, a, t>>
    <2>1. q \in Seq(X) /\ r \in Seq(X) /\ Len(q) = 8 /\ Len(r) = 8
      OBVIOUS
    <2>2. \A i \in 1 .. 8 : q[i] = r[i]
      OBVIOUS
    <2> HIDE DEF q, r, X
    <2>3. q = r
      BY <2>1, <2>2, SeqEqual
    <2> QED
      BY <2>3 DEF q, r
  <1>5. <<d, s, a, c, d, s, a, t>> \o <<d, s>> = <<d, s, a, c, d, s, a, t, d, s>>
    <2> DEFINE q == <<d, s, a, c, d, s, a, t>> \o <<d, s>>
               r == <<d, s, a, c, d, s, a, t, d, s>>
    <2>1. q \in Seq(X) /\ r \in Seq(X) /\ Len(q) = 10 /\ Len(r) = 10
      OBVIOUS
    <2>2. \A i \in 1 .. 10 : q[i] = r[i]
      OBVIOUS
    <2> HIDE DEF q, r, X
    <2>3. q = r
      BY <2>1, <2>2, SeqEqual
    <2> QED
      BY <2>3 DEF q, r
  <1>6. <<d, s, a, c, d, s, a, t, d, s>> \o <<a, m>> = <<d, s, a, c, d, s, a, t, d, s, a, m>>
    <2> DEFINE q == <<d, s, a, c, d, s, a, t, d, s>> \o <<a, m>>
               r == <<d, s, a, c, d, s, a, t, d, s, a, m>>
    <2>1. q \in Seq(X) /\ r \in Seq(X) /\ Len(q) = 12 /\ Len(r) = 12
      OBVIOUS
    <2>2. \A i \in 1 .. 12 : q[i] = r[i]
      OBVIOUS
    <2> HIDE DEF q, r, X
    <2>3. q = r
      BY <2>1, <2>2, SeqEqual
    <2> QED
      BY <2>3 DEF q, r
  <1>7. <<d, s, a, c, d, s, a, t, d, s, a, m>> \o <<d, u>> = <<d, s, a, c, d, s, a, t, d, s, a, m, d, u>>
    <2> DEFINE q == <<d, s, a, c, d, s, a, t, d, s, a, m>> \o <<d, u>>
               r == <<d, s, a, c, d, s, a, t, d, s, a, m, d, u>>
    <2>1. q \in Seq(X) /\ r \in Seq(X) /\ Len(q) = 14 /\ Len(r) = 14
      OBVIOUS
    <2>2. \A i \in 1 .. 14 : q[i] = r[i]
      OBVIOUS
    <2> HIDE DEF q, r, X
    <2>3. q = r
      BY <2>1, <2>2, SeqEqual
    <2> QED
      BY <2>3 DEF q, r
  <1>8. <<d, s, a, c, d, s, a, t, d, s, a, m, d, u>> \o <<x>> = <<d, s, a, c, d, s, a, t, d, s, a, m, d, u, x>>
    <2> DEFINE q == <<d, s, a, c, d, s, a, t, d, s, a, m, d, u>> \o <<x>>
               r == <<d, s, a, c, d, s, a, t, d, s, a, m, d, u, x>>
    <2>1. q \in Seq(X) /\ r \in Seq(X) /\ Len(q) = 15 /\ Len(r) = 15
      OBVIOUS
    <2>2. \A i \in 1 .. 15 : q[i] = r[i]
      OBVIOUS
    <2> HIDE DEF q, r, X
    <2>3. q = r
      BY <2>1, <2>2, SeqEqual
    <2> QED
      BY <2>3 DEF q, r
  <1>9. <<d, s, a, c, d, s, a, t, d, s, a, m, d, u, x>> \o <<y>> = <<d, s, a, c, d, s, a, t, d, s, a, m, d, u, x, y>>
    <2> DEFINE q == <<d, s, a, c, d, s, a, t, d, s, a, m, d, u, x>> \o <<y>>
               r == <<d, s, a, c, d, s, a, t, d, s, a, m, d, u, x, y>>
    <2>1. q \in Seq(X) /\ r \in Seq(X) /\ Len(q) = 16 /\ Len(r) = 16
      OBVIOUS
    <2>2. \A i \in 1 .. 16 : q[i] = r[i]
      OBVIOUS
    <2> HIDE DEF q, r, X
    <2>3. q = r
      BY <2>1, <2>2, SeqEqual
    <2> QED
      BY <2>3 DEF q, r
  <1>10. <<d, s, a, c, d, s, a, t, d, s, a, m>> \o <<d, x>> = <<d, s, a, c, d, s, a, t, d, s, a, m, d, x>>
    <2> DEFINE q == <<d, s, a, c, d, s, a, t, d, s, a, m>> \o <<d, x>>
               r == <<d, s, a, c, d, s, a, t, d, s, a, m, d, x>>
    <2>1. q \in Seq(X) /\ r \in Seq(X) /\ Len(q) = 14 /\ Len(r) = 14
      OBVIOUS
    <2>2. \A i \in 1 .. 14 : q[i] = r[i]
      OBVIOUS
    <2> HIDE DEF q, r, X
    <2>3. q = r
      BY <2>1, <2>2, SeqEqual
    <2> QED
      BY <2>3 DEF q, r
  <1>11. <<d, s, a, c, d, s, a, t, d, s, a, m, d, x>> \o <<y>> = <<d, s, a, c, d, s, a, t, d, s, a, m, d, x, y>>
    <2> DEFINE q == <<d, s, a, c, d, s, a, t, d, s, a, m, d, x>> \o <<y>>
               r == <<d, s, a, c, d, s, a, t, d, s, a, m, d, x, y>>
    <2>1. q \in Seq(X) /\ r \in Seq(X) /\ Len(q) = 15 /\ Len(r) = 15
      OBVIOUS
    <2>2. \A i \in 1 .. 15 : q[i] = r[i]
      OBVIOUS
    <2> HIDE DEF q, r, X
    <2>3. q = r
      BY <2>1, <2>2, SeqEqual
    <2> QED
      BY <2>3 DEF q, r
  <1> QED
    BY <1>1, <1>2, <1>3, <1>4, <1>5, <1>6, <1>7, <1>8, <1>9, <1>10, <1>11 DEF Joins

LEMMA MemRdIs ==
  ASSUME NEW addr
  PROVE  LET d == Ir("DPACC")
             a == Ir("APACC")
             s == Wr("SELECT", 0)
             c == Wr("CSW", 0)
             t == Wr("TAR", addr)
             m == Rd("DRW", "none")
             u == Rd("RDBUFF", "u")
             x == Rd("CSW", "a")
             y == Rd("RDBUFF", "b")
         IN  MemRd(addr) = <<d, s, a, c, d, s, a, t, d, s, a, m, d, u, x, y>>
  <1> DEFINE d == Ir("DPACC")
             a == Ir("APACC")
             s == Wr("SELECT", 0)
             c == Wr("CSW", 0)
             t == Wr("TAR", addr)
             m == Rd("DRW", "none")
             u == Rd("RDBUFF", "u")
             x == Rd("CSW", "a")
             y == Rd("RDBUFF", "b")
             q1 == Queue(Empty, "DPACC", s)
             q2 == Queue(q1, "APACC", c)
             q3 == Queue(q2, "DPACC", s)
             q4 == Queue(q3, "APACC", t)
             q5 == Queue(q4, "DPACC", s)
             q6 == Queue(q5, "APACC", m)
             q7 == Queue(q6, "DPACC", u)
             q8 == Queue(q7, "DPACC", x)
             q9 == Queue(q8, "DPACC", y)
  <1>1. MemRd(addr) = q9.scans
    BY DEF MemRd, QCommit, QApRd, QApWr, QDpWr, QDpRd
  <1> HIDE DEF d, a, s, c, t, m, u, x, y
  <1>0. Joins(d, s, a, c, t, m, u, x, y)
    BY Joined
  <1>2. q1 = Queued(<<d, s>>, "DPACC")
    <2>1. q1 = Queued(<<>> \o <<d, s>>, "DPACC")
      <3>1. Empty = Queued(<<>>, "none")
        BY DEF Empty, Queued
      <3> QED
        BY <3>1, QueueIs DEF d
    <2> QED
      BY <1>0, <2>1 DEF Joins
  <1> HIDE DEF q1
  <1>3. q2 = Queued(<<d, s, a, c>>, "APACC")
    <2>1. q2 = Queued(<<d, s>> \o <<a, c>>, "APACC")
      BY <1>2, QueueIs DEF d, a
    <2> QED
      BY <1>0, <2>1 DEF Joins
  <1> HIDE DEF q2
  <1>4. q3 = Queued(<<d, s, a, c, d, s>>, "DPACC")
    <2>1. q3 = Queued(<<d, s, a, c>> \o <<d, s>>, "DPACC")
      BY <1>3, QueueIs DEF d, a
    <2> QED
      BY <1>0, <2>1 DEF Joins
  <1> HIDE DEF q3
  <1>5. q4 = Queued(<<d, s, a, c, d, s, a, t>>, "APACC")
    <2>1. q4 = Queued(<<d, s, a, c, d, s>> \o <<a, t>>, "APACC")
      BY <1>4, QueueIs DEF d, a
    <2> QED
      BY <1>0, <2>1 DEF Joins
  <1> HIDE DEF q4
  <1>6. q5 = Queued(<<d, s, a, c, d, s, a, t, d, s>>, "DPACC")
    <2>1. q5 = Queued(<<d, s, a, c, d, s, a, t>> \o <<d, s>>, "DPACC")
      BY <1>5, QueueIs DEF d, a
    <2> QED
      BY <1>0, <2>1 DEF Joins
  <1> HIDE DEF q5
  <1>7. q6 = Queued(<<d, s, a, c, d, s, a, t, d, s, a, m>>, "APACC")
    <2>1. q6 = Queued(<<d, s, a, c, d, s, a, t, d, s>> \o <<a, m>>, "APACC")
      BY <1>6, QueueIs DEF d, a
    <2> QED
      BY <1>0, <2>1 DEF Joins
  <1> HIDE DEF q6
  <1>8. q7 = Queued(<<d, s, a, c, d, s, a, t, d, s, a, m, d, u>>, "DPACC")
    <2>1. q7 = Queued(<<d, s, a, c, d, s, a, t, d, s, a, m>> \o <<d, u>>, "DPACC")
      BY <1>7, QueueIs DEF d, a
    <2> QED
      BY <1>0, <2>1 DEF Joins
  <1> HIDE DEF q7
  <1>9. q8 = Queued(<<d, s, a, c, d, s, a, t, d, s, a, m, d, u, x>>, "DPACC")
    <2>1. q8 = Queued(<<d, s, a, c, d, s, a, t, d, s, a, m, d, u>> \o <<x>>, "DPACC")
      BY <1>8, QueueIs DEF d, a
    <2> QED
      BY <1>0, <2>1 DEF Joins
  <1> HIDE DEF q8
  <1>10. q9 = Queued(<<d, s, a, c, d, s, a, t, d, s, a, m, d, u, x, y>>, "DPACC")
    <2>1. q9 = Queued(<<d, s, a, c, d, s, a, t, d, s, a, m, d, u, x>> \o <<y>>, "DPACC")
      BY <1>9, QueueIs DEF d, a
    <2> QED
      BY <1>0, <2>1 DEF Joins
  <1> HIDE DEF q9
  <1> QED
    BY <1>1, <1>10, QueueIs DEF d, a, s, c, t, m, u, x, y

LEMMA MemWrIs ==
  ASSUME NEW addr, NEW val
  PROVE  LET d == Ir("DPACC")
             a == Ir("APACC")
             s == Wr("SELECT", 0)
             c == Wr("CSW", 0)
             t == Wr("TAR", addr)
             m == Wr("DRW", val)
             x == Rd("CSW", "a")
             y == Rd("RDBUFF", "b")
         IN  MemWr(addr, val) = <<d, s, a, c, d, s, a, t, d, s, a, m, d, x, y>>
  <1> DEFINE d == Ir("DPACC")
             a == Ir("APACC")
             s == Wr("SELECT", 0)
             c == Wr("CSW", 0)
             t == Wr("TAR", addr)
             m == Wr("DRW", val)
             x == Rd("CSW", "a")
             y == Rd("RDBUFF", "b")
             q1 == Queue(Empty, "DPACC", s)
             q2 == Queue(q1, "APACC", c)
             q3 == Queue(q2, "DPACC", s)
             q4 == Queue(q3, "APACC", t)
             q5 == Queue(q4, "DPACC", s)
             q6 == Queue(q5, "APACC", m)
             q7 == Queue(q6, "DPACC", x)
             q8 == Queue(q7, "DPACC", y)
  <1>1. MemWr(addr, val) = q8.scans
    BY DEF MemWr, QCommit, QApRd, QApWr, QDpWr, QDpRd
  <1> HIDE DEF d, a, s, c, t, m, x, y
  <1>0. Joins(d, s, a, c, t, m, m, x, y)
    BY Joined
  <1>2. q1 = Queued(<<d, s>>, "DPACC")
    <2>1. q1 = Queued(<<>> \o <<d, s>>, "DPACC")
      <3>1. Empty = Queued(<<>>, "none")
        BY DEF Empty, Queued
      <3> QED
        BY <3>1, QueueIs DEF d
    <2> QED
      BY <1>0, <2>1 DEF Joins
  <1> HIDE DEF q1
  <1>3. q2 = Queued(<<d, s, a, c>>, "APACC")
    <2>1. q2 = Queued(<<d, s>> \o <<a, c>>, "APACC")
      BY <1>2, QueueIs DEF d, a
    <2> QED
      BY <1>0, <2>1 DEF Joins
  <1> HIDE DEF q2
  <1>4. q3 = Queued(<<d, s, a, c, d, s>>, "DPACC")
    <2>1. q3 = Queued(<<d, s, a, c>> \o <<d, s>>, "DPACC")
      BY <1>3, QueueIs DEF d, a
    <2> QED
      BY <1>0, <2>1 DEF Joins
  <1> HIDE DEF q3
  <1>5. q4 = Queued(<<d, s, a, c, d, s, a, t>>, "APACC")
    <2>1. q4 = Queued(<<d, s, a, c, d, s>> \o <<a, t>>, "APACC")
      BY <1>4, QueueIs DEF d, a
    <2> QED
      BY <1>0, <2>1 DEF Joins
  <1> HIDE DEF q4
  <1>6. q5 = Queued(<<d, s, a, c, d, s, a, t, d, s>>, "DPACC")
    <2>1. q5 = Queued(<<d, s, a, c, d, s, a, t>> \o <<d, s>>, "DPACC")
      BY <1>5, QueueIs DEF d, a
    <2> QED
      BY <1>0, <2>1 DEF Joins
  <1> HIDE DEF q5
  <1>7. q6 = Queued(<<d, s, a, c, d, s, a, t, d, s, a, m>>, "APACC")
    <2>1. q6 = Queued(<<d, s, a, c, d, s, a, t, d, s>> \o <<a, m>>, "APACC")
      BY <1>6, QueueIs DEF d, a
    <2> QED
      BY <1>0, <2>1 DEF Joins
  <1> HIDE DEF q6
  <1>8. q7 = Queued(<<d, s, a, c, d, s, a, t, d, s, a, m, d, x>>, "DPACC")
    <2>1. q7 = Queued(<<d, s, a, c, d, s, a, t, d, s, a, m>> \o <<d, x>>, "DPACC")
      BY <1>7, QueueIs DEF d, a
    <2> QED
      BY <1>0, <2>1 DEF Joins
  <1> HIDE DEF q7
  <1>9. q8 = Queued(<<d, s, a, c, d, s, a, t, d, s, a, m, d, x, y>>, "DPACC")
    <2>1. q8 = Queued(<<d, s, a, c, d, s, a, t, d, s, a, m, d, x>> \o <<y>>, "DPACC")
      BY <1>8, QueueIs DEF d, a
    <2> QED
      BY <1>0, <2>1 DEF Joins
  <1> HIDE DEF q8
  <1> QED
    BY <1>1, <1>9, QueueIs DEF d, a, s, c, t, m, x, y

LEMMA PowerUpIs ==
  /\ PowerUp(Yes) = <<Ir("ABORT"), Wr("ABORT", 0), Ir("DPACC"), Wr("CSW", 0)>>
  /\ PowerUp(No) = <<Ir("DPACC"), Wr("CSW", 0)>>
  <1> DEFINE d == Ir("ABORT")  s == Wr("ABORT", 0)  a == Ir("DPACC")  c == Wr("CSW", 0)
  <1>1. Joins(d, s, a, c, c, c, c, c, c) /\ Joins(a, c, c, c, c, c, c, c, c)
    BY Joined
  <1>2. Empty = Queued(<<>>, "none") /\ [Empty EXCEPT !.cached_ir = "none"] = Queued(<<>>, "none")
    BY DEF Empty, Queued
  <1>3. Queue(Queued(<<>>, "none"), "ABORT", s) = Queued(<<d, s>>, "ABORT")
    <2>1. Queue(Queued(<<>>, "none"), "ABORT", s) = Queued(<<>> \o <<d, s>>, "ABORT")
      BY QueueIs
    <2> HIDE DEF d, s, a, c
    <2> QED
      BY <1>1, <2>1 DEF Joins
  <1>4. QAbort(Empty) = Queued(<<d, s>>, "none")
    <2>1. QAbort(Empty) = [Queued(<<d, s>>, "ABORT") EXCEPT !.cached_ir = "none"]
      BY <1>2, <1>3 DEF QAbort
    <2> HIDE DEF d, s
    <2> QED
      BY <2>1 DEF Queued
  <1>5. PowerUp(Yes) = Queue(Queued(<<d, s>>, "none"), "DPACC", c).scans
    BY <1>4 DEF PowerUp, QDpWr, Yes
  <1>6. PowerUp(No) = Queue(Queued(<<>>, "none"), "DPACC", c).scans
    BY <1>2 DEF PowerUp, QDpWr, No
  <1>7. /\ Queue(Queued(<<d, s>>, "none"), "DPACC", c).scans = <<d, s>> \o <<a, c>>
        /\ Queue(Queued(<<>>, "none"), "DPACC", c).scans = <<>> \o <<a, c>>
    <2> HIDE DEF d, s, c
    <2>1. /\ Queue(Queued(<<d, s>>, "none"), "DPACC", c) = Queued(<<d, s>> \o <<a, c>>, "DPACC")
          /\ Queue(Queued(<<>>, "none"), "DPACC", c) = Queued(<<>> \o <<a, c>>, "DPACC")
      BY QueueIs
    <2> QED
      BY <2>1 DEF Queued
  <1> HIDE DEF d, s, a, c
  <1>8. <<d, s>> \o <<a, c>> = <<d, s, a, c>> /\ <<>> \o <<a, c>> = <<a, c>>
    BY <1>1 DEF Joins
  <1> QED
    BY <1>5, <1>6, <1>7, <1>8 DEF d, s, a, c

LEMMA StatusRdIs == StatusRd = <<Ir("DPACC"), Rd("CSW", "none"), Rd("RDBUFF", "u")>>
  <1> DEFINE d == Ir("DPACC")  x == Rd("CSW", "none")  y == Rd("RDBUFF", "u")
  <1>1. Joins(d, x, d, d, d, d, d, d, d)
    BY Joined
  <1>2. Empty = Queued(<<>>, "none")
    BY DEF Empty, Queued
  <1>3. Queue(Empty, "DPACC", x) = Queued(<<>> \o <<d, x>>, "DPACC")
    BY <1>2, QueueIs
  <1>4. Queue(Empty, "DPACC", x) = Queued(<<d, x>>, "DPACC")
    <2> HIDE DEF d, x
    <2> QED
      BY <1>1, <1>3 DEF Joins
  <1>5. StatusRd = Queue(Queued(<<d, x>>, "DPACC"), "DPACC", y).scans
    BY <1>4 DEF StatusRd, QDpRd
  <1>6. Queue(Queued(<<d, x>>, "DPACC"), "DPACC", y).scans = <<d, x>> \o <<y>>
    <2> HIDE DEF d, x, y
    <2>1. Queue(Queued(<<d, x>>, "DPACC"), "DPACC", y) = Queued(<<d, x>> \o <<y>>, "DPACC")
      BY QueueIs
    <2> QED
      BY <2>1 DEF Queued
  <1>7. <<d, x>> \o <<y>> = <<d, x, y>>
    <2> HIDE DEF d, x, y
    <2> DEFINE X == {d, x, y}
               q == <<d, x>> \o <<y>>
               r == <<d, x, y>>
    <2>1. q \in Seq(X) /\ r \in Seq(X) /\ Len(q) = 3 /\ Len(r) = 3
      OBVIOUS
    <2>2. \A i \in 1 .. 3 : q[i] = r[i]
      OBVIOUS
    <2> HIDE DEF q, r, X
    <2>3. q = r
      BY <2>1, <2>2, SeqEqual
    <2> QED
      BY <2>3 DEF q, r
  <1> QED
    BY <1>5, <1>6, <1>7

-----------------------------------------------------------------------------
(* A memory call's transactions, request by request.                       *)

\* What the faults of a transaction are: the scan has to wait, an access that
\* waits hangs, a memory access fails.
Chances(w, hang, bus, f) ==
    {w, hang, bus} \subseteq BOOLEAN /\ OnlyIf(w, f) /\ OnlyIf(bus, f)

\* A request that stores nothing.
Request(h, k, f) ==
    /\ Live(k) /\ k.store = h.store
    /\ Fine(k.dp) => Fine(h.dp)
    /\ Fine(h.dp) /\ ~Fine(k.dp) => f

Passed(h, k, f) == Request(h, k, f) /\ Neutral(h, k)
Aimed(h, k, a, f) == Request(h, k, f) /\ Aims(h, k, a)
HasRead(h, k, f) == Request(h, k, f) /\ Reads(h, k)
HasFetched(h, k, f) == Request(h, k, f) /\ Fetches(h, k) /\ k.dp.ir = "DPACC"
HasWritten(h, k, v, f) ==
    /\ Live(k)
    /\ IF Fine(k.dp) THEN Fine(h.dp) /\ k.store = <<h.dp.tar, v>> ELSE k.store = h.store
    /\ Fine(h.dp) /\ ~Fine(k.dp) => f

LEMMA SelectPair ==
  ASSUME NEW h, NEW h1, NEW k, Live(h), NEW w1, NEW w, NEW hang, NEW bus, NEW f,
         Chances(w, hang, bus, f),
         h1 = Scan(h, Ir("DPACC"), w1, hang, bus), k = Scan(h1, Wr("SELECT", 0), w, hang, bus)
  PROVE  Passed(h, k, f)
  <1>1. Loaded(h, h1, "DPACC")
    BY IrScan DEF Live
  <1>2. {w, hang} \subseteq BOOLEAN /\ {w, hang, bus} \subseteq BOOLEAN
    BY DEF Chances
  <1>3. OnlyIf(w, f) /\ OnlyIf(bus, f)
    BY DEF Chances
  <1>4. Follows(h, k, f) /\ Neutral(h, k)
    BY <1>1, <1>2, <1>3, SelectStep
  <1>5. (Fine(h.dp) \/ Spoilt(h.dp)) /\ ~ (Fine(h.dp) /\ Spoilt(h.dp))
    BY FineOrSpoilt DEF Live, IsRun
  <1>6. ~ (Fine(k.dp) /\ Spoilt(k.dp))
    BY DEF Fine, Spoilt
  <1> QED
    BY <1>4, <1>5, <1>6 DEF Passed, Request, Follows, Neutral

LEMMA CswPair ==
  ASSUME NEW h, NEW h1, NEW k, Live(h), NEW w1, NEW w, NEW hang, NEW bus, NEW f,
         Chances(w, hang, bus, f),
         h1 = Scan(h, Ir("APACC"), w1, hang, bus), k = Scan(h1, Wr("CSW", 0), w, hang, bus)
  PROVE  Passed(h, k, f)
  <1>1. Loaded(h, h1, "APACC")
    BY IrScan DEF Live
  <1>2. {w, hang} \subseteq BOOLEAN /\ {w, hang, bus} \subseteq BOOLEAN
    BY DEF Chances
  <1>3. OnlyIf(w, f) /\ OnlyIf(bus, f)
    BY DEF Chances
  <1>4. Follows(h, k, f) /\ Neutral(h, k)
    BY <1>1, <1>2, <1>3, CswStep
  <1>5. (Fine(h.dp) \/ Spoilt(h.dp)) /\ ~ (Fine(h.dp) /\ Spoilt(h.dp))
    BY FineOrSpoilt DEF Live, IsRun
  <1>6. ~ (Fine(k.dp) /\ Spoilt(k.dp))
    BY DEF Fine, Spoilt
  <1> QED
    BY <1>4, <1>5, <1>6 DEF Passed, Request, Follows, Neutral

LEMMA TarPair ==
  ASSUME NEW h, NEW h1, NEW k, Live(h), NEW v, NEW w1, NEW w, NEW hang, NEW bus, NEW f,
         Chances(w, hang, bus, f),
         h1 = Scan(h, Ir("APACC"), w1, hang, bus), k = Scan(h1, Wr("TAR", v), w, hang, bus)
  PROVE  Aimed(h, k, v, f)
  <1>1. Loaded(h, h1, "APACC")
    BY IrScan DEF Live
  <1>2. {w, hang} \subseteq BOOLEAN /\ {w, hang, bus} \subseteq BOOLEAN
    BY DEF Chances
  <1>3. OnlyIf(w, f) /\ OnlyIf(bus, f)
    BY DEF Chances
  <1>4. Follows(h, k, f) /\ Aims(h, k, v)
    BY <1>1, <1>2, <1>3, TarStep
  <1>5. (Fine(h.dp) \/ Spoilt(h.dp)) /\ ~ (Fine(h.dp) /\ Spoilt(h.dp))
    BY FineOrSpoilt DEF Live, IsRun
  <1>6. ~ (Fine(k.dp) /\ Spoilt(k.dp))
    BY DEF Fine, Spoilt
  <1> QED
    BY <1>4, <1>5, <1>6 DEF Aimed, Request, Follows, Aims

LEMMA ReadPair ==
  ASSUME NEW h, NEW h1, NEW k, Live(h), NEW w1, NEW w, NEW hang, NEW bus, NEW f,
         Chances(w, hang, bus, f),
         h1 = Scan(h, Ir("APACC"), w1, hang, bus), k = Scan(h1, Rd("DRW", "none"), w, hang, bus)
  PROVE  HasRead(h, k, f)
  <1>1. Loaded(h, h1, "APACC")
    BY IrScan DEF Live
  <1>2. {w, hang} \subseteq BOOLEAN /\ {w, hang, bus} \subseteq BOOLEAN
    BY DEF Chances
  <1>3. OnlyIf(w, f) /\ OnlyIf(bus, f)
    BY DEF Chances
  <1>4. Follows(h, k, f) /\ Reads(h, k)
    BY <1>1, <1>2, <1>3, DrwRead
  <1>5. (Fine(h.dp) \/ Spoilt(h.dp)) /\ ~ (Fine(h.dp) /\ Spoilt(h.dp))
    BY FineOrSpoilt DEF Live, IsRun
  <1>6. ~ (Fine(k.dp) /\ Spoilt(k.dp))
    BY DEF Fine, Spoilt
  <1> QED
    BY <1>4, <1>5, <1>6 DEF HasRead, Request, Follows, Reads

LEMMA FetchPair ==
  ASSUME NEW h, NEW h1, NEW k, Live(h), NEW w1, NEW w, NEW hang, NEW bus, NEW f,
         Chances(w, hang, bus, f),
         h1 = Scan(h, Ir("DPACC"), w1, hang, bus), k = Scan(h1, Rd("RDBUFF", "u"), w, hang, bus)
  PROVE  HasFetched(h, k, f)
  <1>1. Loaded(h, h1, "DPACC")
    BY IrScan DEF Live
  <1>2. {w, hang} \subseteq BOOLEAN /\ {w, hang, bus} \subseteq BOOLEAN
    BY DEF Chances
  <1>3. OnlyIf(w, f) /\ OnlyIf(bus, f)
    BY DEF Chances
  <1>4. Follows(h, k, f) /\ Fetches(h, k) /\ k.dp.ir = "DPACC"
    BY <1>1, <1>2, <1>3, FetchStep
  <1>5. (Fine(h.dp) \/ Spoilt(h.dp)) /\ ~ (Fine(h.dp) /\ Spoilt(h.dp))
    BY FineOrSpoilt DEF Live, IsRun
  <1>6. ~ (Fine(k.dp) /\ Spoilt(k.dp))
    BY DEF Fine, Spoilt
  <1> QED
    BY <1>4, <1>5, <1>6 DEF HasFetched, Request, Follows, Fetches

LEMMA WritePair ==
  ASSUME NEW h, NEW h1, NEW k, Live(h), NEW v, NEW w1, NEW w, NEW hang, NEW bus, NEW f,
         Chances(w, hang, bus, f),
         h1 = Scan(h, Ir("APACC"), w1, hang, bus), k = Scan(h1, Wr("DRW", v), w, hang, bus)
  PROVE  HasWritten(h, k, v, f)
  <1>1. Loaded(h, h1, "APACC")
    BY IrScan DEF Live
  <1>2. {w, hang} \subseteq BOOLEAN /\ {w, hang, bus} \subseteq BOOLEAN
    BY DEF Chances
  <1>3. OnlyIf(w, f) /\ OnlyIf(bus, f)
    BY DEF Chances
  <1>4. Follows(h, k, f) /\ Writes(h, k, v)
    BY <1>1, <1>2, <1>3, DrwWrite
  <1>5. (Fine(h.dp) \/ Spoilt(h.dp)) /\ ~ (Fine(h.dp) /\ Spoilt(h.dp))
    BY FineOrSpoilt DEF Live, IsRun
  <1>6. ~ (Fine(k.dp) /\ Spoilt(k.dp))
    BY DEF Fine, Spoilt
  <1> QED
    BY <1>4, <1>5, <1>6 DEF HasWritten, Request, Follows, Writes

HasCommitted(h, k, f) ==
    /\ Live(k) /\ k.store = h.store /\ k.got["u"] = h.got["u"]
    /\ Acked(k) => Fine(h.dp) /\ Ready(k.dp)
    /\ Fine(h.dp) /\ ~Acked(k) => f

LEMMA CommitPair ==
  ASSUME NEW h, NEW k1, NEW k, Live(h), h.dp.ir = "DPACC",
         NEW w, NEW w2, NEW hang, NEW bus, NEW f,
         Chances(w, hang, bus, f), Chances(w2, hang, bus, f),
         k1 = Scan(h, Rd("CSW", "a"), w, hang, bus), k = Scan(k1, Rd("RDBUFF", "b"), w2, hang, bus)
  PROVE  HasCommitted(h, k, f)
  <1>1. {w, w2, hang} \subseteq BOOLEAN /\ OnlyIf(w, f)
    BY DEF Chances
  <1>2. /\ Live(k) /\ k.store = h.store /\ k.got["u"] = h.got["u"]
        /\ Acked(k) => Fine(h.dp) /\ Ready(k.dp)
        /\ Fine(h.dp) /\ ~Acked(k) => f
    BY <1>1, CommitStep
  <1> QED
    BY <1>2 DEF HasCommitted

-----------------------------------------------------------------------------
(* The transactions.                                                       *)

\* Between two transactions.
Settled(d) == IsPort(d) /\ Sound(d) /\ d.buffer.flags = {}

LEMMA Begun ==
  ASSUME Settled(dp)
  PROVE  IsRun(Start0) /\ Plain(Start0) /\ Start0.store = <<>> /\ Start0.dp = dp
  <1>1. Start0.dp = dp /\ Start0.got = Unread /\ Start0.store = <<>>
    BY RunParts DEF Start0
  <1>2. DOMAIN Unread = Outs
    BY DEF Unread, Outs
  <1>3. IsRun(Start0)
    BY <1>2, RunTyped DEF Settled, Start0
  <1> QED
    BY <1>1, <1>3 DEF Plain, Settled

Faulty(b, bus, f) == (\A i : OnlyIf(Waits(i, b), f)) /\ OnlyIf(bus, f)

LEMMA AnyScan ==
  ASSUME NEW i, NEW b, NEW hang, NEW bus, NEW f, {hang, bus} \subseteq BOOLEAN, Faulty(b, bus, f)
  PROVE  Chances(Waits(i, b), hang, bus, f)
  BY DEF Chances, Faulty, Waits

\* A read that commits has read the word, and left the port ready for the next;
\* one that no fault happens to commits.
ReadDone(h, addr, f) ==
    /\ Live(h) /\ h.store = <<>>
    /\ Acked(h) => Ready(h.dp) /\ h.got["u"].word = mem[addr]
    /\ Acked(h) \/ f

LEMMA ReadTransaction ==
  ASSUME NEW addr, NEW b, NEW hang, NEW bus, NEW f, {hang, bus} \subseteq BOOLEAN,
         Faulty(b, bus, f), Settled(dp), Ready(dp)
  PROVE  ReadDone(Scanned(MemRd(addr), b, hang, bus), addr, f)
  <1> DEFINE q == MemRd(addr)
  <1>1. Len(q) = 16
    BY MemRdIs
  <1>2. /\ q[1] = Ir("DPACC") /\ q[2] = Wr("SELECT", 0)
        /\ q[3] = Ir("APACC") /\ q[4] = Wr("CSW", 0)
        /\ q[5] = Ir("DPACC") /\ q[6] = Wr("SELECT", 0)
        /\ q[7] = Ir("APACC") /\ q[8] = Wr("TAR", addr)
        /\ q[9] = Ir("DPACC") /\ q[10] = Wr("SELECT", 0)
        /\ q[11] = Ir("APACC") /\ q[12] = Rd("DRW", "none")
        /\ q[13] = Ir("DPACC") /\ q[14] = Rd("RDBUFF", "u")
        /\ q[15] = Rd("CSW", "a") /\ q[16] = Rd("RDBUFF", "b")
    BY MemRdIs
  <1> HIDE DEF q
  <1>3. PICK g : /\ g[0] = Start0
                 /\ \A i \in 1 .. Len(q) : g[i] = Scan(g[i - 1], q[i], Waits(i, b), hang, bus)
                 /\ Scanned(q, b, hang, bus) = g[Len(q)]
    <2>1. Len(q) \in Nat
      BY <1>1
    <2>2. HasSteps(q, b, hang, bus)
      BY <2>1, ScanByScan
    <2> QED
      BY <2>2 DEF HasSteps, Steps
  <1>4. /\ g[1] = Scan(g[0], Ir("DPACC"), Waits(1, b), hang, bus)
        /\ g[2] = Scan(g[1], Wr("SELECT", 0), Waits(2, b), hang, bus)
        /\ g[3] = Scan(g[2], Ir("APACC"), Waits(3, b), hang, bus)
        /\ g[4] = Scan(g[3], Wr("CSW", 0), Waits(4, b), hang, bus)
        /\ g[5] = Scan(g[4], Ir("DPACC"), Waits(5, b), hang, bus)
        /\ g[6] = Scan(g[5], Wr("SELECT", 0), Waits(6, b), hang, bus)
        /\ g[7] = Scan(g[6], Ir("APACC"), Waits(7, b), hang, bus)
        /\ g[8] = Scan(g[7], Wr("TAR", addr), Waits(8, b), hang, bus)
        /\ g[9] = Scan(g[8], Ir("DPACC"), Waits(9, b), hang, bus)
        /\ g[10] = Scan(g[9], Wr("SELECT", 0), Waits(10, b), hang, bus)
        /\ g[11] = Scan(g[10], Ir("APACC"), Waits(11, b), hang, bus)
        /\ g[12] = Scan(g[11], Rd("DRW", "none"), Waits(12, b), hang, bus)
        /\ g[13] = Scan(g[12], Ir("DPACC"), Waits(13, b), hang, bus)
        /\ g[14] = Scan(g[13], Rd("RDBUFF", "u"), Waits(14, b), hang, bus)
        /\ g[15] = Scan(g[14], Rd("CSW", "a"), Waits(15, b), hang, bus)
        /\ g[16] = Scan(g[15], Rd("RDBUFF", "b"), Waits(16, b), hang, bus)
    BY <1>1, <1>2, <1>3
  <1>5. \A i : Chances(Waits(i, b), hang, bus, f)
    BY AnyScan
  <1>6. Live(g[0]) /\ Fine(g[0].dp) /\ g[0].store = <<>>
    BY <1>3, Begun DEF Live, Ready, Fine
  <1>7. Passed(g[0], g[2], f)
    <2>1. Live(g[0])
      BY <1>6
    <2> QED
      BY <1>4, <1>5, <2>1, SelectPair
  <1>8. Passed(g[2], g[4], f)
    <2>1. Live(g[2])
      BY <1>7 DEF Passed, Request
    <2> QED
      BY <1>4, <1>5, <2>1, CswPair
  <1>9. Passed(g[4], g[6], f)
    <2>1. Live(g[4])
      BY <1>8 DEF Passed, Request
    <2> QED
      BY <1>4, <1>5, <2>1, SelectPair
  <1>10. Aimed(g[6], g[8], addr, f)
    <2>1. Live(g[6])
      BY <1>9 DEF Passed, Request
    <2> QED
      BY <1>4, <1>5, <2>1, TarPair
  <1>11. Passed(g[8], g[10], f)
    <2>1. Live(g[8])
      BY <1>10 DEF Aimed, Request
    <2> QED
      BY <1>4, <1>5, <2>1, SelectPair
  <1>12. HasRead(g[10], g[12], f)
    <2>1. Live(g[10])
      BY <1>11 DEF Passed, Request
    <2> QED
      BY <1>4, <1>5, <2>1, ReadPair
  <1>13. HasFetched(g[12], g[14], f)
    <2>1. Live(g[12])
      BY <1>12 DEF HasRead, Request
    <2> QED
      BY <1>4, <1>5, <2>1, FetchPair
  <1>14. HasCommitted(g[14], g[16], f)
    <2>1. Live(g[14]) /\ g[14].dp.ir = "DPACC"
      BY <1>13 DEF HasFetched, Request
    <2> QED
      BY <1>4, <1>5, <2>1, CommitPair
  <1>15. g[16].store = <<>> /\ Live(g[16])
    BY <1>6, <1>7, <1>8, <1>9, <1>10, <1>11, <1>12, <1>13, <1>14
    DEF Passed, Aimed, HasRead, HasFetched, HasCommitted, Request
  <1>16. Acked(g[16]) \/ f
    BY <1>6, <1>7, <1>8, <1>9, <1>10, <1>11, <1>12, <1>13, <1>14
    DEF Passed, Aimed, HasRead, HasFetched, HasCommitted, Request
  <1>17. ASSUME Acked(g[16]) PROVE Ready(g[16].dp) /\ g[16].got["u"].word = mem[addr]
    <2>1. Fine(g[14].dp) /\ Ready(g[16].dp) /\ g[16].got["u"] = g[14].got["u"]
      BY <1>14, <1>17 DEF HasCommitted
    <2>2. Fine(g[12].dp) /\ g[14].got["u"].word = g[12].dp.buffer.word
      BY <1>13, <2>1 DEF HasFetched, Fetches
    <2>3. Fine(g[10].dp) /\ g[12].dp.buffer = Word(mem[g[10].dp.tar])
      BY <1>12, <2>2 DEF HasRead, Reads
    <2>4. Fine(g[8].dp) /\ g[10].dp.tar = g[8].dp.tar
      BY <1>11, <2>3 DEF Passed, Neutral
    <2>5. g[8].dp.tar = addr
      BY <1>10, <2>4 DEF Aimed, Aims
    <2>6. g[16].got["u"].word = Word(mem[addr]).word
      BY <2>1, <2>2, <2>3, <2>4, <2>5
    <2> QED
      BY <2>1, <2>6, PlainWords
  <1> QED
    BY <1>1, <1>3, <1>15, <1>16, <1>17 DEF ReadDone, q

\* A write that commits has written the word; one that does not has written it or
\* nothing.
WriteDone(h, addr, val, f) ==
    /\ Live(h) /\ h.store \in {<<>>, <<addr, val>>}
    /\ Acked(h) => Ready(h.dp) /\ h.store = <<addr, val>>
    /\ Acked(h) \/ f

LEMMA WriteTransaction ==
  ASSUME NEW addr, NEW val, NEW b, NEW hang, NEW bus, NEW f, {hang, bus} \subseteq BOOLEAN,
         Faulty(b, bus, f), Settled(dp), Ready(dp)
  PROVE  WriteDone(Scanned(MemWr(addr, val), b, hang, bus), addr, val, f)
  <1> DEFINE q == MemWr(addr, val)
  <1>1. Len(q) = 15
    BY MemWrIs
  <1>2. /\ q[1] = Ir("DPACC") /\ q[2] = Wr("SELECT", 0)
        /\ q[3] = Ir("APACC") /\ q[4] = Wr("CSW", 0)
        /\ q[5] = Ir("DPACC") /\ q[6] = Wr("SELECT", 0)
        /\ q[7] = Ir("APACC") /\ q[8] = Wr("TAR", addr)
        /\ q[9] = Ir("DPACC") /\ q[10] = Wr("SELECT", 0)
        /\ q[11] = Ir("APACC") /\ q[12] = Wr("DRW", val)
        /\ q[13] = Ir("DPACC") /\ q[14] = Rd("CSW", "a")
        /\ q[15] = Rd("RDBUFF", "b")
    BY MemWrIs
  <1> HIDE DEF q
  <1>3. PICK g : /\ g[0] = Start0
                 /\ \A i \in 1 .. Len(q) : g[i] = Scan(g[i - 1], q[i], Waits(i, b), hang, bus)
                 /\ Scanned(q, b, hang, bus) = g[Len(q)]
    <2>1. Len(q) \in Nat
      BY <1>1
    <2>2. HasSteps(q, b, hang, bus)
      BY <2>1, ScanByScan
    <2> QED
      BY <2>2 DEF HasSteps, Steps
  <1>4. /\ g[1] = Scan(g[0], Ir("DPACC"), Waits(1, b), hang, bus)
        /\ g[2] = Scan(g[1], Wr("SELECT", 0), Waits(2, b), hang, bus)
        /\ g[3] = Scan(g[2], Ir("APACC"), Waits(3, b), hang, bus)
        /\ g[4] = Scan(g[3], Wr("CSW", 0), Waits(4, b), hang, bus)
        /\ g[5] = Scan(g[4], Ir("DPACC"), Waits(5, b), hang, bus)
        /\ g[6] = Scan(g[5], Wr("SELECT", 0), Waits(6, b), hang, bus)
        /\ g[7] = Scan(g[6], Ir("APACC"), Waits(7, b), hang, bus)
        /\ g[8] = Scan(g[7], Wr("TAR", addr), Waits(8, b), hang, bus)
        /\ g[9] = Scan(g[8], Ir("DPACC"), Waits(9, b), hang, bus)
        /\ g[10] = Scan(g[9], Wr("SELECT", 0), Waits(10, b), hang, bus)
        /\ g[11] = Scan(g[10], Ir("APACC"), Waits(11, b), hang, bus)
        /\ g[12] = Scan(g[11], Wr("DRW", val), Waits(12, b), hang, bus)
        /\ g[13] = Scan(g[12], Ir("DPACC"), Waits(13, b), hang, bus)
        /\ g[14] = Scan(g[13], Rd("CSW", "a"), Waits(14, b), hang, bus)
        /\ g[15] = Scan(g[14], Rd("RDBUFF", "b"), Waits(15, b), hang, bus)
    BY <1>1, <1>2, <1>3
  <1>5. \A i : Chances(Waits(i, b), hang, bus, f)
    BY AnyScan
  <1>6. Live(g[0]) /\ Fine(g[0].dp) /\ g[0].store = <<>>
    BY <1>3, Begun DEF Live, Ready, Fine
  <1>7. Passed(g[0], g[2], f)
    <2>1. Live(g[0])
      BY <1>6
    <2> QED
      BY <1>4, <1>5, <2>1, SelectPair
  <1>8. Passed(g[2], g[4], f)
    <2>1. Live(g[2])
      BY <1>7 DEF Passed, Request
    <2> QED
      BY <1>4, <1>5, <2>1, CswPair
  <1>9. Passed(g[4], g[6], f)
    <2>1. Live(g[4])
      BY <1>8 DEF Passed, Request
    <2> QED
      BY <1>4, <1>5, <2>1, SelectPair
  <1>10. Aimed(g[6], g[8], addr, f)
    <2>1. Live(g[6])
      BY <1>9 DEF Passed, Request
    <2> QED
      BY <1>4, <1>5, <2>1, TarPair
  <1>11. Passed(g[8], g[10], f)
    <2>1. Live(g[8])
      BY <1>10 DEF Aimed, Request
    <2> QED
      BY <1>4, <1>5, <2>1, SelectPair
  <1>12. HasWritten(g[10], g[12], val, f)
    <2>1. Live(g[10])
      BY <1>11 DEF Passed, Request
    <2> QED
      BY <1>4, <1>5, <2>1, WritePair
  <1>13. Loaded(g[12], g[13], "DPACC") /\ Live(g[13])
    <2>1. Live(g[12])
      BY <1>12 DEF HasWritten
    <2>2. Loaded(g[12], g[13], "DPACC")
      BY <1>4, <2>1, IrScan DEF Live
    <2> QED
      BY <2>1, <2>2 DEF Loaded, Live, Plain
  <1>14. HasCommitted(g[13], g[15], f)
    <2>1. g[13].dp.ir = "DPACC"
      BY <1>13 DEF Loaded
    <2> QED
      BY <1>4, <1>5, <1>13, <2>1, CommitPair
  <1>15. Fine(g[13].dp) <=> Fine(g[12].dp)
    BY <1>13 DEF Loaded, Fine
  <1>16. g[15].store = g[12].store /\ Live(g[15])
    BY <1>13, <1>14 DEF Loaded, HasCommitted
  <1>17. g[10].store = <<>>
    BY <1>6, <1>7, <1>8, <1>9, <1>10, <1>11 DEF Passed, Aimed, Request
  <1>18. Acked(g[15]) \/ f
    BY <1>6, <1>7, <1>8, <1>9, <1>10, <1>11, <1>12, <1>14, <1>15
    DEF Passed, Aimed, HasWritten, HasCommitted, Request
  <1>19. ASSUME Fine(g[12].dp) PROVE g[12].store = <<addr, val>>
    <2>1. Fine(g[10].dp) /\ g[12].store = <<g[10].dp.tar, val>>
      BY <1>12, <1>19 DEF HasWritten
    <2>2. Fine(g[8].dp) /\ g[10].dp.tar = g[8].dp.tar
      BY <1>11, <2>1 DEF Passed, Neutral
    <2>3. g[8].dp.tar = addr
      BY <1>10, <2>2 DEF Aimed, Aims
    <2> QED
      BY <2>1, <2>2, <2>3
  <1>20. ~Fine(g[12].dp) => g[12].store = <<>>
    BY <1>12, <1>17 DEF HasWritten
  <1>21. Acked(g[15]) => Ready(g[15].dp) /\ g[15].store = <<addr, val>>
    BY <1>14, <1>15, <1>16, <1>19 DEF HasCommitted
  <1> QED
    BY <1>1, <1>3, <1>16, <1>18, <1>19, <1>20, <1>21 DEF WriteDone, q

\* The debug port is left between two transactions, and nothing is stored.
Over(h) == IsRun(h) /\ Plain(h) /\ h.store = <<>>

\* The first power-up ends what was still running, so nothing has to wait.
LEMMA FirstPowerUp ==
  ASSUME NEW b, NEW hang, NEW bus, {hang, bus} \subseteq BOOLEAN, Settled(dp)
  PROVE  LET h == Scanned(PowerUp(Yes), b, hang, bus) IN Over(h) /\ Ready(h.dp)
  <1> DEFINE q == PowerUp(Yes)
  <1>1. Len(q) = 4
    BY PowerUpIs
  <1>2. q[1] = Ir("ABORT") /\ q[2] = Wr("ABORT", 0) /\ q[3] = Ir("DPACC") /\ q[4] = Wr("CSW", 0)
    BY PowerUpIs
  <1> HIDE DEF q
  <1>3. PICK g : /\ g[0] = Start0
                 /\ \A i \in 1 .. Len(q) : g[i] = Scan(g[i - 1], q[i], Waits(i, b), hang, bus)
                 /\ Scanned(q, b, hang, bus) = g[Len(q)]
    <2>1. Len(q) \in Nat
      BY <1>1
    <2>2. HasSteps(q, b, hang, bus)
      BY <2>1, ScanByScan
    <2> QED
      BY <2>2 DEF HasSteps, Steps
  <1>4. /\ g[1] = Scan(g[0], Ir("ABORT"), Waits(1, b), hang, bus)
        /\ g[2] = Scan(g[1], Wr("ABORT", 0), Waits(2, b), hang, bus)
        /\ g[3] = Scan(g[2], Ir("DPACC"), Waits(3, b), hang, bus)
        /\ g[4] = Scan(g[3], Wr("CSW", 0), Waits(4, b), hang, bus)
    BY <1>1, <1>2, <1>3
  <1>5. IsRun(g[0]) /\ Plain(g[0]) /\ g[0].store = <<>> /\ g[0].dp = dp
    BY <1>3, Begun
  <1>6. \A i : {Waits(i, b), hang} \subseteq BOOLEAN
    BY DEF Waits
  <1>7. Loaded(g[0], g[1], "ABORT")
    BY <1>4, <1>5, IrScan
  <1>8. IsRun(g[2]) /\ Plain(g[2]) /\ g[2].store = <<>> /\ ~g[2].dp.pending
    <2>1. IsRun(g[1]) /\ Plain(g[1]) /\ g[1].dp.ir = "ABORT" /\ g[1].store = <<>>
      BY <1>5, <1>7 DEF Loaded, Plain
    <2> QED
      BY <1>4, <2>1, AbortStep
  <1>9. Loaded(g[2], g[3], "DPACC")
    BY <1>4, <1>8, IrScan
  <1>10. ~MustWait(g[3], Waits(4, b))
    BY <1>8, <1>9 DEF Loaded, MustWait
  <1>11. Over(g[4]) /\ Ready(g[4].dp)
    <2> DEFINE w == Waits(4, b)
    <2>1. {w, hang} \subseteq BOOLEAN
      BY <1>6
    <2>2. g[4] = Scan(g[3], Wr("CSW", 0), w, hang, bus) /\ ~MustWait(g[3], w)
      BY <1>4, <1>10
    <2> HIDE DEF w
    <2> QED
      BY <1>8, <1>9, <2>1, <2>2, PowerStep DEF Over
  <1> QED
    BY <1>1, <1>3, <1>11 DEF q

LEMMA LaterPowerUp ==
  ASSUME NEW b, NEW hang, NEW bus, {hang, bus} \subseteq BOOLEAN, Settled(dp)
  PROVE  Over(Scanned(PowerUp(No), b, hang, bus))
  <1> DEFINE q == PowerUp(No)
  <1>1. Len(q) = 2
    BY PowerUpIs
  <1>2. q[1] = Ir("DPACC") /\ q[2] = Wr("CSW", 0)
    BY PowerUpIs
  <1> HIDE DEF q
  <1>3. PICK g : /\ g[0] = Start0
                 /\ \A i \in 1 .. Len(q) : g[i] = Scan(g[i - 1], q[i], Waits(i, b), hang, bus)
                 /\ Scanned(q, b, hang, bus) = g[Len(q)]
    <2>1. Len(q) \in Nat
      BY <1>1
    <2>2. HasSteps(q, b, hang, bus)
      BY <2>1, ScanByScan
    <2> QED
      BY <2>2 DEF HasSteps, Steps
  <1>4. /\ g[1] = Scan(g[0], Ir("DPACC"), Waits(1, b), hang, bus)
        /\ g[2] = Scan(g[1], Wr("CSW", 0), Waits(2, b), hang, bus)
    BY <1>1, <1>2, <1>3
  <1>5. IsRun(g[0]) /\ Plain(g[0]) /\ g[0].store = <<>> /\ g[0].dp = dp
    BY <1>3, Begun
  <1>6. \A i : {Waits(i, b), hang} \subseteq BOOLEAN
    BY DEF Waits
  <1>7. Loaded(g[0], g[1], "DPACC")
    BY <1>4, <1>5, IrScan
  <1>8. Over(g[2])
    <2> DEFINE w == Waits(2, b)
    <2>1. {w, hang} \subseteq BOOLEAN
      BY <1>6
    <2>2. g[2] = Scan(g[1], Wr("CSW", 0), w, hang, bus)
      BY <1>4
    <2> HIDE DEF w
    <2> QED
      BY <1>5, <1>7, <2>1, <2>2, PowerStep DEF Over
  <1> QED
    BY <1>1, <1>3, <1>8 DEF q

\* dap_attach takes the status for good only when the port is ready, and the
\* status of a port that is ready for good.
Good(h) == h.got["u"].ack = "OK" /\ h.got["u"].flags = {"PWRUPACK"}

LEMMA StatusTransaction ==
  ASSUME NEW b, NEW hang, NEW bus, {hang, bus} \subseteq BOOLEAN, Settled(dp)
  PROVE  LET h == Scanned(StatusRd, b, hang, bus) IN
         Over(h) /\ (Good(h) => Ready(h.dp)) /\ (Ready(dp) => Good(h))
  <1> DEFINE q == StatusRd
  <1>1. Len(q) = 3
    BY StatusRdIs
  <1>2. q[1] = Ir("DPACC") /\ q[2] = Rd("CSW", "none") /\ q[3] = Rd("RDBUFF", "u")
    BY StatusRdIs
  <1> HIDE DEF q
  <1>3. PICK g : /\ g[0] = Start0
                 /\ \A i \in 1 .. Len(q) : g[i] = Scan(g[i - 1], q[i], Waits(i, b), hang, bus)
                 /\ Scanned(q, b, hang, bus) = g[Len(q)]
    <2>1. Len(q) \in Nat
      BY <1>1
    <2>2. HasSteps(q, b, hang, bus)
      BY <2>1, ScanByScan
    <2> QED
      BY <2>2 DEF HasSteps, Steps
  <1>4. /\ g[1] = Scan(g[0], Ir("DPACC"), Waits(1, b), hang, bus)
        /\ g[2] = Scan(g[1], Rd("CSW", "none"), Waits(2, b), hang, bus)
        /\ g[3] = Scan(g[2], Rd("RDBUFF", "u"), Waits(3, b), hang, bus)
    BY <1>1, <1>2, <1>3
  <1>5. IsRun(g[0]) /\ Plain(g[0]) /\ g[0].store = <<>> /\ g[0].dp = dp
    BY <1>3, Begun
  <1>6. \A i : {Waits(i, b), hang} \subseteq BOOLEAN
    BY DEF Waits
  <1>7. Loaded(g[0], g[1], "DPACC")
    BY <1>4, <1>5, IrScan
  <1>8. /\ IsRun(g[1]) /\ Plain(g[1]) /\ g[1].dp.ir = "DPACC" /\ g[1].store = <<>>
        /\ g[1].dp.enabled = dp.enabled /\ g[1].dp.orun = dp.orun /\ g[1].dp.err = dp.err
        /\ g[1].dp.pending = dp.pending
    BY <1>5, <1>7 DEF Loaded, Plain
  <1>9. StatusRead(g[1], g[3], Waits(2, b), "none", "u")
    <2> DEFINE w == Waits(2, b)  w2 == Waits(3, b)  out == "none"  out2 == "u"
    <2>1. {w, w2, hang} \subseteq BOOLEAN
      BY DEF Waits
    <2>2. out \in Outs /\ out2 \in Outs /\ out # out2
      BY DEF Outs
    <2>3. g[2] = Scan(g[1], Rd("CSW", out), w, hang, bus) /\ g[3] = Scan(g[2], Rd("RDBUFF", out2), w2, hang, bus)
      BY <1>4
    <2> HIDE DEF w, w2, out, out2
    <2>4. StatusRead(g[1], g[3], w, out, out2)
      BY <1>8, <2>1, <2>2, <2>3, StatusStep
    <2> QED
      BY <2>4 DEF w, out, out2
  <1>10. Over(g[3])
    BY <1>8, <1>9 DEF StatusRead, Over
  <1> DEFINE e == dp.enabled  o == dp.orun  r == dp.err
  <1>11. {e, o, r} \subseteq BOOLEAN
    BY DEF Settled, IsPort
  <1>12. StatusOf(e, o, r) = {"PWRUPACK"} <=> e /\ ~o /\ ~r
    <2> HIDE DEF e, o, r
    <2> QED
      BY <1>11 DEF StatusOf
  <1>13. CASE MustWait(g[1], Waits(2, b))
    <2>1. Untold(g[3], "none", "u")
      BY <1>9, <1>13 DEF StatusRead
    <2>2. ~Good(g[3])
      BY <2>1 DEF Untold, Good
    <2>3. ~Ready(dp)
      BY <1>8, <1>13 DEF MustWait, Ready
    <2> QED
      BY <1>1, <1>3, <1>10, <2>2, <2>3 DEF q
  <1>14. CASE ~MustWait(g[1], Waits(2, b))
    <2>1. Told(g[1], g[3], "none", "u")
      BY <1>9, <1>14 DEF StatusRead
    <2>2. g[3].got["u"].flags = StatusOf(e, o, r) /\ g[3].got["u"].ack = "OK"
      BY <1>8, <2>1 DEF Told
    <2>3. Good(g[3]) <=> e /\ ~o /\ ~r
      BY <1>12, <2>2 DEF Good
    <2>4. Ready(g[3].dp) <=> e /\ ~o /\ ~r
      BY <1>8, <2>1 DEF Told, Ready, Fine
    <2>5. Ready(dp) => e /\ ~o /\ ~r
      BY DEF Ready, Fine
    <2> QED
      BY <1>1, <1>3, <1>10, <2>3, <2>4, <2>5 DEF q
  <1> QED
    BY <1>13, <1>14

-----------------------------------------------------------------------------
(* What jtag_txn_exec may come to.                                         *)

\* Nothing reached the debug port, or it is not there.
Nowhere(o) ==
    /\ o.dp = dp /\ o.store = <<>> /\ o.got = Unread
    /\ o.r = OK => chain # "dap"
    /\ o.r # OK => o.fault

\* The scans were done, and their results came or did not.
Went(o, scans, b, hang, bus) ==
    /\ {hang, bus} \subseteq BOOLEAN
    /\ Faulty(b, bus, o.fault)
    /\ o.dp = Scanned(scans, b, hang, bus).dp
    /\ o.store = Scanned(scans, b, hang, bus).store
    /\ o.r = OK => o.got = Scanned(scans, b, hang, bus).got
    /\ o.r # OK => o.got = Unread /\ o.fault

CameTo(o, scans) ==
    \/ Nowhere(o)
    \/ chain = "dap" /\ \E b, hang, bus : Went(o, scans, b, hang, bus)

LEMMA MayIs == ASSUME NEW f PROVE May(f) \subseteq BOOLEAN
  BY DEF May

LEMMA DoneIs ==
  ASSUME NEW scans, NEW o, o \in Done(scans)
  PROVE  /\ o.r = OK
         /\ o = Outcome(OK, o.got, o.dp, o.store, o.fault)
         /\ \/ chain # "dap" /\ o.dp = dp /\ o.store = <<>> /\ o.got = Unread
            \/ chain = "dap" /\ \E b, hang, bus : Went(o, scans, b, hang, bus)
  <1>1. CASE chain # "dap"
    BY <1>1 DEF Done, NotDone, Outcome
  <1>2. CASE chain = "dap"
    <2>1. PICK b, hang, bus :
            /\ hang \in May("hang") /\ bus \in May("bus")
            /\ o = Outcome(OK, Scanned(scans, b, hang, bus).got, Scanned(scans, b, hang, bus).dp,
                           Scanned(scans, b, hang, bus).store, b # {} \/ bus)
      BY <1>2 DEF Done
    <2> DEFINE h == Scanned(scans, b, hang, bus)
    <2>2. o.r = OK /\ o.got = h.got /\ o.dp = h.dp /\ o.store = h.store /\ o.fault = (b # {} \/ bus)
      BY <2>1, Zenon DEF Outcome
    <2>3. {hang, bus} \subseteq BOOLEAN
      BY <2>1, MayIs
    <2> HIDE DEF h
    <2>4. Faulty(b, bus, o.fault)
      <3>1. ASSUME NEW i, i \in b PROVE o.fault
        <4>1. b # {}
          BY <3>1
        <4>2. b # {} \/ bus
          BY <4>1
        <4> QED
          BY <2>2, <4>2, Zenon
      <3>2. ASSUME bus PROVE o.fault
        BY <2>2, <3>2, Zenon
      <3> QED
        BY <3>1, <3>2, Zenon DEF Faulty, OnlyIf, Waits
    <2>5. Went(o, scans, b, hang, bus)
      BY <2>2, <2>3, <2>4, Zenon DEF Went, h
    <2>6. o = Outcome(OK, o.got, o.dp, o.store, o.fault)
      BY <2>1, <2>2 DEF h
    <2>7. \E x, y, z : Went(o, scans, x, y, z)
      BY <2>5
    <2> QED
      BY <1>2, <2>2, <2>6, <2>7, Zenon
  <1> QED
    BY <1>1, <1>2

LEMMA OutcomeIs ==
  ASSUME NEW scans, NEW o, o \in Outcomes(scans)
  PROVE  CameTo(o, scans)
  <1>1. CASE o \in Done(scans)
    BY <1>1, DoneIs DEF CameTo, Nowhere
  <1>2. CASE o = NotDone(ERROR, TRUE)
    <2>1. o.dp = dp /\ o.store = <<>> /\ o.got = Unread /\ o.r = ERROR /\ o.fault
      BY <1>2 DEF NotDone, Outcome
    <2> QED
      BY <2>1 DEF CameTo, Nowhere, OK, ERROR
  <1>3. ASSUME NEW d \in Done(scans), o = [d EXCEPT !.r = ERROR, !.got = Unread, !.fault = TRUE]
        PROVE  CameTo(o, scans)
    <2>1. o.dp = d.dp /\ o.store = d.store /\ o.got = Unread /\ o.r = ERROR /\ o.fault
      <3>1. d = Outcome(OK, d.got, d.dp, d.store, d.fault)
        BY DoneIs
      <3> QED
        BY <1>3, <3>1 DEF Outcome
    <2>2. CASE chain # "dap" /\ d.dp = dp /\ d.store = <<>> /\ d.got = Unread
      BY <2>1, <2>2 DEF CameTo, Nowhere, OK, ERROR
    <2>3. ASSUME chain = "dap", NEW b, NEW hang, NEW bus, Went(d, scans, b, hang, bus)
          PROVE  CameTo(o, scans)
      <3>1. Faulty(b, bus, o.fault)
        BY <2>1, Zenon DEF Faulty, OnlyIf
      <3>2. Went(o, scans, b, hang, bus)
        <4>1. o.r # OK
          BY <2>1 DEF OK, ERROR
        <4> QED
          BY <2>1, <2>3, <3>1, <4>1, Zenon DEF Went
      <3> QED
        BY <2>3, <3>2 DEF CameTo
    <2> QED
      BY <2>2, <2>3, DoneIs
  <1> QED
    BY <1>1, <1>2, <1>3 DEF Outcomes

LEMMA OutcomeParts ==
  ASSUME NEW scans, NEW o, o \in Outcomes(scans)
  PROVE  o = Outcome(o.r, o.got, o.dp, o.store, o.fault)
  <1>1. CASE o \in Done(scans)
    BY <1>1, DoneIs DEF Outcome
  <1>2. CASE o = NotDone(ERROR, TRUE)
    BY <1>2 DEF NotDone, Outcome
  <1>3. ASSUME NEW d \in Done(scans), o = [d EXCEPT !.r = ERROR, !.got = Unread, !.fault = TRUE]
        PROVE  o = Outcome(o.r, o.got, o.dp, o.store, o.fault)
    <2>1. d = Outcome(OK, d.got, d.dp, d.store, d.fault)
      BY DoneIs
    <2> QED
      BY <1>3, <2>1 DEF Outcome
  <1> QED
    BY <1>1, <1>2, <1>3 DEF Outcomes

LEMMA LeftSettled == ASSUME NEW h, IsRun(h), Plain(h) PROVE Settled(h.dp)
  BY DEF IsRun, Plain, Settled

\* Nothing scanned out is taken for a success.
LEMMA NothingRead == ASSUME NEW o, o.got = Unread PROVE ~Acked(o) /\ ~Good(o)
  <1>1. o.got["a"].ack = "none" /\ o.got["u"].ack = "none"
    BY DEF Unread, Garbage
  <1> QED
    BY <1>1 DEF Acked, Good

LEMMA CommittedIs == ASSUME NEW o PROVE Committed(o) <=> o.r = OK /\ Acked(o)
  BY DEF Committed, Acked

\* A word read, or not.
ReadCame(o, addr) ==
    /\ Settled(o.dp) /\ o.store = <<>>
    /\ Committed(o) => chain = "dap" /\ Ready(o.dp) /\ o.got["u"].word = mem[addr]
    /\ chain = "dap" => Committed(o) \/ o.fault

LEMMA ReadOutcome ==
  ASSUME NEW addr, NEW o, o \in Outcomes(MemRd(addr)), Settled(dp), chain = "dap" => Ready(dp)
  PROVE  ReadCame(o, addr)
  <1> DEFINE q == MemRd(addr)
  <1>1. CASE Nowhere(o)
    <2>1. ~Committed(o)
      BY <1>1, NothingRead, CommittedIs DEF Nowhere
    <2> QED
      BY <1>1, <2>1 DEF Nowhere, ReadCame
  <1>2. ASSUME chain = "dap", NEW b, NEW hang, NEW bus, Went(o, q, b, hang, bus)
        PROVE  ReadCame(o, addr)
    <2> DEFINE h == Scanned(q, b, hang, bus)  f == o.fault
    <2>1. ReadDone(h, addr, f)
      <3>1. {hang, bus} \subseteq BOOLEAN /\ Faulty(b, bus, f)
        BY <1>2 DEF Went
      <3> HIDE DEF f
      <3> QED
        BY <1>2, <3>1, ReadTransaction
    <2>2. o.dp = h.dp /\ o.store = h.store /\ (o.r = OK => o.got = h.got) /\ (o.r # OK => o.fault)
      BY <1>2, Zenon DEF Went
    <2> HIDE DEF h, q
    <2>3. Settled(o.dp) /\ o.store = <<>>
      BY <2>1, <2>2, LeftSettled DEF ReadDone, Live
    <2>4. o.r = OK => (Acked(o) <=> Acked(h)) /\ o.got["u"] = h.got["u"]
      BY <2>2 DEF Acked
    <2>5. Acked(h) \/ o.fault
      BY <2>1 DEF ReadDone
    <2>6. Acked(h) => Ready(o.dp) /\ h.got["u"].word = mem[addr]
      BY <2>1, <2>2 DEF ReadDone
    <2> HIDE DEF f
    <2> QED
      BY <1>2, <2>2, <2>3, <2>4, <2>5, <2>6, CommittedIs, Zenon DEF ReadCame
  <1> QED
    BY <1>1, <1>2, OutcomeIs DEF CameTo

\* A word written, or not.
WriteCame(o, addr, val) ==
    /\ Settled(o.dp) /\ o.store \in {<<>>, <<addr, val>>}
    /\ Committed(o) => chain = "dap" /\ Ready(o.dp) /\ o.store = <<addr, val>>
    /\ chain = "dap" => Committed(o) \/ o.fault

LEMMA WriteOutcome ==
  ASSUME NEW addr, NEW val, NEW o, o \in Outcomes(MemWr(addr, val)), Settled(dp),
         chain = "dap" => Ready(dp)
  PROVE  WriteCame(o, addr, val)
  <1> DEFINE q == MemWr(addr, val)
  <1>1. CASE Nowhere(o)
    <2>1. ~Committed(o)
      BY <1>1, NothingRead, CommittedIs DEF Nowhere
    <2> QED
      BY <1>1, <2>1 DEF Nowhere, WriteCame
  <1>2. ASSUME chain = "dap", NEW b, NEW hang, NEW bus, Went(o, q, b, hang, bus)
        PROVE  WriteCame(o, addr, val)
    <2> DEFINE h == Scanned(q, b, hang, bus)  f == o.fault
    <2>1. WriteDone(h, addr, val, f)
      <3>1. {hang, bus} \subseteq BOOLEAN /\ Faulty(b, bus, f)
        BY <1>2 DEF Went
      <3> HIDE DEF f
      <3> QED
        BY <1>2, <3>1, WriteTransaction
    <2>2. o.dp = h.dp /\ o.store = h.store /\ (o.r = OK => o.got = h.got) /\ (o.r # OK => o.fault)
      BY <1>2, Zenon DEF Went
    <2> HIDE DEF h, q
    <2>3. Settled(o.dp) /\ o.store \in {<<>>, <<addr, val>>}
      BY <2>1, <2>2, LeftSettled DEF WriteDone, Live
    <2>4. o.r = OK => (Acked(o) <=> Acked(h))
      BY <2>2 DEF Acked
    <2>5. Acked(h) \/ o.fault
      BY <2>1 DEF WriteDone
    <2>6. Acked(h) => Ready(o.dp) /\ o.store = <<addr, val>>
      BY <2>1, <2>2 DEF WriteDone
    <2> HIDE DEF f
    <2> QED
      BY <1>2, <2>2, <2>3, <2>4, <2>5, <2>6, CommittedIs, Zenon DEF WriteCame
  <1> QED
    BY <1>1, <1>2, OutcomeIs DEF CameTo

\* Power and errors of the debug port; the first time nothing but a fault can
\* keep it from being ready.
PowerCame(o, first) ==
    /\ Settled(o.dp) /\ o.store = <<>>
    /\ first /\ chain = "dap" /\ ~o.fault => o.r = OK /\ Ready(o.dp)

LEMMA FirstOutcome ==
  ASSUME NEW o, o \in Outcomes(PowerUp(Yes)), Settled(dp)
  PROVE  PowerCame(o, Yes)
  <1> DEFINE q == PowerUp(Yes)
  <1>1. CASE Nowhere(o)
    BY <1>1 DEF Nowhere, PowerCame
  <1>2. ASSUME chain = "dap", NEW b, NEW hang, NEW bus, Went(o, q, b, hang, bus)
        PROVE  PowerCame(o, Yes)
    <2> DEFINE h == Scanned(q, b, hang, bus)
    <2>1. Over(h) /\ Ready(h.dp)
      BY <1>2, FirstPowerUp DEF Went
    <2>2. o.dp = h.dp /\ o.store = h.store /\ (o.r # OK => o.fault)
      BY <1>2, Zenon DEF Went
    <2> HIDE DEF h
    <2> QED
      BY <2>1, <2>2, LeftSettled DEF Over, PowerCame
  <1> QED
    BY <1>1, <1>2, OutcomeIs DEF CameTo

LEMMA LaterOutcome ==
  ASSUME NEW o, o \in Outcomes(PowerUp(No)), Settled(dp)
  PROVE  PowerCame(o, No)
  <1> DEFINE q == PowerUp(No)
  <1>1. CASE Nowhere(o)
    BY <1>1 DEF Nowhere, PowerCame
  <1>2. ASSUME chain = "dap", NEW b, NEW hang, NEW bus, Went(o, q, b, hang, bus)
        PROVE  PowerCame(o, No)
    <2> DEFINE h == Scanned(q, b, hang, bus)
    <2>1. Over(h)
      BY <1>2, LaterPowerUp DEF Went
    <2>2. o.dp = h.dp /\ o.store = h.store
      BY <1>2, Zenon DEF Went
    <2> HIDE DEF h
    <2> QED
      BY <2>1, <2>2, LeftSettled DEF Over, PowerCame, No
  <1> QED
    BY <1>1, <1>2, OutcomeIs DEF CameTo

\* The status dap_attach looks at.
StatusCame(o) ==
    /\ Settled(o.dp) /\ o.store = <<>>
    /\ o.r = OK /\ Good(o) => chain = "dap" /\ Ready(o.dp)
    /\ chain = "dap" /\ Ready(dp) /\ ~o.fault => o.r = OK /\ Good(o)

LEMMA StatusOutcome ==
  ASSUME NEW o, o \in Outcomes(StatusRd), Settled(dp)
  PROVE  StatusCame(o)
  <1> DEFINE q == StatusRd
  <1>1. CASE Nowhere(o)
    <2>1. ~Good(o)
      BY <1>1, NothingRead DEF Nowhere
    <2> QED
      BY <1>1, <2>1 DEF Nowhere, StatusCame
  <1>2. ASSUME chain = "dap", NEW b, NEW hang, NEW bus, Went(o, q, b, hang, bus)
        PROVE  StatusCame(o)
    <2> DEFINE h == Scanned(q, b, hang, bus)
    <2>1. Over(h) /\ (Good(h) => Ready(h.dp)) /\ (Ready(dp) => Good(h))
      BY <1>2, StatusTransaction DEF Went
    <2>2. o.dp = h.dp /\ o.store = h.store /\ (o.r = OK => o.got = h.got) /\ (o.r # OK => o.fault)
      BY <1>2, Zenon DEF Went
    <2> HIDE DEF h, q
    <2>3. o.r = OK => (Good(o) <=> Good(h))
      BY <2>2 DEF Good
    <2>4. Settled(o.dp) /\ o.store = <<>>
      BY <2>1, <2>2, LeftSettled DEF Over
    <2> QED
      BY <1>2, <2>1, <2>2, <2>3, <2>4 DEF StatusCame
  <1> QED
    BY <1>1, <1>2, OutcomeIs DEF CameTo

-----------------------------------------------------------------------------
(* The client.                                                             *)

Attachment == {"connect", "route", "find", "powerup", "status"}
Calling == {"run", "unaligned"}

IsAccepted(c) ==
    /\ c.op \in {"none", "read", "write"}
    /\ c.addr \in Nat /\ c.words \in Nat /\ c.done \in Nat
    /\ c.addr + c.words <= Size
    /\ c.done <= c.words
    /\ c.data \in Seq(Values)
    /\ c.op = "write" => Len(c.data) = c.words
    /\ c = [op |-> c.op, addr |-> c.addr, words |-> c.words, data |-> c.data,
            done |-> c.done, res |-> c.res]

PortOk == Settled(dp)
CallOk == /\ mem \in [Memory!Addresses -> Values]
          /\ IsAccepted(call)
          /\ pc \in {"idle"} \cup Attachment \cup Calling
          /\ call.res = "busy" <=> pc \in Calling

\* While the port is being attached there is an error; while there is none the
\* port is ready, if it is still there.
ErrorTold ==
    /\ pc \in Attachment => jtag_error = ERROR
    /\ pc \notin Attachment /\ jtag_error = OK /\ chain = "dap" => Ready(dp)

\* How far an attach that nothing disturbs has got.
Undisturbed ==
    calm => /\ pc \notin Attachment => jtag_error = OK /\ chain = "dap"
            /\ pc = "route" => chain = "icepick"
            /\ pc \in {"find", "powerup", "status"} => chain = "dap"
            /\ pc = "powerup" => tries = 0
            /\ pc = "status" => Ready(dp)

DInv == PortOk /\ CallOk /\ ErrorTold /\ Undisturbed

\* What every step does: the invariant stays, and the step is one of the
\* abstract memory.
StepOk == DInv' /\ [Memory!Next]_<<mem, call>>

\* The steps that touch neither memory nor the call.
Aside == UNCHANGED <<mem, call>> /\ pc \notin Calling /\ pc' \in {"idle"} \cup Attachment

LEMMA AsideOk == ASSUME DInv, Aside PROVE CallOk' /\ [Memory!Next]_<<mem, call>>
  <1>1. CallOk'
    BY DEF DInv, CallOk, Aside, IsAccepted, Attachment, Calling, Memory!Addresses
  <1> QED
    BY <1>1 DEF Aside

LEMMA OffIsSettled == Settled(PoweredOff)
  <1> DEFINE d == PoweredOff
  <1>1. IsPort(d)
    BY DEF PoweredOff, IsPort, Port
  <1>2. Sound(d) /\ d.buffer.flags = {}
    BY DEF PoweredOff, Sound, Nothing, Word
  <1> QED
    BY <1>1, <1>2 DEF Settled

LEMMA DapInit == Init => DInv
  <1> SUFFICES ASSUME Init PROVE DInv
    OBVIOUS
  <1>1. PortOk
    BY OffIsSettled DEF Init, PortOk
  <1>2. CallOk
    <2>1. IsAccepted(Memory!NoCall) /\ Memory!NoCall.res = "none"
      BY DapAssumption DEF IsAccepted, Memory!NoCall
    <2> QED
      BY <2>1 DEF Init, CallOk, Memory!Addresses, Attachment, Calling
  <1>3. ErrorTold /\ Undisturbed
    BY DEF Init, ErrorTold, Undisturbed, Attachment
  <1> QED
    BY <1>1, <1>2, <1>3 DEF DInv

LEMMA AttachOk == ASSUME DInv, Attach PROVE StepOk
  <1>1. Aside
    BY DEF Attach, Aside, target, Calling, Attachment
  <1>2. PortOk'
    BY DEF Attach, DInv, PortOk, target
  <1>3. ErrorTold' /\ Undisturbed'
    BY DEF Attach, ErrorTold, Undisturbed, Attachment
  <1> QED
    BY <1>1, <1>2, <1>3, AsideOk DEF StepOk, DInv

LEMMA ConnectOk == ASSUME DInv, Connect PROVE StepOk
  <1>1. PICK ok, match : ConnectOnce(ok, match) /\ {ok, match} \subseteq BOOLEAN /\ (ok => match)
    BY DEF Connect
  <1>2. Aside
    BY <1>1 DEF ConnectOnce, AttachFails, Aside, Calling, Attachment
  <1>3. PortOk'
    BY <1>1 DEF ConnectOnce, DInv, PortOk
  <1>4. jtag_error = ERROR /\ jtag_error' = ERROR
    BY <1>1 DEF ConnectOnce, AttachFails, DInv, ErrorTold, Attachment
  <1>5. ErrorTold'
    BY <1>4 DEF ErrorTold, OK, ERROR
  <1>6. Undisturbed'
    <2> SUFFICES ASSUME calm' PROVE Undisturbed'
      BY DEF Undisturbed
    <2>1. ok /\ match
      BY <1>1 DEF ConnectOnce
    <2>2. pc' = "route" /\ chain' = "icepick"
      BY <1>1, <2>1 DEF ConnectOnce
    <2> QED
      BY <2>2 DEF Undisturbed, Attachment
  <1> QED
    BY <1>2, <1>3, <1>5, <1>6, AsideOk DEF StepOk, DInv

LEMMA ConnectNoPowerOk == ASSUME DInv, ConnectNoPower PROVE StepOk
  <1>1. Aside
    BY DEF ConnectNoPower, AttachFails, Aside, Calling, Attachment
  <1>2. PortOk'
    BY OffIsSettled DEF ConnectNoPower, PortOk
  <1>3. jtag_error' = ERROR /\ ~calm'
    BY DEF ConnectNoPower, AttachFails, DInv, ErrorTold, Attachment
  <1>4. ErrorTold' /\ Undisturbed'
    BY <1>3 DEF ErrorTold, Undisturbed, OK, ERROR
  <1> QED
    BY <1>1, <1>2, <1>4, AsideOk DEF StepOk, DInv

LEMMA RouteOk == ASSUME DInv, Route PROVE StepOk
  <1>1. Aside
    BY DEF Route, Aside, Calling, Attachment
  <1>2. PortOk'
    BY DEF Route, DInv, PortOk
  <1>3. jtag_error' = ERROR
    BY DEF Route, DInv, ErrorTold, Attachment
  <1>4. ErrorTold'
    BY <1>3 DEF ErrorTold, OK, ERROR
  <1>5. calm' => calm /\ chain' = "dap"
    <2> SUFFICES ASSUME calm' PROVE calm /\ chain' = "dap"
      OBVIOUS
    <2>1. PICK ok : /\ chain' \in {IF chain = "icepick" THEN "dap" ELSE chain}
                                   \cup {c \in {chain} : ~ok}
                    /\ calm' = (calm /\ ok)
      BY DEF Route
    <2>2. calm /\ ok
      BY <2>1
    <2>3. chain = "icepick"
      BY <2>2 DEF Route, DInv, Undisturbed
    <2> QED
      BY <2>1, <2>2, <2>3
  <1>6. Undisturbed'
    BY <1>5 DEF Undisturbed, Route, Attachment
  <1> QED
    BY <1>1, <1>2, <1>4, <1>6, AsideOk DEF StepOk, DInv

LEMMA FindOk == ASSUME DInv, Find PROVE StepOk
  <1>1. Aside
    BY DEF Find, AttachFails, Aside, Calling, Attachment, target
  <1>2. PortOk'
    BY DEF Find, DInv, PortOk, target
  <1>3. jtag_error' = ERROR
    BY DEF Find, AttachFails, DInv, ErrorTold, Attachment
  <1>4. ErrorTold'
    BY <1>3 DEF ErrorTold, OK, ERROR
  <1>5. Undisturbed'
    <2> SUFFICES ASSUME calm' PROVE Undisturbed'
      BY DEF Undisturbed
    <2>1. PICK ok, read : /\ ok => read
                          /\ IF read /\ chain = "dap"
                             THEN pc' = "powerup" /\ tries' = 0 /\ UNCHANGED jtag_error
                             ELSE AttachFails
                          /\ calm' = (calm /\ ok)
      BY DEF Find
    <2>2. calm /\ read
      BY <2>1
    <2>3. chain = "dap" /\ chain' = "dap"
      BY <2>2 DEF Find, DInv, Undisturbed, target
    <2> QED
      BY <2>1, <2>2, <2>3 DEF Undisturbed, Attachment
  <1> QED
    BY <1>1, <1>2, <1>4, <1>5, AsideOk DEF StepOk, DInv

\* A transaction that stores nothing and leaves the port between transactions.
LEMMA EffectOk ==
  ASSUME NEW o, Effect(o), Settled(o.dp), o.store = <<>>
  PROVE  PortOk' /\ UNCHANGED mem /\ dp' = o.dp /\ (calm' => calm /\ ~o.fault)
  BY DEF Effect, PortOk

LEMMA AgainIs ==
  ASSUME Again
  PROVE  /\ pc' \in {"idle", "powerup"} /\ UNCHANGED jtag_error
  BY DEF Again, AttachFails

LEMMA DapPowerUpOk == ASSUME DInv, DapPowerUp PROVE StepOk
  <1> DEFINE first == tries = 0
  <1>1. PICK o \in Outcomes(PowerUp(first)) :
          /\ Effect(o)
          /\ IF o.r # OK THEN Again ELSE pc' = "status" /\ UNCHANGED <<tries, jtag_error>>
    BY DEF DapPowerUp
  <1>2. PowerCame(o, first)
    <2>1. CASE tries = 0
      <3>1. PowerUp(first) = PowerUp(Yes)
        BY <2>1, Zenon DEF PowerUp, Yes
      <3>2. PowerCame(o, Yes)
        BY <1>1, <3>1, FirstOutcome DEF DInv, PortOk
      <3> QED
        BY <2>1, <3>2, Zenon DEF PowerCame, Yes
    <2>2. CASE tries # 0
      <3>1. PowerUp(first) = PowerUp(No)
        BY <2>2, Zenon DEF PowerUp, No
      <3>2. PowerCame(o, No)
        BY <1>1, <3>1, LaterOutcome DEF DInv, PortOk
      <3> QED
        BY <2>2, <3>2, Zenon DEF PowerCame, No
    <2> QED
      BY <2>1, <2>2
  <1>3. /\ Settled(o.dp) /\ o.store = <<>>
        /\ tries = 0 /\ chain = "dap" /\ ~o.fault => o.r = OK /\ Ready(o.dp)
    BY <1>2, Zenon DEF PowerCame
  <1> HIDE DEF first
  <1>4. PortOk' /\ UNCHANGED mem /\ dp' = o.dp /\ (calm' => calm /\ ~o.fault)
    BY <1>1, <1>3, EffectOk
  <1>5. UNCHANGED <<call, chain, jtag_error>> /\ pc = "powerup" /\ pc' \in {"idle", "powerup", "status"}
    BY <1>1, AgainIs DEF DapPowerUp
  <1>6. Aside
    BY <1>4, <1>5 DEF Aside, Calling, Attachment
  <1>7. jtag_error' = ERROR
    BY <1>5 DEF DInv, ErrorTold, Attachment
  <1>8. ErrorTold'
    BY <1>7 DEF ErrorTold, OK, ERROR
  <1>9. Undisturbed'
    <2> SUFFICES ASSUME calm' PROVE Undisturbed'
      BY DEF Undisturbed
    <2>1. tries = 0 /\ chain = "dap" /\ ~o.fault
      BY <1>4, <1>5 DEF DInv, Undisturbed
    <2>2. pc' = "status" /\ Ready(dp')
      BY <1>1, <1>3, <1>4, <2>1
    <2> QED
      BY <1>5, <2>1, <2>2 DEF Undisturbed, Attachment
  <1> QED
    BY <1>4, <1>6, <1>8, <1>9, AsideOk DEF StepOk, DInv

LEMMA DapStatusOk == ASSUME DInv, DapStatus PROVE StepOk
  <1>1. PICK slow \in May("slow"), o \in Outcomes(StatusRd) :
          /\ Effect([o EXCEPT !.fault = @ \/ slow])
          /\ IF Attached(o, slow) THEN jtag_error' = OK /\ pc' = "idle" /\ tries' = 0
             ELSE Again
    BY DEF DapStatus
  <1>2. StatusCame(o)
    BY <1>1, StatusOutcome DEF DInv, PortOk
  <1>3. /\ dp' = o.dp /\ UNCHANGED mem
        /\ calm' => calm /\ ~o.fault /\ ~slow
    <2> DEFINE k == [o EXCEPT !.fault = @ \/ slow]
    <2>1. k.dp = o.dp /\ k.store = o.store /\ k.fault = (o.fault \/ slow)
      <3>1. o = Outcome(o.r, o.got, o.dp, o.store, o.fault)
        BY <1>1, OutcomeParts
      <3> QED
        BY <3>1, Zenon DEF Outcome
    <2>2. Effect(k)
      BY <1>1
    <2> HIDE DEF k
    <2>3. UNCHANGED mem /\ dp' = o.dp /\ (calm' => calm /\ ~k.fault)
      BY <1>2, <2>1, <2>2, EffectOk DEF StatusCame
    <2> QED
      BY <2>1, <2>3, Zenon
  <1>4. PortOk'
    BY <1>2, <1>3 DEF StatusCame, PortOk
  <1>5. UNCHANGED <<call, chain>> /\ pc = "status" /\ pc' \in {"idle", "powerup"}
    BY <1>1, AgainIs DEF DapStatus
  <1>6. Aside
    BY <1>3, <1>5 DEF Aside, Calling, Attachment
  <1>7. CASE Attached(o, slow)
    <2>1. Ready(dp') /\ chain' = "dap"
      BY <1>2, <1>3, <1>5, <1>7 DEF StatusCame, Attached, Good
    <2>2. jtag_error' = OK /\ pc' = "idle"
      BY <1>1, <1>7
    <2>3. ErrorTold' /\ Undisturbed'
      BY <2>1, <2>2 DEF ErrorTold, Undisturbed, Attachment
    <2> QED
      BY <1>4, <1>6, <2>3, AsideOk DEF StepOk, DInv
  <1>8. CASE ~Attached(o, slow)
    <2>1. jtag_error' = ERROR
      BY <1>1, <1>5, <1>8, AgainIs DEF DInv, ErrorTold, Attachment
    <2>2. ErrorTold'
      BY <2>1 DEF ErrorTold, OK, ERROR
    <2>3. ~calm'
      <3> SUFFICES ASSUME calm' PROVE FALSE
        OBVIOUS
      <3>1. calm /\ ~o.fault /\ ~slow /\ chain = "dap" /\ Ready(dp)
        BY <1>3, <1>5 DEF DInv, Undisturbed
      <3> QED
        BY <1>2, <1>8, <3>1 DEF StatusCame, Attached, Good
    <2> QED
      BY <1>4, <1>6, <2>2, <2>3, AsideOk DEF StepOk, DInv, Undisturbed
  <1> QED
    BY <1>7, <1>8

-----------------------------------------------------------------------------
(* The calls.                                                              *)

LEMMA CallAccepted ==
  ASSUME NEW c, c \in Calls
  PROVE  IsAccepted(c) /\ c.res = "busy" /\ Memory!IsCall(c)
  <1>1. c.addr + c.words <= Size
    BY DEF Calls
  <1>2. ASSUME NEW a \in 0 .. Size - 1, NEW n \in 0 .. MaxCount, c = Memory!ReadCall(a, n)
        PROVE  IsAccepted(c) /\ c.res = "busy" /\ Memory!IsCall(c)
    <2>1. a \in Nat /\ n \in Nat
      BY DapAssumption
    <2>2. c = Memory!ReadCall(c.addr, c.words) /\ c.addr = a /\ c.words = n
      BY <1>2 DEF Memory!ReadCall
    <2> QED
      BY <1>1, <1>2, <2>1, <2>2 DEF IsAccepted, Memory!IsCall, Memory!ReadCall
  <1>3. ASSUME NEW a \in 0 .. Size - 1, NEW n \in 0 .. MaxCount, NEW d \in [1 .. n -> Values],
               c = Memory!WriteCall(a, d)
        PROVE  IsAccepted(c) /\ c.res = "busy" /\ Memory!IsCall(c)
    <2>1. a \in Nat /\ n \in Nat
      BY DapAssumption
    <2>2. d \in Seq(Values) /\ Len(d) = n
      BY <2>1
    <2>3. c = Memory!WriteCall(c.addr, c.data) /\ c.addr = a /\ c.words = n /\ c.data = d
      BY <1>3, <2>2 DEF Memory!WriteCall
    <2> QED
      BY <1>1, <1>3, <2>1, <2>2, <2>3 DEF IsAccepted, Memory!IsCall, Memory!WriteCall
  <1> QED
    BY <1>2, <1>3 DEF Calls

LEMMA StartOk == ASSUME DInv, Start PROVE StepOk
  <1>1. IsAccepted(call') /\ call'.res = "busy" /\ Memory!IsCall(call')
    BY CallAccepted DEF Start
  <1>2. CallOk'
    BY <1>1 DEF Start, DInv, CallOk, target, Memory!Addresses, Calling
  <1>3. call.res # "busy"
    BY DEF Start, DInv, CallOk, Calling
  <1>4. Memory!Start
    BY <1>1, <1>3 DEF Memory!Start, Start, target
  <1>5. PortOk' /\ ErrorTold' /\ Undisturbed'
    BY DEF Start, DInv, PortOk, ErrorTold, Undisturbed, target, Attachment
  <1> QED
    BY <1>2, <1>4, <1>5 DEF StepOk, DInv, Memory!Next

\* How a call ends.
LEMMA ReturnOk ==
  ASSUME DInv, pc \in Calling, NEW res \in {"ok", "failed"}, Return(res),
         mem' \in [Memory!Addresses -> Values]
  PROVE  CallOk' /\ call.res = "busy"
  <1>1. call.res = "busy"
    BY DEF DInv, CallOk
  <1>2. IsAccepted(call') /\ call'.res = res
    BY DEF DInv, CallOk, IsAccepted, Return
  <1> QED
    BY <1>1, <1>2 DEF Return, CallOk, Calling, Memory!Addresses

LEMMA RefuseOk == ASSUME DInv, Refuse PROVE StepOk
  <1>1. Return("failed") /\ UNCHANGED mem /\ pc \in Calling
    BY DEF Refuse, target, Calling
  <1>2. CallOk' /\ call.res = "busy"
    BY <1>1, ReturnOk DEF DInv, CallOk
  <1>3. Memory!Fail
    BY <1>1, <1>2 DEF Memory!Fail, Return
  <1>4. PortOk' /\ ErrorTold' /\ Undisturbed'
    BY <1>1 DEF Refuse, Return, DInv, PortOk, ErrorTold, Undisturbed, target, Attachment, Calling
  <1> QED
    BY <1>2, <1>3, <1>4 DEF StepOk, DInv, Memory!Next

LEMMA SucceedOk == ASSUME DInv, Succeed PROVE StepOk
  <1>1. Return("ok") /\ UNCHANGED mem /\ pc \in Calling
    BY DEF Succeed, target, Calling
  <1>2. CallOk' /\ call.res = "busy"
    BY <1>1, ReturnOk DEF DInv, CallOk
  <1>3. Memory!Succeed
    BY <1>1, <1>2 DEF Memory!Succeed, Memory!Left, Return, Succeed, DInv, CallOk, IsAccepted
  <1>4. PortOk' /\ ErrorTold' /\ Undisturbed'
    BY <1>1 DEF Succeed, Return, DInv, PortOk, ErrorTold, Undisturbed, target, Attachment, Calling
  <1> QED
    BY <1>2, <1>3, <1>4 DEF StepOk, DInv, Memory!Next

LEMMA ResetOk == ASSUME DInv, Reset PROVE StepOk
  <1>1. mem' \in [Memory!Addresses -> Values] /\ UNCHANGED <<jtag_error, pc, tries, call>>
    BY DEF Reset, client, DInv, CallOk
  <1>2. CallOk'
    BY <1>1 DEF DInv, CallOk, IsAccepted, Memory!Addresses
  <1>3. Memory!PowerLoss
    BY <1>1 DEF Memory!PowerLoss
  <1>4. PortOk' /\ ErrorTold' /\ Undisturbed'
    BY <1>1, OffIsSettled DEF Reset, DInv, PortOk, ErrorTold, Undisturbed
  <1> QED
    BY <1>2, <1>3, <1>4 DEF StepOk, DInv, Memory!Next

\* One more word at the end.
LEMMA OneMore ==
  ASSUME NEW s \in Seq(Values), NEW v \in Values
  PROVE  Append(s, v) = s \o [i \in 1 .. 1 |-> v] /\ Append(s, v) \in Seq(Values)
  <1> DEFINE t == [i \in 1 .. 1 |-> v]
  <1>1. t \in Seq(Values) /\ Len(t) = 1 /\ t[1] = v
    OBVIOUS
  <1>2. <<v>> \in Seq(Values) /\ Len(<<v>>) = 1 /\ <<v>>[1] = v
    OBVIOUS
  <1>3. t = <<v>>
    <2> HIDE DEF t
    <2>1. \A i \in 1 .. Len(t) : t[i] = <<v>>[i]
      BY <1>1, <1>2
    <2> QED
      BY <1>1, <1>2, <2>1, SeqEqual
  <1> QED
    BY <1>3, AppendIsConcat, AppendProperties

\* What is left of the call under way, a word of which is transferred.
LEMMA WordInCall ==
  ASSUME DInv, call.done < call.words
  PROVE  /\ call.addr + call.done \in Memory!Addresses
         /\ call.addr + call.done = Memory!From
         /\ 1 \in 1 .. Memory!Left
         /\ call.done + 1 \in 1 .. call.words
  <1>1. IsAccepted(call)
    BY DEF DInv, CallOk
  <1>2. /\ call.addr \in Nat /\ call.words \in Nat /\ call.done \in Nat
        /\ call.addr + call.words <= Size /\ Size \in Nat
    BY <1>1, DapAssumption DEF IsAccepted
  <1> QED
    BY <1>2 DEF Memory!Addresses, Memory!From, Memory!Left

\* A word that is not transferred: the call fails, and so do those after it until
\* the port is attached again.
LEMMA FailOk ==
  ASSUME DInv, pc = "run", TransferFails, PortOk', ~calm',
         mem' \in [Memory!Addresses -> Values],
         \/ UNCHANGED mem
         \/ call.op = "write" /\ call.done < call.words /\ mem' = Memory!Written(1)
  PROVE  StepOk
  <1>1. Return("failed") /\ jtag_error' = ERROR /\ pc' = "idle"
    BY DEF TransferFails, Return
  <1>2. CallOk' /\ call.res = "busy"
    BY <1>1, ReturnOk DEF Calling
  <1>3. Memory!Fail
    BY <1>1, <1>2, WordInCall DEF Memory!Fail, Return
  <1>4. ErrorTold' /\ Undisturbed'
    BY <1>1 DEF ErrorTold, Undisturbed, OK, ERROR, Attachment
  <1> QED
    BY <1>2, <1>3, <1>4 DEF StepOk, DInv, Memory!Next

\* A word that is.
LEMMA WordDone ==
  ASSUME DInv, pc = "run", call.done < call.words, jtag_error = OK,
         UNCHANGED <<pc, jtag_error, chain>>, PortOk', Ready(dp'),
         calm' => calm, mem' \in [Memory!Addresses -> Values],
         Memory!Read(1) \/ Memory!Write(1), call'.data \in Seq(Values),
         call.op = "write" => call'.data = call.data
  PROVE  StepOk
  <1>1. IsAccepted(call) /\ call.res = "busy"
    BY DEF DInv, CallOk, Calling
  <1>2. call' = [op |-> call.op, addr |-> call.addr, words |-> call.words,
                 data |-> call'.data, done |-> call.done + 1, res |-> call.res]
    BY <1>1 DEF IsAccepted, Memory!Read, Memory!Write
  <1>3. IsAccepted(call') /\ call'.res = "busy"
    BY <1>1, <1>2 DEF IsAccepted
  <1>4. CallOk'
    BY <1>3 DEF CallOk, Calling, Memory!Addresses
  <1>5. Memory!Transfer
    BY <1>1, WordInCall DEF Memory!Transfer
  <1>6. ErrorTold' /\ Undisturbed'
    BY DEF DInv, ErrorTold, Undisturbed, Attachment
  <1> QED
    BY <1>4, <1>5, <1>6 DEF StepOk, DInv, Memory!Next

LEMMA ReadWordOk == ASSUME DInv, ReadWord PROVE StepOk
  <1> DEFINE at == call.addr + call.done
  <1>1. pc = "run" /\ jtag_error = OK /\ call.op = "read" /\ call.done < call.words /\ UNCHANGED chain
    BY DEF ReadWord, CanTransfer
  <1>2. PICK o \in Outcomes(MemRd(at)) :
          /\ Effect(o)
          /\ IF Committed(o)
             THEN /\ call' = [call EXCEPT !.done = @ + 1, !.data = Append(@, o.got["u"].word)]
                  /\ UNCHANGED <<pc, jtag_error>>
             ELSE TransferFails
    BY DEF ReadWord
  <1>3. at \in Memory!Addresses /\ at = Memory!From
    BY <1>1, WordInCall
  <1>4. chain = "dap" => Ready(dp)
    BY <1>1 DEF DInv, ErrorTold, Attachment
  <1> HIDE DEF at
  <1>5. ReadCame(o, at)
    BY <1>2, <1>4, ReadOutcome DEF DInv, PortOk
  <1>6. PortOk' /\ UNCHANGED mem /\ dp' = o.dp /\ (calm' => calm /\ ~o.fault)
    BY <1>2, <1>5, EffectOk DEF ReadCame
  <1>7. mem \in [Memory!Addresses -> Values] /\ mem' \in [Memory!Addresses -> Values]
    BY <1>6 DEF DInv, CallOk
  <1>8. CASE Committed(o)
    <2>1. call' = [call EXCEPT !.done = @ + 1, !.data = Append(@, mem[at])] /\ Ready(dp')
      BY <1>2, <1>5, <1>6, <1>8 DEF ReadCame
    <2>2. IsAccepted(call)
      BY DEF DInv, CallOk
    <2>3. call.data \in Seq(Values) /\ mem[at] \in Values
      BY <1>3, <1>7, <2>2 DEF IsAccepted
    <2>4. call'.data = Append(call.data, mem[at])
      BY <2>1, <2>2 DEF IsAccepted
    <2>5. [i \in 1 .. 1 |-> mem[Memory!From + i - 1]] = [i \in 1 .. 1 |-> mem[at]]
      <3>1. at \in Int
        BY <1>3, DapAssumption DEF Memory!Addresses
      <3>2. \A i \in 1 .. 1 : Memory!From + i - 1 = at
        BY <1>3, <3>1
      <3> QED
        BY <3>2
    <2>6. Memory!Read(1)
      <3>1. Append(call.data, mem[at]) = call.data \o [i \in 1 .. 1 |-> mem[Memory!From + i - 1]]
        BY <2>3, <2>5, OneMore
      <3> QED
        BY <1>1, <1>6, <2>1, <3>1 DEF Memory!Read
    <2>7. call'.data \in Seq(Values)
      BY <2>3, <2>4, OneMore
    <2> QED
      BY <1>1, <1>2, <1>6, <1>7, <1>8, <2>1, <2>6, <2>7, WordDone
  <1>9. CASE ~Committed(o)
    <2>1. ~calm'
      BY <1>1, <1>5, <1>6, <1>9 DEF ReadCame, DInv, Undisturbed, Attachment
    <2> QED
      BY <1>1, <1>2, <1>6, <1>7, <1>9, <2>1, FailOk
  <1> QED
    BY <1>8, <1>9

\* The next word written is what the abstract memory writes.
LEMMA OneWritten ==
  ASSUME DInv, call.op = "write", call.done < call.words
  PROVE  /\ Memory!Written(1) =
              [mem EXCEPT ![call.addr + call.done] = call.data[call.done + 1]]
         /\ Memory!Written(1) \in [Memory!Addresses -> Values]
  <1> DEFINE at == call.addr + call.done  val == call.data[call.done + 1]
  <1>1. IsAccepted(call) /\ mem \in [Memory!Addresses -> Values]
    BY DEF DInv, CallOk
  <1>2. /\ at = Memory!From /\ at \in Memory!Addresses
        /\ call.addr \in Int /\ call.done \in Int /\ at \in Int
    BY <1>1, WordInCall DEF IsAccepted
  <1>3. val \in Values
    BY <1>1, WordInCall DEF IsAccepted
  <1>4. ASSUME NEW a \in Memory!Addresses
        PROVE  Memory!Written(1)[a] = [mem EXCEPT ![at] = val][a]
    <2>1. a \in Int
      BY DapAssumption DEF Memory!Addresses
    <2>2. a \in Memory!From .. Memory!From + 1 - 1 <=> a = at
      BY <1>2, <2>1
    <2>3. a = at => a - call.addr + 1 = call.done + 1
      BY <1>2
    <2> QED
      BY <1>1, <2>2, <2>3 DEF Memory!Written
  <1>5. Memory!Written(1) = [mem EXCEPT ![at] = val]
    BY <1>1, <1>4 DEF Memory!Written
  <1> QED
    BY <1>1, <1>3, <1>5

LEMMA WriteWordOk == ASSUME DInv, WriteWord PROVE StepOk
  <1> DEFINE at == call.addr + call.done  val == call.data[call.done + 1]
  <1>1. pc = "run" /\ jtag_error = OK /\ call.op = "write" /\ call.done < call.words /\ UNCHANGED chain
    BY DEF WriteWord, CanTransfer
  <1>2. PICK o \in Outcomes(MemWr(at, val)) :
          /\ Effect(o)
          /\ IF Committed(o)
             THEN call' = [call EXCEPT !.done = @ + 1] /\ UNCHANGED <<pc, jtag_error>>
             ELSE TransferFails
    BY DEF WriteWord
  <1>3. chain = "dap" => Ready(dp)
    BY <1>1 DEF DInv, ErrorTold, Attachment
  <1>4. Memory!Written(1) = [mem EXCEPT ![at] = val] /\ Memory!Written(1) \in [Memory!Addresses -> Values]
    BY <1>1, OneWritten
  <1> HIDE DEF at, val
  <1>5. WriteCame(o, at, val)
    BY <1>2, <1>3, WriteOutcome DEF DInv, PortOk
  <1>6. /\ PortOk' /\ dp' = o.dp /\ (calm' => calm /\ ~o.fault)
        /\ o.store = <<>> => mem' = mem
        /\ o.store = <<at, val>> => mem' = Memory!Written(1)
    <2>1. dp' = o.dp /\ (calm' => calm /\ ~o.fault) /\ PortOk'
      BY <1>2, <1>5 DEF Effect, WriteCame, PortOk
    <2>2. <<at, val>> # <<>> /\ <<at, val>>[1] = at /\ <<at, val>>[2] = val
      OBVIOUS
    <2> QED
      BY <1>2, <1>4, <2>1, <2>2 DEF Effect
  <1>7. mem \in [Memory!Addresses -> Values] /\ mem' \in [Memory!Addresses -> Values]
    BY <1>4, <1>5, <1>6 DEF DInv, CallOk, WriteCame
  <1>8. CASE Committed(o)
    <2>1. call' = [call EXCEPT !.done = @ + 1] /\ mem' = Memory!Written(1) /\ Ready(dp')
      BY <1>2, <1>5, <1>6, <1>8 DEF WriteCame
    <2>2. Memory!Write(1)
      BY <1>1, <2>1 DEF Memory!Write
    <2>3. call'.data = call.data /\ call.data \in Seq(Values)
      BY <2>1 DEF DInv, CallOk, IsAccepted
    <2> QED
      BY <1>1, <1>2, <1>6, <1>7, <1>8, <2>1, <2>2, <2>3, WordDone
  <1>9. CASE ~Committed(o)
    <2>1. ~calm'
      BY <1>1, <1>5, <1>6, <1>9 DEF WriteCame, DInv, Undisturbed, Attachment
    <2>2. mem' = mem \/ mem' = Memory!Written(1)
      BY <1>5, <1>6 DEF WriteCame
    <2> QED
      BY <1>1, <1>2, <1>6, <1>7, <1>9, <2>1, <2>2, FailOk
  <1> QED
    BY <1>8, <1>9

-----------------------------------------------------------------------------

LEMMA StepsOk == ASSUME DInv, [Next]_vars PROVE StepOk
  <1>1. CASE UNCHANGED vars
    <2>1. DInv'
      BY <1>1 DEF vars, DInv, PortOk, CallOk, IsAccepted, ErrorTold, Undisturbed, Memory!Addresses
    <2> QED
      BY <1>1, <2>1 DEF vars, StepOk
  <1>2. CASE Attaching
    BY <1>2, AttachOk, ConnectOk, ConnectNoPowerOk, RouteOk, FindOk, DapPowerUpOk, DapStatusOk
       DEF Attaching, Connecting
  <1>3. CASE MemoryCall
    BY <1>3, StartOk, RefuseOk, ReadWordOk, WriteWordOk, SucceedOk DEF MemoryCall
  <1>4. CASE Reset
    BY <1>4, ResetOk
  <1> QED
    BY <1>1, <1>2, <1>3, <1>4 DEF Next

\* The inductive invariant: between two transactions the port is ready whenever
\* there is no error and it is still there, and an attach that nothing disturbs
\* gets as far as it should.
THEOREM PortCorrect == Spec => []DInv
  <1>1. DInv /\ [Next]_vars => DInv'
    BY StepsOk DEF StepOk
  <1> QED
    BY DapInit, <1>1, PTL DEF Spec

\* No access that was dropped or failed goes unnoticed (dap_commit): overrun
\* detection and the status each transaction ends with tell, whatever requests
\* were refused.
THEOREM ErrorsTold == Spec => []NoSilentError
  <1>1. DInv => NoSilentError
    <2> SUFFICES ASSUME DInv, pc = "idle", jtag_error = OK, chain = "dap"
                 PROVE  dp.enabled /\ ~dp.orun /\ ~dp.err /\ ~dp.hung
      BY DEF NoSilentError
    <2>1. Ready(dp) /\ Settled(dp)
      BY DEF DInv, ErrorTold, PortOk, Attachment
    <2> QED
      BY <2>1 DEF Ready, Fine, Settled, Sound
  <1> QED
    BY PortCorrect, <1>1, PTL

\* An attach that nothing disturbs succeeds (_attach), since the abort comes before
\* the port is powered up.
THEOREM AttachAlwaysWorks == Spec => []AttachWorks
  <1>1. DInv => AttachWorks
    BY DEF DInv, Undisturbed, AttachWorks, Attachment
  <1> QED
    BY PortCorrect, <1>1, PTL

\* A memory call of the JTAG transport does what every transport promises.
THEOREM DapRefinement == Spec => ImplementsMemory
  <1>1. Init => Memory!Init
    BY DEF Init, Memory!Init, Memory!Addresses
  <1>2. DInv /\ [Next]_vars => [Memory!Next]_<<mem, call>>
    BY StepsOk DEF StepOk
  <1> QED
    BY <1>1, <1>2, PortCorrect, PTL DEF Spec, ImplementsMemory, Memory!Spec
==============================================================================
