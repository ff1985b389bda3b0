--------------------------- MODULE BreakpointsProofs ---------------------------
(***************************************************************************)
(* Proofs about Breakpoints, for every number of comparators and every set *)
(* of addresses.  Tracked, HeldOnce and NoStray speak of the tables between *)
(* commands; what a command that is half done leaves to be finished is the *)
(* strengthening IInv.                                                     *)
(***************************************************************************)
EXTENDS Breakpoints, TLAPS

Watching == {"watch", "watchComp", "watchOn"}
Searching == {"fpb", "fpbFind", "dwt", "dwtFind"}

-----------------------------------------------------------------------------
(* The strengthening.                                                      *)

\* A comparator is only programmed that is there.
Programming == stage \in Watching => n \in DwtSlots

\* A command is under way for as long as it says so, and only code is looked
\* for in the flash patch.
Asked ==
    /\ stage \in Searching => cmd.op \in {"Z", "z"}
    /\ stage # "idle" => cmd.op # "none"
    /\ stage \in {"watchComp", "watchOn"} => Enabling
    /\ stage \in {"fpb", "fpbFind"} => cmd.addr \in CodeAddresses

\* An entry in use is one of those the loops look at, and those of the flash
\* patch hold code addresses.
Counted ==
    /\ \A i \in FpSlots : fp[i] # None => maxfp = Fpbs
    /\ \A i \in DwtSlots : bp[i] # None => maxbp = Dwts
    /\ stage = "fpbFind" => maxfp = Fpbs
    /\ stage = "dwtFind" => maxbp = Dwts
    /\ \A i \in FpSlots : fp[i] \in CodeAddresses \cup {None}

\* When handle_breakpoint comes to the DWT the address is not in the flash patch,
\* unless the command could not look there.
Searched ==
    stage \in {"dwt", "dwtFind"} /\ ~cmd.blind => \A i \in FpSlots : fp[i] # cmd.addr

\* What the tables say is set: swdp_watchpoint is called after the entry has
\* changed, and gdb hears of it later.
Recorded ==
    CASE stage \in Watching /\ cmd.op = "Z" -> held \cup {cmd.addr}
      [] stage \in Watching /\ cmd.op = "z" -> held \ {cmd.addr}
      [] OTHER -> held

Single == Recorded \ twice
Known == Recorded \cup twice

InFpOnce(a) ==
    \E i \in FpSlots : /\ \A j \in FpSlots : fp[j] = a <=> i = j
                       /\ \A j \in DwtSlots : bp[j] # a
InBpOnce(a) ==
    \E i \in DwtSlots : /\ \A j \in DwtSlots : bp[j] = a <=> i = j
                        /\ \A j \in FpSlots : fp[j] # a
RecordedOnce == \A a \in Single : InFpOnce(a) \/ InBpOnce(a)

NoneStray ==
    /\ \A i \in FpSlots : fp[i] \in Known \cup {None}
    /\ \A i \in DwtSlots : bp[i] \in Known \cup {None}

Placed == RecordedOnce /\ NoneStray

\* The comparators all match but the one being programmed, which is half way.
InHardware ==
    /\ \A i \in FpSlots : <<"fp", i>> \in stale \/ FpbMatches(i)
    /\ \A i \in DwtSlots : \/ <<"dwt", i>> \in stale \/ DwtMatches(i)
                           \/ stage \in Watching /\ i = n
    /\ stage \in Watching /\ cmd.op = "Z" => bp[n] = cmd.addr
    /\ stage \in Watching /\ cmd.op = "z" => bp[n] = None
    /\ stage = "watchOn" => <<"dwt", n>> \in stale \/ (cmd.op = "Z" /\ dwt[n].comp = cmd.addr)
    /\ stage = "watchComp" => <<"dwt", n>> \in stale \/ cmd.op = "Z"

TypeInv == TypeOK /\ Programming
TrackInv == TypeInv /\ Asked /\ InHardware
IInv == TypeInv /\ Asked /\ Counted /\ Searched /\ Placed
-----------------------------------------------------------------------------
(* Types.                                                                  *)

LEMMA TypeInit == Init => TypeInv
  BY BreakpointsAssumption
     DEF Init, TypeInv, TypeOK, Programming, Watching, Entry, Off, NoCommand, Ops, Stages

DwtValues == [comp : Entry, on : BOOLEAN]

\* What swdp_watchpoint's writes do to the comparator, and to the others.
LEMMA DwtWritten ==
  ASSUME TypeInv, n \in DwtSlots, NEW v \in DwtValues, WriteDwt(v)
  PROVE  /\ dwt' \in [DwtSlots -> DwtValues] /\ stale' \subseteq Comparators
         /\ link => dwt'[n] = v /\ stale' = stale
         /\ ~link => stale' = stale \cup {<<"dwt", n>>}
         /\ \A i \in DwtSlots : i # n => dwt'[i] = dwt[i]
  <1>1. dwt \in [DwtSlots -> DwtValues] /\ stale \subseteq Comparators
    BY DEF TypeInv, TypeOK, DwtValues
  <1>2. CASE link
    BY <1>1, <1>2 DEF WriteDwt, After
  <1>3. CASE ~link
    <2>1. <<"dwt", n>> \in Comparators
      BY DEF Comparators
    <2> QED
      BY <1>1, <1>3, <2>1 DEF WriteDwt, After
  <1> QED
    BY <1>2, <1>3 DEF TypeInv, TypeOK

LEMMA FpbWritten ==
  ASSUME TypeInv, NEW i \in FpSlots, NEW v \in Entry, WriteFpb(i, v)
  PROVE  /\ fp' \in [FpSlots -> Entry] /\ fpb' \in [FpSlots -> Entry]
         /\ stale' \subseteq Comparators
  <1>1. fp \in [FpSlots -> Entry] /\ fpb \in [FpSlots -> Entry] /\ stale \subseteq Comparators
    BY DEF TypeInv, TypeOK
  <1>2. <<"fp", i>> \in Comparators
    BY DEF Comparators
  <1>3. fpb' \in {fpb, [fpb EXCEPT ![i] = v]} /\ stale' \subseteq stale \cup {<<"fp", i>>}
    BY DEF WriteFpb, After
  <1> QED
    BY <1>1, <1>2, <1>3 DEF WriteFpb

LEMMA CompValue == TypeInv /\ n \in DwtSlots /\ cmd.op # "none" => [dwt[n] EXCEPT !.comp = cmd.addr] \in DwtValues
  BY DEF TypeInv, TypeOK, DwtValues, Entry

LEMMA OnValue == TypeInv /\ n \in DwtSlots => [dwt[n] EXCEPT !.on = TRUE] \in DwtValues
  BY DEF TypeInv, TypeOK, DwtValues

LEMMA SwitchedOn == \A v \in DwtValues : [v EXCEPT !.on = TRUE].on /\ [v EXCEPT !.on = TRUE].comp = v.comp
  BY DEF DwtValues

LEMMA TypeStep == TypeInv /\ Asked /\ [Next]_vars => TypeInv'
  <1> SUFFICES ASSUME TypeInv, Asked, [Next]_vars PROVE TypeInv'
    OBVIOUS
  <1> USE BreakpointsAssumption
      DEF TypeInv, TypeOK, Programming, Watching, Entry, FpSlots, DwtSlots, Comparators,
          NoCommand, Ops, Stages
  <1>1. ASSUME NEW op \in {"Z", "z"}, NEW a \in Addresses,
             Command(op, a) PROVE TypeInv'
    BY <1>1 DEF Command, Recovered
  <1>2. ASSUME NEW op \in {"watch-pc", "watch-off"}, NEW a \in Addresses,
             ConsoleWatch(op, a) PROVE TypeInv'
    BY <1>2 DEF ConsoleWatch, Recovered
  <1>3. ASSUME CountFpb PROVE TypeInv'
    BY <1>3 DEF CountFpb
  <1>4. ASSUME CountFpbFails PROVE TypeInv'
    <2>1. cmd' \in [op : Ops, addr : Entry, blind : BOOLEAN]
          /\ cmd'.op = cmd.op /\ cmd'.addr = cmd.addr
      BY <1>4 DEF CountFpbFails
    <2> QED
      BY <1>4, <2>1 DEF CountFpbFails
  <1>5. ASSUME FpbKnown PROVE TypeInv'
    BY <1>5 DEF FpbKnown, Answer
  <1>6. ASSUME FpbClear PROVE TypeInv'
    <2>1. PICK i \in FpSlots : WriteFpb(i, None)
      BY <1>6 DEF FpbClear, IsFirst, FpWith
    <2>2. fp' \in [FpSlots -> Entry] /\ fpb' \in [FpSlots -> Entry] /\ stale' \subseteq Comparators
      BY <2>1, FpbWritten
    <2> QED
      BY <1>6, <2>2 DEF FpbClear, Answer
  <1>7. ASSUME FpbSet PROVE TypeInv'
    <2>1. PICK i \in FpSlots : WriteFpb(i, cmd.addr)
      BY <1>7 DEF FpbSet, IsFirst, FpWith
    <2>2. fp' \in [FpSlots -> Entry] /\ fpb' \in [FpSlots -> Entry] /\ stale' \subseteq Comparators
      BY <2>1, FpbWritten
    <2> QED
      BY <1>7, <2>2 DEF FpbSet, Answer, Adding
  <1>8. ASSUME FpbPass PROVE TypeInv'
    BY <1>8 DEF FpbPass, FpWith
  <1>9. ASSUME CountDwt PROVE TypeInv'
    BY <1>9 DEF CountDwt
  <1>10. ASSUME CountDwtFails PROVE TypeInv'
    BY <1>10 DEF CountDwtFails, Answer
  <1>11. ASSUME DwtKnown PROVE TypeInv'
    BY <1>11 DEF DwtKnown, Answer
  <1>12. ASSUME DwtFull PROVE TypeInv'
    BY <1>12 DEF DwtFull, Answer
  <1>13. ASSUME DwtSet PROVE TypeInv'
    <2>1. twice' \subseteq Addresses
      BY <1>13 DEF DwtSet, PassedOver, Asked, Searching
    <2> QED
      BY <1>13, <2>1 DEF DwtSet, DwtEnter, IsFirst, BpWith
  <1>14. ASSUME DwtClear PROVE TypeInv'
    BY <1>14 DEF DwtClear, DwtEnter, IsFirst, BpWith
  <1>15. ASSUME DwtNotSet PROVE TypeInv'
    <2>1. twice' \subseteq Addresses
      BY <1>15 DEF DwtNotSet, PassedOver, Asked, Searching
    <2> QED
      BY <1>15, <2>1 DEF DwtNotSet, Answer
  <1>16. ASSUME WatchRefused PROVE TypeInv'
    BY <1>16 DEF WatchRefused, Answer
  <1>17. ASSUME WatchOff PROVE TypeInv'
    <2>1. Off \in DwtValues
      BY DEF Off, DwtValues
    <2>2. dwt' \in [DwtSlots -> DwtValues]
      <3>1. dwt \in [DwtSlots -> DwtValues]
        BY DEF DwtValues
      <3>2. dwt' \in {dwt, [dwt EXCEPT ![n] = Off]}
        BY <1>17 DEF WatchOff, After
      <3>3. CASE dwt' = dwt
        BY <3>1, <3>3
      <3>4. CASE dwt' = [dwt EXCEPT ![n] = Off]
        BY <2>1, <3>1, <3>4
      <3> QED
        BY <3>2, <3>3, <3>4
    <2>3. stale' \subseteq Comparators
      BY <1>17 DEF WatchOff
    <2>4. /\ stage' \in {"idle", "watchComp"} /\ held' \subseteq Addresses
          /\ cmd' \in [op : Ops, addr : Entry, blind : BOOLEAN]
          /\ cmd'.op # "none" => cmd'.addr \in Addresses
      <3>1. CASE Enabling
        BY <1>17, <3>1 DEF WatchOff
      <3>2. CASE ~Enabling
        <4>1. stage' = "idle" /\ cmd' = NoCommand /\ held' \subseteq held \cup {cmd.addr}
              /\ (cmd.op = "none" => held' = held)
          BY <1>17, <3>2 DEF WatchOff, Answer
        <4> QED
          BY <4>1
      <3> QED
        BY <3>1, <3>2
    <2>5. stage = "watch" /\ UNCHANGED <<fp, bp, maxfp, maxbp, fpb, n, link, twice>>
      BY <1>17 DEF WatchOff
    <2> QED
      BY <2>2, <2>3, <2>4, <2>5 DEF DwtValues
  <1>18. ASSUME WatchComp PROVE TypeInv'
    <2>1. n \in DwtSlots /\ cmd.op # "none"
      BY <1>18 DEF WatchComp, Asked
    <2>2. WriteDwt([dwt[n] EXCEPT !.comp = cmd.addr])
      BY <1>18 DEF WatchComp
    <2>3. dwt' \in [DwtSlots -> DwtValues] /\ stale' \subseteq Comparators
      BY <2>1, <2>2, CompValue, DwtWritten
    <2> QED
      BY <1>18, <2>1, <2>3 DEF WatchComp, Answer, DwtValues
  <1>19. ASSUME WatchOn PROVE TypeInv'
    <2>1. n \in DwtSlots /\ cmd.op # "none"
      BY <1>19 DEF WatchOn, Asked
    <2>2. WriteDwt([dwt[n] EXCEPT !.on = TRUE])
      BY <1>19 DEF WatchOn
    <2>3. dwt' \in [DwtSlots -> DwtValues] /\ stale' \subseteq Comparators
      BY <2>1, <2>2, OnValue, DwtWritten
    <2> QED
      BY <1>19, <2>1, <2>3 DEF WatchOn, Answer, DwtValues
  <1>20. ASSUME LinkDown \/ LinkUp PROVE TypeInv'
    BY <1>20 DEF LinkDown, LinkUp
  <1>21. ASSUME PowerCycle PROVE TypeInv'
    BY <1>21 DEF PowerCycle, Off
  <1>22. ASSUME UNCHANGED vars PROVE TypeInv'
    BY <1>22 DEF vars
  <1> QED
    BY <1>1, <1>2, <1>3, <1>4, <1>5, <1>6, <1>7, <1>8, <1>9, <1>10, <1>11, <1>12, <1>13, <1>14, <1>15, <1>16, <1>17, <1>18, <1>19, <1>20, <1>21, <1>22
       DEF Next, Flashpatch, Breakpoint, Watchpoint

\* The tables and comparators of the bridge keep their types, and no
\* comparator is programmed that the DWT does not have.
-----------------------------------------------------------------------------
(* The tables and the hardware.                                            *)

LEMMA TrackInit == Init => InHardware
  BY DEF Init, InHardware, FpbMatches, DwtMatches, Watching, Off

LEMMA TrackStep == TypeInv /\ InHardware /\ Asked /\ [Next]_vars => InHardware'
  <1> SUFFICES ASSUME TypeInv, InHardware, Asked, [Next]_vars PROVE InHardware'
    OBVIOUS
  <1> USE BreakpointsAssumption
      DEF InHardware, FpbMatches, DwtMatches, Watching, TypeInv, TypeOK, Programming, Entry, Asked, Searching, Adding
  <1>1. ASSUME NEW op \in {"Z", "z"}, NEW a \in Addresses,
             Command(op, a) PROVE InHardware'
    BY <1>1 DEF Command, Recovered
  <1>2. ASSUME NEW op \in {"watch-pc", "watch-off"}, NEW a \in Addresses,
             ConsoleWatch(op, a) PROVE InHardware'
    BY <1>2 DEF ConsoleWatch, Recovered
  <1>3. ASSUME CountFpb PROVE InHardware'
    BY <1>3 DEF CountFpb
  <1>4. ASSUME CountFpbFails PROVE InHardware'
    BY <1>4 DEF CountFpbFails
  <1>5. ASSUME FpbKnown PROVE InHardware'
    BY <1>5 DEF FpbKnown, Answer
  <1>6. ASSUME FpbClear PROVE InHardware'
    BY <1>6 DEF FpbClear, WriteFpb, After, Answer, IsFirst, FpWith
  <1>7. ASSUME FpbSet PROVE InHardware'
    BY <1>7 DEF FpbSet, WriteFpb, After, Answer, IsFirst, FpWith
  <1>8. ASSUME FpbPass PROVE InHardware'
    BY <1>8 DEF FpbPass, FpWith
  <1>9. ASSUME CountDwt PROVE InHardware'
    BY <1>9 DEF CountDwt
  <1>10. ASSUME CountDwtFails PROVE InHardware'
    BY <1>10 DEF CountDwtFails, Answer
  <1>11. ASSUME DwtKnown PROVE InHardware'
    BY <1>11 DEF DwtKnown, Answer
  <1>12. ASSUME DwtFull PROVE InHardware'
    BY <1>12 DEF DwtFull, Answer
  <1>13. ASSUME DwtSet PROVE InHardware'
    BY <1>13 DEF DwtSet, PassedOver, DwtEnter, IsFirst, BpWith
  <1>14. ASSUME DwtClear PROVE InHardware'
    BY <1>14 DEF DwtClear, DwtEnter, IsFirst, BpWith
  <1>15. ASSUME DwtNotSet PROVE InHardware'
    BY <1>15 DEF DwtNotSet, PassedOver, Answer
  <1>16. ASSUME WatchRefused PROVE InHardware'
    BY <1>16 DEF WatchRefused, Answer
  <1>17. ASSUME WatchOff PROVE InHardware'
    BY <1>17 DEF WatchOff, After, Answer, Enabling, Off
  <1>18. ASSUME WatchComp PROVE InHardware'
    <2>1. n \in DwtSlots /\ cmd.op # "none"
      BY <1>18 DEF WatchComp, Programming, Asked
    <2>2. WriteDwt([dwt[n] EXCEPT !.comp = cmd.addr]) /\ [dwt[n] EXCEPT !.comp = cmd.addr] \in DwtValues
      BY <1>18, <2>1, CompValue DEF WatchComp
    <2>3. /\ link => dwt'[n] = [dwt[n] EXCEPT !.comp = cmd.addr] /\ stale' = stale
          /\ ~link => stale' = stale \cup {<<"dwt", n>>}
          /\ \A i \in DwtSlots : i # n => dwt'[i] = dwt[i]
      BY <2>1, <2>2, DwtWritten
    <2>4. [dwt[n] EXCEPT !.comp = cmd.addr].comp = cmd.addr /\ dwt[n] \in DwtValues
      BY <2>1 DEF DwtValues
    <2> QED
      BY <1>18, <2>1, <2>3, <2>4 DEF WatchComp, Answer
  <1>19. ASSUME WatchOn PROVE InHardware'
    <2>1. n \in DwtSlots /\ cmd.op # "none"
      BY <1>19 DEF WatchOn, Programming, Asked
    <2>2. WriteDwt([dwt[n] EXCEPT !.on = TRUE]) /\ [dwt[n] EXCEPT !.on = TRUE] \in DwtValues
      BY <1>19, <2>1, OnValue DEF WatchOn
    <2>3. /\ link => dwt'[n] = [dwt[n] EXCEPT !.on = TRUE] /\ stale' = stale
          /\ ~link => stale' = stale \cup {<<"dwt", n>>}
          /\ \A i \in DwtSlots : i # n => dwt'[i] = dwt[i]
      BY <2>1, <2>2, DwtWritten
    <2>4. [dwt[n] EXCEPT !.on = TRUE].comp = dwt[n].comp /\ dwt[n] \in DwtValues
      BY <2>1 DEF DwtValues
    <2>5. [dwt[n] EXCEPT !.on = TRUE].on
      BY <2>4, SwitchedOn
    <2>6. /\ stage' = "idle" /\ n' = n /\ bp' = bp /\ fp' = fp /\ fpb' = fpb
          /\ <<"dwt", n>> \in stale \/ (cmd.op = "Z" /\ dwt[n].comp = cmd.addr)
          /\ cmd.op = "Z" => bp[n] = cmd.addr
          /\ cmd.addr # None
      BY <1>19, <2>1 DEF WatchOn, Answer
    <2>7. <<"dwt", n>> \in stale' \/ DwtMatches(n)'
      <3>1. CASE ~link
        BY <2>3, <3>1
      <3>2. CASE <<"dwt", n>> \in stale
        BY <2>3, <3>2
      <3>3. CASE link /\ <<"dwt", n>> \notin stale
        <4>1. dwt'[n] = [dwt[n] EXCEPT !.on = TRUE] /\ bp'[n] = cmd.addr /\ dwt[n].comp = cmd.addr
          BY <2>3, <2>6, <3>3
        <4>2. dwt'[n].on
          BY <2>5, <4>1, Zenon
        <4>3. dwt'[n].comp = bp'[n] /\ bp'[n] # None
          BY <2>4, <2>6, <4>1
        <4> QED
          BY <2>6, <4>2, <4>3
      <3> QED
        BY <3>1, <3>2, <3>3
    <2>8. ASSUME NEW i \in DwtSlots, i # n PROVE <<"dwt", i>> \in stale' \/ DwtMatches(i)'
      <3>1. dwt'[i] = dwt[i] /\ bp'[i] = bp[i] /\ (<<"dwt", i>> \in stale => <<"dwt", i>> \in stale')
        BY <2>3, <2>6, <2>8
      <3>2. <<"dwt", i>> \in stale \/ DwtMatches(i)
        BY <2>8
      <3> QED
        BY <3>1, <3>2
    <2>9. ASSUME NEW i \in FpSlots PROVE <<"fp", i>> \in stale' \/ FpbMatches(i)'
      BY <2>3, <2>6, <2>9
    <2> QED
      BY <2>6, <2>7, <2>8, <2>9
  <1>20. ASSUME LinkDown \/ LinkUp PROVE InHardware'
    BY <1>20 DEF LinkDown, LinkUp
  <1>21. ASSUME PowerCycle PROVE InHardware'
    BY <1>21 DEF PowerCycle, Off
  <1>22. ASSUME UNCHANGED vars PROVE InHardware'
    BY <1>22 DEF vars
  <1> QED
    BY <1>1, <1>2, <1>3, <1>4, <1>5, <1>6, <1>7, <1>8, <1>9, <1>10, <1>11, <1>12, <1>13, <1>14, <1>15, <1>16, <1>17, <1>18, <1>19, <1>20, <1>21, <1>22
       DEF Next, Flashpatch, Breakpoint, Watchpoint

LEMMA AskedInit == Init => Asked
  BY DEF Init, Asked, Searching, NoCommand

LEMMA AskedStep == TypeInv /\ Asked /\ [Next]_vars => Asked'
  <1> SUFFICES ASSUME TypeInv, Asked, [Next]_vars PROVE Asked'
    OBVIOUS
  <1> USE DEF TypeInv, TypeOK, Asked, Searching, Adding, NoCommand, Enabling
  <1>1. ASSUME NEW op \in {"Z", "z"}, NEW a \in Addresses,
             Command(op, a) PROVE Asked'
    BY <1>1 DEF Command, Recovered
  <1>2. ASSUME NEW op \in {"watch-pc", "watch-off"}, NEW a \in Addresses,
             ConsoleWatch(op, a) PROVE Asked'
    BY <1>2 DEF ConsoleWatch, Recovered
  <1>3. ASSUME CountFpb PROVE Asked'
    BY <1>3 DEF CountFpb
  <1>4. ASSUME CountFpbFails PROVE Asked'
    BY <1>4 DEF CountFpbFails
  <1>5. ASSUME FpbKnown PROVE Asked'
    BY <1>5 DEF FpbKnown, Answer
  <1>6. ASSUME FpbClear PROVE Asked'
    BY <1>6 DEF FpbClear, WriteFpb, After, Answer, IsFirst, FpWith
  <1>7. ASSUME FpbSet PROVE Asked'
    BY <1>7 DEF FpbSet, WriteFpb, After, Answer, IsFirst, FpWith
  <1>8. ASSUME FpbPass PROVE Asked'
    BY <1>8 DEF FpbPass, FpWith
  <1>9. ASSUME CountDwt PROVE Asked'
    BY <1>9 DEF CountDwt
  <1>10. ASSUME CountDwtFails PROVE Asked'
    BY <1>10 DEF CountDwtFails, Answer
  <1>11. ASSUME DwtKnown PROVE Asked'
    BY <1>11 DEF DwtKnown, Answer
  <1>12. ASSUME DwtFull PROVE Asked'
    BY <1>12 DEF DwtFull, Answer
  <1>13. ASSUME DwtSet PROVE Asked'
    BY <1>13 DEF DwtSet, PassedOver, DwtEnter, IsFirst, BpWith
  <1>14. ASSUME DwtClear PROVE Asked'
    BY <1>14 DEF DwtClear, DwtEnter, IsFirst, BpWith
  <1>15. ASSUME DwtNotSet PROVE Asked'
    BY <1>15 DEF DwtNotSet, PassedOver, Answer
  <1>16. ASSUME WatchRefused PROVE Asked'
    BY <1>16 DEF WatchRefused, Answer
  <1>17. ASSUME WatchOff PROVE Asked'
    BY <1>17 DEF WatchOff, After, Answer, Enabling, Off
  <1>18. ASSUME WatchComp PROVE Asked'
    BY <1>18 DEF WatchComp, WriteDwt
  <1>19. ASSUME WatchOn PROVE Asked'
    BY <1>19 DEF WatchOn, WriteDwt, Answer
  <1>20. ASSUME LinkDown \/ LinkUp PROVE Asked'
    BY <1>20 DEF LinkDown, LinkUp
  <1>21. ASSUME PowerCycle PROVE Asked'
    BY <1>21 DEF PowerCycle, Off
  <1>22. ASSUME UNCHANGED vars PROVE Asked'
    BY <1>22 DEF vars
  <1> QED
    BY <1>1, <1>2, <1>3, <1>4, <1>5, <1>6, <1>7, <1>8, <1>9, <1>10, <1>11, <1>12, <1>13, <1>14, <1>15, <1>16, <1>17, <1>18, <1>19, <1>20, <1>21, <1>22
       DEF Next, Flashpatch, Breakpoint, Watchpoint

\* The tables tell what is in the hardware, except for comparators that
\* missed a write, for every number of comparators and whatever gdb repeats.
THEOREM TablesTracked == Spec => []Tracked
  <1>1. Init => TrackInv
    BY TypeInit, TrackInit, AskedInit DEF TrackInv
  <1>2. TrackInv /\ [Next]_vars => TrackInv'
    BY TypeStep, TrackStep, AskedStep DEF TrackInv
  <1>3. TrackInv => Tracked
    BY DEF TrackInv, InHardware, Tracked, Watching
  <1> QED
    BY <1>1, <1>2, <1>3, PTL DEF Spec

\* The tables and comparators keep their types, and no comparator is
\* programmed that the DWT does not have.
THEOREM TypeCorrect == Spec => []TypeInv
  <1>1. Init => TypeInv /\ Asked
    BY TypeInit, AskedInit
  <1>2. TypeInv /\ Asked /\ [Next]_vars => (TypeInv /\ Asked)'
    BY TypeStep, AskedStep
  <1> QED
    BY <1>1, <1>2, PTL DEF Spec

-----------------------------------------------------------------------------
(* Where a breakpoint is recorded.                                         *)

LEMMA CountedStep == TypeInv /\ Asked /\ Counted /\ [Next]_vars => Counted'
  <1> SUFFICES ASSUME TypeInv, Asked, Counted, [Next]_vars PROVE Counted'
    OBVIOUS
  <1> USE BreakpointsAssumption DEF Counted, Asked, TypeInv, TypeOK, FpSlots, DwtSlots, Entry, Searching, Adding
  <1>1. ASSUME NEW op \in {"Z", "z"}, NEW a \in Addresses,
             Command(op, a) PROVE Counted'
    BY <1>1 DEF Command, Recovered
  <1>2. ASSUME NEW op \in {"watch-pc", "watch-off"}, NEW a \in Addresses,
             ConsoleWatch(op, a) PROVE Counted'
    BY <1>2 DEF ConsoleWatch, Recovered
  <1>3. ASSUME CountFpb PROVE Counted'
    BY <1>3 DEF CountFpb
  <1>4. ASSUME CountFpbFails PROVE Counted'
    BY <1>4 DEF CountFpbFails
  <1>5. ASSUME FpbKnown PROVE Counted'
    BY <1>5 DEF FpbKnown, Answer
  <1>6. ASSUME FpbClear PROVE Counted'
    BY <1>6 DEF FpbClear, WriteFpb, After, Answer, IsFirst, FpWith
  <1>7. ASSUME FpbSet PROVE Counted'
    BY <1>7 DEF FpbSet, WriteFpb, After, Answer, IsFirst, FpWith
  <1>8. ASSUME FpbPass PROVE Counted'
    BY <1>8 DEF FpbPass, FpWith
  <1>9. ASSUME CountDwt PROVE Counted'
    BY <1>9 DEF CountDwt
  <1>10. ASSUME CountDwtFails PROVE Counted'
    BY <1>10 DEF CountDwtFails, Answer
  <1>11. ASSUME DwtKnown PROVE Counted'
    BY <1>11 DEF DwtKnown, Answer
  <1>12. ASSUME DwtFull PROVE Counted'
    BY <1>12 DEF DwtFull, Answer
  <1>13. ASSUME DwtSet PROVE Counted'
    BY <1>13 DEF DwtSet, PassedOver, DwtEnter, IsFirst, BpWith
  <1>14. ASSUME DwtClear PROVE Counted'
    BY <1>14 DEF DwtClear, DwtEnter, IsFirst, BpWith
  <1>15. ASSUME DwtNotSet PROVE Counted'
    BY <1>15 DEF DwtNotSet, PassedOver, Answer
  <1>16. ASSUME WatchRefused PROVE Counted'
    BY <1>16 DEF WatchRefused, Answer
  <1>17. ASSUME WatchOff PROVE Counted'
    BY <1>17 DEF WatchOff, After, Answer, Enabling, Off
  <1>18. ASSUME WatchComp PROVE Counted'
    BY <1>18 DEF WatchComp, WriteDwt
  <1>19. ASSUME WatchOn PROVE Counted'
    BY <1>19 DEF WatchOn, WriteDwt, Answer
  <1>20. ASSUME LinkDown \/ LinkUp PROVE Counted'
    BY <1>20 DEF LinkDown, LinkUp
  <1>21. ASSUME PowerCycle PROVE Counted'
    BY <1>21 DEF PowerCycle, Off
  <1>22. ASSUME UNCHANGED vars PROVE Counted'
    BY <1>22 DEF vars
  <1> QED
    BY <1>1, <1>2, <1>3, <1>4, <1>5, <1>6, <1>7, <1>8, <1>9, <1>10, <1>11, <1>12, <1>13, <1>14, <1>15, <1>16, <1>17, <1>18, <1>19, <1>20, <1>21, <1>22
       DEF Next, Flashpatch, Breakpoint, Watchpoint

LEMMA SearchedStep == TypeInv /\ Asked /\ Counted /\ Searched /\ [Next]_vars => Searched'
  <1> SUFFICES ASSUME TypeInv, Asked, Counted, Searched, [Next]_vars PROVE Searched'
    OBVIOUS
  <1> USE BreakpointsAssumption DEF Searched, Counted, Asked, TypeInv, TypeOK, FpSlots, Entry, Searching, Adding
  <1>1. ASSUME NEW op \in {"Z", "z"}, NEW a \in Addresses,
             Command(op, a) PROVE Searched'
    BY <1>1 DEF Command, Recovered
  <1>2. ASSUME NEW op \in {"watch-pc", "watch-off"}, NEW a \in Addresses,
             ConsoleWatch(op, a) PROVE Searched'
    BY <1>2 DEF ConsoleWatch, Recovered
  <1>3. ASSUME CountFpb PROVE Searched'
    BY <1>3 DEF CountFpb
  <1>4. ASSUME CountFpbFails PROVE Searched'
    BY <1>4 DEF CountFpbFails
  <1>5. ASSUME FpbKnown PROVE Searched'
    BY <1>5 DEF FpbKnown, Answer
  <1>6. ASSUME FpbClear PROVE Searched'
    BY <1>6 DEF FpbClear, WriteFpb, After, Answer, IsFirst, FpWith
  <1>7. ASSUME FpbSet PROVE Searched'
    BY <1>7 DEF FpbSet, WriteFpb, After, Answer, IsFirst, FpWith
  <1>8. ASSUME FpbPass PROVE Searched'
    BY <1>8 DEF FpbPass, FpWith
  <1>9. ASSUME CountDwt PROVE Searched'
    BY <1>9 DEF CountDwt
  <1>10. ASSUME CountDwtFails PROVE Searched'
    BY <1>10 DEF CountDwtFails, Answer
  <1>11. ASSUME DwtKnown PROVE Searched'
    BY <1>11 DEF DwtKnown, Answer
  <1>12. ASSUME DwtFull PROVE Searched'
    BY <1>12 DEF DwtFull, Answer
  <1>13. ASSUME DwtSet PROVE Searched'
    BY <1>13 DEF DwtSet, PassedOver, DwtEnter, IsFirst, BpWith
  <1>14. ASSUME DwtClear PROVE Searched'
    BY <1>14 DEF DwtClear, DwtEnter, IsFirst, BpWith
  <1>15. ASSUME DwtNotSet PROVE Searched'
    BY <1>15 DEF DwtNotSet, PassedOver, Answer
  <1>16. ASSUME WatchRefused PROVE Searched'
    BY <1>16 DEF WatchRefused, Answer
  <1>17. ASSUME WatchOff PROVE Searched'
    BY <1>17 DEF WatchOff, After, Answer, Enabling, Off
  <1>18. ASSUME WatchComp PROVE Searched'
    BY <1>18 DEF WatchComp, WriteDwt
  <1>19. ASSUME WatchOn PROVE Searched'
    BY <1>19 DEF WatchOn, WriteDwt, Answer
  <1>20. ASSUME LinkDown \/ LinkUp PROVE Searched'
    BY <1>20 DEF LinkDown, LinkUp
  <1>21. ASSUME PowerCycle PROVE Searched'
    BY <1>21 DEF PowerCycle, Off
  <1>22. ASSUME UNCHANGED vars PROVE Searched'
    BY <1>22 DEF vars
  <1> QED
    BY <1>1, <1>2, <1>3, <1>4, <1>5, <1>6, <1>7, <1>8, <1>9, <1>10, <1>11, <1>12, <1>13, <1>14, <1>15, <1>16, <1>17, <1>18, <1>19, <1>20, <1>21, <1>22
       DEF Next, Flashpatch, Breakpoint, Watchpoint

\* At the DWT the address is not in the flash patch, or it is passed over there.
LEMMA LookedAt ==
  ASSUME TypeInv, Counted, Searched, stage = "dwtFind", cmd.addr \in Addresses
  PROVE  \/ PassedOver = {cmd.addr}
         \/ PassedOver = {} /\ \A i \in FpSlots : fp[i] # cmd.addr
  <1>1. CASE \E i \in FpSlots : fp[i] = cmd.addr
    <2>1. PICK i \in FpSlots : fp[i] = cmd.addr
      BY <1>1
    <2>2. cmd.blind
      BY <2>1 DEF Searched, TypeInv, TypeOK
    <2>3. i < maxfp
      BY <2>1, BreakpointsAssumption DEF Counted, FpSlots
    <2> QED
      BY <2>1, <2>2, <2>3 DEF PassedOver, FpWith
  <1>2. CASE \A i \in FpSlots : fp[i] # cmd.addr
    BY <1>2 DEF PassedOver, FpWith
  <1> QED
    BY <1>1, <1>2

\* Nothing changes in the tables, and no more is expected of them.
LEMMA PlacedKept ==
  ASSUME Placed, fp' = fp, bp' = bp, Single' \subseteq Single, Known \subseteq Known'
  PROVE  Placed'
  <1> HIDE DEF Single, Known
  <1> QED
    BY DEF Placed, RecordedOnce, NoneStray, InFpOnce, InBpOnce

\* Writing an address, or none, over the other in an entry of the table
\* leaves every other address where it was.
LEMMA OthersInFp ==
  ASSUME TypeInv, NEW k \in FpSlots, NEW a, NEW v \in {a, None}, fp[k] \in {a, None},
         fp' = [fp EXCEPT ![k] = v], bp' = bp,
         NEW b, b # a, b # None, InFpOnce(b) \/ InBpOnce(b)
  PROVE  InFpOnce(b)' \/ InBpOnce(b)'
  <1>1. fp \in [FpSlots -> Entry]
    BY DEF TypeInv, TypeOK
  <1>2. \A i \in FpSlots : fp'[i] = b <=> fp[i] = b
    BY <1>1
  <1>3. CASE InFpOnce(b)
    BY <1>2, <1>3 DEF InFpOnce
  <1>4. CASE InBpOnce(b)
    BY <1>2, <1>4 DEF InBpOnce
  <1> QED
    BY <1>3, <1>4

\* An address is entered twice or about to be, gets its first entry, or
\* loses its only one.
LEMMA PlacedFp ==
  ASSUME TypeInv, Placed, NEW k \in FpSlots, NEW a \in Addresses, NEW v \in {a, None},
         fp[k] \in {a, None}, fp' = [fp EXCEPT ![k] = v], bp' = bp,
         \/ Single' = Single \ {a} /\ Known' = Known \cup {a}
         \/ /\ fp[k] = None /\ v = a /\ a \notin Known
            /\ Single' = Single \cup {a} /\ Known' = Known \cup {a}
         \/ /\ fp[k] = a /\ v = None /\ a \in Single
            /\ Single' = Single \ {a} /\ Known' = Known \ {a}
  PROVE  Placed'
  <1>0. a # None /\ \A b \in Single : b # None
    BY BreakpointsAssumption DEF Single, Recorded, TypeInv, TypeOK
  <1> HIDE DEF Single, Known
  <1>1. fp \in [FpSlots -> Entry]
    BY DEF TypeInv, TypeOK
  <1>2. fp'[k] = v /\ \A i \in FpSlots : i # k => fp'[i] = fp[i]
    BY <1>1
  <1>3. \A b \in Single : b # a => InFpOnce(b)' \/ InBpOnce(b)'
    BY <1>0, OthersInFp DEF Placed, RecordedOnce
  <1>4. CASE Single' = Single \ {a} /\ Known' = Known \cup {a}
    <2>1. NoneStray'
      BY <1>2, <1>4 DEF Placed, NoneStray
    <2> QED
      BY <1>3, <1>4, <2>1 DEF Placed, RecordedOnce
  <1>5. CASE /\ fp[k] = None /\ v = a /\ a \notin Known
             /\ Single' = Single \cup {a} /\ Known' = Known \cup {a}
    <2>1. (\A i \in FpSlots : fp[i] # a) /\ (\A i \in DwtSlots : bp[i] # a)
      BY <1>0, <1>5 DEF Placed, NoneStray
    <2>2. NoneStray'
      BY <1>2, <1>5 DEF Placed, NoneStray
    <2>3. InFpOnce(a)'
      BY <1>2, <1>5, <2>1 DEF InFpOnce
    <2> QED
      BY <1>3, <1>5, <2>2, <2>3 DEF Placed, RecordedOnce
  <1>6. CASE /\ fp[k] = a /\ v = None /\ a \in Single
             /\ Single' = Single \ {a} /\ Known' = Known \ {a}
    <2>1. (\A i \in FpSlots : fp[i] = a <=> i = k) /\ (\A i \in DwtSlots : bp[i] # a)
      BY <1>6 DEF Placed, RecordedOnce, InFpOnce, InBpOnce
    <2>2. NoneStray'
      BY <1>0, <1>2, <1>6, <2>1 DEF Placed, NoneStray
    <2> QED
      BY <1>3, <1>6, <2>2 DEF Placed, RecordedOnce
  <1> QED
    BY <1>4, <1>5, <1>6

\* Writing an address, or none, over the other in an entry of the table
\* leaves every other address where it was.
LEMMA OthersInBp ==
  ASSUME TypeInv, NEW k \in DwtSlots, NEW a, NEW v \in {a, None}, bp[k] \in {a, None},
         bp' = [bp EXCEPT ![k] = v], fp' = fp,
         NEW b, b # a, b # None, InBpOnce(b) \/ InFpOnce(b)
  PROVE  InBpOnce(b)' \/ InFpOnce(b)'
  <1>1. bp \in [DwtSlots -> Entry]
    BY DEF TypeInv, TypeOK
  <1>2. \A i \in DwtSlots : bp'[i] = b <=> bp[i] = b
    BY <1>1
  <1>3. CASE InBpOnce(b)
    BY <1>2, <1>3 DEF InBpOnce
  <1>4. CASE InFpOnce(b)
    BY <1>2, <1>4 DEF InFpOnce
  <1> QED
    BY <1>3, <1>4

\* An address is entered twice or about to be, gets its first entry, or
\* loses its only one.
LEMMA PlacedBp ==
  ASSUME TypeInv, Placed, NEW k \in DwtSlots, NEW a \in Addresses, NEW v \in {a, None},
         bp[k] \in {a, None}, bp' = [bp EXCEPT ![k] = v], fp' = fp,
         \/ Single' = Single \ {a} /\ Known' = Known \cup {a}
         \/ /\ bp[k] = None /\ v = a /\ a \notin Known
            /\ Single' = Single \cup {a} /\ Known' = Known \cup {a}
         \/ /\ bp[k] = a /\ v = None /\ a \in Single
            /\ Single' = Single \ {a} /\ Known' = Known \ {a}
  PROVE  Placed'
  <1>0. a # None /\ \A b \in Single : b # None
    BY BreakpointsAssumption DEF Single, Recorded, TypeInv, TypeOK
  <1> HIDE DEF Single, Known
  <1>1. bp \in [DwtSlots -> Entry]
    BY DEF TypeInv, TypeOK
  <1>2. bp'[k] = v /\ \A i \in DwtSlots : i # k => bp'[i] = bp[i]
    BY <1>1
  <1>3. \A b \in Single : b # a => InBpOnce(b)' \/ InFpOnce(b)'
    BY <1>0, OthersInBp DEF Placed, RecordedOnce
  <1>4. CASE Single' = Single \ {a} /\ Known' = Known \cup {a}
    <2>1. NoneStray'
      BY <1>2, <1>4 DEF Placed, NoneStray
    <2> QED
      BY <1>3, <1>4, <2>1 DEF Placed, RecordedOnce
  <1>5. CASE /\ bp[k] = None /\ v = a /\ a \notin Known
             /\ Single' = Single \cup {a} /\ Known' = Known \cup {a}
    <2>1. (\A i \in DwtSlots : bp[i] # a) /\ (\A i \in FpSlots : fp[i] # a)
      BY <1>0, <1>5 DEF Placed, NoneStray
    <2>2. NoneStray'
      BY <1>2, <1>5 DEF Placed, NoneStray
    <2>3. InBpOnce(a)'
      BY <1>2, <1>5, <2>1 DEF InBpOnce
    <2> QED
      BY <1>3, <1>5, <2>2, <2>3 DEF Placed, RecordedOnce
  <1>6. CASE /\ bp[k] = a /\ v = None /\ a \in Single
             /\ Single' = Single \ {a} /\ Known' = Known \ {a}
    <2>1. (\A i \in DwtSlots : bp[i] = a <=> i = k) /\ (\A i \in FpSlots : fp[i] # a)
      BY <1>6 DEF Placed, RecordedOnce, InBpOnce, InFpOnce
    <2>2. NoneStray'
      BY <1>0, <1>2, <1>6, <2>1 DEF Placed, NoneStray
    <2> QED
      BY <1>3, <1>6, <2>2 DEF Placed, RecordedOnce
  <1> QED
    BY <1>4, <1>5, <1>6

LEMMA PlacedStep ==
  TypeInv /\ Asked /\ Counted /\ Searched /\ Placed /\ [Next]_vars => Placed'
  <1> SUFFICES ASSUME TypeInv, Asked, Counted, Searched, Placed, [Next]_vars PROVE Placed'
    OBVIOUS
  <1>0. None \notin Addresses /\ held \subseteq Addresses
        /\ (cmd.op # "none" => cmd.addr \in Addresses)
    BY BreakpointsAssumption DEF TypeInv, TypeOK
  <1>1. ASSUME NEW op \in {"Z", "z"}, NEW a \in Addresses, Command(op, a) PROVE Placed'
    <2>1. Recorded' = Recorded /\ twice' = twice /\ fp' = fp /\ bp' = bp
      BY <1>1 DEF Command, Recorded, Watching
    <2> QED
      BY <2>1, PlacedKept DEF Single, Known
  <1>2. ASSUME NEW op \in {"watch-pc", "watch-off"}, NEW a \in Addresses, ConsoleWatch(op, a)
        PROVE Placed'
    <2>1. Recorded' = Recorded /\ twice' = twice /\ fp' = fp /\ bp' = bp
      BY <1>2 DEF ConsoleWatch, Recorded, Watching
    <2> QED
      BY <2>1, PlacedKept DEF Single, Known
  <1>3. ASSUME CountFpb PROVE Placed'
    <2>1. Recorded' = Recorded /\ twice' = twice /\ fp' = fp /\ bp' = bp
      BY <1>3 DEF CountFpb, Recorded, Watching, Asked
    <2> QED
      BY <2>1, PlacedKept DEF Single, Known
  <1>4. ASSUME CountFpbFails PROVE Placed'
    <2>1. Recorded' = Recorded /\ twice' = twice /\ fp' = fp /\ bp' = bp
      BY <1>4 DEF CountFpbFails, Recorded, Watching, Asked
    <2> QED
      BY <2>1, PlacedKept DEF Single, Known
  <1>5. ASSUME FpbPass PROVE Placed'
    <2>1. Recorded' = Recorded /\ twice' = twice /\ fp' = fp /\ bp' = bp
      BY <1>5 DEF FpbPass, Recorded, Watching, Asked
    <2> QED
      BY <2>1, PlacedKept DEF Single, Known
  <1>6. ASSUME CountDwt PROVE Placed'
    <2>1. Recorded' = Recorded /\ twice' = twice /\ fp' = fp /\ bp' = bp
      BY <1>6 DEF CountDwt, Recorded, Watching, Asked
    <2> QED
      BY <2>1, PlacedKept DEF Single, Known
  <1>7. ASSUME CountDwtFails PROVE Placed'
    <2>1. Recorded' = Recorded /\ twice' = twice /\ fp' = fp /\ bp' = bp
      BY <1>7 DEF CountDwtFails, Answer, Recorded, Watching, Asked
    <2> QED
      BY <2>1, PlacedKept DEF Single, Known
  <1>8. ASSUME DwtFull PROVE Placed'
    <2>1. Recorded' = Recorded /\ twice' = twice /\ fp' = fp /\ bp' = bp
      BY <1>8 DEF DwtFull, Answer, Recorded, Watching, Asked
    <2> QED
      BY <2>1, PlacedKept DEF Single, Known
  <1>9. ASSUME WatchRefused PROVE Placed'
    <2>1. Recorded' = Recorded /\ twice' = twice /\ fp' = fp /\ bp' = bp
      BY <1>9 DEF WatchRefused, Answer, Recorded, Watching, Asked
    <2> QED
      BY <2>1, PlacedKept DEF Single, Known
  <1>10. ASSUME WatchOff PROVE Placed'
    <2>1. Recorded' = Recorded /\ twice' = twice /\ fp' = fp /\ bp' = bp
      BY <1>10 DEF WatchOff, After, Answer, Enabling, Recorded, Watching, Asked
    <2> QED
      BY <2>1, PlacedKept DEF Single, Known
  <1>11. ASSUME WatchComp PROVE Placed'
    <2>1. Recorded' = Recorded /\ twice' = twice /\ fp' = fp /\ bp' = bp
      BY <1>11 DEF WatchComp, Recorded, Watching, Asked
    <2> QED
      BY <2>1, PlacedKept DEF Single, Known
  <1>12. ASSUME WatchOn PROVE Placed'
    <2>1. Recorded' = Recorded /\ twice' = twice /\ fp' = fp /\ bp' = bp
      BY <1>12 DEF WatchOn, Answer, Enabling, Recorded, Watching, Asked
    <2> QED
      BY <2>1, PlacedKept DEF Single, Known
  <1>13. ASSUME LinkDown \/ LinkUp PROVE Placed'
    <2>1. Recorded' = Recorded /\ twice' = twice /\ fp' = fp /\ bp' = bp
      BY <1>13 DEF LinkDown, LinkUp, Recorded, Watching, Asked
    <2> QED
      BY <2>1, PlacedKept DEF Single, Known
  <1>14. ASSUME PowerCycle PROVE Placed'
    <2>1. Recorded' = Recorded /\ twice' = twice /\ fp' = fp /\ bp' = bp
      BY <1>14 DEF PowerCycle, Recorded, Watching, Asked
    <2> QED
      BY <2>1, PlacedKept DEF Single, Known
  <1>15. ASSUME FpbKnown PROVE Placed'
    <2>1. cmd.addr \in held \cup twice
      BY <1>0, <1>15 DEF FpbKnown, FpWith, Placed, NoneStray, Known, Recorded, Watching, Adding
    <2>2. Recorded = held /\ Recorded' = held \cup {cmd.addr} /\ twice' = twice
      BY <1>15 DEF FpbKnown, Answer, Adding, Recorded, Watching
    <2>3. Single' = Single /\ Known' = Known
      BY <2>1, <2>2 DEF Single, Known
    <2> QED
      BY <1>15, <2>3, PlacedKept DEF FpbKnown
  <1>16. ASSUME DwtKnown PROVE Placed'
    <2>1. cmd.addr \in held \cup twice
      BY <1>0, <1>16 DEF DwtKnown, BpWith, Placed, NoneStray, Known, Recorded, Watching, Adding
    <2>2. Recorded = held /\ Recorded' = held \cup {cmd.addr} /\ twice' = twice
      BY <1>16 DEF DwtKnown, Answer, Adding, Recorded, Watching
    <2>3. Single' = Single /\ Known' = Known
      BY <2>1, <2>2 DEF Single, Known
    <2> QED
      BY <1>16, <2>3, PlacedKept DEF DwtKnown
  <1>17. ASSUME DwtNotSet PROVE Placed'
    <2>1. cmd.op = "z" /\ stage = "dwtFind" /\ maxbp = Dwts
      BY <1>17 DEF DwtNotSet, Adding, Asked, Searching, Counted
    <2>2. \A i \in DwtSlots : bp[i] # cmd.addr
      BY <1>17, <2>1, BreakpointsAssumption DEF DwtNotSet, BpWith, DwtSlots
    <2>3. /\ Recorded = held /\ Recorded' = held \ {cmd.addr} /\ fp' = fp /\ bp' = bp
          /\ twice' = twice \cup PassedOver
      BY <1>17, <2>1 DEF DwtNotSet, Answer, Recorded, Watching
    <2>4. CASE PassedOver = {cmd.addr}
      <3>1. Single' \subseteq Single /\ Known \subseteq Known'
        BY <2>3, <2>4 DEF Single, Known
      <3> QED
        BY <2>3, <3>1, PlacedKept
    <2>5. CASE PassedOver = {} /\ \A i \in FpSlots : fp[i] # cmd.addr
      <3>1. Single' \subseteq Single /\ Known \subseteq Known' \cup {cmd.addr}
        BY <2>3, <2>5 DEF Single, Known
      <3> HIDE DEF Single, Known
      <3>2. NoneStray'
        BY <2>2, <2>3, <2>5, <3>1 DEF Placed, NoneStray
      <3>3. RecordedOnce'
        BY <2>3, <3>1 DEF Placed, RecordedOnce, InFpOnce, InBpOnce
      <3> QED
        BY <3>2, <3>3 DEF Placed
    <2> QED
      BY <1>0, <2>1, <2>4, <2>5, LookedAt
  <1>18. ASSUME FpbClear PROVE Placed'
    <2>1. PICK i \in FpSlots : fp[i] = cmd.addr /\ fp' = [fp EXCEPT ![i] = None]
      BY <1>18 DEF FpbClear, IsFirst, FpWith, WriteFpb
    <2>2. /\ Recorded = held /\ Recorded' = held \ {cmd.addr} /\ bp' = bp /\ twice' = twice
          /\ cmd.addr \in Addresses
      BY <1>0, <1>18 DEF FpbClear, Answer, Recorded, Watching, Adding, Asked, Searching
    <2>3. cmd.addr \in Known
      BY <1>0, <2>1, <2>2 DEF Placed, NoneStray
    <2>4. \/ Single' = Single \ {cmd.addr} /\ Known' = Known \cup {cmd.addr}
          \/ cmd.addr \in Single /\ Single' = Single \ {cmd.addr} /\ Known' = Known \ {cmd.addr}
      BY <2>2, <2>3 DEF Single, Known
    <2> QED
      BY <2>1, <2>2, <2>4, PlacedFp
  <1>19. ASSUME FpbSet PROVE Placed'
    <2>1. PICK i \in FpSlots : fp[i] = None /\ fp' = [fp EXCEPT ![i] = cmd.addr]
      BY <1>19 DEF FpbSet, IsFirst, FpWith, WriteFpb
    <2>2. /\ Recorded = held /\ Recorded' = held \cup {cmd.addr} /\ bp' = bp
          /\ twice' = IF cmd.addr \in held THEN twice \cup {cmd.addr} ELSE twice
          /\ cmd.addr \in Addresses
      BY <1>0, <1>19 DEF FpbSet, Answer, Recorded, Watching, Adding
    <2>3. \/ Single' = Single \ {cmd.addr} /\ Known' = Known \cup {cmd.addr}
          \/ /\ cmd.addr \notin Known
             /\ Single' = Single \cup {cmd.addr} /\ Known' = Known \cup {cmd.addr}
      BY <2>2 DEF Single, Known
    <2> QED
      BY <2>1, <2>2, <2>3, PlacedFp
  <1>20. ASSUME DwtSet PROVE Placed'
    <2>1. PICK i \in DwtSlots : bp[i] = None /\ bp' = [bp EXCEPT ![i] = cmd.addr]
      BY <1>20 DEF DwtSet, DwtEnter, IsFirst, BpWith
    <2>2. /\ Recorded = held /\ Recorded' = held \cup {cmd.addr} /\ fp' = fp
          /\ twice' = twice \cup PassedOver
          /\ cmd.addr \in Addresses /\ stage = "dwtFind" /\ maxbp = Dwts
      BY <1>0, <1>20 DEF DwtSet, DwtEnter, Recorded, Watching, Adding, Counted
    <2>3. \A j \in DwtSlots : bp[j] # cmd.addr
      BY <1>20, <2>2, BreakpointsAssumption DEF DwtSet, BpWith, DwtSlots
    <2>4. \/ Single' = Single \ {cmd.addr} /\ Known' = Known \cup {cmd.addr}
          \/ /\ cmd.addr \notin Known
             /\ Single' = Single \cup {cmd.addr} /\ Known' = Known \cup {cmd.addr}
      <3>1. CASE PassedOver = {cmd.addr}
        BY <2>2, <3>1 DEF Single, Known
      <3>2. CASE PassedOver = {} /\ \A j \in FpSlots : fp[j] # cmd.addr
        <4>1. cmd.addr \notin Single
          BY <2>3, <3>2 DEF Placed, RecordedOnce, InFpOnce, InBpOnce
        <4> QED
          BY <2>2, <3>2, <4>1 DEF Single, Known
      <3> QED
        BY <1>0, <2>2, <3>1, <3>2, LookedAt
    <2> QED
      BY <2>1, <2>2, <2>4, PlacedBp
  <1>21. ASSUME DwtClear PROVE Placed'
    <2>1. PICK i \in DwtSlots : bp[i] = cmd.addr /\ bp' = [bp EXCEPT ![i] = None]
      BY <1>21 DEF DwtClear, DwtEnter, IsFirst, BpWith
    <2>2. /\ Recorded = held /\ Recorded' = held \ {cmd.addr} /\ fp' = fp /\ twice' = twice
          /\ cmd.addr \in Addresses
      BY <1>0, <1>21 DEF DwtClear, DwtEnter, Recorded, Watching, Adding, Asked, Searching
    <2>3. cmd.addr \in Known
      BY <1>0, <2>1, <2>2 DEF Placed, NoneStray
    <2>4. \/ Single' = Single \ {cmd.addr} /\ Known' = Known \cup {cmd.addr}
          \/ cmd.addr \in Single /\ Single' = Single \ {cmd.addr} /\ Known' = Known \ {cmd.addr}
      BY <2>2, <2>3 DEF Single, Known
    <2> QED
      BY <2>1, <2>2, <2>4, PlacedBp
  <1>22. ASSUME UNCHANGED vars PROVE Placed'
    BY <1>22, PlacedKept DEF vars, Recorded, Single, Known
  <1> QED
    BY <1>1, <1>2, <1>3, <1>4, <1>5, <1>6, <1>7, <1>8, <1>9, <1>10, <1>11, <1>12, <1>13, <1>14, <1>15, <1>16, <1>17, <1>18, <1>19, <1>20, <1>21, <1>22
       DEF Next, Flashpatch, Breakpoint, Watchpoint

LEMMA Invariance == Spec => []IInv
  <1>1. Init => IInv
    <2> SUFFICES ASSUME Init PROVE IInv
      OBVIOUS
    <2>1. TypeInv /\ Asked
      BY TypeInit, AskedInit
    <2>2. Counted /\ Searched
      BY DEF Init, Counted, Searched, NoCommand
    <2>3. Placed
      BY DEF Init, Placed, RecordedOnce, NoneStray, Single, Known, Recorded, Watching
    <2> QED
      BY <2>1, <2>2, <2>3 DEF IInv
  <1>2. IInv /\ [Next]_vars => IInv'
    BY TypeStep, AskedStep, CountedStep, SearchedStep, PlacedStep DEF IInv
  <1> QED
    BY <1>1, <1>2, PTL DEF Spec

\* Every breakpoint gdb was told is set is in exactly one entry of the two
\* tables, so that one z takes it out, but for those entered twice.
THEOREM SetOnce == Spec => []HeldOnce
  <1>1. IInv => HeldOnce
    BY DEF IInv, Placed, RecordedOnce, InFpOnce, InBpOnce, Single, Recorded, Watching, HeldOnce
  <1> QED
    BY <1>1, Invariance, PTL

\* And no entry holds an address gdb was told is not set, with that exception.
THEOREM NothingStray == Spec => []NoStray
  <1>1. IInv => NoStray
    BY DEF IInv, Placed, NoneStray, Known, Recorded, Watching, NoStray
  <1> QED
    BY <1>1, Invariance, PTL
=============================================================================
