--------------------------- MODULE DspProgramProofs ---------------------------
(***************************************************************************)
(* The flash sectors, the two writers and the resets implement a store of  *)
(* whole programs, for every number of sectors and every set of programs.  *)
(* What carries the proof is that a sector shows who has written it since  *)
(* its erase: the program the store holds can only be replaced through a   *)
(* sector that holds nothing, or the programs of two writers at once.      *)
(*                                                                         *)
(* The second part is about what SigmaStudio downloads: the capture, and   *)
(* the program stored of it, replays to the registers of the chip.  A      *)
(* frame that lengthens the last region is, to a replay, one more write.   *)
(***************************************************************************)
EXTENDS DspProgram, WellFoundedInduction, NaturalsInduction, SequenceTheorems, TLAPS

\* The program sectors f hold.
Held(f) ==
    LET whole == {p \in f[1] : \A s \in Sectors : f[s] = {p}} \ {Torn}
        fits  == {p \in whole : /\ Len(p) \in 1..MaxRegions
                                /\ \A i \in DOMAIN p : Len(p[i].data) \in 1..MaxPayload}
    IN  IF fits = {} THEN NoProgram ELSE CHOOSE p \in fits : TRUE

Offers == {job[w].prog : w \in {v \in Writers : Busy(v)}}

\* A call of storeBlob is a record of its four locals.
Shaped(j) == j \in [step : {"idle", "erase", "write"}, sector : Nat, prog : {j.prog},
                    alone : BOOLEAN]

IInv ==
    /\ flash = [s \in Sectors |-> flash[s]]
    /\ job = [w \in Writers |-> job[w]] /\ \A w \in Writers : Shaped(job[w])
    /\ power = "booting" => booted = NoProgram

\* A store that holds a program holds it in every sector.
LEMMA HeldEverywhere ==
    ASSUME NEW f, NEW s \in Sectors, Held(f) # NoProgram
    PROVE  f[s] = {Held(f)} /\ Held(f) # Torn
BY DEF Held

LEMMA ParsedIsHeld == Parsed = Held(flash) /\ Parsed' = Held(flash')
BY DEF Parsed, Held

\* One sector changes: it loses what it held, or gets one more piece.
LEMMA SectorStep ==
    ASSUME NEW f, f = [s \in Sectors |-> f[s]], NEW n, NEW c,
           NEW g, g = [f EXCEPT ![n] = c]
    PROVE  /\ c \in {{}, f[n], f[n] \cup {Torn}} => Held(g) \in {Held(f), NoProgram}
           /\ \A p : c = f[n] \cup {p} =>
                 \/ Held(g) \in {Held(f), NoProgram}
                 \/ Held(f) = NoProgram /\ Held(g) = p
<1>1. CASE n \notin Sectors
  <2>1. g = f
    BY <1>1
  <2> QED
    BY <2>1
<1>2. CASE n \in Sectors
  <2>1. g[n] = c /\ (c = f[n] => g = f)
    BY <1>2
  <2>2. Held(g) # NoProgram => c = {Held(g)} /\ Held(g) # Torn
    BY <1>2, <2>1, HeldEverywhere
  <2>3. Held(f) # NoProgram => f[n] = {Held(f)}
    BY <1>2, HeldEverywhere
  <2>4. c \in {{}, f[n], f[n] \cup {Torn}} => Held(g) \in {Held(f), NoProgram}
    BY <2>1, <2>2
  <2>5. ASSUME NEW p, c = f[n] \cup {p}, Held(g) # NoProgram, Held(g) # Held(f)
        PROVE  Held(f) = NoProgram /\ Held(g) = p
    BY <2>1, <2>2, <2>3, <2>5
  <2> QED
    BY <2>4, <2>5
<1> QED
  BY <1>1, <1>2

LEMMA InitHolds == Init => IInv /\ Store!Init
<1> SUFFICES ASSUME Init PROVE IInv /\ Store!Init
  OBVIOUS
<1>1. IInv
  BY DEF Init, IInv, Idle, Shaped
<1>2. flash[1] = {}
  BY DspProgramAssumption DEF Init
<1>3. Parsed = NoProgram
  BY <1>2 DEF Parsed
<1>4. \A w \in Writers : ~Busy(w)
  BY DEF Init, Busy, Idle
<1> QED
  BY <1>1, <1>3, <1>4 DEF Init, Store!Init

\* The call that w is left with is a call again, with the same program.
LEMMA CallStep ==
    ASSUME IInv, NEW w \in Writers, StoreStep(w)
    PROVE  \E j : /\ Shaped(j) /\ job' = [job EXCEPT ![w] = j]
                  /\ j.step # "idle" => j.prog = job[w].prog
<1>1. Shaped(job[w]) /\ Shaped(Idle) /\ Idle.step = "idle"
  BY DEF IInv, Shaped, Idle
<1>2. ASSUME NEW P, NEW j \in [step : {"idle", "erase", "write"}, sector : Nat, prog : P, alone : BOOLEAN]
      PROVE  /\ NextSector(j).prog = j.prog /\ Shaped(NextSector(j))
             /\ [j EXCEPT !.step = "write", !.sector = 1].prog = j.prog
             /\ Shaped([j EXCEPT !.step = "write", !.sector = 1])
  <2>1. NextSector(j) \in [step : {"idle", "erase", "write"}, sector : Nat, prog : P, alone : BOOLEAN]
        /\ NextSector(j).prog = j.prog
    BY DEF NextSector
  <2>2. [j EXCEPT !.step = "write", !.sector = 1]
           \in [step : {"idle", "erase", "write"}, sector : Nat, prog : P, alone : BOOLEAN]
        /\ [j EXCEPT !.step = "write", !.sector = 1].prog = j.prog
    OBVIOUS
  <2> QED
    BY <2>1, <2>2 DEF Shaped
<1>3. \/ job' = [job EXCEPT ![w] = Idle]
      \/ job' = [job EXCEPT ![w] = NextSector(job[w])]
      \/ job' = [job EXCEPT ![w] = [job[w] EXCEPT !.step = "write", !.sector = 1]]
  BY DEF StoreStep, Erase, Write, StoreFails
<1>4. job[w] \in [step : {"idle", "erase", "write"}, sector : Nat, prog : {job[w].prog},
                  alone : BOOLEAN]
  BY <1>1 DEF Shaped
<1>5. /\ Shaped(NextSector(job[w])) /\ NextSector(job[w]).prog = job[w].prog
      /\ Shaped([job[w] EXCEPT !.step = "write", !.sector = 1])
      /\ [job[w] EXCEPT !.step = "write", !.sector = 1].prog = job[w].prog
  BY <1>2, <1>4
<1> QED
  BY <1>1, <1>3, <1>5

\* The shape of the calls survives.
LEMMA ShapeKept ==
    ASSUME IInv, Next
    PROVE  /\ flash' = [s \in Sectors |-> flash'[s]]
           /\ job' = [w \in Writers |-> job'[w]] /\ \A w \in Writers : Shaped(job'[w])
<1>1. CASE UNCHANGED <<flash, job>>
  BY <1>1 DEF IInv
<1>2. ASSUME NEW w, NEW prog, Begin(w, prog), UNCHANGED flash
      PROVE  /\ flash' = [s \in Sectors |-> flash'[s]]
             /\ job' = [v \in Writers |-> job'[v]] /\ \A v \in Writers : Shaped(job'[v])
  BY <1>2 DEF IInv, Begin, Shaped
<1>3. ASSUME NEW w \in Writers, StoreStep(w)
      PROVE  /\ flash' = [s \in Sectors |-> flash'[s]]
             /\ job' = [v \in Writers |-> job'[v]] /\ \A v \in Writers : Shaped(job'[v])
  <2>1. PICK j : Shaped(j) /\ job' = [job EXCEPT ![w] = j]
    BY <1>3, CallStep
  <2>2. /\ job' = [v \in Writers |-> job'[v]]
        /\ \A v \in Writers : job'[v] = IF v = w THEN j ELSE job[v]
    BY <2>1 DEF IInv
  <2>3. PICK n, c : flash' = [flash EXCEPT ![n] = c]
    BY <1>3 DEF StoreStep, Erase, Write, StoreFails
  <2>4. flash' = [s \in Sectors |-> flash'[s]]
    BY <2>3 DEF IInv
  <2> QED
    BY <2>1, <2>2, <2>4 DEF IInv
<1>4. ASSUME Reset
      PROVE  /\ flash' = [s \in Sectors |-> flash'[s]]
             /\ job' = [v \in Writers |-> job'[v]] /\ \A v \in Writers : Shaped(job'[v])
  BY <1>4 DEF Reset, Shaped, Idle
<1>5. CASE Boot \/ BootFails \/ Connect \/ Disconnect \/ ScheduleReboot
  BY <1>1, <1>5 DEF Boot, BootFails, Connect, Disconnect, ScheduleReboot
<1>6. CASE Frame \/ Post
  <2>1. UNCHANGED flash /\ (UNCHANGED job \/ \E w, prog : Begin(w, prog))
    BY <1>6 DEF Frame, DirectFrame, SafeloadFrame, Post
  <2> QED
    BY <1>1, <1>2, <2>1
<1>7. CASE Restart \/ PowerCycle
  BY <1>4, <1>7 DEF Restart, PowerCycle
<1> QED
  BY <1>3, <1>5, <1>6, <1>7 DEF Next

LEMMA Inductive ==
    ASSUME IInv, [Next]_vars
    PROVE  IInv'
<1>1. CASE UNCHANGED vars
  BY <1>1 DEF vars, IInv, Shaped
<1>2. CASE Next
  <2>1. power' = "booting" => booted' = NoProgram
    BY <1>2 DEF IInv, Next, Boot, BootFails, Connect, Disconnect, Frame, Post, StoreStep, Erase,
                Write, StoreFails, ScheduleReboot, Restart, PowerCycle, Reset
  <2> QED
    BY <1>2, <2>1, ShapeKept DEF IInv
<1> QED
  BY <1>1, <1>2

\* A step that leaves the flash and the last start alone.
LEMMA WritersStep ==
    ASSUME UNCHANGED <<flash, booted>>
    PROVE  [Store!Next]_<<Parsed, Offers, booted>>
<1>1. Parsed' = Parsed
  BY ParsedIsHeld
<1> QED
  BY <1>1 DEF Store!Next, Store!Offer, Offers

\* A step of one writer on its sector: the program it leaves behind is the
\* one that was there, none, or the one it writes into an empty store.
LEMMA StoreStepMaps ==
    ASSUME IInv, NEW w \in Writers, StoreStep(w)
    PROVE  [Store!Next]_<<Parsed, Offers, booted>>
<1>1. booted' = booted /\ Busy(w)
  BY DEF StoreStep, Erase, Write, StoreFails, Busy
<1>2. Offers' \subseteq Offers
  <2>1. ASSUME NEW v \in Writers, Busy(v)' PROVE Busy(v) /\ job'[v].prog = job[v].prog
    <3>1. PICK j : /\ job' = [job EXCEPT ![w] = j]
                   /\ j.step # "idle" => j.prog = job[w].prog
      BY CallStep
    <3>2. job'[v] = IF v = w THEN j ELSE job[v]
      BY <3>1 DEF IInv
    <3> QED
      BY <1>1, <2>1, <3>1, <3>2 DEF Busy
  <2> QED
    BY <2>1 DEF Offers
<1>3. /\ Parsed = Held(flash) /\ Parsed' = Held(flash')
      /\ flash = [s \in Sectors |-> flash[s]]
  BY ParsedIsHeld DEF IInv
<1>4. Parsed' \in {Parsed, NoProgram} \/ (Parsed = NoProgram /\ Parsed' = job[w].prog)
  <2>1. CASE Erase(w)
    <3>1. flash' = [flash EXCEPT ![job[w].sector] = {}]
      BY <2>1 DEF Erase
    <3> QED
      BY <1>3, <3>1, SectorStep
  <2>2. CASE Write(w)
    <3>1. PICK n, c : flash' = [flash EXCEPT ![n] = c] /\ c = flash[n] \cup {job[w].prog}
      BY <2>2 DEF Write
    <3>2. \A p : c = flash[n] \cup {p} =>
                \/ Held(flash') \in {Held(flash), NoProgram}
                \/ Held(flash) = NoProgram /\ Held(flash') = p
      BY <1>3, <3>1, SectorStep
    <3> QED
      BY <1>3, <3>1, <3>2
  <2>3. CASE StoreFails(w)
    <3>1. PICK left \in {flash[job[w].sector], flash[job[w].sector] \cup {Torn}} :
             flash' = [flash EXCEPT ![job[w].sector] = left]
      BY <2>3 DEF StoreFails
    <3>2. left \in {{}, flash[job[w].sector], flash[job[w].sector] \cup {Torn}}
      BY <3>1
    <3>3. Held(flash') \in {Held(flash), NoProgram}
      BY <1>3, <3>1, <3>2, SectorStep
    <3> QED
      BY <1>3, <3>3
  <2> QED
    BY <2>1, <2>2, <2>3 DEF StoreStep
<1>5. job[w].prog \in Offers
  BY <1>1 DEF Offers
<1> QED
  BY <1>1, <1>2, <1>4, <1>5 DEF Store!Next, Store!Offer, Store!Drop, Store!Put, Offers

\* A reset takes the writers away and may cost the program.
LEMMA ResetMaps ==
    ASSUME IInv, Reset
    PROVE  [Store!Next]_<<Parsed, Offers, booted>>
<1>1. Offers' = {} /\ booted' = NoProgram
  BY DEF Reset, Offers, Busy, Idle
<1>2. PICK torn : flash' = [s \in Sectors |-> IF s \in torn THEN flash[s] \cup {Torn} ELSE flash[s]]
  BY DEF Reset
<1>3. Parsed' \in {Parsed, NoProgram}
  <2>1. CASE Sectors \cap torn = {}
    <3>1. flash' = flash
      BY <1>2, <2>1 DEF IInv
    <3> QED
      BY <3>1, ParsedIsHeld
  <2>2. CASE Sectors \cap torn # {}
    <3>1. PICK s \in Sectors : s \in torn
      BY <2>2
    <3>2. Torn \in flash'[s]
      BY <1>2, <3>1
    <3>3. Held(flash') = NoProgram
      BY <3>2, HeldEverywhere
    <3> QED
      BY <3>3, ParsedIsHeld
  <2> QED
    BY <2>1, <2>2
<1> QED
  BY <1>1, <1>3 DEF Store!Next, Store!Drop, Store!Stop, Offers

\* A start takes the program the store holds, or the embedded one.
LEMMA BootMaps ==
    ASSUME IInv, Boot
    PROVE  [Store!Next]_<<Parsed, Offers, booted>>
<1>1. UNCHANGED <<flash, job>> /\ booted = NoProgram
  BY DEF Boot, IInv
<1>2. Parsed' = Parsed
  BY <1>1, ParsedIsHeld
<1>3. Offers' = Offers
  BY <1>1 DEF Offers, Busy
<1>4. booted' = Embedded \/ (booted' = Parsed /\ Parsed # NoProgram)
  BY DEF Boot
<1> QED
  BY <1>1, <1>2, <1>3, <1>4 DEF Store!Next, Store!Start, Offers

LEMMA StepMaps ==
    ASSUME IInv, [Next]_vars
    PROVE  [Store!Next]_<<Parsed, Offers, booted>>
<1>1. CASE UNCHANGED <<flash, booted>>
  BY <1>1, WritersStep
<1>2. CASE Boot
  BY <1>2, BootMaps
<1>3. CASE Restart \/ PowerCycle
  BY <1>3, ResetMaps DEF Restart, PowerCycle
<1>4. CASE \E w \in Writers : StoreStep(w)
  BY <1>4, StoreStepMaps
<1>5. CASE BootFails \/ Connect \/ Disconnect \/ Frame \/ Post \/ ScheduleReboot \/ UNCHANGED vars
  <2>1. UNCHANGED <<flash, booted>>
    BY <1>5 DEF BootFails, Connect, Disconnect, Frame, Post, ScheduleReboot, vars
  <2> QED
    BY <2>1, <1>1
<1> QED
  BY <1>2, <1>3, <1>4, <1>5 DEF Next

(* The partition is a store of whole programs: whatever SigmaStudio and    *)
(* the POST handler write at the same time, whatever fails and whenever    *)
(* the power goes, a start finds one of the programs that were handed over *)
(* or none, and none in between two of them.                               *)
THEOREM StoreIsWholeHolds == Spec => StoreIsWhole
<1>1. Init => IInv /\ Store!Init
  BY InitHolds
<1>2. IInv /\ [Next]_vars => IInv'
  BY Inductive
<1>3. IInv /\ [Next]_vars => [Store!Next]_<<Parsed, Offers, booted>>
  BY StepMaps
<1> QED
  BY <1>1, <1>2, <1>3, PTL DEF Spec, StoreIsWhole, Store!Spec, Offers

-----------------------------------------------------------------------------
(* What a replay leaves in the registers, by induction on the number of its *)
(* writes: the memories it goes through are a trace.                        *)

LEMMA Least ==
    ASSUME NEW S \in SUBSET Nat, S # {}
    PROVE  \E i \in S : \A j \in S : i <= j
<1> DEFINE R == OpToRel(<, Nat)
<1>1. IsWellFoundedOn(R, Nat)
  BY NatLessThanWellFounded
<1>2. \A x, y \in Nat : <<x, y>> \in R <=> x < y
  BY DEF OpToRel
<1> HIDE DEF R
<1>3. PICK i \in S : \A j \in S : ~(<<j, i>> \in R)
  BY <1>1, WFMin
<1>4. ASSUME NEW j \in S PROVE i <= j
  <2>1. i \in Nat /\ j \in Nat /\ ~(j < i)
    BY <1>2, <1>3
  <2> QED
    BY <2>1
<1> QED
  BY <1>4

\* A set of numbers with 0 and the successor of each member has them all.
LEMMA Counting ==
    ASSUME NEW S, 0 \in S, NEW N \in Nat, \A n \in 0..(N - 1) : n \in S => n + 1 \in S
    PROVE  \A n \in 0..N : n \in S
<1> SUFFICES ASSUME (0..N) \ S # {} PROVE FALSE
  OBVIOUS
<1> DEFINE M == (0..N) \ S
<1>0. M \in SUBSET Nat /\ M # {}
  OBVIOUS
<1>1. PICK i \in M : \A j \in M : i <= j
  <2> HIDE DEF M
  <2> QED
    BY <1>0, Least
<1>2. i # 0 /\ i - 1 \in 0..(N - 1)
  BY <1>1
<1>3. i - 1 \in S
  BY <1>1, <1>2
<1>4. (i - 1) + 1 = i
  BY <1>1
<1> QED
  BY <1>1, <1>2, <1>3, <1>4

\* The memories g that n writes of prog go through from mem on.
Trace(mem, prog, n, g) ==
    g = [i \in 0..n |-> IF i = 0 THEN mem
                        ELSE Written(g[i - 1], prog[i].addr, prog[i].data)]

LEMMA TraceSteps ==
    ASSUME NEW mem, NEW prog, NEW n \in Nat, NEW g, Trace(mem, prog, n, g)
    PROVE  /\ g[0] = mem
           /\ \A i \in 0..(n - 1) :
                 g[i + 1] = Written(g[i], prog[i + 1].addr, prog[i + 1].data)
<1>1. \A i \in 0..n : g[i] = IF i = 0 THEN mem
                             ELSE Written(g[i - 1], prog[i].addr, prog[i].data)
  BY DEF Trace
<1>2. \A i \in 0..(n - 1) : i + 1 \in 0..n /\ i + 1 # 0 /\ (i + 1) - 1 = i
  OBVIOUS
<1> QED
  BY <1>1, <1>2

LEMMA TraceExists ==
    ASSUME NEW mem, NEW prog, NEW N \in Nat
    PROVE  \E g : Trace(mem, prog, N, g)
<1> DEFINE S == {n \in Nat : \E g : Trace(mem, prog, n, g)}
<1>1. 0 \in S
  <2>1. Trace(mem, prog, 0, [i \in 0..0 |-> mem])
    BY DEF Trace
  <2> QED
    BY <2>1
<1>2. ASSUME NEW n \in 0..(N - 1), n \in S PROVE n + 1 \in S
  <2>1. PICK g : Trace(mem, prog, n, g)
    BY <1>2
  <2> DEFINE h == [i \in 0..(n + 1) |-> IF i = n + 1
                        THEN Written(g[n], prog[n + 1].addr, prog[n + 1].data) ELSE g[i]]
  <2>2. g = [i \in 0..n |-> IF i = 0 THEN mem
                            ELSE Written(g[i - 1], prog[i].addr, prog[i].data)]
    BY <2>1 DEF Trace
  <2>3. ASSUME NEW i \in 0..(n + 1)
        PROVE  h[i] = IF i = 0 THEN mem ELSE Written(h[i - 1], prog[i].addr, prog[i].data)
    <3>1. CASE i = 0
      BY <2>2, <3>1
    <3>2. CASE i # 0 /\ i # n + 1
      <4>1. i \in 0..n /\ i - 1 \in 0..n /\ i - 1 # n + 1 /\ i - 1 \in 0..(n + 1)
        BY <3>2
      <4>2. g[i] = Written(g[i - 1], prog[i].addr, prog[i].data)
        BY <2>2, <3>2, <4>1
      <4> QED
        BY <3>2, <4>1, <4>2
    <3>3. CASE i = n + 1
      <4>1. i - 1 = n /\ n # n + 1 /\ n \in 0..(n + 1) /\ i # 0
        BY <3>3
      <4> QED
        BY <3>3, <4>1
    <3> QED
      BY <3>1, <3>2, <3>3
  <2>4. h = [i \in 0..(n + 1) |-> h[i]]
    OBVIOUS
  <2> HIDE DEF h
  <2>5. Trace(mem, prog, n + 1, h)
    BY <2>3, <2>4 DEF Trace
  <2> QED
    BY <2>5
<1>3. N \in S
  <2> HIDE DEF S
  <2> QED
    BY <1>1, <1>2, Counting
<1> QED
  BY <1>3

\* Two replays that make the same writes go through the same memories.
LEMMA TracesAgree ==
    ASSUME NEW mem, NEW prog, NEW other, NEW n \in Nat, NEW k \in Nat, NEW g, NEW h,
           Trace(mem, prog, n, g), Trace(mem, other, k, h),
           NEW N \in Nat, N <= n, N <= k, \A i \in 1..N : prog[i] = other[i]
    PROVE  g[N] = h[N]
<1> DEFINE S == {i \in Nat : g[i] = h[i]}
<1>0. /\ \A i \in 0..(n - 1) : g[i + 1] = Written(g[i], prog[i + 1].addr, prog[i + 1].data)
      /\ \A i \in 0..(k - 1) : h[i + 1] = Written(h[i], other[i + 1].addr, other[i + 1].data)
  BY TraceSteps
<1>1. 0 \in S
  BY TraceSteps
<1>2. ASSUME NEW i \in 0..(N - 1), i \in S PROVE i + 1 \in S
  <2>1. g[i] = h[i] /\ i \in 0..(n - 1) /\ i \in 0..(k - 1) /\ i + 1 \in 1..N
    BY <1>2
  <2>2. /\ g[i + 1] = Written(g[i], prog[i + 1].addr, prog[i + 1].data)
        /\ h[i + 1] = Written(h[i], other[i + 1].addr, other[i + 1].data)
    BY <1>0, <2>1
  <2> QED
    BY <2>1, <2>2
<1>3. N \in S
  <2> HIDE DEF S
  <2> QED
    BY <1>1, <1>2, Counting
<1> QED
  BY <1>3

LEMMA ReplayedIs ==
    ASSUME NEW mem, NEW prog, NEW n \in Nat
    PROVE  \E g : Trace(mem, prog, n, g) /\ Replayed(mem, prog, n) = g[n]
<1> DEFINE g == CHOOSE g : Trace(mem, prog, n, g)
<1>1. Trace(mem, prog, n, g)
  BY TraceExists
<1>2. Replayed(mem, prog, n) = g[n]
  BY DEF Replayed, Trace
<1> QED
  BY <1>1, <1>2

LEMMA ReplayedSame ==
    ASSUME NEW mem, NEW prog, NEW other, NEW n \in Nat, \A i \in 1..n : prog[i] = other[i]
    PROVE  Replayed(mem, prog, n) = Replayed(mem, other, n)
<1>1. PICK g : Trace(mem, prog, n, g) /\ Replayed(mem, prog, n) = g[n]
  BY ReplayedIs
<1>2. PICK h : Trace(mem, other, n, h) /\ Replayed(mem, other, n) = h[n]
  BY ReplayedIs
<1>3. g[n] = h[n]
  BY <1>1, <1>2, TracesAgree
<1> QED
  BY <1>1, <1>2, <1>3

LEMMA ReplayedNext ==
    ASSUME NEW mem, NEW prog, NEW n \in Nat
    PROVE  Replayed(mem, prog, n + 1)
              = Written(Replayed(mem, prog, n), prog[n + 1].addr, prog[n + 1].data)
<1>1. PICK g : Trace(mem, prog, n, g) /\ Replayed(mem, prog, n) = g[n]
  BY ReplayedIs
<1>2. PICK h : Trace(mem, prog, n + 1, h) /\ Replayed(mem, prog, n + 1) = h[n + 1]
  BY ReplayedIs
<1>3. g[n] = h[n]
  BY <1>1, <1>2, TracesAgree
<1>4. h[n + 1] = Written(h[n], prog[n + 1].addr, prog[n + 1].data)
  BY <1>2, TraceSteps
<1> QED
  BY <1>1, <1>2, <1>3, <1>4

\* Two writes, the second where the first ends, are one.
LEMMA WrittenTogether ==
    ASSUME NEW mem, NEW addr \in Nat, NEW first \in Seq(Words), NEW second \in Seq(Words)
    PROVE  Written(Written(mem, addr, first), addr + Len(first), second)
              = Written(mem, addr, first \o second)
<1> DEFINE m == Len(first)
           n == Len(second)
<1>1. /\ m \in Nat /\ n \in Nat /\ DOMAIN first = 1..m /\ DOMAIN second = 1..n
      /\ DOMAIN (first \o second) = 1..(m + n)
      /\ \A i \in 1..(m + n) : (first \o second)[i] = IF i <= m THEN first[i] ELSE second[i - m]
  OBVIOUS
<1>2. ASSUME NEW c \in Cells
      PROVE  Written(Written(mem, addr, first), addr + m, second)[c]
                = Written(mem, addr, first \o second)[c]
  <2>1. c \in Nat
    BY DspProgramAssumption
  <2>2. c - (addr + m) + 1 = (c - addr + 1) - m
    BY <1>1, <2>1
  <2>3. Written(mem, addr, first)[c] = IF c - addr + 1 \in 1..m THEN first[c - addr + 1] ELSE mem[c]
    BY <1>1 DEF Written
  <2>4. Written(mem, addr, first \o second)[c]
           = IF c - addr + 1 \in 1..(m + n) THEN (first \o second)[c - addr + 1] ELSE mem[c]
    BY <1>1 DEF Written
  <2>5. Written(Written(mem, addr, first), addr + m, second)[c]
           = IF (c - addr + 1) - m \in 1..n THEN second[(c - addr + 1) - m]
             ELSE Written(mem, addr, first)[c]
    BY <1>1, <2>2 DEF Written
  <2> DEFINE p == c - addr + 1
  <2>6. p \in Int
    BY <2>1
  <2> HIDE DEF p, m, n
  <2>7. CASE p \in 1..m
    BY <1>1, <2>3, <2>4, <2>5, <2>6, <2>7 DEF p
  <2>8. CASE p \notin 1..m
    BY <1>1, <2>3, <2>4, <2>5, <2>6, <2>8 DEF p
  <2> QED
    BY <2>7, <2>8
<1> QED
  BY <1>2 DEF Written

-----------------------------------------------------------------------------
(* What SigmaStudio stores is what the chip runs.                           *)

\* A connection as serveClient keeps it.
Connections == [open : BOOLEAN, regions : Seq(Regions), overflowed : BOOLEAN, running : BOOLEAN]

\* While the radio is not running there is no connection and no download on
\* its way to the flash: a start may fill the registers as it likes.
DownloadInv ==
    /\ link \in Connections
    /\ captured \subseteq Cells
    /\ power # "running" => ~link.open /\ ~Busy("sigma")
    /\ PersistedIsWhatRan

\* prog puts the registers cells to what mem has.
Restores(prog, cells, mem) ==
    \A c \in cells : Replayed([d \in Cells |-> Undefined], prog, Len(prog))[c] = mem[c]

LEMMA RunIsRestored ==
    /\ PersistedIsWhatRan <=>
         /\ link.open /\ ~link.running /\ ~link.overflowed
               => Restores(link.regions, captured, chip)
         /\ Busy("sigma") => Restores(job["sigma"].prog, captured, chip)
    /\ PersistedIsWhatRan' <=>
         /\ link'.open /\ ~link'.running /\ ~link'.overflowed
               => Restores(link'.regions, captured', chip')
         /\ Busy("sigma")' => Restores(job'["sigma"].prog, captured', chip')
BY DEF PersistedIsWhatRan, Restores

LEMMA Addresses ==
    /\ \A c \in Cells : c \in Int
    /\ \A frame \in Regions : /\ frame.addr \in Int
                              /\ \A i \in DOMAIN frame.data : i \in Int
<1>1. \A c \in Cells : c \in Int
  <2>1. Cells \subseteq Nat
    BY DspProgramAssumption
  <2> QED
    BY <2>1
<1>2. ASSUME NEW frame \in Regions
      PROVE  frame.addr \in Int /\ \A i \in DOMAIN frame.data : i \in Int
  <2>1. frame.addr \in Cells /\ frame.data \in Seq(Words)
    BY DEF Regions
  <2>2. DOMAIN frame.data = 1..Len(frame.data)
    BY <2>1
  <2> QED
    BY <1>1, <2>1, <2>2
<1> QED
  BY <1>1, <1>2

\* A download goes on: the frame lengthens the last region or is a new one.
LEMMA AddedIsWritten ==
    ASSUME NEW l \in Connections, NEW frame \in Regions,
           ~l.overflowed, ~AddWrite(l, frame).overflowed, NEW mem
    PROVE  Replayed(mem, AddWrite(l, frame).regions, Len(AddWrite(l, frame).regions))
              = Written(Replayed(mem, l.regions, Len(l.regions)), frame.addr, frame.data)
<1> DEFINE rs == l.regions
           n == Len(rs)
<1>1. /\ rs \in Seq(Regions) /\ n \in Nat /\ DOMAIN rs = 1..n
      /\ \A i \in 1..n : rs[i] \in Regions
  BY DEF Connections
<1>2. CASE n > 0 /\ Extends(rs[n], frame)
  <2> DEFINE k == n - 1
             longer == [rs EXCEPT ![n] = [rs[n] EXCEPT !.data = @ \o frame.data]]
  <2>1. AddWrite(l, frame).regions = longer
    BY <1>1, <1>2 DEF AddWrite, Connections
  <2>2. k \in Nat /\ k + 1 = n /\ n \in 1..n /\ rs[n] \in Regions
    BY <1>1, <1>2
  <2>3. /\ longer[n].addr = rs[n].addr /\ longer[n].data = rs[n].data \o frame.data
        /\ \A i \in 1..k : longer[i] = rs[i]
    BY <1>1, <2>2 DEF Regions
  <2>4. Len(longer) = n
    BY <1>1, <2>2
  <2> HIDE DEF longer
  <2>5. Replayed(mem, longer, k) = Replayed(mem, rs, k)
    BY <2>2, <2>3, ReplayedSame
  <2>6. /\ Replayed(mem, longer, n) = Written(Replayed(mem, longer, k), longer[n].addr, longer[n].data)
        /\ Replayed(mem, rs, n) = Written(Replayed(mem, rs, k), rs[n].addr, rs[n].data)
    BY <2>2, ReplayedNext
  <2>7. /\ rs[n].addr \in Nat /\ rs[n].data \in Seq(Words) /\ frame.data \in Seq(Words)
        /\ rs[n].addr + Len(rs[n].data) = frame.addr
    BY <1>2, <2>2, DspProgramAssumption DEF Regions, Extends
  <2>8. Written(Written(Replayed(mem, rs, k), rs[n].addr, rs[n].data), frame.addr, frame.data)
           = Written(Replayed(mem, rs, k), rs[n].addr, rs[n].data \o frame.data)
    BY <2>7, WrittenTogether
  <2> QED
    BY <2>1, <2>3, <2>4, <2>5, <2>6, <2>8
<1>3. CASE ~(n > 0 /\ Extends(rs[n], frame))
  <2>1. AddWrite(l, frame).regions = Append(rs, frame)
    BY <1>1, <1>3 DEF AddWrite, Connections
  <2>2. /\ Len(Append(rs, frame)) = n + 1 /\ Append(rs, frame)[n + 1] = frame
        /\ \A i \in 1..n : Append(rs, frame)[i] = rs[i]
    BY <1>1
  <2>3. Replayed(mem, Append(rs, frame), n) = Replayed(mem, rs, n)
    BY <1>1, <2>2, ReplayedSame
  <2>4. Replayed(mem, Append(rs, frame), n + 1)
           = Written(Replayed(mem, Append(rs, frame), n), frame.addr, frame.data)
    BY <1>1, <2>2, ReplayedNext
  <2> QED
    BY <2>1, <2>2, <2>3, <2>4
<1> QED
  BY <1>2, <1>3

LEMMA Abandoned ==
    ASSUME NEW B, NEW b \in B, NEW R, NEW r \in R,
           NEW c \in [open : B, regions : R, overflowed : B, running : B]
    PROVE  /\ [c EXCEPT !.overflowed = b, !.regions = r]
                 \in [open : B, regions : R, overflowed : B, running : B]
           /\ [c EXCEPT !.overflowed = b, !.regions = r].open = c.open
OBVIOUS

LEMMA Started ==
    ASSUME NEW B, NEW b \in B, NEW R,
           NEW c \in [open : B, regions : R, overflowed : B, running : B]
    PROVE  /\ [c EXCEPT !.running = b] \in [open : B, regions : R, overflowed : B, running : B]
           /\ [c EXCEPT !.running = b].open = c.open
           /\ [c EXCEPT !.running = b].regions = c.regions
           /\ [c EXCEPT !.running = b].overflowed = c.overflowed
           /\ [c EXCEPT !.running = b].running = b
OBVIOUS

LEMMA OpenedIsConnection ==
    Opened \in Connections /\ Closed \in Connections /\ ~Closed.open
<1>1. Closed \in Connections /\ ~Closed.open
  BY DEF Closed, Connections
<1>2. ASSUME NEW B, NEW b \in B, NEW R,
             NEW c \in [open : B, regions : R, overflowed : B, running : B]
      PROVE  [c EXCEPT !.open = b] \in [open : B, regions : R, overflowed : B, running : B]
  OBVIOUS
<1>3. \A b \in BOOLEAN : [Closed EXCEPT !.open = b] \in Connections
  BY <1>1, <1>2 DEF Connections
<1>4. [Closed EXCEPT !.open = TRUE] \in Connections
  BY <1>3
<1> QED
  BY <1>1, <1>4 DEF Opened

LEMMA AddedIsConnection ==
    ASSUME NEW l \in Connections, NEW frame \in Regions
    PROVE  AddWrite(l, frame) \in Connections /\ AddWrite(l, frame).open = l.open
<1> DEFINE rs == l.regions
           n == Len(rs)
<1>1. /\ rs \in Seq(Regions) /\ n \in Nat /\ DOMAIN rs = 1..n
      /\ \A i \in 1..n : rs[i] \in Regions
  BY DEF Connections
<1>2. CASE ~l.overflowed /\ n > 0 /\ Extends(rs[n], frame)
  <2> DEFINE region == [rs[n] EXCEPT !.data = @ \o frame.data]
             longer == [rs EXCEPT ![n] = region]
  <2>1. AddWrite(l, frame) = [l EXCEPT !.regions = longer]
    BY <1>1, <1>2 DEF AddWrite, Connections
  <2>2. rs[n] \in Regions
    BY <1>1, <1>2
  <2>3. rs[n].data \o frame.data \in Seq(Words)
    BY <2>2 DEF Regions
  <2>4. region \in Regions
    BY <2>2, <2>3 DEF Regions
  <2> HIDE DEF region
  <2>5. longer \in Seq(Regions)
    BY <1>1, <1>2, <2>4, ExceptSeq
  <2> HIDE DEF longer
  <2> QED
    BY <2>1, <2>5 DEF Connections
<1>3. CASE l.overflowed
  BY <1>3 DEF AddWrite
<1>4. CASE ~l.overflowed /\ ~(n > 0 /\ Extends(rs[n], frame)) /\ n >= MaxRegions
  <2>1. AddWrite(l, frame) = [l EXCEPT !.overflowed = TRUE, !.regions = <<>>]
    BY <1>4 DEF AddWrite
  <2> QED
    <3>1. \A r \in Seq(Regions), b \in BOOLEAN :
             /\ [l EXCEPT !.overflowed = b, !.regions = r] \in Connections
             /\ [l EXCEPT !.overflowed = b, !.regions = r].open = l.open
      BY Abandoned DEF Connections
    <3> DEFINE none == <<>>
               yes == TRUE
    <3>2. none \in Seq(Regions) /\ yes \in BOOLEAN
      OBVIOUS
    <3>3. AddWrite(l, frame) = [l EXCEPT !.overflowed = yes, !.regions = none]
      BY <2>1
    <3> HIDE DEF none, yes
    <3>4. /\ [l EXCEPT !.overflowed = yes, !.regions = none] \in Connections
          /\ [l EXCEPT !.overflowed = yes, !.regions = none].open = l.open
      BY <3>1, <3>2
    <3> DEFINE given == [l EXCEPT !.overflowed = yes, !.regions = none]
    <3>5. AddWrite(l, frame) = given /\ given \in Connections /\ given.open = l.open
      BY <3>3, <3>4
    <3> HIDE DEF given
    <3> QED
      BY <3>5
<1>5. CASE ~l.overflowed /\ ~(n > 0 /\ Extends(rs[n], frame)) /\ ~(n >= MaxRegions)
  <2>1. AddWrite(l, frame) = [l EXCEPT !.regions = Append(rs, frame)]
    BY <1>5 DEF AddWrite
  <2>2. Append(rs, frame) \in Seq(Regions)
    BY <1>1
  <2> QED
    BY <2>1, <2>2 DEF Connections
<1> QED
  BY <1>2, <1>3, <1>4, <1>5

LEMMA DownloadInit == Init => DownloadInv
<1> SUFFICES ASSUME Init PROVE DownloadInv
  OBVIOUS
<1>1. Closed \in Connections /\ ~Closed.open
  BY DEF Closed, Connections
<1>2. ~Busy("sigma")
  BY DEF Init, Busy, Idle, Writers
<1> QED
  BY <1>1, <1>2 DEF Init, DownloadInv, PersistedIsWhatRan

\* A frame that SigmaStudio writes reaches the chip or fails.
LEMMA Reaching ==
    ASSUME NEW frame \in Regions, NEW mem, NEW prog, NEW cells \in SUBSET Cells,
           Restores(prog, cells, mem), NEW longer,
           Replayed([d \in Cells |-> Undefined], longer, Len(longer))
              = Written(Replayed([d \in Cells |-> Undefined], prog, Len(prog)), frame.addr, frame.data)
    PROVE  LET hit == Cells \cap {frame.addr + i - 1 : i \in DOMAIN frame.data}
           IN  /\ Restores(longer, cells \cup hit, Written(mem, frame.addr, frame.data))
               /\ Restores(longer, cells \ hit, mem)
<1> DEFINE hit == Cells \cap {frame.addr + i - 1 : i \in DOMAIN frame.data}
           replay == Replayed([d \in Cells |-> Undefined], prog, Len(prog))
<1>1. \A c \in hit : c - frame.addr + 1 \in DOMAIN frame.data
  <2> SUFFICES ASSUME NEW i \in DOMAIN frame.data, frame.addr + i - 1 \in Cells
               PROVE  (frame.addr + i - 1) - frame.addr + 1 \in DOMAIN frame.data
    OBVIOUS
  <2>1. i \in Int /\ frame.addr \in Int
    BY Addresses
  <2>2. (frame.addr + i - 1) - frame.addr + 1 = i
    BY <2>1
  <2> QED
    BY <2>2
<1>2. \A c \in Cells : c - frame.addr + 1 \in DOMAIN frame.data => c \in hit
  <2> SUFFICES ASSUME NEW c \in Cells, c - frame.addr + 1 \in DOMAIN frame.data
               PROVE  \E i \in DOMAIN frame.data : c = frame.addr + i - 1
    OBVIOUS
  <2>1. c \in Int /\ frame.addr \in Int
    BY Addresses
  <2>2. c = frame.addr + (c - frame.addr + 1) - 1
    BY <2>1
  <2> QED
    BY <2>2
<1>3. \A any : \A c \in Cells : Written(any, frame.addr, frame.data)[c]
         = IF c - frame.addr + 1 \in DOMAIN frame.data THEN frame.data[c - frame.addr + 1] ELSE any[c]
  BY DEF Written
<1>4. \A c \in cells : replay[c] = mem[c]
  BY DEF Restores
<1> HIDE DEF hit, replay
<1>5. \A c \in cells \cup hit : Written(replay, frame.addr, frame.data)[c]
                                 = Written(mem, frame.addr, frame.data)[c]
  BY <1>1, <1>3, <1>4 DEF hit
<1>6. \A c \in cells \ hit : Written(replay, frame.addr, frame.data)[c] = mem[c]
  BY <1>2, <1>3, <1>4
<1> QED
  BY <1>5, <1>6 DEF Restores, hit, replay

\* Registers a safeload has changed, or that a lost write should have
\* changed, are no longer promised; the others are as before.
LEMMA Missing ==
    ASSUME NEW frame \in Regions, NEW mem, NEW prog, NEW cells \in SUBSET Cells,
           Restores(prog, cells, mem)
    PROVE  Restores(prog, cells \ {frame.addr + i - 1 : i \in DOMAIN frame.data},
                    Written(mem, frame.addr, frame.data))
<1>1. \A c \in Cells : c - frame.addr + 1 \in DOMAIN frame.data
                          => c \in {frame.addr + i - 1 : i \in DOMAIN frame.data}
  <2> SUFFICES ASSUME NEW c \in Cells, c - frame.addr + 1 \in DOMAIN frame.data
               PROVE  \E i \in DOMAIN frame.data : c = frame.addr + i - 1
    OBVIOUS
  <2>1. c \in Int /\ frame.addr \in Int
    BY Addresses
  <2>2. c = frame.addr + (c - frame.addr + 1) - 1
    BY <2>1
  <2> QED
    BY <2>2
<1>2. \A c \in Cells : c - frame.addr + 1 \notin DOMAIN frame.data
                          => Written(mem, frame.addr, frame.data)[c] = mem[c]
  BY DEF Written
<1> QED
  BY <1>1, <1>2 DEF Restores

\* A direct frame: the capture takes it, and becomes the program to store
\* when the run bit comes up.
LEMMA DirectKeeps ==
    ASSUME DownloadInv, link.open, ~Busy("sigma"), NEW frame \in Regions, NEW ok \in BOOLEAN,
           DirectFrame(frame, ok), UNCHANGED power
    PROVE  DownloadInv'
<1> DEFINE added == IF link.running THEN link ELSE AddWrite(link, frame)
           run   == RunBit(link, frame)
           ends  == ~link.running /\ run
           hit   == Cells \cap {frame.addr + i - 1 : i \in DOMAIN frame.data}
           keeps == ends /\ ~added.overflowed /\ added.regions # <<>>
           kept  == IF link.running /\ ~run THEN {} ELSE captured
           next  == [added EXCEPT !.running = run]
           stops == [Opened EXCEPT !.running = TRUE]
<1>1. added \in Connections /\ added.open /\ run \in BOOLEAN /\ link.running \in BOOLEAN
  BY AddedIsConnection DEF DownloadInv, Connections, RunBit
<1>2. /\ next \in Connections /\ next.open /\ next.regions = added.regions
      /\ next.overflowed = added.overflowed /\ next.running = run
  <2> HIDE DEF added, run
  <2>1. \A c \in Connections : \A b \in BOOLEAN :
           /\ [c EXCEPT !.running = b] \in Connections
           /\ [c EXCEPT !.running = b].open = c.open
           /\ [c EXCEPT !.running = b].regions = c.regions
           /\ [c EXCEPT !.running = b].overflowed = c.overflowed
           /\ [c EXCEPT !.running = b].running = b
    BY Started DEF Connections
  <2> QED
    BY <1>1, <2>1
<1>3. stops \in Connections /\ stops.running = TRUE
  <2>1. \A b \in BOOLEAN : /\ [Opened EXCEPT !.running = b] \in Connections
                           /\ [Opened EXCEPT !.running = b].running = b
    BY OpenedIsConnection, Started DEF Connections
  <2> QED
    BY <2>1
<1>4. /\ chip' = IF ok THEN Written(chip, frame.addr, frame.data) ELSE chip
      /\ captured' = IF link.running \/ ~ok THEN kept \ hit ELSE kept \cup hit
      /\ link' = IF ends THEN stops ELSE next
      /\ IF keeps THEN Begin("sigma", added.regions) ELSE UNCHANGED job
  BY DEF DirectFrame
<1>5. captured \subseteq Cells /\ kept \subseteq Cells /\ captured' \subseteq Cells
  BY <1>4 DEF DownloadInv
<1>6. power # "running" => FALSE
  BY DEF DownloadInv
<1>7. ~link.running /\ ~added.overflowed => Restores(added.regions, captured', chip')
  <2> SUFFICES ASSUME ~link.running, ~added.overflowed
               PROVE  Restores(added.regions, captured', chip')
    OBVIOUS
  <2>1. ~link.overflowed /\ ~AddWrite(link, frame).overflowed /\ added = AddWrite(link, frame)
    BY DEF AddWrite
  <2>2. Restores(link.regions, captured, chip)
    BY <2>1, RunIsRestored DEF DownloadInv
  <2>3. Replayed([d \in Cells |-> Undefined], added.regions, Len(added.regions))
           = Written(Replayed([d \in Cells |-> Undefined], link.regions, Len(link.regions)),
                     frame.addr, frame.data)
    BY <2>1, AddedIsWritten DEF DownloadInv
  <2>4. kept = captured
    OBVIOUS
  <2> HIDE DEF added, run
  <2>5. /\ Restores(added.regions, captured \cup hit, Written(chip, frame.addr, frame.data))
        /\ Restores(added.regions, captured \ hit, chip)
    BY <1>5, <2>2, <2>3, Reaching
  <2> HIDE DEF hit
  <2> QED
    BY <1>4, <2>4, <2>5
<1> HIDE DEF added, run, hit, next, stops
<1>8. Busy("sigma")' => keeps /\ job'["sigma"].prog = added.regions
  BY <1>4 DEF Begin, Writers, Busy
<1>9. ~link'.running => link' = next /\ ~run
  BY <1>1, <1>2, <1>3, <1>4
<1>10. link.running /\ ~run => captured' = {}
  <2>1. link.running /\ ~run => kept = {}
    OBVIOUS
  <2> QED
    BY <1>4, <2>1
<1>11. PersistedIsWhatRan'
  <2>1. link'.open /\ ~link'.running /\ ~link'.overflowed
           => Restores(link'.regions, captured', chip')
    <3>1. CASE link.running
      BY <1>9, <1>10, <3>1 DEF Restores
    <3>2. CASE ~link.running
      BY <1>2, <1>7, <1>9, <3>2
    <3> QED
      BY <3>1, <3>2
  <2>2. Busy("sigma")' => Restores(job'["sigma"].prog, captured', chip')
    BY <1>7, <1>8
  <2> QED
    BY <2>1, <2>2, RunIsRestored
<1>12. link' \in Connections
  BY <1>2, <1>3, <1>4
<1> QED
  BY <1>5, <1>6, <1>11, <1>12 DEF DownloadInv

LEMMA FrameKeeps ==
    ASSUME DownloadInv, Frame
    PROVE  DownloadInv'
<1>1. PICK frame \in Frames : \E ok \in BOOLEAN :
         DirectFrame(frame, ok) \/ (frame.addr # RunReg /\ SafeloadFrame(frame, ok))
  BY DEF Frame
<1>2. PICK ok \in BOOLEAN :
         DirectFrame(frame, ok) \/ (frame.addr # RunReg /\ SafeloadFrame(frame, ok))
  BY <1>1
<1>3. frame \in Regions /\ link.open /\ ~Busy("sigma") /\ UNCHANGED power
  BY DspProgramAssumption DEF Frame, Regions
<1>4. CASE DirectFrame(frame, ok)
  BY <1>3, <1>4, DirectKeeps
<1>5. CASE SafeloadFrame(frame, ok)
  <2> DEFINE cells == {frame.addr + i - 1 : i \in DOMAIN frame.data}
  <2>1. /\ chip' = IF ok THEN Written(chip, frame.addr, frame.data) ELSE chip
        /\ captured' = captured \ cells /\ link' = link /\ job' = job
    BY <1>5 DEF SafeloadFrame
  <2>2. ASSUME NEW prog, Restores(prog, captured, chip) PROVE Restores(prog, captured', chip')
    <3>1. Restores(prog, captured \ cells, Written(chip, frame.addr, frame.data))
      BY <1>3, <2>2, Missing DEF DownloadInv
    <3>2. Restores(prog, captured \ cells, chip)
      BY <2>2 DEF Restores
    <3> QED
      BY <2>1, <3>1, <3>2
  <2> HIDE DEF cells
  <2>3. Busy("sigma")' = Busy("sigma") /\ captured' \subseteq captured
    BY <2>1 DEF Busy
  <2> QED
    BY <1>3, <2>1, <2>2, <2>3, RunIsRestored DEF DownloadInv
<1> QED
  BY <1>2, <1>4, <1>5

\* The other steps: a call of storeBlob keeps its program, and whatever
\* touches the registers comes when nobody is connected.
LEMMA DownloadStep ==
    ASSUME IInv, DownloadInv, [Next]_vars
    PROVE  DownloadInv'
<1>1. CASE Frame
  BY <1>1, FrameKeeps
<1>2. CASE Boot \/ BootFails
  <2>1. ~link.open /\ ~Busy("sigma") /\ UNCHANGED <<link, job, captured>>
    BY <1>2 DEF Boot, BootFails, DownloadInv
  <2>2. ~Busy("sigma")'
    BY <2>1 DEF Busy
  <2> QED
    BY <2>1, <2>2, RunIsRestored DEF DownloadInv
<1>3. CASE Connect \/ Disconnect
  <2>1. /\ link' \in {Opened, Closed} /\ captured' = {} /\ UNCHANGED <<job, chip, power>>
        /\ power # "running" => link' = Closed
    BY <1>3 DEF Connect, Disconnect
  <2>2. Opened \in Connections /\ Closed \in Connections /\ ~Closed.open
    BY OpenedIsConnection
  <2>3. Busy("sigma")' = Busy("sigma")
    BY <2>1 DEF Busy
  <2>4. \A prog : Restores(prog, captured', chip')
    BY <2>1 DEF Restores
  <2>5. PersistedIsWhatRan'
    BY <2>4, RunIsRestored
  <2> QED
    BY <2>1, <2>2, <2>3, <2>5 DEF DownloadInv
<1>4. CASE Post
  <2>1. /\ UNCHANGED <<link, chip, power, captured>>
        /\ \E prog : Begin("http", prog)
    BY <1>4 DEF Post
  <2>2. job'["sigma"] = [job["sigma"] EXCEPT !.alone = FALSE]
    BY <2>1 DEF Begin, Writers
  <2>3. Shaped(job["sigma"])
    BY DEF IInv, Writers
  <2>4. job'["sigma"].prog = job["sigma"].prog /\ Busy("sigma")' = Busy("sigma")
    BY <2>2, <2>3 DEF Busy, Shaped
  <2> QED
    BY <2>1, <2>4, RunIsRestored DEF DownloadInv
<1>5. ASSUME NEW w \in Writers, StoreStep(w) PROVE DownloadInv'
  <2>1. UNCHANGED <<link, chip, power, captured>> /\ Busy(w)
    BY <1>5 DEF StoreStep, Erase, Write, StoreFails, Busy
  <2>2. PICK j : /\ job' = [job EXCEPT ![w] = j]
                 /\ j.step # "idle" => j.prog = job[w].prog
    BY <1>5, CallStep
  <2>3. job'["sigma"] = IF w = "sigma" THEN j ELSE job["sigma"]
    BY <2>2 DEF IInv, Writers
  <2>4. Busy("sigma")' => Busy("sigma") /\ job'["sigma"].prog = job["sigma"].prog
    BY <2>1, <2>2, <2>3 DEF Busy
  <2> QED
    BY <2>1, <2>4, RunIsRestored DEF DownloadInv
<1>6. CASE Restart \/ PowerCycle
  <2>1. /\ link' = Closed /\ captured' = {} /\ job' = [w \in Writers |-> Idle]
    BY <1>6 DEF Restart, PowerCycle, Reset
  <2>2. Closed \in Connections /\ ~Closed.open
    BY DEF Connections, Closed
  <2>3. ~Busy("sigma")'
    BY <2>1 DEF Busy, Writers, Idle
  <2> QED
    BY <2>1, <2>2, <2>3, RunIsRestored DEF DownloadInv
<1>7. CASE ScheduleReboot \/ UNCHANGED vars
  <2>1. UNCHANGED <<link, chip, power, captured, job>>
    BY <1>7 DEF ScheduleReboot, vars
  <2>2. Busy("sigma")' = Busy("sigma")
    BY <2>1 DEF Busy
  <2> QED
    BY <2>1, <2>2, RunIsRestored DEF DownloadInv
<1> QED
  BY <1>1, <1>2, <1>3, <1>4, <1>5, <1>6, <1>7 DEF Next

(* What SigmaStudio has downloaded, and what is then stored as the program *)
(* of the next start, puts every register back to what the chip has, for   *)
(* every set of registers, frames of every length, every bound on the      *)
(* regions and their payload, safeloads and lost writes in between, and    *)
(* any number of downloads, POSTs and restarts (DownloadCapture and        *)
(* dispatchWrite of SigmaStudioTcpServer).                                 *)
THEOREM PersistedIsWhatRanHolds == Spec => []PersistedIsWhatRan
<1>1. Init => IInv /\ DownloadInv
  BY InitHolds, DownloadInit
<1>2. IInv /\ DownloadInv /\ [Next]_vars => IInv' /\ DownloadInv'
  BY Inductive, DownloadStep
<1>3. DownloadInv => PersistedIsWhatRan
  BY DEF DownloadInv
<1> QED
  BY <1>1, <1>2, <1>3, PTL DEF Spec
=============================================================================
