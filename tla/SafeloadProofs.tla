--------------------------- MODULE SafeloadProofs ---------------------------
(***************************************************************************)
(* What the lock around a safeload burst guarantees, for every set of      *)
(* tasks and values, as long as every operation takes it.                  *)
(***************************************************************************)
EXTENDS Safeload, TLAPS

AllOps == {"volume", "eq", "bass", "tcp"}

\* Every operation has one or two blocks of one or two cells each.
LEMMA BlockShape ==
    ASSUME NEW op \in AllOps
    PROVE  /\ Len(Blocks(op)) \in 1..2
           /\ \A b \in 1..Len(Blocks(op)) :
                 /\ Len(Blocks(op)[b].cells) \in 1..2
                 /\ \A s \in 1..Len(Blocks(op)[b].cells) :
                       Blocks(op)[b].cells[s] \in Cells
<1> USE DEF Block, Burst, Cells
<1>1. CASE op = "volume"
  BY <1>1 DEF Blocks, VolumeBlocks
<1>2. CASE op = "eq"
  BY <1>2 DEF Blocks, EqBlocks
<1>3. CASE op = "bass"
  BY <1>3 DEF Blocks, BassBlocks
<1>4. CASE op = "tcp"
  BY <1>4 DEF Blocks, TcpBlocks
<1> QED
  BY <1>1, <1>2, <1>3, <1>4 DEF AllOps

LEMMA OpsKnown == \A op \in Ops : op \in AllOps /\ op # "none"
BY SafeloadAssumption DEF AllOps

\* A task inside an operation is at a block of it and at a step of that block.
CallOK ==
    \A t \in Tasks : call[t].op # "none" =>
        /\ call[t].block \in 1..Len(Blocks(call[t].op))
        /\ call[t].step \in 0..(2 * Width(t) + 2)

Calls == [op : Ops \cup {"none"}, val : Values, block : 0..2, step : 0..6]

\* What the steps of a task need to know of its call.
LEMMA CallFacts ==
    ASSUME TypeOK, CallOK, NEW t \in Tasks, call[t].op # "none"
    PROVE  /\ call[t].op \in Ops /\ call[t].op \in AllOps /\ call[t].val \in Values
           /\ Len(Blocks(call[t].op)) \in 1..2
           /\ call[t].block \in 1..Len(Blocks(call[t].op))
           /\ Width(t) \in 1..2
           /\ call[t].step \in 0..(2 * Width(t) + 2)
           /\ \A s \in 1..Width(t) : CurrentBlock(t).cells[s] \in Cells
<1>1. call[t].op \in Ops /\ call[t].op \in AllOps /\ call[t].val \in Values
  BY OpsKnown DEF TypeOK
<1>2. call[t].block \in 1..Len(Blocks(call[t].op))
  BY DEF CallOK
<1> QED
  BY <1>1, <1>2, BlockShape DEF CallOK, Width, CurrentBlock

\* Advancing by one step inside a block keeps the type of the calls.
LEMMA StepCall ==
    ASSUME TypeOK, CallOK, NEW t \in Tasks, call[t].op # "none",
           call[t].step <= 2 * Width(t) + 1,
           call' = [call EXCEPT ![t].step = @ + 1]
    PROVE  call' \in [Tasks -> Calls] /\ CallOK'
<1>1. call \in [Tasks -> Calls]
  BY DEF TypeOK, Calls
<1> DEFINE n == call[t].step + 1
<1>2. Width(t) \in 1..2 /\ n \in 0..6 /\ n \in 0..(2 * Width(t) + 2)
  BY CallFacts
<1>3. call' \in [Tasks -> Calls]
  BY <1>1, <1>2 DEF Calls
<1>4. \A u \in Tasks : /\ call'[u].op = call[u].op /\ call'[u].block = call[u].block
                        /\ call'[u].step = IF u = t THEN n ELSE call[u].step
  BY <1>1 DEF Calls
<1> QED
  BY <1>2, <1>3, <1>4 DEF CallOK, Width, CurrentBlock

\* Going on after a block keeps it too.
LEMMA AfterCall ==
    ASSUME TypeOK, CallOK, NEW t \in Tasks, call[t].op # "none",
           \/ call' = [call EXCEPT ![t] = After(t)]
           \/ call' = [call EXCEPT ![t] = Idle]
    PROVE  call' \in [Tasks -> Calls] /\ CallOK'
<1>1. call \in [Tasks -> Calls]
  BY DEF TypeOK, Calls
<1>2. Idle \in Calls /\ Idle.op = "none"
  BY SafeloadAssumption DEF Idle, Calls
<1>3. CASE call' = [call EXCEPT ![t] = Idle]
  <2>1. call' \in [Tasks -> Calls]
    BY <1>1, <1>2, <1>3
  <2>2. \A u \in Tasks : call'[u] = IF u = t THEN Idle ELSE call[u]
    BY <1>1, <1>3
  <2> QED
    BY <2>1, <2>2, <1>2 DEF CallOK, Width, CurrentBlock
<1>4. CASE call' = [call EXCEPT ![t] = After(t)] /\ After(t) # Idle
  <2> DEFINE next == [op |-> call[t].op, val |-> call[t].val,
                    block |-> call[t].block + 1, step |-> 0]
  <2>1. After(t) = next /\ call[t].block < Len(Blocks(call[t].op))
    BY <1>4 DEF After
  <2>2. call[t] \in Calls
    BY <1>1
  <2>3. /\ next.op = call[t].op /\ next.block = call[t].block + 1 /\ next.step = 0
        /\ next.val = call[t].val
    BY <2>2 DEF Calls
  <2>a. /\ call[t].op \in AllOps /\ Len(Blocks(call[t].op)) \in 1..2
        /\ call[t].block \in 1..Len(Blocks(call[t].op))
    BY CallFacts
  <2>b. /\ call[t].block + 1 \in 1..Len(Blocks(call[t].op))
        /\ call[t].block + 1 \in 0..2
    <3> DEFINE len == Len(Blocks(call[t].op))
               b   == call[t].block
    <3>1. len \in 1..2 /\ b \in 1..len /\ b < len
      BY <2>1, <2>a
    <3> HIDE DEF len, b
    <3>2. b + 1 \in 1..len /\ b + 1 \in 0..2
      BY <3>1
    <3> QED
      BY <3>2 DEF len, b
  <2>c. Len(Blocks(call[t].op)[call[t].block + 1].cells) \in 1..2
    BY <2>a, <2>b, BlockShape
  <2>4. /\ call[t].block + 1 \in 1..Len(Blocks(call[t].op))
        /\ call[t].block + 1 \in 0..2
        /\ Len(Blocks(call[t].op)[call[t].block + 1].cells) \in 1..2
    BY <2>b, <2>c
  <2>5. next \in Calls
    BY <2>3, <2>2, <2>b DEF Calls
  <2>6. call' \in [Tasks -> Calls]
    BY <1>1, <1>4, <2>1, <2>5
  <2>7. \A u \in Tasks : call'[u] = IF u = t THEN next ELSE call[u]
    BY <1>1, <1>4, <2>1
  <2>8. ASSUME NEW u \in Tasks, call'[u].op # "none"
        PROVE  /\ call'[u].block \in 1..Len(Blocks(call'[u].op))
               /\ call'[u].step \in 0..(2 * Width(u)' + 2)
    <3>1. CASE u = t
      <4>1. /\ call'[u].op = call[t].op /\ call'[u].block = call[t].block + 1
            /\ call'[u].step = 0
        BY <3>1, <2>3, <2>7
      <4>2. Width(u)' \in 1..2
        BY <4>1, <2>c DEF Width, CurrentBlock
      <4> QED
        BY <4>1, <4>2, <2>b
    <3>2. CASE u # t
      BY <3>2, <2>7, <2>8 DEF CallOK, Width, CurrentBlock
    <3> QED
      BY <3>1, <3>2
  <2> QED
    BY <2>6, <2>8 DEF CallOK
<1> QED
  BY <1>3, <1>4

\* Every register, cell and call keeps its range.
THEOREM TypeCorrect == Spec => [](TypeOK /\ CallOK)
<1>1. Init => TypeOK /\ CallOK
  BY SafeloadAssumption DEF Init, TypeOK, CallOK, Idle, Slots, Cells
<1>2. TypeOK /\ CallOK /\ [Next]_vars => TypeOK' /\ CallOK'
  <2> SUFFICES ASSUME TypeOK, CallOK, [Next]_vars PROVE TypeOK' /\ CallOK'
    OBVIOUS
  <2>1. ASSUME NEW t \in Tasks, Request(t) PROVE TypeOK' /\ CallOK'
    <3>1. PICK op \in Ops, v \in Values :
            /\ call' = [call EXCEPT ![t] = [op |-> op, val |-> v, block |-> 1, step |-> 0]]
            /\ asked' = asked \cup (CellsOf(op) \X {v})
      BY <2>1 DEF Request
    <3>2. Len(Blocks(op)) \in 1..2 /\ Len(Blocks(op)[1].cells) \in 1..2 /\ op # "none"
      BY BlockShape, OpsKnown
    <3>3. CellsOf(op) \subseteq Cells
      <4>1. op \in AllOps
        BY OpsKnown
      <4> QED
        BY <4>1 DEF AllOps, CellsOf, Blocks, VolumeBlocks, EqBlocks, BassBlocks,
                    TcpBlocks, Burst, Block, Cells
    <3>4. call' \in [Tasks -> Calls]
      BY <3>1 DEF TypeOK, Calls
    <3>5. CallOK'
      BY <3>1, <3>2 DEF TypeOK, CallOK, Width, CurrentBlock
    <3> QED
      BY <2>1, <3>1, <3>3, <3>4, <3>5 DEF Request, TypeOK, Calls
  <2>2. ASSUME NEW t \in Tasks, Enter(t) PROVE TypeOK' /\ CallOK'
    <3>1. Width(t) \in 1..2
      BY <2>2, CallFacts DEF Enter
    <3>2. call' \in [Tasks -> Calls] /\ CallOK'
      <4>1. call[t].op # "none"
        BY <2>2 DEF Enter
      <4>2. call[t].step <= 2 * Width(t) + 1
        BY <2>2, <3>1 DEF Enter
      <4>3. call' = [call EXCEPT ![t].step = @ + 1]
        BY <2>2 DEF Enter
      <4> QED
        BY <4>1, <4>2, <4>3, StepCall
    <3> QED
      BY <2>2, <3>2 DEF Enter, TypeOK, Calls
  <2>3. ASSUME NEW t \in Tasks, LoadData(t) \/ LoadAddress(t) PROVE TypeOK' /\ CallOK'
    <3>1. /\ call[t].op # "none" /\ Width(t) \in 1..2 /\ call[t].val \in Values
          /\ call[t].step \in 1..(2 * Width(t))
      BY <2>3, CallFacts DEF LoadData, LoadAddress, Slots
    <3>2. call' \in [Tasks -> Calls] /\ CallOK'
      <4>1. call[t].step <= 2 * Width(t) + 1
        BY <3>1
      <4>2. call' = [call EXCEPT ![t].step = @ + 1]
        BY <2>3 DEF LoadData, LoadAddress
      <4> QED
        BY <3>1, <4>1, <4>2, StepCall
    <3>3. slot' \in [Slots -> [cell : Cells, val : Values, loaded : BOOLEAN]]
      <4>1. CASE LoadData(t)
        BY <4>1, <3>1 DEF LoadData, TypeOK
      <4>2. CASE LoadAddress(t)
        <5>1. PICK s \in Slots :
                /\ s <= Width(t)
                /\ slot' = [slot EXCEPT ![s].cell = CurrentBlock(t).cells[s],
                                        ![s].loaded = TRUE]
          BY <4>2 DEF LoadAddress
        <5>2. CurrentBlock(t).cells[s] \in Cells
          BY <5>1, <3>1, CallFacts DEF Slots
        <5> QED
          BY <5>1, <5>2 DEF TypeOK
      <4> QED
        BY <2>3, <4>1, <4>2
    <3> QED
      BY <2>3, <3>2, <3>3 DEF LoadData, LoadAddress, TypeOK, Calls
  <2>4. ASSUME NEW t \in Tasks, Trigger(t) PROVE TypeOK' /\ CallOK'
    <3>1. /\ call[t].op # "none" /\ Width(t) \in 1..2
          /\ call[t].step = 2 * Width(t) + 1
      BY <2>4, CallFacts DEF Trigger
    <3>2. call' \in [Tasks -> Calls] /\ CallOK'
      <4>1. call[t].step <= 2 * Width(t) + 1
        BY <3>1
      <4>2. call' = [call EXCEPT ![t].step = @ + 1]
        BY <2>4 DEF Trigger
      <4> QED
        BY <3>1, <4>1, <4>2, StepCall
    <3>3. slot' \in [Slots -> [cell : Cells, val : Values, loaded : BOOLEAN]]
      <4>1. \A s \in Slots : [slot[s] EXCEPT !.loaded = FALSE]
                                  \in [cell : Cells, val : Values, loaded : BOOLEAN]
        BY DEF TypeOK
      <4>2. slot' = [s \in Slots |-> [slot[s] EXCEPT !.loaded = FALSE]]
        BY <2>4 DEF Trigger
      <4> QED
        BY <4>1, <4>2
    <3>4. ram' \in [Cells -> Values]
      BY <2>4 DEF Trigger
    <3> QED
      BY <2>4, <3>2, <3>3, <3>4 DEF Trigger, TypeOK, Calls
  <2>5. ASSUME NEW t \in Tasks, Leave(t) \/ Fail(t) PROVE TypeOK' /\ CallOK'
    <3>1. call' \in [Tasks -> Calls] /\ CallOK'
      BY <2>5, AfterCall DEF Leave, Fail
    <3>2. failures' \in 0..MaxFailures
      BY <2>5, SafeloadAssumption DEF Leave, Fail, TypeOK
    <3> QED
      BY <2>5, <3>1, <3>2 DEF Leave, Fail, TypeOK, Calls
  <2>6. CASE UNCHANGED vars
    BY <2>6 DEF vars, TypeOK, CallOK, Width, CurrentBlock
  <2> QED
    BY <2>1, <2>2, <2>3, <2>4, <2>5, <2>6 DEF Next, TaskNext
<1> QED
  BY <1>1, <1>2, PTL DEF Spec

-----------------------------------------------------------------------------
(* Mutual exclusion of the bursts.                                          *)

\* The points of an operation at which its task has the lock: inside a
\* block, and between the two blocks of a frame of the TCP bridge.
Holding(t) ==
    /\ call[t].op # "none"
    /\ call[t].step > 0 \/ (call[t].op = "tcp" /\ call[t].block = 2)

LockInv == \A t \in Tasks : Holding(t) <=> lock = t

\* Without setBassBoostLevel, only the second block of the bridge starts
\* with the lock taken, and only the first one ends with it.
LEMMA BlockLocks ==
    ASSUME "bass" \notin Ops, NEW op \in Ops, NEW b \in 1..Len(Blocks(op))
    PROVE  /\ Blocks(op)[b].takes <=> ~(op = "tcp" /\ b = 2)
           /\ Blocks(op)[b].gives <=> ~(op = "tcp" /\ b = 1)
           /\ op = "tcp" => Len(Blocks(op)) = 2
<1> USE DEF Block, Burst
<1>1. CASE op = "volume"
  BY <1>1 DEF Blocks, VolumeBlocks
<1>2. CASE op = "eq"
  BY <1>2 DEF Blocks, EqBlocks
<1>3. CASE op = "tcp"
  BY <1>3 DEF Blocks, TcpBlocks
<1> QED
  BY <1>1, <1>2, <1>3, SafeloadAssumption

\* A step inside a block changes nothing but the step.
LEMMA StepFrame ==
    ASSUME TypeOK, NEW t \in Tasks, call' = [call EXCEPT ![t].step = @ + 1]
    PROVE  \A u \in Tasks :
              /\ call'[u].op = call[u].op /\ call'[u].val = call[u].val
              /\ call'[u].block = call[u].block
              /\ call'[u].step = IF u = t THEN call[u].step + 1 ELSE call[u].step
              /\ CurrentBlock(u)' = CurrentBlock(u) /\ Width(u)' = Width(u)
<1>1. \A u \in Tasks :
         /\ call'[u].op = call[u].op /\ call'[u].val = call[u].val
         /\ call'[u].block = call[u].block
         /\ call'[u].step = IF u = t THEN call[u].step + 1 ELSE call[u].step
  BY DEF TypeOK
<1> QED
  BY <1>1 DEF CurrentBlock, Width

\* Going on after a block changes only the call of the task.
LEMMA AfterFrame ==
    ASSUME TypeOK, NEW t \in Tasks,
           NEW next \in {After(t), Idle}, call' = [call EXCEPT ![t] = next]
    PROVE  /\ call'[t] = next
           /\ \A u \in Tasks : u # t =>
                /\ call'[u] = call[u]
                /\ CurrentBlock(u)' = CurrentBlock(u) /\ Width(u)' = Width(u)
BY DEF TypeOK, CurrentBlock, Width

\* Who works on a block has the lock, and nobody else does.
LEMMA LockStep ==
    ASSUME "bass" \notin Ops, TypeOK, CallOK, LockInv, [Next]_vars
    PROVE  LockInv'
<1>1. ASSUME NEW t \in Tasks, Request(t) PROVE LockInv'
  <2>1. call[t].op = "none" /\ lock' = lock
    BY <1>1 DEF Request
  <2>2. \A u \in Tasks : u # t => call'[u] = call[u]
    BY <1>1 DEF Request, TypeOK
  <2>3. call'[t].step = 0 /\ call'[t].block = 1
    BY <1>1 DEF Request, TypeOK
  <2> QED
    BY <2>1, <2>2, <2>3 DEF LockInv, Holding
<1>2. ASSUME NEW t \in Tasks, Enter(t) PROVE LockInv'
  <2>1. /\ call[t].op # "none" /\ call[t].step = 0
        /\ call' = [call EXCEPT ![t].step = @ + 1]
        /\ IF CurrentBlock(t).takes THEN lock = NoTask /\ lock' = t ELSE lock' = lock
    BY <1>2 DEF Enter
  <2>2. CurrentBlock(t).takes <=> ~(call[t].op = "tcp" /\ call[t].block = 2)
    BY <2>1, CallFacts, BlockLocks DEF CurrentBlock
  <2>3. lock' = t /\ (lock = NoTask \/ lock = t)
    BY <2>1, <2>2 DEF LockInv, Holding
  <2>4. /\ call'[t].op # "none" /\ call'[t].step = 1
        /\ \A u \in Tasks : u # t => call'[u].op = call[u].op
                    /\ call'[u].step = call[u].step /\ call'[u].block = call[u].block
    <3>1. \A u \in Tasks :
            /\ call'[u].op = call[u].op /\ call'[u].block = call[u].block
            /\ call'[u].step = IF u = t THEN call[u].step + 1 ELSE call[u].step
      BY <2>1, StepFrame
    <3> QED
      BY <3>1, <2>1
  <2> QED
    BY <2>3, <2>4, SafeloadAssumption DEF LockInv, Holding
<1>3. ASSUME NEW t \in Tasks, LoadData(t) \/ LoadAddress(t) \/ Trigger(t)
      PROVE  LockInv'
  <2>1. /\ call[t].op # "none" /\ lock' = lock
        /\ call' = [call EXCEPT ![t].step = @ + 1]
    BY <1>3 DEF LoadData, LoadAddress, Trigger
  <2>2. call[t].step \in Nat /\ call[t].step > 0
    <3>1. Width(t) \in 1..2 /\ call[t].step \in Nat
      BY <2>1, CallFacts
    <3> QED
      BY <1>3, <3>1 DEF LoadData, LoadAddress, Trigger, Slots
  <2>3. \A u \in Tasks :
          /\ call'[u].op = call[u].op /\ call'[u].block = call[u].block
          /\ call'[u].step = IF u = t THEN call[u].step + 1 ELSE call[u].step
    BY <2>1, StepFrame
  <2> QED
    BY <2>1, <2>2, <2>3 DEF LockInv, Holding
<1>4. ASSUME NEW t \in Tasks, Leave(t) \/ Fail(t) PROVE LockInv'
  <2>1. /\ call[t].op # "none" /\ Width(t) \in 1..2
        /\ call[t].op \in Ops /\ call[t].block \in 1..Len(Blocks(call[t].op))
    BY <1>4, CallFacts DEF Leave, Fail
  <2>2. lock = t
    <3>1. call[t].step > 0
      BY <1>4, <2>1 DEF Leave, Fail
    <3> QED
      BY <2>1, <3>1 DEF LockInv, Holding
  <2>3. PICK next \in {After(t), Idle} :
          /\ call' = [call EXCEPT ![t] = next]
          /\ next = Idle => call[t].op # "tcp" \/ After(t) = Idle
    BY <1>4 DEF Leave, Fail
  <2>4. lock' = IF call[t].op = "tcp" /\ call[t].block = 1 THEN t ELSE NoTask
    BY <1>4, <2>1, <2>2, BlockLocks DEF Leave, Fail, CurrentBlock
  <2>5. Holding(t)' <=> (call[t].op = "tcp" /\ call[t].block = 1)
    <3>1. call'[t] = next
      BY <2>3, AfterFrame
    <3>2. call[t].op = "tcp" => Len(Blocks(call[t].op)) = 2
      BY <2>1, BlockLocks
    <3>3. CASE next = Idle
      <4>1. ~Holding(t)'
        BY <3>1, <3>3 DEF Holding, Idle
      <4>2. ~(call[t].op = "tcp" /\ call[t].block = 1)
        <5> SUFFICES ASSUME call[t].op = "tcp", call[t].block = 1 PROVE FALSE
          OBVIOUS
        <5>1. After(t).op = "none"
          BY <2>3, <3>3 DEF Idle
        <5>2. After(t).op = "tcp"
          BY <3>2 DEF After
        <5> QED
          BY <5>1, <5>2
      <4> QED
        BY <4>1, <4>2
    <3>4. CASE next # Idle
      <4>1. /\ next.op = call[t].op /\ next.block = call[t].block + 1 /\ next.step = 0
            /\ call[t].block < Len(Blocks(call[t].op))
        BY <2>3, <3>4 DEF After
      <4> QED
        BY <2>1, <3>1, <3>2, <4>1 DEF Holding
    <3> QED
      BY <3>3, <3>4
  <2>6. \A u \in Tasks : u # t => (Holding(u)' <=> Holding(u))
    BY <2>3, AfterFrame DEF Holding
  <2> QED
    BY <2>2, <2>4, <2>5, <2>6, SafeloadAssumption DEF LockInv
<1>5. CASE UNCHANGED vars
  BY <1>5 DEF vars, LockInv, Holding
<1> QED
  BY <1>1, <1>2, <1>3, <1>4, <1>5 DEF Next, TaskNext

\* No task returns with the lock.
THEOREM LockReturnedHolds ==
    ASSUME "bass" \notin Ops PROVE Spec => []LockReturned
<1>1. Init => LockInv
  <2> SUFFICES ASSUME Init, NEW t \in Tasks PROVE ~Holding(t) /\ lock # t
    BY DEF LockInv
  <2>1. call[t].op = "none" /\ lock = NoTask
    BY DEF Init, Idle
  <2> QED
    BY <2>1, SafeloadAssumption DEF Holding
<1>2. TypeOK /\ CallOK /\ LockInv /\ [Next]_vars => LockInv'
  BY LockStep
<1>3. TypeOK /\ LockInv => LockReturned
  BY DEF TypeOK, LockInv, LockReturned, Holding
<1> QED
  BY <1>1, <1>2, <1>3, TypeCorrect, PTL DEF Spec

-----------------------------------------------------------------------------
(* What the slots hold.  Only the task with the lock changes them.          *)

\* The lock holder has put its value into slot s, but not yet its address.
Mid(s) == /\ lock \in Tasks
          /\ s <= Width(lock) /\ call[lock].step = 2 * s

\* The lock holder has loaded slot s and not yet triggered.
Past(s) == /\ lock \in Tasks
           /\ s <= Width(lock)
           /\ 2 * s < call[lock].step /\ call[lock].step <= 2 * Width(lock) + 1

AskedInv == \A t \in Tasks : call[t].op # "none" =>
                CellsOf(call[t].op) \X {call[t].val} \subseteq asked

DataInv == \A s \in Slots : Mid(s) \/ Past(s) => slot[s].val = call[lock].val

\* A loaded slot is a pair somebody asked for, but for the one whose address
\* is on its way.
PairInv == \A s \in Slots : slot[s].loaded /\ ~Mid(s) =>
                <<slot[s].cell, slot[s].val>> \in asked

\* Before the first failure, the loaded slots are those of the burst under way.
FreshInv == failures = 0 => \A s \in Slots :
                /\ slot[s].loaded <=> Past(s)
                /\ Past(s) => slot[s].cell = CurrentBlock(lock).cells[s]

SlotInv == /\ LockInv /\ AskedInv /\ DataInv /\ PairInv /\ FreshInv
           /\ ParamsRequested /\ FiltersWhole

\* The cells of a block are cells of its operation.
LEMMA BlockCells ==
    ASSUME NEW op \in AllOps, NEW b \in 1..Len(Blocks(op)),
           NEW s \in 1..Len(Blocks(op)[b].cells)
    PROVE  Blocks(op)[b].cells[s] \in CellsOf(op)
<1> USE DEF Block, Burst, CellsOf
<1>1. CASE op = "volume"
  BY <1>1 DEF Blocks, VolumeBlocks
<1>2. CASE op = "eq"
  BY <1>2 DEF Blocks, EqBlocks
<1>3. CASE op = "bass"
  BY <1>3 DEF Blocks, BassBlocks
<1>4. CASE op = "tcp"
  BY <1>4 DEF Blocks, TcpBlocks
<1> QED
  BY <1>1, <1>2, <1>3, <1>4 DEF AllOps

\* A call that starts, or a task that takes the lock, leaves the slots alone.
LEMMA RequestKeepsSlots ==
    ASSUME "bass" \notin Ops, TypeOK, CallOK, SlotInv, LockInv',
           NEW t \in Tasks, Request(t)
    PROVE  SlotInv'
<1>1. /\ call[t].op = "none" /\ t # lock
      /\ UNCHANGED <<lock, slot, ram, failures>>
  BY DEF Request, SlotInv, LockInv, Holding
<1>2. PICK op \in Ops, v \in Values :
        /\ call' = [call EXCEPT ![t] = [op |-> op, val |-> v, block |-> 1, step |-> 0]]
        /\ asked' = asked \cup (CellsOf(op) \X {v})
  BY DEF Request
<1>3. \A u \in Tasks : u # t => call'[u] = call[u]
  BY <1>2 DEF TypeOK
<1>4. call'[t].op = op /\ call'[t].val = v
  BY <1>2 DEF TypeOK
<1>5. AskedInv'
  BY <1>2, <1>3, <1>4 DEF SlotInv, AskedInv
<1>6. /\ \A s \in Slots : (Mid(s)' <=> Mid(s)) /\ (Past(s)' <=> Past(s))
      /\ lock \in Tasks => CurrentBlock(lock)' = CurrentBlock(lock)
                          /\ call'[lock] = call[lock]
  BY <1>1, <1>3 DEF Mid, Past, Width, CurrentBlock
<1>7. DataInv'
  BY <1>1, <1>6 DEF SlotInv, DataInv, Mid, Past
<1>8. PairInv'
  BY <1>1, <1>2, <1>6 DEF SlotInv, PairInv
<1>9. FreshInv'
  BY <1>1, <1>6 DEF SlotInv, FreshInv, Past
<1>10. ParamsRequested' /\ FiltersWhole'
  BY <1>1, <1>2 DEF SlotInv, ParamsRequested, FiltersWhole
<1> QED
  BY <1>5, <1>7, <1>8, <1>9, <1>10 DEF SlotInv

\* Taking the lock puts the task before the first slot.
LEMMA EnterKeepsSlots ==
    ASSUME "bass" \notin Ops, TypeOK, CallOK, SlotInv, LockInv',
           NEW t \in Tasks, Enter(t)
    PROVE  SlotInv'
<1>1. /\ call[t].op # "none" /\ call[t].step = 0
      /\ call' = [call EXCEPT ![t].step = @ + 1]
      /\ UNCHANGED <<slot, ram, asked, failures>>
  BY DEF Enter
<1>2. \A u \in Tasks :
        /\ call'[u].op = call[u].op /\ call'[u].val = call[u].val
        /\ call'[u].step = IF u = t THEN call[u].step + 1 ELSE call[u].step
  BY <1>1, StepFrame
<1>3. /\ lock' = t /\ call'[t].step = 1
      /\ lock = NoTask \/ lock = t
  <2>1. call'[t].op # "none" /\ call'[t].step = 1
    BY <1>1, <1>2
  <2>2. lock' = t
    BY <2>1 DEF LockInv, Holding
  <2> QED
    BY <2>1, <2>2 DEF Enter
<1>4. \A s \in Slots : ~Mid(s) /\ ~Past(s)
  BY <1>1, <1>3, SafeloadAssumption DEF Mid, Past, Slots
<1>5. \A s \in Slots : ~Mid(s)' /\ ~Past(s)'
  BY <1>3 DEF Mid, Past, Slots
<1>6. AskedInv'
  BY <1>1, <1>2 DEF SlotInv, AskedInv
<1> QED
  BY <1>1, <1>4, <1>5, <1>6
  DEF SlotInv, DataInv, PairInv, FreshInv, ParamsRequested, FiltersWhole

\* A task that is past the lock of its block is the one that has it.
LEMMA HolderFacts ==
    ASSUME "bass" \notin Ops, TypeOK, CallOK, LockInv, NEW t \in Tasks,
           call[t].op # "none", call[t].step > 0
    PROVE  /\ lock = t
           /\ Width(t) \in 1..2 /\ call[t].step \in 0..(2 * Width(t) + 2)
           /\ call[t].val \in Values
           /\ \A s \in 1..Width(t) : CurrentBlock(t).cells[s] \in CellsOf(call[t].op)
<1>1. lock = t
  BY DEF LockInv, Holding
<1>2. /\ call[t].op \in AllOps /\ call[t].block \in 1..Len(Blocks(call[t].op))
      /\ Width(t) \in 1..2 /\ call[t].step \in 0..(2 * Width(t) + 2)
      /\ call[t].val \in Values
  BY CallFacts
<1> QED
  BY <1>1, <1>2, BlockCells DEF Width, CurrentBlock

\* Loading data: the slot waits for its address, the others are as before.
LEMMA LoadDataKeepsSlots ==
    ASSUME "bass" \notin Ops, TypeOK, CallOK, SlotInv, LockInv',
           NEW t \in Tasks, LoadData(t)
    PROVE  SlotInv'
<1>1. PICK s \in Slots :
        /\ call[t].op # "none" /\ call[t].step = 2 * s - 1 /\ s <= Width(t)
        /\ slot' = [slot EXCEPT ![s].val = call[t].val]
        /\ call' = [call EXCEPT ![t].step = @ + 1]
        /\ UNCHANGED <<lock, ram, asked, failures>>
  BY DEF LoadData
<1>2. lock = t /\ Width(t) \in 1..2 /\ call[t].val \in Values
  BY <1>1, HolderFacts DEF SlotInv, Slots
<1>3. /\ \A u \in Tasks : call'[u].op = call[u].op /\ call'[u].val = call[u].val
      /\ call'[t].step = 2 * s
      /\ CurrentBlock(t)' = CurrentBlock(t) /\ Width(t)' = Width(t)
  <2>1. \A u \in Tasks :
              /\ call'[u].op = call[u].op /\ call'[u].val = call[u].val
              /\ call'[u].step = IF u = t THEN call[u].step + 1 ELSE call[u].step
              /\ CurrentBlock(u)' = CurrentBlock(u) /\ Width(u)' = Width(u)
    BY <1>1, StepFrame
  <2> QED
    BY <1>1, <2>1 DEF Slots
<1>4. \A r \in Slots :
        /\ ~Mid(r) /\ (Mid(r)' <=> r = s)
        /\ Past(r) <=> r < s
        /\ Past(r)' <=> r < s
  BY <1>1, <1>2, <1>3 DEF Mid, Past, Slots
<1>5. /\ slot'[s].val = call[t].val
      /\ \A r \in Slots : slot'[r].cell = slot[r].cell /\ slot'[r].loaded = slot[r].loaded
      /\ \A r \in Slots : r # s => slot'[r] = slot[r]
  BY <1>1 DEF TypeOK
<1>6. AskedInv'
  BY <1>1, <1>3 DEF SlotInv, AskedInv
<1>7. DataInv'
  BY <1>1, <1>2, <1>3, <1>4, <1>5 DEF SlotInv, DataInv, Slots
<1>8. PairInv'
  BY <1>1, <1>4, <1>5 DEF SlotInv, PairInv
<1>9. FreshInv'
  BY <1>1, <1>2, <1>3, <1>4, <1>5 DEF SlotInv, FreshInv
<1> QED
  BY <1>1, <1>6, <1>7, <1>8, <1>9 DEF SlotInv, ParamsRequested, FiltersWhole

\* Loading the address completes a pair that the caller asked for.
LEMMA LoadAddressKeepsSlots ==
    ASSUME "bass" \notin Ops, TypeOK, CallOK, SlotInv, LockInv',
           NEW t \in Tasks, LoadAddress(t)
    PROVE  SlotInv'
<1>1. PICK s \in Slots :
        /\ call[t].op # "none" /\ call[t].step = 2 * s /\ s <= Width(t)
        /\ slot' = [slot EXCEPT ![s].cell = CurrentBlock(t).cells[s], ![s].loaded = TRUE]
        /\ call' = [call EXCEPT ![t].step = @ + 1]
        /\ UNCHANGED <<lock, ram, asked, failures>>
  BY DEF LoadAddress
<1>2. /\ lock = t /\ Width(t) \in 1..2
      /\ CurrentBlock(t).cells[s] \in CellsOf(call[t].op)
  BY <1>1, HolderFacts DEF SlotInv, Slots
<1>3. /\ \A u \in Tasks : call'[u].op = call[u].op /\ call'[u].val = call[u].val
      /\ call'[t].step = 2 * s + 1
      /\ CurrentBlock(t)' = CurrentBlock(t) /\ Width(t)' = Width(t)
  <2>1. \A u \in Tasks :
              /\ call'[u].op = call[u].op /\ call'[u].val = call[u].val
              /\ call'[u].step = IF u = t THEN call[u].step + 1 ELSE call[u].step
              /\ CurrentBlock(u)' = CurrentBlock(u) /\ Width(u)' = Width(u)
    BY <1>1, StepFrame
  <2> QED
    BY <1>1, <2>1 DEF Slots
<1>4. \A r \in Slots :
        /\ ~Mid(r)' /\ (Mid(r) <=> r = s)
        /\ Past(r) <=> r < s
        /\ Past(r)' <=> r <= s
  BY <1>1, <1>2, <1>3 DEF Mid, Past, Slots
<1>5. /\ slot'[s].cell = CurrentBlock(t).cells[s] /\ slot'[s].loaded
      /\ \A r \in Slots : slot'[r].val = slot[r].val
      /\ \A r \in Slots : r # s => /\ slot'[r].cell = slot[r].cell
                                   /\ slot'[r].loaded = slot[r].loaded
  <2>1. slot'[s] = [slot[s] EXCEPT !.cell = CurrentBlock(t).cells[s], !.loaded = TRUE]
    BY <1>1 DEF TypeOK
  <2>2. \A r \in Slots : r # s => slot'[r] = slot[r]
    BY <1>1 DEF TypeOK
  <2>3. slot[s] \in [cell : Cells, val : Values, loaded : BOOLEAN]
    BY DEF TypeOK
  <2>4. /\ slot'[s].cell = CurrentBlock(t).cells[s] /\ slot'[s].loaded
        /\ slot'[s].val = slot[s].val
    BY <2>1, <2>3
  <2> QED
    BY <2>2, <2>4
<1>6. AskedInv'
  BY <1>1, <1>3 DEF SlotInv, AskedInv
<1>7. DataInv'
  <2>1. \A r \in Slots : r <= s => slot[r].val = call[t].val
    <3>1. \A r \in Slots : r <= s => Mid(r) \/ Past(r)
      BY <1>4 DEF Slots
    <3> QED
      BY <3>1, <1>2 DEF SlotInv, DataInv
  <2>2. call'[lock'].val = call[t].val
    BY <1>1, <1>2, <1>3
  <2> QED
    BY <1>4, <1>5, <2>1, <2>2 DEF DataInv
<1>8. PairInv'
  <2>1. slot[s].val = call[t].val
    BY <1>2, <1>4 DEF SlotInv, DataInv
  <2>2. <<CurrentBlock(t).cells[s], call[t].val>> \in asked
    BY <1>1, <1>2 DEF SlotInv, AskedInv
  <2> QED
    <3>1. ASSUME NEW r \in Slots, slot'[r].loaded
          PROVE  <<slot'[r].cell, slot'[r].val>> \in asked
      <4>1. CASE r = s
        BY <4>1, <1>5, <2>1, <2>2
      <4>2. CASE r # s
        BY <4>2, <3>1, <1>4, <1>5 DEF SlotInv, PairInv
      <4> QED
        BY <4>1, <4>2
    <3> QED
      BY <3>1, <1>1 DEF PairInv
<1>9. FreshInv'
  <2> SUFFICES ASSUME failures = 0, NEW r \in Slots
               PROVE  /\ slot'[r].loaded <=> Past(r)'
                      /\ Past(r)' => slot'[r].cell = CurrentBlock(t).cells[r]
    BY <1>1, <1>2, <1>3 DEF FreshInv
  <2>1. CASE r = s
    BY <2>1, <1>4, <1>5 DEF Slots
  <2>2. CASE r # s
    <3>1. Past(r)' <=> Past(r)
      BY <2>2, <1>4 DEF Slots
    <3> QED
      BY <2>2, <3>1, <1>2, <1>5 DEF SlotInv, FreshInv
  <2> QED
    BY <2>1, <2>2
<1> QED
  BY <1>1, <1>6, <1>7, <1>8, <1>9 DEF SlotInv, ParamsRequested, FiltersWhole

\* Without setBassBoostLevel a burst writes one cell or the pair of the EQ.
LEMMA BlockKinds ==
    ASSUME "bass" \notin Ops, NEW op \in Ops, NEW b \in 1..Len(Blocks(op))
    PROVE  Blocks(op)[b].cells \in
             {<<"volumeLeft">>, <<"volumeRight">>, <<"table">>, <<"eq0", "eq1">>}
<1> USE DEF Block, Burst
<1>1. CASE op = "volume"
  BY <1>1 DEF Blocks, VolumeBlocks
<1>2. CASE op = "eq"
  BY <1>2 DEF Blocks, EqBlocks
<1>3. CASE op = "tcp"
  BY <1>3 DEF Blocks, TcpBlocks
<1> QED
  BY <1>1, <1>2, <1>3, SafeloadAssumption

\* The transfer writes only pairs that were asked for, and a filter whole.
LEMMA TriggerKeepsSlots ==
    ASSUME "bass" \notin Ops, TypeOK, CallOK, SlotInv, LockInv',
           NEW t \in Tasks, Trigger(t)
    PROVE  SlotInv'
<1>1. /\ call[t].op # "none" /\ call[t].step = 2 * Width(t) + 1
      /\ slot' = [s \in Slots |-> [slot[s] EXCEPT !.loaded = FALSE]]
      /\ call' = [call EXCEPT ![t].step = @ + 1]
      /\ UNCHANGED <<lock, asked, failures>>
      /\ ram' \in [Cells -> Values]
  BY DEF Trigger
<1>2. \A c \in Cells :
         /\ (\A s \in Slots : ~(slot[s].loaded /\ slot[s].cell = c)) => ram'[c] = ram[c]
         /\ (\E s \in Slots : slot[s].loaded /\ slot[s].cell = c)
               => \E s \in Slots : slot[s].loaded /\ slot[s].cell = c /\ ram'[c] = slot[s].val
  BY DEF Trigger
<1>3. Width(t) \in 1..2 /\ call[t].step > 0
  BY <1>1, CallFacts
<1>4. lock = t
  BY <1>1, <1>3, HolderFacts DEF SlotInv
<1>5. /\ \A u \in Tasks : call'[u].op = call[u].op /\ call'[u].val = call[u].val
      /\ call'[t].step = 2 * Width(t) + 2
      /\ Width(t)' = Width(t)
  <2>1. \A u \in Tasks :
              /\ call'[u].op = call[u].op /\ call'[u].val = call[u].val
              /\ call'[u].step = IF u = t THEN call[u].step + 1 ELSE call[u].step
              /\ Width(u)' = Width(u)
    BY <1>1, StepFrame
  <2> QED
    BY <1>1, <1>3, <2>1
<1>6. \A r \in Slots : ~Mid(r) /\ ~Mid(r)' /\ ~Past(r)' /\ (Past(r) <=> r <= Width(t))
  BY <1>1, <1>3, <1>4, <1>5 DEF Mid, Past, Slots
<1>7. \A r \in Slots : ~slot'[r].loaded
  BY <1>1 DEF TypeOK
<1>8. AskedInv'
  BY <1>1, <1>5 DEF SlotInv, AskedInv
<1>9. ParamsRequested'
  <2> SUFFICES ASSUME NEW c \in Cells PROVE ram'[c] = Default \/ <<c, ram'[c]>> \in asked
    BY <1>1 DEF ParamsRequested
  <2>1. CASE \A s \in Slots : ~(slot[s].loaded /\ slot[s].cell = c)
    BY <2>1, <1>2 DEF SlotInv, ParamsRequested
  <2>2. CASE \E s \in Slots : slot[s].loaded /\ slot[s].cell = c
    BY <2>2, <1>2, <1>6 DEF SlotInv, PairInv
  <2> QED
    BY <2>1, <2>2
<1>10. FiltersWhole'
  <2> SUFFICES ASSUME failures = 0
               PROVE  ram'["eq0"] = ram'["eq1"] /\ ram'["bass0"] = ram'["bass1"]
    BY <1>1 DEF FiltersWhole
  <2>1. ram["eq0"] = ram["eq1"] /\ ram["bass0"] = ram["bass1"]
    BY DEF SlotInv, FiltersWhole
  <2>2. \A s \in Slots :
          /\ slot[s].loaded <=> s <= Width(t)
          /\ s <= Width(t) => /\ slot[s].cell = CurrentBlock(t).cells[s]
                              /\ slot[s].val = call[t].val
    BY <1>4, <1>6 DEF SlotInv, FreshInv, DataInv
  <2>3. CurrentBlock(t).cells \in
             {<<"volumeLeft">>, <<"volumeRight">>, <<"table">>, <<"eq0", "eq1">>}
    BY <1>1, CallFacts, BlockKinds DEF CurrentBlock
  <2>4. CASE CurrentBlock(t).cells = <<"eq0", "eq1">>
    <3>1. Width(t) = 2
      BY <2>4 DEF Width
    <3>2. /\ slot[1].loaded /\ slot[1].cell = "eq0" /\ slot[1].val = call[t].val
          /\ slot[2].loaded /\ slot[2].cell = "eq1" /\ slot[2].val = call[t].val
      BY <2>2, <2>4, <3>1 DEF Slots
    <3>3. ram'["eq0"] = call[t].val /\ ram'["eq1"] = call[t].val
      BY <1>2, <3>2 DEF Slots, Cells
    <3>4. ram'["bass0"] = ram["bass0"] /\ ram'["bass1"] = ram["bass1"]
      BY <1>2, <3>2 DEF Slots, Cells
    <3> QED
      BY <2>1, <3>3, <3>4
  <2>5. CASE CurrentBlock(t).cells \in {<<"volumeLeft">>, <<"volumeRight">>, <<"table">>}
    <3>1. Width(t) = 1
      BY <2>5 DEF Width
    <3>2. /\ slot[1].cell \in {"volumeLeft", "volumeRight", "table"}
          /\ ~slot[2].loaded
      BY <2>2, <2>5, <3>1 DEF Slots
    <3>3. \A c \in {"eq0", "eq1", "bass0", "bass1"} : ram'[c] = ram[c]
      BY <1>2, <3>2 DEF Slots, Cells
    <3> QED
      BY <2>1, <3>3
  <2> QED
    BY <2>3, <2>4, <2>5
<1> QED
  BY <1>1, <1>6, <1>7, <1>8, <1>9, <1>10 DEF SlotInv, DataInv, PairInv, FreshInv

\* A block ends, with its last step or with a failure: what stays loaded was
\* asked for, and after one failure nothing else is.
LEMMA LeaveKeepsSlots ==
    ASSUME "bass" \notin Ops, MaxFailures <= 1, TypeOK, CallOK, SlotInv, LockInv',
           NEW t \in Tasks, Leave(t) \/ Fail(t)
    PROVE  SlotInv'
<1>1. /\ call[t].op # "none" /\ UNCHANGED <<slot, ram, asked>>
      /\ lock' \in {lock, NoTask}
  BY DEF Leave, Fail
<1>2. Width(t) \in 1..2 /\ call[t].step > 0
  <2>1. Width(t) \in 1..2
    BY <1>1, CallFacts
  <2> QED
    BY <2>1 DEF Leave, Fail
<1>3. lock = t
  BY <1>1, <1>2, HolderFacts DEF SlotInv
<1>4. PICK next \in {After(t), Idle} : call' = [call EXCEPT ![t] = next]
  BY DEF Leave, Fail
<1>5. /\ call'[t] = next
      /\ \A u \in Tasks : u # t => call'[u] = call[u]
  BY <1>4, AfterFrame
<1>6. /\ next.step = 0
      /\ next.op = "none" \/ (next.op = call[t].op /\ next.val = call[t].val)
  BY DEF After, Idle
<1>7. \A r \in Slots : ~Mid(r)' /\ ~Past(r)'
  BY <1>1, <1>3, <1>5, <1>6, SafeloadAssumption DEF Mid, Past, Slots
<1>8. AskedInv'
  BY <1>1, <1>5, <1>6 DEF SlotInv, AskedInv
<1>9. PairInv' /\ FreshInv' /\ FiltersWhole'
  <2>1. CASE Leave(t)
    <3>1. /\ call[t].step = 2 * Width(t) + 2 /\ failures' = failures
      BY <2>1 DEF Leave
    <3>2. \A r \in Slots : ~Mid(r) /\ ~Past(r)
      BY <3>1, <1>2, <1>3 DEF Mid, Past, Slots
    <3> QED
      BY <1>1, <1>7, <3>1, <3>2 DEF SlotInv, PairInv, FreshInv, FiltersWhole
  <2>2. CASE Fail(t)
    <3>1. failures = 0 /\ failures' # 0
      BY <2>2, SafeloadAssumption DEF Fail, TypeOK
    <3>2. \A r \in Slots : slot[r].loaded => ~Mid(r)
      BY <3>1, <1>2, <1>3 DEF SlotInv, FreshInv, Mid, Past, Slots
    <3> QED
      BY <1>1, <3>1, <3>2 DEF SlotInv, PairInv, FreshInv, FiltersWhole
  <2> QED
    BY <2>1, <2>2
<1> QED
  BY <1>1, <1>7, <1>8, <1>9 DEF SlotInv, DataInv, ParamsRequested

\* The invariant as a whole.
LEMMA SlotInvHolds ==
    ASSUME "bass" \notin Ops, MaxFailures <= 1 PROVE Spec => []SlotInv
<1>1. Init => SlotInv
  <2> SUFFICES ASSUME Init PROVE SlotInv
    OBVIOUS
  <2>1. /\ lock = NoTask /\ asked = {} /\ failures = 0
        /\ \A t \in Tasks : call[t].op = "none"
        /\ \A s \in Slots : ~slot[s].loaded
        /\ \A c \in Cells : ram[c] = Default
    BY DEF Init, Idle
  <2>2. LockInv
    BY <2>1, SafeloadAssumption DEF LockInv, Holding
  <2>3. \A s \in Slots : ~Mid(s) /\ ~Past(s)
    BY <2>1, SafeloadAssumption DEF Mid, Past
  <2>4. AskedInv /\ DataInv /\ PairInv /\ FreshInv
    BY <2>1, <2>3 DEF AskedInv, DataInv, PairInv, FreshInv
  <2> QED
    BY <2>1, <2>2, <2>4 DEF SlotInv, ParamsRequested, FiltersWhole, Cells
<1>2. TypeOK /\ CallOK /\ SlotInv /\ [Next]_vars => SlotInv'
  <2> SUFFICES ASSUME TypeOK, CallOK, SlotInv, [Next]_vars PROVE SlotInv'
    OBVIOUS
  <2>1. LockInv'
    BY LockStep DEF SlotInv
  <2>2. ASSUME NEW t \in Tasks, TaskNext(t) PROVE SlotInv'
    BY <2>1, <2>2, RequestKeepsSlots, EnterKeepsSlots, LoadDataKeepsSlots,
       LoadAddressKeepsSlots, TriggerKeepsSlots, LeaveKeepsSlots DEF TaskNext
  <2>3. CASE UNCHANGED vars
    BY <2>3 DEF vars, SlotInv, LockInv, Holding, AskedInv, DataInv, PairInv, FreshInv,
        ParamsRequested, FiltersWhole, Mid, Past, Width, CurrentBlock
  <2> QED
    BY <2>2, <2>3 DEF Next
<1> QED
  BY <1>1, <1>2, TypeCorrect, PTL DEF Spec

\* With the lock taken by every operation and at most one failure, no cell
\* of parameter RAM takes a value that nobody asked to be written to it.
THEOREM ParamsRequestedHolds ==
    ASSUME "bass" \notin Ops, MaxFailures <= 1 PROVE Spec => []ParamsRequested
<1>1. SlotInv => ParamsRequested
  BY DEF SlotInv
<1> QED
  BY <1>1, SlotInvHolds, PTL

\* Until a transaction fails, a filter is always that of one setting.
THEOREM FiltersWholeHolds ==
    ASSUME "bass" \notin Ops, MaxFailures <= 1 PROVE Spec => []FiltersWhole
<1>1. SlotInv => FiltersWhole
  BY DEF SlotInv
<1> QED
  BY <1>1, SlotInvHolds, PTL
=============================================================================
