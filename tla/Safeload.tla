------------------------------ MODULE Safeload ------------------------------
(***************************************************************************)
(* How several tasks change parameters of the running ADAU1701 at once     *)
(* (Adau1701Driver, SigmaStudioTcpServer, SigmaStudioFW.c).                *)
(*                                                                         *)
(* The chip has a few safeload slots, each a data and an address register. *)
(* A call loads slots one I2C transaction after the other and then         *)
(* triggers the transfer of the loaded ones to parameter RAM.  The slots   *)
(* are shared: sigma_studio_lock makes a burst exclusive.  A fixpoint      *)
(* value is a member of Values; a call writes one value to all its cells.  *)
(* The read-back after the trigger only logs and is left out.              *)
(***************************************************************************)
EXTENDS Naturals, Sequences

CONSTANTS
    Tasks,        \* the tasks that change parameters
    NoTask,       \* the lock is free
    Ops,          \* the operations those tasks call
    Values,       \* fixpoint values
    Default,      \* what the downloaded program puts into every cell
    MaxFailures   \* bound on the transactions that fail after their retries

\* Cells of parameter RAM that the operations write.
Cells == {"volumeLeft", "volumeRight", "eq0", "eq1", "bass0", "bass1", "table"}
Slots == 1..2

ASSUME SafeloadAssumption ==
    /\ NoTask \notin Tasks
    /\ Ops \subseteq {"volume", "eq", "bass", "tcp"}
    /\ Default \in Values
    /\ MaxFailures \in Nat

VARIABLES
    call,      \* what each task is doing: operation, value, block, step
    lock,      \* s_lock, and the task that holds it
    slot,      \* the slot registers; loaded since the last trigger?
    ram,       \* parameter RAM
    asked,     \* history: the <<cell, value>> pairs that were ever requested
    failures   \* transactions that failed so far

vars == <<call, lock, slot, ram, asked, failures>>

\* A sigma_safeload_block call, and whether its caller takes the lock before
\* it and gives it back after it.
Block(cells, takes, gives) == [cells |-> cells, takes |-> takes, gives |-> gives]
Burst(cells) == Block(cells, TRUE, TRUE)

VolumeBlocks == <<Burst(<<"volumeLeft">>), Burst(<<"volumeRight">>)>>

\* Mutant: a filter is loaded one coefficient at a time.
MutantEqBlocks == <<Burst(<<"eq0">>), Burst(<<"eq1">>)>>

EqBlocks == <<Burst(<<"eq0", "eq1">>)>>

\* setBassBoostLevel: the filter goes out without the lock, every point of
\* the compander table under it.
BassBlocks == <<Block(<<"bass0", "bass1">>, FALSE, FALSE), Burst(<<"table">>)>>

\* safeloadWrite of the TCP bridge: one lock around all blocks of a frame.
TcpBlocks == <<Block(<<"eq0", "eq1">>, TRUE, FALSE), Block(<<"table">>, FALSE, TRUE)>>

Blocks(op) ==
    CASE op = "volume" -> VolumeBlocks
      [] op = "eq"     -> EqBlocks
      [] op = "bass"   -> BassBlocks
      [] op = "tcp"    -> TcpBlocks

Idle == [op |-> "none", val |-> Default, block |-> 0, step |-> 0]
CurrentBlock(t) == Blocks(call[t].op)[call[t].block]
Width(t) == Len(CurrentBlock(t).cells)
CellsOf(op) == UNION {{b.cells[i] : i \in DOMAIN b.cells} :
                         b \in {Blocks(op)[j] : j \in DOMAIN Blocks(op)}}

TypeOK ==
    /\ call \in [Tasks -> [op : Ops \cup {"none"}, val : Values,
                           block : 0..2, step : 0..6]]
    /\ lock \in Tasks \cup {NoTask}
    /\ slot \in [Slots -> [cell : Cells, val : Values, loaded : BOOLEAN]]
    /\ ram \in [Cells -> Values]
    /\ asked \subseteq Cells \X Values
    /\ failures \in 0..MaxFailures

Init ==
    /\ call = [t \in Tasks |-> Idle]
    /\ lock = NoTask
    /\ slot = [s \in Slots |-> [cell |-> "volumeLeft", val |-> Default, loaded |-> FALSE]]
    /\ ram = [c \in Cells |-> Default]
    /\ asked = {}
    /\ failures = 0

-----------------------------------------------------------------------------
\* A task calls the driver, or the bridge gets a safeload frame.
Request(t) ==
    /\ call[t].op = "none"
    /\ \E op \in Ops, v \in Values :
          /\ call' = [call EXCEPT ![t] = [op |-> op, val |-> v, block |-> 1, step |-> 0]]
          /\ asked' = asked \cup (CellsOf(op) \X {v})
    /\ UNCHANGED <<lock, slot, ram, failures>>

\* Mutant: a task does not wait for the lock.
MutantEnter(t) ==
    /\ call[t].op # "none" /\ call[t].step = 0
    /\ lock' = IF CurrentBlock(t).takes THEN t ELSE lock
    /\ call' = [call EXCEPT ![t].step = @ + 1]
    /\ UNCHANGED <<slot, ram, asked, failures>>

\* sigma_studio_lock, where the block needs it.
Enter(t) ==
    /\ call[t].op # "none" /\ call[t].step = 0
    /\ IF CurrentBlock(t).takes THEN lock = NoTask /\ lock' = t
                                ELSE UNCHANGED lock
    /\ call' = [call EXCEPT ![t].step = @ + 1]
    /\ UNCHANGED <<slot, ram, asked, failures>>

\* Steps 1..2 * Width of a block: data and address of slot 1, of slot 2, ...
LoadData(t) ==
    \E s \in Slots :
        /\ call[t].op # "none" /\ call[t].step = 2 * s - 1 /\ s <= Width(t)
        /\ slot' = [slot EXCEPT ![s].val = call[t].val]
        /\ call' = [call EXCEPT ![t].step = @ + 1]
        /\ UNCHANGED <<lock, ram, asked, failures>>

LoadAddress(t) ==
    \E s \in Slots :
        /\ call[t].op # "none" /\ call[t].step = 2 * s /\ s <= Width(t)
        /\ slot' = [slot EXCEPT ![s].cell = CurrentBlock(t).cells[s],
                                ![s].loaded = TRUE]
        /\ call' = [call EXCEPT ![t].step = @ + 1]
        /\ UNCHANGED <<lock, ram, asked, failures>>

\* sigma_trigger_safeload: the chip copies every loaded slot to its cell.
Trigger(t) ==
    /\ call[t].op # "none" /\ call[t].step = 2 * Width(t) + 1
    /\ \E r \in [Cells -> Values] :
          /\ \A c \in Cells :
                LET from == {s \in Slots : slot[s].loaded /\ slot[s].cell = c}
                IN IF from = {} THEN r[c] = ram[c]
                                ELSE \E s \in from : r[c] = slot[s].val
          /\ ram' = r
    /\ slot' = [s \in Slots |-> [slot[s] EXCEPT !.loaded = FALSE]]
    /\ call' = [call EXCEPT ![t].step = @ + 1]
    /\ UNCHANGED <<lock, asked, failures>>

\* The call of a task after its current block: the next block, or idle.
After(t) ==
    IF call[t].block < Len(Blocks(call[t].op))
    THEN [op |-> call[t].op, val |-> call[t].val,
          block |-> call[t].block + 1, step |-> 0]
    ELSE Idle

Leave(t) ==
    /\ call[t].op # "none" /\ call[t].step = 2 * Width(t) + 2
    /\ lock' = IF CurrentBlock(t).gives THEN NoTask ELSE lock
    /\ call' = [call EXCEPT ![t] = After(t)]
    /\ UNCHANGED <<slot, ram, asked, failures>>

\* A transaction fails three times: sigma_safeload_block returns at once, its
\* caller gives the lock back; the driver reports, the bridge goes on.
Fail(t) ==
    /\ call[t].op # "none" /\ call[t].step \in 1..(2 * Width(t) + 1)
    /\ failures < MaxFailures /\ failures' = failures + 1
    /\ lock' = IF CurrentBlock(t).gives THEN NoTask ELSE lock
    /\ call' = [call EXCEPT ![t] = IF call[t].op = "tcp" THEN After(t) ELSE Idle]
    /\ UNCHANGED <<slot, ram, asked>>

TaskNext(t) ==
    \/ Request(t) \/ Enter(t) \/ LoadData(t) \/ LoadAddress(t)
    \/ Trigger(t) \/ Leave(t) \/ Fail(t)

Next == \E t \in Tasks : TaskNext(t)

Spec == Init /\ [][Next]_vars

-----------------------------------------------------------------------------
(* Properties.                                                             *)

\* "Guards a safeload burst against interleaving from another task": no cell
\* ever takes a value that nobody asked to be written to it, even when one
\* transaction failed and left slots loaded.
ParamsRequested ==
    \A c \in Cells : ram[c] = Default \/ <<c, ram[c]>> \in asked

\* "Up to five parameters in one IST transfer (e.g. biquad)": while every
\* transaction succeeds, a filter never runs with coefficients of two
\* settings.
FiltersWhole ==
    failures = 0 => ram["eq0"] = ram["eq1"] /\ ram["bass0"] = ram["bass1"]

\* No task returns with the lock, whatever failed: the next burst can start.
LockReturned ==
    lock # NoTask => call[lock].op # "none"
=============================================================================
