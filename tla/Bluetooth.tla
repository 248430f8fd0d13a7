------------------------------ MODULE Bluetooth ------------------------------
(***************************************************************************)
(* The BT1035 Bluetooth module behind its UART (Bt1035Driver,              *)
(* BluetoothService, bt1035RetryTask, the /api/bluetooth handlers).        *)
(*                                                                         *)
(* Nothing guards the UART: the HTTP server, the retry and the reconnect   *)
(* tasks of the start, the alarm task and the event loop write commands    *)
(* and read whatever text is there, so that an answer which comes late, or *)
(* while two tasks wait, is taken for that of another command.  An         *)
(* operation is a plan: scripts, each the alternative of the one before,   *)
(* and a script is a sequence of steps.  A step is a command with what its *)
(* outcome decides, or an act of the driver itself.                        *)
(***************************************************************************)
EXTENDS Naturals, Sequences, FiniteSets

CONSTANTS
    MaxUsed,   \* bound on operations, faults, overlaps and link changes together
    MaxPolls,  \* bound on the polls of a wait; its deadline comes by then
    MaxBehind, \* bound on the commands the BT1035 is behind with
    MaxBusy    \* bound on the tasks that are amid an operation

ASSUME BluetoothAssumption ==
    MaxUsed \in Nat /\ MaxPolls \in Nat /\ MaxBehind \in Nat \ {0} /\ MaxBusy \in Nat

VARIABLES
    plan,       \* task -> what is left of its operation, <<>> when idle
    waiting,    \* task -> its command is written and it reads the UART
    polls,      \* task -> the times its wait has polled
    booted,     \* Bt1035Driver::booted_
    pairing,    \* BluetoothService::pairingActive_
    saved,      \* the secure store has a speaker
    chip,       \* the BT1035: power, configuration, AUTOCONN, link
    cmds,       \* commands the BT1035 has not executed yet
    rx,         \* the UART receive buffer
    seen,       \* history: connecting tasks whose link streamed since their flush
    crowded,    \* history: a task used the UART while another (re)booted
    off,        \* history: how the last disable ended, "none" after an enable
    clean,      \* history: no fault and no overlap so far
    used

bluetoothVars == <<plan, waiting, polls, booted, pairing, saved, chip, cmds, rx,
          seen, crowded, off, clean, used>>
driver == <<booted, pairing, saved>>
uart == <<chip, cmds, rx>>
history == <<off, clean, used>>

Tasks == {"http", "retry", "reconn", "alarm", "event"}
InitCommands == <<"ping", "i2sMode", "i2sRole", "codec">>
Config == {"i2sMode", "i2sRole", "codec"}
LinkStates == {"idle", "linked", "streaming"}
Linked == {"linked", "streaming"}
Valued == {"nameQ", "autoQ", "enc"}   \* queries whose answer must parse

Off == [on |-> FALSE, config |-> {}, pairing |-> FALSE, auto |-> FALSE,
        link |-> "idle"]
-----------------------------------------------------------------------------
(* Steps: a command that must be answered OK, one whose outcome is ignored,  *)
(* each behind ensureBooted or not; a wait; an act.                          *)
Step(k, c) == [kind |-> k, cmd |-> c]
Need(c) == Step("need", c)      \* guarded, a failure ends the script
Try(c) == Step("try", c)        \* guarded, the outcome is ignored
Must(c) == Step("must", c)      \* not guarded, a failure ends the script
Raw(c) == Step("raw", c)        \* not guarded, the outcome is ignored
Enter(c) == Step("enter", c)    \* guarded, after that the outcome is ignored
Poll(w) == Step(w, "stat")      \* guarded, what w waits for
Do(a) == Step("do", a)

Guarded(s) == s.kind \notin {"must", "raw", "do"}

BootScript ==
    <<Do("pinsLow"), Do("pinsHigh"), Do("flush")>>
    \o [i \in 1..4 |-> Must(InitCommands[i])] \o <<Raw("linkcfg"), Do("booted")>>
BootPlan(setup) == <<BootScript \o setup, <<Do("probe")>>>>
PostBoot == <<Try("name"), Try("auto3")>>
RetryPlan == IF booted THEN <<PostBoot>> ELSE BootPlan(PostBoot)

MutantShutdownPlan == <<<<Do("unbooted")>>>>
ShutdownPlan == <<<<Do("pinsLow"), Do("unbooted")>>>>

ScanPlan ==
    <<<<Try("pair0"), Try("scan0"), Do("enter"), Raw("print"),
        Raw("linkcfg"), Raw("auto0"), Raw("plist0"), Raw("disc"), Raw("dsca"),
        Raw("pair0"), Raw("scan0"), Do("flush"), Poll("busy"), Try("plistQ"),
        Do("flush"), Raw("inquiry"), Raw("disc"), Raw("dsca"), Raw("scan0")>>>>

MutantEnsure == <<Poll("playing"), Try("enc")>>
Ensure == <<Poll("playing"), Poll("streaming")>>
ConnectScript ==
    <<Enter("linkcfg"), Raw("auto0"), Do("flush"), Try("scan0"),
      Must("conn"), Poll("linked")>> \o Ensure \o <<Do("up")>>
IfLinked == <<Poll("isLinked")>> \o Ensure
AutoScript == <<Poll("auto")>> \o Ensure
ReconnectPlan(fallback) ==
    <<IfLinked, ConnectScript, IfLinked, AutoScript>>
    \o (IF fallback THEN <<ConnectScript, IfLinked>> ELSE <<>>)

StatusPlan == <<<<Need("nameQ"), Need("autoQ"), Need("stat")>>>>
WakePlan == <<<<Need("nameQ"), Need("autoQ"), Poll("awake")>>>>

BluetoothInit ==
    /\ saved \in BOOLEAN /\ booted \in BOOLEAN
    /\ chip \in {[Off EXCEPT !.on = TRUE, !.config = Config, !.auto = TRUE]}
                  \cup (IF booted THEN {} ELSE {Off})
    /\ plan = [t \in Tasks |->
                 CASE t = "retry" /\ ~booted -> BootPlan(PostBoot)
                   [] t = "reconn" /\ saved -> ReconnectPlan(TRUE)
                   [] OTHER -> <<>>]
    /\ waiting = [t \in Tasks |-> FALSE] /\ polls = [t \in Tasks |-> 0]
    /\ pairing = FALSE /\ cmds = <<>> /\ rx = <<>>
    /\ seen = {} /\ crowded = FALSE /\ off = "none"
    /\ clean = TRUE /\ used = 0
-----------------------------------------------------------------------------
(* The BT1035 executes a command; an answer is a final line with the value   *)
(* before it.  A link change is told by a line of its own.                   *)
Answer(k, b) == [kind |-> k, body |-> b]

After(c, m) ==
    CASE c \in {"pair1", "pair0"} -> {[m EXCEPT !.pairing = (c = "pair1")]}
      [] c \in {"auto3", "auto0"} -> {[m EXCEPT !.auto = (c = "auto3")]}
      [] c \in {"disc", "dsca"} -> {[m EXCEPT !.link = "idle"]}
      [] c = "conn" /\ m.link = "idle" -> {m, [m EXCEPT !.link = "linked"]}
      [] c = "audio" /\ m.link = "linked" -> {m, [m EXCEPT !.link = "streaming"]}
      [] c \in Config -> {[m EXCEPT !.config = @ \cup {c}]}
      [] OTHER -> {m}

Use(n) == used + n <= MaxUsed /\ used' = used + n

\* What a command may do: the new state, the answer, the fault it takes.
Executions(c) ==
    IF ~chip.on THEN {[chip |-> chip, answer |-> <<>>, cost |-> 0]}
    ELSE {[chip |-> m, cost |-> 0,
           answer |-> <<Answer("ok", IF c = "stat" THEN m.link ELSE c)>>]
             : m \in After(c, chip)}
         \cup {[chip |-> chip, answer |-> <<Answer("error", c)>>,
               cost |-> IF c = "conn" THEN 0 ELSE 1]}

Execute(c, e) ==
    /\ e \in Executions(c) /\ chip' = e.chip
    /\ Use(e.cost) /\ clean' = (clean /\ e.cost = 0)

CatchUp ==
    /\ chip.on /\ cmds # <<>> /\ cmds' = Tail(cmds)
    /\ \E e \in Executions(Head(cmds)) :
         Execute(Head(cmds), e) /\ rx' = rx \o e.answer
    /\ UNCHANGED <<plan, waiting, polls, driver, crowded, off>>

LinkChanges ==
    /\ chip.on /\ Use(1)
    /\ \E l \in LinkStates \ {chip.link} :
         /\ chip' = [chip EXCEPT !.link = l]
         /\ rx' = Append(rx, Answer("event", l))
    /\ UNCHANGED <<plan, waiting, polls, driver, cmds, crowded, off, clean>>
-----------------------------------------------------------------------------
(* transmitAndCollect reads until the text holds an OK or else an ERROR; the *)
(* parsers take the first value in the whole of it.                          *)
Final(a) == a.kind # "event"
HasFinal(text) == \E i \in DOMAIN text : Final(text[i])
Ends(text) == {n \in DOMAIN text : HasFinal(SubSeq(text, 1, n))}

States(text) == {i \in DOMAIN text : text[i].body \in LinkStates}
FirstState(text) == text[CHOOSE i \in States(text) : \A j \in States(text) : i <= j].body

Outcome(c, text) ==
    IF \A i \in DOMAIN text : text[i].kind # "ok" THEN "failed"
    ELSE IF c = "stat"
    THEN IF States(text) = {} THEN "failed" ELSE FirstState(text)
    ELSE IF c \in Valued /\ \A i \in DOMAIN text : text[i].body # c THEN "failed"
    ELSE "ok"

Current(t) == Head(Head(plan[t]))
Rest(t) == Tail(Head(plan[t]))
With(t, script) == IF script = <<>> THEN <<>> ELSE <<script>> \o Tail(plan[t])
Only(script) == IF script = <<>> THEN <<>> ELSE <<script>>
MutantInstead(t) ==
    IF Len(plan[t]) > 1 THEN Tail(plan[t])
    ELSE IF t = "retry" THEN RetryPlan
    ELSE IF t = "reconn" THEN ReconnectPlan(TRUE) ELSE <<>>
Instead(t) ==
    IF Len(plan[t]) > 1 THEN Tail(plan[t]) ELSE IF t = "retry" THEN RetryPlan ELSE <<>>
Again(t, before) ==
    IF polls[t] < MaxPolls THEN {With(t, before \o Head(plan[t]))} ELSE {}

\* What a wait does with the state it has read; the last alternative of one
\* that has not seen what it waits for is its deadline.
Waited(t, r) ==
    LET w == Current(t).kind IN
    CASE w = "isLinked" -> {IF r \in Linked THEN Only(Rest(t)) ELSE Instead(t)}
      [] w = "auto" ->
           IF r \in Linked THEN {Only(Rest(t))}
           ELSE {Instead(t)} \cup (IF r = "idle" THEN Again(t, <<>>) ELSE {})
      [] w = "linked" ->
           IF r \in Linked THEN {With(t, Rest(t))}
           ELSE {Instead(t)} \cup (IF r = "idle" THEN Again(t, <<>>) ELSE {})
      [] w = "playing" ->
           {With(t, IF r = "streaming" THEN Tail(Rest(t)) ELSE Rest(t))}
      [] w = "streaming" ->
           IF r = "streaming" THEN {With(t, <<Try("enc")>> \o Rest(t))}
           ELSE {Instead(t)} \cup Again(t, <<>>)
                  \cup (IF r = "linked" THEN Again(t, <<Try("audio")>>) ELSE {})
      [] w = "busy" ->
           {With(t, Rest(t))} \cup
             (IF r \in Linked
              THEN Again(t, <<Raw("disc"), Raw("dsca"), Do("flush")>>) \cup Again(t, <<>>)
              ELSE {})
      [] w = "awake" ->
           {IF r \in {"linked", "failed", "refused"} \/ ~saved THEN <<>> ELSE ReconnectPlan(FALSE)}

\* The plans that may follow the outcome r of the current step.
Following(t, r) ==
    LET s == Current(t) IN
    CASE s.kind \in {"need", "must"} ->
           {IF r \in {"failed", "refused"} THEN Instead(t) ELSE With(t, Rest(t))}
      [] s.kind = "enter" -> {IF r = "refused" THEN Instead(t) ELSE With(t, Rest(t))}
      [] s = Raw("inquiry") /\ r = "failed" ->
           {With(t, Rest(t)), With(t, <<Raw("scan0")>> \o Rest(t))}
      [] s.kind \in {"try", "raw"} -> {With(t, Rest(t))}
      [] OTHER -> Waited(t, r)

Has(p, s) == p # <<>> /\ \E i \in DOMAIN Head(p) : Head(p)[i] = s
IsPoll(s) == s.cmd = "stat" /\ s.kind # "need"

Decide(t, r) ==
    \E p \in Following(t, r) :
      /\ plan' = [plan EXCEPT ![t] = p]
      /\ polls' = [polls EXCEPT ![t] =
                     IF ~IsPoll(Current(t)) THEN @
                     ELSE IF Has(p, Current(t)) /\ Len(p) = Len(plan[t]) THEN @ + 1
                     ELSE 0]

\* The task reads text; what is behind the chunk it takes stays for others.
Collect(t, text) ==
    IF Ends(text) = {} THEN Decide(t, "failed") /\ rx' = <<>>
    ELSE \E n \in Ends(text) :
           /\ Decide(t, Outcome(Current(t).cmd, SubSeq(text, 1, n)))
           /\ rx' = SubSeq(text, n + 1, Len(text))

Powers(p) == Has(p, Do("booted")) \/ Has(p, Do("unbooted"))
Powering(t) == Powers(plan[t])
Others(t) == Tasks \ {t}
Crowding(t, power) ==
    crowded' = (crowded \/ \E u \in Others(t) : Powering(u) \/ (power /\ waiting[u]))
Ready(t) == plan[t] # <<>> /\ ~waiting[t] /\ Current(t).kind # "do"
Sends(t) == Ready(t) /\ (Guarded(Current(t)) => booted)

Refused(t) ==
    /\ Ready(t) /\ ~Sends(t) /\ Decide(t, "refused")
    /\ UNCHANGED <<waiting, driver, uart, crowded, history>>

\* Command and answer with nothing in between.
Exchange(t) ==
    /\ Sends(t) /\ cmds = <<>> /\ Crowding(t, FALSE)
    /\ \E e \in Executions(Current(t).cmd) :
         Execute(Current(t).cmd, e) /\ Collect(t, rx \o e.answer)
    /\ UNCHANGED <<waiting, driver, cmds, off>>

\* The command is written; the BT1035 answers late, or others run meanwhile.
Send(t) ==
    /\ Sends(t) /\ Crowding(t, FALSE) /\ clean' = FALSE
    /\ waiting' = [waiting EXCEPT ![t] = TRUE]
    /\ \/ /\ chip.on /\ Len(cmds) < MaxBehind /\ Use(IF cmds = <<>> THEN 1 ELSE 0)
          /\ cmds' = Append(cmds, Current(t).cmd)
          /\ UNCHANGED <<chip, rx>>
       \/ /\ cmds = <<>> /\ Use(1)
          /\ \E e \in Executions(Current(t).cmd) :
               e.cost = 0 /\ chip' = e.chip /\ rx' = rx \o e.answer
          /\ UNCHANGED cmds
    /\ UNCHANGED <<plan, polls, driver, off>>

Read(t) ==
    /\ waiting[t] /\ Collect(t, rx)
    /\ waiting' = [waiting EXCEPT ![t] = FALSE]
    /\ UNCHANGED <<driver, chip, cmds, crowded, history>>
-----------------------------------------------------------------------------
(* The acts of the driver between its commands.                              *)
Act(t) ==
    /\ plan[t] # <<>> /\ ~waiting[t] /\ Current(t).kind = "do"
    /\ polls' = polls
    /\ plan' = [plan EXCEPT ![t] =
                  IF Current(t) = Do("probe") \/ (Current(t) = Do("enter") /\ ~booted)
                  THEN Instead(t) ELSE With(t, Rest(t))]

PinsLow(t) ==
    /\ Act(t) /\ Current(t) = Do("pinsLow")
    /\ chip' = [Off EXCEPT !.auto = chip.auto] /\ cmds' = <<>>
    /\ Crowding(t, TRUE)
    /\ UNCHANGED <<waiting, driver, rx, history>>

\* The module may not come up: its oscillator does not always start.
PinsHigh(t) ==
    /\ Act(t) /\ Current(t) = Do("pinsHigh")
    /\ \/ chip' = [chip EXCEPT !.on = TRUE] /\ Use(0)
       \/ Use(1) /\ UNCHANGED chip
    /\ UNCHANGED <<waiting, driver, cmds, rx, crowded, off, clean>>

MutantFlush(t) ==
    /\ Act(t) /\ Current(t) \in {Do("flush"), Do("enter"), Do("probe")}
    /\ Crowding(t, Current(t) = Do("probe"))
    /\ UNCHANGED <<waiting, driver, uart, history>>
Flush(t) ==
    /\ Act(t) /\ Current(t) \in {Do("flush"), Do("enter"), Do("probe")}
    /\ rx' = IF Current(t) = Do("enter") /\ ~booted THEN rx ELSE <<>>
    /\ Crowding(t, Current(t) = Do("probe"))
    /\ UNCHANGED <<waiting, driver, chip, cmds, history>>

SetBooted(t) ==
    /\ Act(t) /\ Current(t) = Do("booted") /\ booted' = TRUE
    /\ UNCHANGED <<waiting, pairing, saved, uart, crowded, history>>

ClearBooted(t) ==
    /\ Act(t) /\ Current(t) = Do("unbooted") /\ booted' = FALSE
    /\ off' = IF crowded \/ plan["retry"] # <<>> \/ \E u \in Others(t) : Powering(u)
              THEN off ELSE "cut"
    /\ UNCHANGED <<waiting, pairing, saved, uart, crowded, clean, used>>

SetPairing(t) ==
    /\ Act(t) /\ Current(t) \in {Do("paired"), Do("unpaired")}
    /\ pairing' = (Current(t) = Do("paired"))
    /\ UNCHANGED <<waiting, booted, saved, uart, crowded, history>>

\* connectDirect has returned Ok; saveSpeaker may fail without a trace.
LinkIsUp(t) ==
    /\ Act(t) /\ Current(t) \in {Do("up"), Do("save")}
    /\ saved' \in (IF Current(t) = Do("save") THEN {saved, TRUE} ELSE {saved})
    /\ UNCHANGED <<waiting, booted, pairing, uart, crowded, history>>

Acts(t) ==
    \/ PinsLow(t) \/ PinsHigh(t) \/ Flush(t)
    \/ SetBooted(t) \/ ClearBooted(t) \/ SetPairing(t) \/ LinkIsUp(t)
-----------------------------------------------------------------------------
(* The operations.  enable, scan and connect forget the pairing mode first.  *)
Start(t, p) ==
    /\ plan[t] = <<>> /\ Use(1)
    /\ Cardinality({u \in Tasks : plan[u] # <<>>}) < MaxBusy
    /\ plan' = [plan EXCEPT ![t] = p] /\ polls' = [polls EXCEPT ![t] = 0]
    /\ Crowding(t, Powers(p))
    /\ UNCHANGED <<waiting, uart, clean>>

Enable(t) ==
    /\ t = "http" \/ (t = "event" /\ ~booted)   \* StaClient's fallback
    /\ Start(t, IF booted THEN <<>> ELSE BootPlan(<<>>))
    /\ pairing' = FALSE /\ off' = "none"
    /\ UNCHANGED <<booted, saved>>

Disable ==
    /\ Start("http", IF booted THEN ShutdownPlan ELSE <<>>)
    /\ pairing' = FALSE
    /\ off' = IF booted \/ plan["retry"] # <<>> \/ (\E u \in Others("http") : Powering(u))
              THEN off ELSE "nothing to do"
    /\ UNCHANGED <<booted, saved>>

Pair(on) ==
    /\ Start("http", <<IF on THEN <<Need("pair1"), Do("paired")>>
                             ELSE <<Need("pair0"), Do("unpaired")>>>>)
    /\ UNCHANGED <<driver, off>>

Scan == Start("http", ScanPlan) /\ pairing' = FALSE /\ UNCHANGED <<booted, saved, off>>

ConnectTo(save) ==
    /\ Start("http", <<ConnectScript \o (IF save THEN <<Do("save")>> ELSE <<>>)>>)
    /\ pairing' = FALSE
    /\ UNCHANGED <<booted, saved, off>>

Reconnect ==
    /\ Start("http", IF saved THEN ReconnectPlan(TRUE) ELSE <<>>)
    /\ UNCHANGED <<driver, off>>

Status == Start("http", IF booted THEN StatusPlan ELSE <<>>) /\ UNCHANGED <<driver, off>>

Command(c) == Start("http", <<<<Need(c)>>>>) /\ UNCHANGED <<driver, off>>

Speaker(keep) ==
    /\ Start("http", <<>>) /\ saved' = keep
    /\ UNCHANGED <<booted, pairing, off>>

WakeSpeaker ==
    /\ Start("alarm", IF booted THEN WakePlan
                      ELSE IF saved THEN ReconnectPlan(FALSE) ELSE <<>>)
    /\ UNCHANGED <<driver, off>>

Operation ==
    \/ \E t \in {"http", "event"} : Enable(t)
    \/ \E b \in BOOLEAN : Pair(b) \/ ConnectTo(b) \/ Speaker(b)
    \/ \E c \in {"disc", "auto3", "plistQ", "enc", "codec"} : Command(c)
    \/ Disable \/ Scan \/ Reconnect \/ Status \/ WakeSpeaker

Task(t) == Refused(t) \/ Exchange(t) \/ Send(t) \/ Read(t) \/ Acts(t)

\* connectDirect of a task, once it has flushed what was there before.
Connecting(p) == Has(p, Do("up")) /\ ~Has(p, Do("flush"))
Witness == seen' = {t \in Tasks : /\ Connecting(plan'[t])
                                  /\ t \in seen \/ chip'.link = "streaming"}

Progress == (CatchUp \/ \E t \in Tasks : Task(t)) /\ Witness
BluetoothNext == Progress \/ ((Operation \/ LinkChanges) /\ Witness)

\* The scheduler runs some task that can go on, and the module answers.
BluetoothSpec == BluetoothInit /\ [][BluetoothNext]_bluetoothVars /\ WF_bluetoothVars(Progress)
-----------------------------------------------------------------------------
BluetoothTypeOK ==
    /\ waiting \in [Tasks -> BOOLEAN] /\ polls \in [Tasks -> 0..MaxPolls]
    /\ booted \in BOOLEAN /\ pairing \in BOOLEAN /\ saved \in BOOLEAN
    /\ chip \in [on : BOOLEAN, config : SUBSET Config, pairing : BOOLEAN,
                 auto : BOOLEAN, link : LinkStates]
    /\ Len(cmds) <= MaxBehind /\ seen \subseteq Tasks
    /\ crowded \in BOOLEAN /\ clean \in BOOLEAN /\ used \in 0..MaxUsed
    /\ off \in {"none", "cut", "nothing to do"}

\* A connect that has succeeded saw the link stream at some time after its own
\* flush, whoever's answers it has read and however late they came
\* (connectDirect, waitForA2dpConnected, ensureA2dpStreaming).
ConnectIsTrue == \A t \in Tasks : plan[t] # <<>> /\ Current(t) = Do("up") => t \in seen

\* Unless another task used the UART while the module was being booted or shut
\* down, a booted module is on and has taken the whole init sequence, whatever
\* answers were late, lost or an error (boot, resetAndInitOnce).
BootedIsConfigured ==
    booted /\ ~crowded /\ (\A t \in Tasks : ~Powering(t))
      => chip.on /\ chip.config = Config

\* Once a disable on its own has cut the power, nothing but an enable brings it
\* back: not the retry task, a reconnect, the alarm or a scan (shutdown).
OffStaysOff == off = "cut" => ~booted /\ ~chip.on

\* When nothing more is asked of them all tasks come to an end: the attempts of
\* the retry task, and the waits for a link that does not come or an answer that
\* another task has read.
OpsEnd == <>[](\A t \in Tasks : plan[t] = <<>>)

\* BluetoothService.hpp: setEnabled(false) "powers it down".
DisabledIsOff == off # "none" => ~chip.on

\* reconnectSavedSpeaker: "waiting for module auto-reconnect".
AutoWaitIsArmed ==
    \A t \in Tasks : plan[t] # <<>> /\ Current(t) = Poll("auto") => chip.auto
=============================================================================
