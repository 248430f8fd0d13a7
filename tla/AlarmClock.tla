----------------------------- MODULE AlarmClock -----------------------------
(***************************************************************************)
(* The alarm table, the wake-up ramp and the sleep timer of the firmware   *)
(* (main/alarm_clock.cpp).  One task looks once a second at the ramp, at   *)
(* the two deadlines and at the table; the HTTP server changes the table,  *)
(* the timer, the volume and the power state in between.  gMutex guards    *)
(* single reads and writes of the shared fields, never a whole step of the *)
(* task, so each of those is a step here.                                  *)
(*                                                                         *)
(* Time counts the seconds of the task, MinuteLength of them in a minute.  *)
(* Gains are levels counted from the start of the ramp, one level more     *)
(* than kUserMoveDb apart; AudioService is taken as a caller sees it: a    *)
(* call changes the level or the power state, or fails and changes none.   *)
(***************************************************************************)
EXTENDS Integers, Sequences

CONSTANTS
    Tables,        \* the alarm tables a client may PUT: sequences of rows
    UserOps,       \* what the HTTP server does: a subset of UserCalls
    MaxLevel,      \* the loudest level; 0 is kAlarmRampStartDb
    SleepTimes,    \* the sleep times a client asks for, 0 cancels
    MinuteLength,  \* seconds in a minute
    MaxTime,       \* bound on the time
    MaxCalls,      \* bound on the calls of the HTTP server
    MaxFailures    \* bound on calls of AudioService and NVS that fail

UserCalls == {"volume", "standby", "wake", "sleep", "table", "radio"}

Levels == 0..MaxLevel
Rows == [at : Nat, action : {"on", "off"}, level : Levels, fade : Nat,
         duration : Nat, web : BOOLEAN]

ASSUME AlarmClockAssumption ==
    /\ Tables # {} /\ \A table \in Tables : table \in Seq(Rows)
    /\ UserOps \subseteq UserCalls
    /\ MaxLevel \in Nat
    /\ SleepTimes \subseteq Nat
    /\ MinuteLength \in Nat \ {0} /\ MaxTime \in Nat
    /\ MaxCalls \in Nat /\ MaxFailures \in Nat

VARIABLES
    time,        \* esp_timer and the wall clock, in seconds
    table,       \* gTable
    saved,       \* the table in NVS
    ramp,        \* gRamp: a singleton, or empty
    sleepAt,     \* gSleepDeadlineUs, 0 when there is none
    offAt,       \* gAlarmOffDeadlineUs, 0 when there is none
    lastMinute,  \* gLastCheckedMinute
    task,        \* the alarm task: where it is, and its locals
    level,       \* the master gain of the profile
    power,       \* AudioService::powerState
    radio,       \* is the web radio enabled?
    calls,       \* calls of the HTTP server so far
    failures,    \* failures injected so far
    moved,       \* history: the user set the level since the ramp was armed
    cancelled,   \* history: the user cancelled the sleep timer set last
    fired        \* history: the minutes in which a row fired, in order

alarmVars == <<time, table, saved, ramp, sleepAt, offAt, lastMinute, task, level,
               power, radio, calls, failures, moved, cancelled, fired>>

tableVars  == <<table, saved>>
timerVars  == <<ramp, sleepAt, offAt>>
deviceVars == <<level, power, radio>>
history    == <<moved, cancelled, fired>>

Ramp   == [start : Nat, seconds : Nat, target : Levels, last : Levels]
NoRow  == [at |-> 0, action |-> "off", level |-> 0, fade |-> 0, duration |-> 0,
           web |-> FALSE]
PCs    == {"wait", "ramp", "rampSet", "rampNote", "deadlines", "schedule",
           "offClear", "offRadio", "offPower",
           "onSource", "onLevel", "onPower", "onArm"}
Idle   == [pc |-> "wait", row |-> NoRow, next |-> "wait", db |-> 0,
           userMoved |-> FALSE, done |-> FALSE, woke |-> 0]
Minute == time \div MinuteLength

\* alarmRampDb: linear from the start of the ramp to its target.
AlarmRamp(target, elapsed, seconds) ==
    IF seconds = 0 \/ elapsed >= seconds THEN target
    ELSE (target * elapsed) \div seconds

AlarmTypeOK ==
    /\ time \in 0..MaxTime
    /\ table \in Tables /\ saved \in Tables
    /\ ramp \subseteq Ramp /\ \A r, s \in ramp : r = s
    /\ sleepAt \in Nat /\ offAt \in Nat /\ lastMinute \in -1..MaxTime
    /\ task \in [pc : PCs, row : Rows, next : {"schedule", "wait"}, db : Levels,
                 userMoved : BOOLEAN, done : BOOLEAN, woke : 0..MaxTime]
    /\ level \in Levels /\ power \in {"on", "standby"} /\ radio \in BOOLEAN
    /\ calls \in 0..MaxCalls /\ failures \in 0..MaxFailures
    /\ moved \in BOOLEAN /\ cancelled \in BOOLEAN /\ fired \in Seq(Nat)

\* start() after the boot: the table comes from NVS, nothing is running.
AlarmInit ==
    /\ time = 0
    /\ table \in Tables /\ saved = table
    /\ ramp = {} /\ sleepAt = 0 /\ offAt = 0 /\ lastMinute = -1
    /\ task = [Idle EXCEPT !.pc = "ramp"]
    /\ level \in Levels /\ power = "on" /\ radio \in BOOLEAN
    /\ calls = 0 /\ failures = 0 /\ moved = FALSE /\ cancelled = FALSE /\ fired = <<>>

At(pc)   == task.pc = pc
Goto(pc) == task' = [task EXCEPT !.pc = pc]
Sleep    == task' = [Idle EXCEPT !.woke = time]  \* locals end with the round

Fail == failures < MaxFailures /\ failures' = failures + 1

Tick ==
    /\ time < MaxTime
    /\ time' = time + 1
    /\ UNCHANGED <<tableVars, timerVars, lastMinute, task, deviceVars, calls,
                   failures, history>>

(***************************************************************************)
(* stepRamp.                                                               *)
(***************************************************************************)
\* Mutant: the level is compared with the target, not with the last step.
MutantStepRamp ==
    /\ At("ramp")
    /\ \/ ramp = {} /\ Goto("deadlines")
       \/ \E r \in ramp :
             task' = [task EXCEPT
                 !.userMoved = level # r.target,
                 !.done = time - r.start >= r.seconds \/ level # r.target,
                 !.db   = AlarmRamp(r.target, time - r.start, r.seconds),
                 !.pc   = IF level # r.target THEN "rampNote" ELSE "rampSet"]
    /\ UNCHANGED <<time, tableVars, timerVars, lastMinute, deviceVars, failures,
                   history>>

\* The copy of gRamp, and the test of userMovedVolume.
StepRamp ==
    /\ At("ramp")
    /\ \/ ramp = {} /\ Goto("deadlines")
       \/ \E r \in ramp :
             task' = [task EXCEPT
                 !.userMoved = level # r.last,
                 !.done = time - r.start >= r.seconds \/ level # r.last,
                 !.db   = AlarmRamp(r.target, time - r.start, r.seconds),
                 !.pc   = IF level # r.last THEN "rampNote" ELSE "rampSet"]
    /\ UNCHANGED <<time, tableVars, timerVars, lastMinute, deviceVars, failures,
                   history>>

\* setMaster: a failure is only logged.
SetMaster ==
    \/ level' = task.db /\ UNCHANGED failures
    \/ Fail /\ UNCHANGED level

RampSet ==
    /\ At("rampSet")
    /\ SetMaster
    /\ Goto("rampNote")
    /\ UNCHANGED <<time, tableVars, timerVars, lastMinute, power, radio, history>>

RampNote ==
    /\ At("rampNote")
    /\ ramp' = IF task.done THEN {} ELSE {[r EXCEPT !.last = task.db] : r \in ramp}
    /\ task' = [Idle EXCEPT !.pc = "deadlines"]
    /\ UNCHANGED <<time, tableVars, sleepAt, offAt, lastMinute, deviceVars,
                   failures, history>>

(***************************************************************************)
(* checkDeadlines.                                                         *)
(***************************************************************************)
Passed(deadline) == deadline # 0 /\ time >= deadline

\* Mutant: the deadlines are cleared whatever the power state is.
MutantCheckDeadlines ==
    /\ At("deadlines")
    /\ sleepAt' = 0 /\ offAt' = 0
    /\ Goto("schedule")
    /\ UNCHANGED <<time, tableVars, ramp, lastMinute, deviceVars, failures,
                   history>>

CheckDeadlines ==
    /\ At("deadlines")
    /\ \/ /\ power = "standby"
          /\ sleepAt' = 0 /\ offAt' = 0
          /\ Goto("schedule")
       \/ /\ power = "on"
          /\ task' = IF Passed(sleepAt) \/ Passed(offAt)
                     THEN [task EXCEPT !.pc = "offClear", !.next = "schedule"]
                     ELSE [task EXCEPT !.pc = "schedule"]
          /\ UNCHANGED <<sleepAt, offAt>>
    /\ UNCHANGED <<time, tableVars, ramp, lastMinute, deviceVars, failures,
                   history>>

(***************************************************************************)
(* checkSchedule: once in a minute, the first row that matches it.         *)
(***************************************************************************)
Matches == {i \in DOMAIN table : table[i].at = Minute}

\* Mutant: the minute checked last is never noted.
MutantCheckSchedule ==
    /\ At("schedule")
    /\ IF Matches = {} THEN Sleep /\ UNCHANGED fired
       ELSE \E i \in Matches :
              /\ \A j \in Matches : i <= j
              /\ task' = [task EXCEPT
                    !.row = table[i], !.next = "wait",
                    !.db  = AlarmRamp(table[i].level, 0, table[i].fade),
                    !.pc  = IF table[i].action = "on" THEN "onSource"
                            ELSE "offClear"]
              /\ fired' = Append(fired, Minute)
    /\ UNCHANGED <<time, tableVars, timerVars, deviceVars, lastMinute, failures,
                   moved, cancelled>>

CheckSchedule ==
    /\ At("schedule")
    /\ lastMinute' = Minute
    /\ IF Minute = lastMinute \/ Matches = {}
       THEN Sleep /\ UNCHANGED fired
       ELSE \E i \in Matches :
              /\ \A j \in Matches : i <= j
              /\ task' = [task EXCEPT
                    !.row = table[i], !.next = "wait",
                    !.db  = AlarmRamp(table[i].level, 0, table[i].fade),
                    !.pc  = IF table[i].action = "on" THEN "onSource"
                            ELSE "offClear"]
              /\ fired' = Append(fired, Minute)
    /\ UNCHANGED <<time, tableVars, timerVars, deviceVars, failures, moved,
                   cancelled>>

(***************************************************************************)
(* turnOff.                                                                *)
(***************************************************************************)
OffClear ==
    /\ At("offClear")
    /\ ramp' = {} /\ sleepAt' = 0 /\ offAt' = 0
    /\ Goto("offRadio")
    /\ UNCHANGED <<time, tableVars, lastMinute, deviceVars, failures, history>>

OffRadio ==
    /\ At("offRadio")
    /\ \/ radio' = FALSE /\ UNCHANGED failures
       \/ Fail /\ UNCHANGED radio
    /\ Goto("offPower")
    /\ UNCHANGED <<time, tableVars, timerVars, lastMinute, level, power, history>>

SetPower(state) ==
    \/ power' = state /\ UNCHANGED failures
    \/ Fail /\ UNCHANGED power

OffPower ==
    /\ At("offPower")
    /\ SetPower("standby")
    /\ IF task.next = "wait" THEN Sleep ELSE Goto("schedule")
    /\ UNCHANGED <<time, tableVars, timerVars, lastMinute, level, radio, history>>

(***************************************************************************)
(* turnOn.                                                                 *)
(***************************************************************************)
\* startSource: the row's URL, or the web radio off and the row's preset.
OnSource ==
    /\ At("onSource")
    /\ \/ radio' = task.row.web /\ UNCHANGED failures
       \/ Fail /\ UNCHANGED radio
    /\ Goto("onLevel")
    /\ UNCHANGED <<time, tableVars, timerVars, lastMinute, level, power, history>>

OnLevel ==
    /\ At("onLevel")
    /\ SetMaster
    /\ moved' = FALSE
    /\ Goto("onPower")
    /\ UNCHANGED <<time, tableVars, timerVars, lastMinute, power, radio,
                   cancelled, fired>>

\* The call and the speaker reconnection that follows it.
OnPower ==
    /\ At("onPower")
    /\ SetPower("on")
    /\ Goto("onArm")
    /\ UNCHANGED <<time, tableVars, timerVars, lastMinute, level, radio, history>>

OnArm ==
    /\ At("onArm")
    /\ ramp' = {[start |-> time, seconds |-> task.row.fade,
                 target |-> task.row.level, last |-> task.db]}
    /\ offAt' = IF task.row.duration = 0 THEN 0
                ELSE time + task.row.duration * MinuteLength
    /\ Sleep
    /\ UNCHANGED <<time, tableVars, sleepAt, lastMinute, deviceVars, failures,
                   history>>

\* vTaskDelay of a second; at the bound the clock stands and the task goes on.
Wake ==
    /\ At("wait") /\ (time > task.woke \/ time = MaxTime)
    /\ Goto("ramp")
    /\ UNCHANGED <<time, tableVars, timerVars, lastMinute, deviceVars, failures,
                   history>>

(***************************************************************************)
(* The HTTP server.                                                        *)
(***************************************************************************)
PutVolume ==
    /\ "volume" \in UserOps
    /\ level' \in Levels \ {level}
    /\ moved' = TRUE
    /\ UNCHANGED <<time, tableVars, timerVars, lastMinute, task, power, radio,
                   failures, cancelled, fired>>

PutPower ==
    /\ \/ "standby" \in UserOps /\ power' = "standby"
       \/ "wake" \in UserOps /\ power' = "on"
    /\ UNCHANGED <<time, tableVars, timerVars, lastMinute, task, level, radio,
                   failures, history>>

SetSleep ==
    /\ "sleep" \in UserOps
    /\ \E m \in SleepTimes :
          /\ sleepAt' = IF m = 0 THEN 0 ELSE time + m * MinuteLength
          /\ cancelled' = (m = 0)
    /\ UNCHANGED <<time, tableVars, ramp, offAt, lastMinute, task, deviceVars,
                   failures, moved, fired>>

\* replaceTable: the result of the save is ignored.
ReplaceTable ==
    /\ "table" \in UserOps
    /\ table' \in Tables
    /\ \/ saved' = table' /\ UNCHANGED failures
       \/ Fail /\ UNCHANGED saved
    /\ UNCHANGED <<time, timerVars, lastMinute, task, deviceVars, history>>

PutRadio ==
    /\ "radio" \in UserOps
    /\ radio' = ~radio
    /\ UNCHANGED <<time, tableVars, timerVars, lastMinute, task, level, power,
                   failures, history>>

TaskStep ==
    /\ \/ StepRamp \/ RampSet \/ RampNote \/ CheckDeadlines \/ CheckSchedule
       \/ OffClear \/ OffRadio \/ OffPower
       \/ OnSource \/ OnLevel \/ OnPower \/ OnArm \/ Wake
    /\ UNCHANGED calls

UserStep ==
    /\ calls < MaxCalls /\ calls' = calls + 1
    /\ PutVolume \/ PutPower \/ SetSleep \/ ReplaceTable \/ PutRadio

AlarmNext == Tick \/ TaskStep \/ UserStep

AlarmSpec == AlarmInit /\ [][AlarmNext]_alarmVars

\* The scheduler runs the alarm task, and time goes on.
FairAlarmSpec == AlarmSpec /\ WF_alarmVars(TaskStep) /\ WF_alarmVars(Tick)

(***************************************************************************)
(* Properties.                                                             *)
(***************************************************************************)
\* A row fires once in its minute, however often the task looks at the table
\* in it and however the table is replaced meanwhile.
FiresOncePerMinute == \A i, j \in DOMAIN fired : i # j => fired[i] # fired[j]

\* A ramp ends at its target, unless the user moves the level or switches to
\* standby, the radio is switched off or a later row starts over, or a call
\* fails.
WakesUp ==
    \A l \in Levels :
        (\E r \in ramp : r.target = l /\ r.start + r.seconds <= MaxTime)
            ~> \/ level = l \/ moved \/ power = "standby" \/ failures > 0
               \/ At("offClear") \/ At("onArm")

\* The sleep timer ends in standby, unless the user sets it further or
\* cancels it, or a call fails.
SleepEnds ==
    \A d \in 1..(MaxTime - 1) :
        (sleepAt = d) ~> (power = "standby" \/ sleepAt > d \/ cancelled \/ failures > 0)

=============================================================================
