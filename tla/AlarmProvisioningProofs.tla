---------------------- MODULE AlarmProvisioningProofs ----------------------
(***************************************************************************)
(* Two components that share nothing: the network and the alarm clock, for *)
(* any networks, tables, lengths of a minute, and any number of calls,     *)
(* retries, failures, timeouts, outages and resets.                        *)
(***************************************************************************)
EXTENDS AlarmClock, Provisioning, TLAPS

-----------------------------------------------------------------------------
(* The objects, the driver and the mode of the network agree once it is up. *)

\* app_main on its way: what it holds at each place.  A handler can be under
\* way only while there is a client that has registered it.
Joining == {"wait", "woken", "serve", "release"}
Before  == {"init", "join", "setup", "halted"}

Places ==
    /\ main \in Joining \cup Before \cup {"leave", "done"}
    /\ mode = "none" \/ main \in {"release", "done"}
    /\ main \in Joining => client.handlers /\ wifi # "stopped"
    /\ main \in Before => ~client.connected /\ ~client.handlers /\ handler = "idle"
    /\ main = "serve" => client.connected
    /\ main \in {"serve", "release"} => group = "none"
    /\ main = "release" => mode = "sta"

NetworkInv ==
    /\ client \in [connected : BOOLEAN, handlers : BOOLEAN]
    /\ Places
    /\ WifiMatchesMode

LEMMA NoClientIsClient ==
    /\ NoClient \in [connected : BOOLEAN, handlers : BOOLEAN]
    /\ ~NoClient.connected /\ ~NoClient.handlers
BY DEF NoClient

LEMMA NetworkInit == Init => NetworkInv
BY NoClientIsClient DEF Init, NetworkInv, Places, Joining, Before, WifiMatchesMode

\* A reset, from wherever.
LEMMA ResetKeeps == Reset => NetworkInv'
BY NoClientIsClient DEF Reset, NetworkInv, Places, Joining, Before, WifiMatchesMode

\* A step of anybody else that leaves app_main and its objects alone, and the
\* driver too if the set-up network is up or there is nobody to drive it.
LEMMA NetworkFrame ==
    ASSUME NetworkInv, UNCHANGED <<boot, group>>,
           wifi' = "stopped" => wifi = "stopped",
           handler' = "idle" \/ client.handlers \/ handler # "idle",
           mode = "ap" => wifi' = wifi
    PROVE  NetworkInv'
BY DEF NetworkInv, Places, Joining, Before, WifiMatchesMode, boot

LEMMA MainKeeps == ASSUME NetworkInv, MainStep PROVE NetworkInv'
<1> USE DEF NetworkInv, Places, Joining, Before, WifiMatchesMode, boot, poll, loop, drive, phone
<1>1. CASE Start
  BY <1>1 DEF Start
<1>2. CASE Join
  <2>1. PICK fails \in BOOLEAN :
           /\ main' = IF fails THEN "setup" ELSE "wait"
           /\ client' = IF fails THEN client ELSE [client EXCEPT !.handlers = TRUE]
           /\ wifi' = IF fails THEN wifi ELSE "idle"
    BY <1>2 DEF Join
  <2>2. main = "join" /\ UNCHANGED <<mode, handler>>
    BY <1>2 DEF Join
  <2> QED
    BY <2>1, <2>2
<1>3. CASE Woken
  BY <1>3 DEF Woken
<1>4. CASE DeleteGroup
  BY <1>4 DEF DeleteGroup
<1>5. CASE ForgetGroup
  BY <1>5 DEF ForgetGroup
<1>6. CASE Leave
  BY <1>6, NoClientIsClient DEF Leave, StopWifi
<1>7. CASE ServeSta
  <2>1. ~MovedFrom(client).connected /\ ~MovedFrom(client).handlers
    BY NoClientIsClient DEF MovedFrom
  <2>2. main = "serve" /\ UNCHANGED <<netifs, group, handler>>
    BY <1>7 DEF ServeSta
  <2>3. \/ main' = "leave" /\ UNCHANGED <<mode, client, wifi>>
        \/ /\ main' = "release" /\ mode' = "sta" /\ UNCHANGED wifi
           /\ client' = [client EXCEPT !.handlers = @ /\ TRUE]
    BY <1>7, <2>1 DEF ServeSta, Destroyed
  <2> QED
    BY <2>2, <2>3
<1>8. CASE ServeSetup
  BY <1>8 DEF ServeSetup
<1>9. CASE ReleaseBle
  BY <1>9 DEF ReleaseBle
<1> QED
  BY <1>1, <1>2, <1>3, <1>4, <1>5, <1>6, <1>7, <1>8, <1>9 DEF MainStep

LEMMA HandlerKeeps == ASSUME NetworkInv, HandlerStep PROVE NetworkInv'
<1> USE DEF boot, poll, loop, drive, phone
<1>1. mode = "ap" => ~client.handlers /\ handler = "idle" /\ wifi = "idle"
  BY DEF NetworkInv, WifiMatchesMode
<1>2. CASE OnStart
  BY <1>1, <1>2, NetworkFrame DEF OnStart, Take, Reconnect
<1>3. CASE OnLostRetry
  BY <1>1, <1>3, NetworkFrame DEF OnLostRetry, Take
<1>4. CASE OnLostLast
  BY <1>1, <1>4, NetworkFrame DEF OnLostLast, Take
<1>5. CASE OnLostLater
  BY <1>1, <1>5, NetworkFrame DEF OnLostLater, Take, Reconnect
<1>6. CASE OnAddress
  BY <1>1, <1>6, NetworkFrame DEF OnAddress, Take
<1>7. CASE AfterDelay
  BY <1>1, <1>7, NetworkFrame DEF AfterDelay, Reconnect
<1>8. CASE SetBit
  BY <1>1, <1>8, NetworkFrame, ResetKeeps DEF SetBit
<1>9. CASE Unheard
  BY <1>1, <1>9, NetworkFrame DEF Unheard
<1> QED
  BY <1>2, <1>3, <1>4, <1>5, <1>6, <1>7, <1>8, <1>9 DEF HandlerStep

\* The driver, the access point, the phone and the requests.
LEMMA RestKeeps ==
    ASSUME NetworkInv, Next, ~MainStep, ~HandlerStep PROVE NetworkInv'
<1> USE DEF boot, poll, loop, drive, phone, store
<1>1. mode = "ap" => wifi = "idle"
  BY DEF NetworkInv, WifiMatchesMode
<1>2. CASE Linked \/ Lost \/ Missed
  BY <1>1, <1>2, NetworkFrame DEF Linked, Lost, Missed
<1>3. CASE ApGoes \/ ApComes \/ MinutePasses
  BY <1>3, NetworkFrame DEF ApGoes, ApComes, MinutePasses
<1>4. CASE Receive \/ CredFail \/ CredSuccess \/ PostWifi \/ ResetWifi \/ DisableBluetooth
  BY <1>4, NetworkFrame
     DEF Receive, CredFail, CredSuccess, PostWifi, ResetWifi, DisableBluetooth
<1>5. CASE \E t \in Tasks : SaveStep(t) \/ SaveFails(t)
  BY <1>5, NetworkFrame DEF SaveStep, SaveFails
<1>6. CASE Restart \/ PowerCycle
  BY <1>6, ResetKeeps DEF Restart, PowerCycle
<1> QED
  BY <1>2, <1>3, <1>4, <1>5, <1>6 DEF Next

LEMMA NetworkStutter == ASSUME NetworkInv, UNCHANGED vars PROVE NetworkInv'
BY DEF vars, NetworkInv, Places, Joining, Before, WifiMatchesMode

\* Once the network is up the StaClient, its handlers, the driver and the
\* event group agree with the mode, whatever has failed, timed out or raced
\* on the way (NetBootstrap::start, StaClient::connect and its moves).
THEOREM WifiMatchesModeHolds == Spec => []WifiMatchesMode
<1>1. NetworkInv /\ [Next]_vars => NetworkInv'
  BY MainKeeps, HandlerKeeps, RestKeeps, NetworkStutter
<1>2. NetworkInv => WifiMatchesMode
  BY DEF NetworkInv
<1> QED
  BY NetworkInit, <1>1, <1>2, PTL DEF Spec

-----------------------------------------------------------------------------
(* No row fires twice in a minute.                                          *)

\* The minutes fired in are in order, and none is later than the minute that
\* the task has checked last, which is over or still going on.
FiredInv ==
    /\ time \in Nat /\ lastMinute \in Int /\ lastMinute <= Minute
    /\ fired \in Seq(Int)
    /\ \A i \in DOMAIN fired : fired[i] <= lastMinute
    /\ \A i, j \in DOMAIN fired : i < j => fired[i] < fired[j]

\* The quotient and what is left of a number of seconds.
LEMMA Quotient ==
    ASSUME NEW a \in Nat, NEW n \in Nat \ {0}
    PROVE  /\ a \div n \in Nat
           /\ n * (a \div n) <= a /\ a < n * (a \div n) + n
<1>1. a \div n \in Int /\ a % n \in 0..(n - 1) /\ a = n * (a \div n) + (a % n)
  OBVIOUS
<1>2. a \div n >= 0
  OBVIOUS
<1> QED
  BY <1>1, <1>2

\* A minute never comes back.
LEMMA MinutesGoOn ==
    ASSUME NEW a \in Nat, NEW n \in Nat \ {0} PROVE a \div n <= (a + 1) \div n
<1> DEFINE p == a \div n
           q == (a + 1) \div n
<1>1. p \in Nat /\ q \in Nat /\ n * p <= a /\ a + 1 < n * q + n
  BY Quotient
<1> HIDE DEF p, q
<1>2. n * p < n * (q + 1)
  BY <1>1
<1>3. p < q + 1
  BY <1>1, <1>2
<1> QED
  BY <1>1, <1>3 DEF p, q

LEMMA FiredInit == AlarmInit => FiredInv
BY AlarmClockAssumption, Quotient DEF AlarmInit, FiredInv, Minute

LEMMA TickKeeps == ASSUME FiredInv, Tick PROVE FiredInv'
<1>1. time' = time + 1 /\ UNCHANGED <<lastMinute, fired>>
  BY DEF Tick, history
<1>2. Minute \in Nat /\ Minute' \in Nat /\ Minute <= Minute'
  BY <1>1, AlarmClockAssumption, MinutesGoOn, Quotient DEF FiredInv, Minute
<1> QED
  BY <1>1, <1>2 DEF FiredInv

\* Whatever leaves the time, the minute checked and the history alone.
LEMMA FiredFrame ==
    ASSUME FiredInv, UNCHANGED <<time, lastMinute, fired>> PROVE FiredInv'
BY DEF FiredInv, Minute

LEMMA CheckScheduleKeeps == ASSUME FiredInv, CheckSchedule PROVE FiredInv'
<1>1. lastMinute' = Minute /\ UNCHANGED time
  BY DEF CheckSchedule
<1>2. \/ UNCHANGED fired
      \/ Minute # lastMinute /\ fired' = Append(fired, Minute)
  BY DEF CheckSchedule
<1>3. Minute' = Minute /\ Minute \in Int /\ time' \in Nat
  BY <1>1, AlarmClockAssumption, Quotient DEF Minute, FiredInv
<1>4. CASE UNCHANGED fired
  BY <1>1, <1>3, <1>4 DEF FiredInv
<1>5. CASE Minute # lastMinute /\ fired' = Append(fired, Minute)
  <2> DEFINE f == fired
             g == fired'
             n == Len(f)
  <2>1. lastMinute < Minute /\ lastMinute \in Int /\ f \in Seq(Int)
    BY <1>3, <1>5 DEF FiredInv
  <2>2. /\ n \in Nat /\ g \in Seq(Int) /\ Len(g) = n + 1 /\ g[n + 1] = Minute
        /\ \A i \in 1..n : f[i] \in Int /\ g[i] = f[i]
    BY <1>3, <1>5, <2>1
  <2>3. /\ \A i \in 1..n : f[i] <= lastMinute
        /\ \A i, j \in 1..n : i < j => f[i] < f[j]
    BY <2>1 DEF FiredInv
  <2>4. DOMAIN g = 1..(n + 1)
    BY <2>2
  <2> HIDE DEF f, g, n
  <2>5. \A i \in 1..(n + 1) : i \in 1..n \/ i = n + 1
    BY <2>2
  <2>6. \A i \in 1..(n + 1) : g[i] <= Minute
    BY <1>3, <2>1, <2>2, <2>3, <2>5
  <2>7. \A i, j \in 1..(n + 1) : i < j => g[i] < g[j]
    <3> SUFFICES ASSUME NEW i \in 1..(n + 1), NEW j \in 1..(n + 1), i < j
                 PROVE  g[i] < g[j]
      OBVIOUS
    <3>1. i \in 1..n /\ g[i] = f[i] /\ f[i] \in Int /\ f[i] <= lastMinute
      BY <2>2, <2>3
    <3>2. CASE j \in 1..n
      BY <2>2, <2>3, <3>1, <3>2
    <3>3. CASE j = n + 1
      BY <1>3, <2>1, <2>2, <3>1, <3>3
    <3> QED
      BY <2>5, <3>2, <3>3
  <2> QED
    BY <1>1, <1>3, <2>2, <2>4, <2>6, <2>7 DEF FiredInv, g
<1> QED
  BY <1>2, <1>4, <1>5

LEMMA AlarmKeeps == ASSUME FiredInv, [AlarmNext]_alarmVars PROVE FiredInv'
<1> USE DEF tableVars, timerVars, deviceVars, history
<1>1. CASE Tick
  BY <1>1, TickKeeps
<1>2. CASE TaskStep
  <2>1. CASE CheckSchedule
    BY <2>1, CheckScheduleKeeps
  <2>2. CASE ~CheckSchedule
    BY <1>2, <2>2, FiredFrame
       DEF TaskStep, StepRamp, RampSet, RampNote, CheckDeadlines, OffClear, OffRadio,
           OffPower, OnSource, OnLevel, OnPower, OnArm, Wake
  <2> QED
    BY <2>1, <2>2
<1>3. CASE UserStep
  BY <1>3, FiredFrame DEF UserStep, PutVolume, PutPower, SetSleep, ReplaceTable, PutRadio
<1>4. CASE UNCHANGED alarmVars
  BY <1>4, FiredFrame DEF alarmVars
<1> QED
  BY <1>1, <1>2, <1>3, <1>4 DEF AlarmNext

\* A row fires at most once in its minute: the task notes the minute before it
\* looks for a row, and no minute comes back (checkSchedule).
THEOREM FiresOncePerMinuteHolds == AlarmSpec => []FiresOncePerMinute
<1>1. FiredInv => FiresOncePerMinute
  <2> SUFFICES ASSUME FiredInv, NEW i \in DOMAIN fired, NEW j \in DOMAIN fired, i # j
               PROVE  fired[i] # fired[j]
    BY DEF FiresOncePerMinute
  <2>1. i \in Int /\ j \in Int /\ fired[i] \in Int /\ fired[j] \in Int
    BY DEF FiredInv
  <2> QED
    BY <2>1 DEF FiredInv
<1> QED
  BY FiredInit, AlarmKeeps, <1>1, PTL DEF AlarmSpec
=============================================================================
