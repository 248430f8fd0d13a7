---------------------------- MODULE Provisioning ----------------------------
(***************************************************************************)
(* How the radio gets onto the network and stays there (NetBootstrap,      *)
(* StaClient, SoftApHost, BleProvisioning, NvsSecureStore, the Wi-Fi       *)
(* handlers of SetupWebServer and the end of app_main).                    *)
(*                                                                         *)
(* Three tasks act: app_main joins the stored network or falls back to the *)
(* set-up network, the event-loop task runs wifiEventHandler and the       *)
(* callback of the BLE provisioning, httpd saves and clears credentials.   *)
(* app_main waits in connect() for a bit of an event group which the       *)
(* handler sets and which app_main then deletes; StaClient objects are     *)
(* moved several times before they rest.  The Wi-Fi driver and the access  *)
(* point are the environment.  Names and keys of networks are members of   *)
(* Nets: a pair is right if both are of one network that exists.           *)
(***************************************************************************)
EXTENDS Naturals, Sequences, Functions

CONSTANTS
    Nets,          \* networks whose name and key a user may enter
    Existing,      \* those there is an access point for
    LongNamed,     \* those whose name has all 32 bytes
    None,          \* no value stored
    MaxRetries,    \* kMaxConnectRetries
    MaxIncidents   \* bound on what goes wrong or is asked for: see Kinds

ASSUME ProvisioningAssumption ==
    /\ Existing \subseteq Nets /\ LongNamed \subseteq Nets /\ None \notin Nets
    /\ MaxRetries \in Nat /\ MaxIncidents \in Nat

VARIABLES
    nvs,        \* the two keys: ssid and pwd
    main,       \* where app_main is
    mode,       \* NetState: "none", "ap" or "sta"
    client,     \* the StaClient in use: connected_, handlers registered
    group,      \* s_wifiEventGroup: "none", "live" or "deleted"
    bits,       \* its bits
    got,        \* what the wait returned: "nothing", "connected" or "failed"
    handler,    \* where wifiEventHandler is
    retries,    \* s_connectRetries
    since,      \* s_disconnectedSinceTick: "zero", "recent", "old" (60 s)
    wifi,       \* driver: "stopped", "idle", "joining" or "linked"
    config,     \* name and key the driver was given
    netifs,     \* network interfaces created since the reset
    events,     \* queue of the event loop
    apUp,       \* the access points are on the air
    ble,        \* BLE: "off", "on" or "released"
    pending,    \* gPendingCreds: what the provisioning manager tries, or None
    saver,      \* saveWifiCredentials of each task: step and network
    reboots,    \* a rebootTask is waiting
    bluetooth,  \* BluetoothService::isEnabled
    gaveUp,     \* history: the handler gave up although there was an address
    used        \* how much of each bound is used

vars == <<nvs, main, mode, client, group, bits, got, handler, retries, since, wifi,
          config, netifs, events, apUp, ble, pending, saver, reboots, bluetooth,
          gaveUp, used>>

\* Groups of variables that actions leave alone together.
air == <<apUp>>
store == <<nvs, saver, reboots>>
poll == <<group, bits, got>>
loop == <<handler, retries, since>>
boot == <<main, mode, client, netifs>>
drive == <<wifi, config, events>>
phone == <<ble, pending, bluetooth>>

\* Attempts and links that fail for no reason, times the access point goes
\* away, waits that reach kConnectTimeout, failed calls of the platform, power
\* cycles, and requests over HTTP and BLE.
Kinds == {"misses", "outages", "timeouts", "failures", "resets", "requests"}
Unused == [k \in Kinds |-> 0]
Incidents == FoldFunction(LAMBDA x, y : x + y, 0, used)
Use(k) == Incidents < MaxIncidents /\ used' = [used EXCEPT ![k] = @ + 1]
Perhaps(fails) == IF fails THEN Use("failures") ELSE UNCHANGED used

NoClient == [connected |-> FALSE, handlers |-> FALSE]
NoSave == [step |-> "idle", net |-> None, alone |-> FALSE]
Tasks == {"http", "ble"}
Saving(t) == saver[t].step # "idle"

\* The driver takes a name of 31 bytes: one of 32 loses its last.
Shortened(net) == IF net \in LongNamed THEN None ELSE net
Right == config.ssid \in Existing /\ config.pwd = config.ssid

Init ==
    /\ main = "init" /\ mode = "none" /\ client = NoClient
    /\ group = "none" /\ bits = {} /\ got = "nothing"
    /\ handler = "idle" /\ retries = 0 /\ since = "zero"
    /\ wifi = "stopped" /\ config = [ssid |-> None, pwd |-> None] /\ netifs = {}
    /\ events = <<>> /\ ble = "off" /\ pending = None
    /\ saver = [t \in Tasks |-> NoSave] /\ reboots = FALSE /\ bluetooth = TRUE
    /\ gaveUp = FALSE
    /\ nvs \in {[ssid |-> None, pwd |-> None]} \cup {[ssid |-> n, pwd |-> n] : n \in Nets}
    /\ apUp \in BOOLEAN
    /\ used = Unused

\* A reset, whoever asks for it: RAM is gone, the flash stays.
Reset ==
    /\ main' = "init" /\ mode' = "none" /\ client' = NoClient
    /\ group' = "none" /\ bits' = {} /\ got' = "nothing"
    /\ handler' = "idle" /\ retries' = 0 /\ since' = "zero"
    /\ wifi' = "stopped" /\ config' = [ssid |-> None, pwd |-> None] /\ netifs' = {}
    /\ events' = <<>> /\ ble' = "off" /\ pending' = None
    /\ saver' = [t \in Tasks |-> NoSave] /\ reboots' = FALSE /\ bluetooth' = TRUE
    /\ gaveUp' = FALSE
    /\ UNCHANGED <<nvs, apUp>>

-----------------------------------------------------------------------------
\* app_main up to the call of NetBootstrap::start.  A platform call that
\* fails ends app_main, and nothing tries again.
Start ==
    /\ main = "init"
    /\ \E fails \in BOOLEAN :
          /\ Perhaps(fails)
          /\ main' = IF fails THEN "halted" ELSE IF nvs.ssid # None THEN "join" ELSE "setup"
    /\ UNCHANGED <<mode, client, netifs, poll, gaveUp, air, store, loop, drive, phone>>

\* startStaMode up to the wait in connect().  After a failure the StaClient
\* is destroyed, but the event group stays behind.
Join ==
    /\ main = "join"
    /\ \E fails \in BOOLEAN :
          /\ Perhaps(fails)
          /\ main' = IF fails THEN "setup" ELSE "wait"
          /\ client' = IF fails THEN client ELSE [client EXCEPT !.handlers = TRUE]
          /\ wifi' = IF fails THEN wifi ELSE "idle"
          /\ events' = IF fails THEN events ELSE <<"start">>
    /\ netifs' = {"sta"}
    /\ config' = [ssid |-> Shortened(nvs.ssid), pwd |-> nvs.pwd]
    /\ group' = "live"
    /\ retries' = 0 /\ since' = "zero"
    /\ UNCHANGED <<mode, bits, got, handler, gaveUp, air, store, phone>>

\* xEventGroupWaitBits returns with a bit, or without one after 45 s.
Woken ==
    /\ main = "wait"
    /\ IF bits = {} THEN Use("timeouts") ELSE UNCHANGED used
    /\ main' = "woken"
    /\ got' = CASE "connected" \in bits -> "connected"
                [] bits = {"failed"}    -> "failed"
                [] OTHER                -> "nothing"
    /\ bits' = {}
    /\ UNCHANGED <<mode, client, netifs, group, gaveUp, air, store, loop, drive, phone>>

\* vEventGroupDelete, and only then s_wifiEventGroup = nullptr.
DeleteGroup ==
    /\ main = "woken" /\ group = "live"
    /\ group' = "deleted"
    /\ UNCHANGED <<boot, bits, got, gaveUp, air, store, loop, drive, phone, used>>

ForgetGroup ==
    /\ main = "woken" /\ group = "deleted"
    /\ group' = "none"
    /\ main' = IF got = "connected" THEN "serve" ELSE "leave"
    /\ client' = [client EXCEPT !.connected = (got = "connected")]
    /\ UNCHANGED <<mode, netifs, bits, got, gaveUp, air, store, loop, drive, phone, used>>

\* The driver stops, whatever it was doing.
StopWifi == wifi' = "stopped"

\* connect() has failed, or the web server has not started: the handlers are
\* unregistered, which waits for one that runs, and Wi-Fi is stopped.
Leave ==
    /\ main = "leave" /\ handler = "idle"
    /\ client' = NoClient
    /\ StopWifi
    /\ main' = "setup"
    /\ UNCHANGED <<mode, netifs, config, events, poll, gaveUp, air, store,
                   loop, phone, used>>

\* Mutant: the move constructor leaves its source as it was.
MutantMovedFrom(c) == c

\* What is left of a StaClient after a move, and its destructor.
MovedFrom(c) == NoClient
Destroyed(c) == IF c.connected THEN StopWifi ELSE UNCHANGED wifi

\* The rest of startStaMode: web server, SigmaStudio bridge, and the StaClient
\* is moved into the NetBootstrap, the source of the move destroyed.
ServeSta ==
    /\ main = "serve"
    /\ \E fails \in BOOLEAN :
          /\ Perhaps(fails)
          /\ IF fails THEN main' = "leave" /\ UNCHANGED <<mode, client, wifi>>
             ELSE /\ main' = "release" /\ mode' = "sta"
                  /\ Destroyed(MovedFrom(client))
                  /\ client' = [client EXCEPT !.handlers = @ /\ ~MovedFrom(client).handlers]
    /\ UNCHANGED <<netifs, config, events, poll, gaveUp, air, store, loop, phone>>

\* Mutant: the interfaces are created whether they exist or not, and a second
\* one of the same name is fatal.
MutantServeSetup ==
    /\ main = "setup"
    /\ IF netifs = {} THEN /\ main' = "done" /\ mode' = "ap" /\ wifi' = "idle"
                           /\ netifs' = {"ap", "sta"} /\ ble' = "on"
                           /\ UNCHANGED <<client, config, events, poll, gaveUp, air,
                                          store, loop, pending, bluetooth, used>>
       ELSE Reset /\ UNCHANGED used

\* startSetupMode: interfaces that are missing, SoftApHost::start, web server
\* and BLE, which may fail alone.
ServeSetup ==
    /\ main = "setup"
    /\ netifs' = {"ap", "sta"}
    /\ \/ /\ Use("failures")
          /\ main' = "halted"
          /\ UNCHANGED <<mode, wifi, ble>>
       \/ /\ main' = "done" /\ mode' = "ap" /\ wifi' = "idle"
          /\ \E advertises \in BOOLEAN :
                /\ Perhaps(~advertises)
                /\ ble' = IF advertises THEN "on" ELSE "off"
    /\ UNCHANGED <<client, config, events, poll, gaveUp, air, store, loop,
                   pending, bluetooth>>

\* End of app_main in STA mode: the memory of BLE goes to the heap.
ReleaseBle ==
    /\ main = "release"
    /\ main' = "done"
    /\ ble' = IF ble = "off" THEN "released" ELSE ble
    /\ UNCHANGED <<mode, client, netifs, poll, gaveUp, air, store, loop, drive,
                   pending, bluetooth, used>>

-----------------------------------------------------------------------------
\* wifiEventHandler.

\* esp_wifi_connect does nothing unless the driver is idle.
Reconnect == wifi' = IF wifi = "idle" THEN "joining" ELSE wifi

Take(e) == /\ handler = "idle" /\ events # <<>> /\ Head(events) = e
           /\ client.handlers
           /\ events' = Tail(events)

OnStart ==
    /\ Take("start")
    /\ Reconnect
    /\ UNCHANGED <<config, boot, poll, gaveUp, air, store, loop, phone, used>>

\* STA_DISCONNECTED while connect() waits: count, wait 800 ms, try again.
OnLostRetry ==
    /\ Take("lost") /\ group # "none" /\ retries < MaxRetries
    /\ retries' = retries + 1
    /\ handler' = "delay"
    /\ UNCHANGED <<wifi, config, boot, poll, since, gaveUp, air, store, phone, used>>

OnLostLast ==
    /\ Take("lost") /\ group # "none" /\ retries >= MaxRetries
    /\ handler' = "fail"
    /\ gaveUp' = (gaveUp \/ "connected" \in bits \/ got = "connected")
    /\ UNCHANGED <<wifi, config, boot, poll, retries, since, air, store, phone, used>>

\* Mutant: while the fallback runs nobody tries to reconnect.
MutantOnLostLater ==
    /\ Take("lost") /\ group = "none"
    /\ since' = IF since = "zero" THEN "recent" ELSE since
    /\ IF since = "old" THEN UNCHANGED wifi ELSE Reconnect
    /\ UNCHANGED <<config, boot, poll, handler, retries, gaveUp, air, store, phone, used>>

\* STA_DISCONNECTED later: after a minute BLE provisioning is started beside
\* the attempts, and Bluetooth is enabled again.
OnLostLater ==
    /\ Take("lost") /\ group = "none"
    /\ since' = IF since = "zero" THEN "recent" ELSE since
    /\ IF since = "old"
       THEN \E fails \in BOOLEAN :
               /\ Perhaps(fails)
               /\ ble' = IF ble = "off" /\ ~fails THEN "on" ELSE ble
               /\ bluetooth' = (bluetooth \/ ~fails)
       ELSE UNCHANGED <<ble, bluetooth, used>>
    /\ Reconnect
    /\ UNCHANGED <<config, boot, poll, handler, retries, gaveUp, air, store, pending>>

OnAddress ==
    /\ Take("address")
    /\ since' = "zero"
    /\ handler' = IF group = "none" THEN "idle" ELSE "tell"
    /\ UNCHANGED <<wifi, config, boot, poll, retries, gaveUp, air, store, phone, used>>

\* The rest of a retry, after its delay.
AfterDelay ==
    /\ handler = "delay"
    /\ handler' = "idle"
    /\ Reconnect
    /\ UNCHANGED <<config, events, boot, poll, retries, since, gaveUp, air,
                   store, phone, used>>

\* xEventGroupSetBits.  Of a group deleted meanwhile it writes into freed
\* memory: nothing comes of it, or the radio panics; the null pointer asserts.
SetBit ==
    /\ handler \in {"fail", "tell"}
    /\ \/ /\ group # "none"
          /\ handler' = "idle"
          /\ bits' = IF group = "live"
                     THEN bits \cup {IF handler = "tell" THEN "connected" ELSE "failed"}
                     ELSE bits
          /\ UNCHANGED <<boot, group, got, retries, since, gaveUp, air, store, drive,
                         phone, used>>
       \/ group # "live" /\ Reset /\ UNCHANGED used

\* An outage has lasted a minute.
MinutePasses ==
    /\ since = "recent"
    /\ since' = "old"
    /\ UNCHANGED <<boot, poll, handler, retries, gaveUp, air, store, drive, phone, used>>

\* Nobody is registered any more.
Unheard ==
    /\ events # <<>> /\ ~client.handlers
    /\ events' = Tail(events)
    /\ UNCHANGED <<wifi, config, boot, poll, gaveUp, air, store, loop, phone, used>>

-----------------------------------------------------------------------------
\* The driver and the access point.

Linked ==
    /\ wifi = "joining" /\ apUp /\ Right
    /\ wifi' = "linked"
    /\ events' = Append(events, "address")
    /\ UNCHANGED <<config, boot, poll, gaveUp, air, store, loop, phone, used>>

Lost ==
    /\ wifi \in {"joining", "linked"} /\ ~(apUp /\ Right)
    /\ wifi' = "idle"
    /\ events' = Append(events, "lost")
    /\ UNCHANGED <<config, boot, poll, gaveUp, air, store, loop, phone, used>>

Missed ==
    /\ wifi \in {"joining", "linked"} /\ apUp /\ Right /\ Use("misses")
    /\ wifi' = "idle"
    /\ events' = Append(events, "lost")
    /\ UNCHANGED <<config, boot, poll, gaveUp, air, store, loop, phone>>

ApGoes ==
    /\ apUp /\ apUp' = FALSE /\ Use("outages")
    /\ UNCHANGED <<boot, poll, gaveUp, store, loop, drive, phone>>

ApComes ==
    /\ ~apUp /\ apUp' = TRUE
    /\ UNCHANGED <<boot, poll, gaveUp, store, loop, drive, phone, used>>

-----------------------------------------------------------------------------
\* Credentials.

BeginSave(t, net) ==
    saver' = [u \in Tasks |->
                 IF u = t THEN [step |-> "ssid", net |-> net,
                                alone |-> \A v \in Tasks \ {t} : ~Saving(v)]
                          ELSE [saver[u] EXCEPT !.alone = FALSE]]

\* provEventHandler: CRED_RECV, and what comes of the attempt to join.
Receive ==
    /\ ble = "on" /\ pending = None /\ ~Saving("ble") /\ Use("requests")
    /\ pending' \in Nets
    /\ UNCHANGED <<boot, poll, gaveUp, air, store, loop, drive, ble, bluetooth>>

CredFail ==
    /\ pending # None /\ ~Saving("ble")
    /\ pending' = None
    /\ UNCHANGED <<boot, poll, gaveUp, air, store, loop, drive, ble, bluetooth, used>>

CredSuccess ==
    /\ pending \in Existing /\ apUp /\ ~Saving("ble")
    /\ BeginSave("ble", pending)
    /\ UNCHANGED <<boot, poll, gaveUp, air, nvs, reboots, loop, drive, phone, used>>

\* wifiPostHandler.
PostWifi ==
    /\ mode # "none" /\ ~Saving("http") /\ Use("requests")
    /\ \E net \in Nets : BeginSave("http", net)
    /\ UNCHANGED <<boot, poll, gaveUp, air, nvs, reboots, loop, drive, phone>>

\* Mutant: the key is written only if there is none yet.
MutantSaveStep(t) ==
    /\ Saving(t)
    /\ LET s == saver[t]
       IN  CASE s.step = "ssid" -> /\ nvs' = [nvs EXCEPT !.ssid = s.net]
                                   /\ saver' = [saver EXCEPT ![t].step = "pwd"]
                                   /\ UNCHANGED reboots
             [] s.step = "pwd"  -> /\ nvs' = [nvs EXCEPT !.pwd = IF @ = None THEN s.net ELSE @]
                                   /\ saver' = [saver EXCEPT ![t].step = "commit"]
                                   /\ UNCHANGED reboots
             [] OTHER           -> /\ saver' = [saver EXCEPT ![t] = NoSave]
                                   /\ reboots' = TRUE
                                   /\ UNCHANGED nvs
    /\ pending' = IF t = "ble" /\ saver[t].step = "commit" THEN None ELSE pending
    /\ UNCHANGED <<boot, poll, gaveUp, air, loop, drive, ble, bluetooth, used>>

\* saveWifiCredentials: the name, the key, then the commit; the caller starts
\* a rebootTask.  An error ends it where it is.
SaveStep(t) ==
    /\ Saving(t)
    /\ LET s == saver[t]
       IN  CASE s.step = "ssid" -> /\ nvs' = [nvs EXCEPT !.ssid = s.net]
                                   /\ saver' = [saver EXCEPT ![t].step = "pwd"]
                                   /\ UNCHANGED reboots
             [] s.step = "pwd"  -> /\ nvs' = [nvs EXCEPT !.pwd = s.net]
                                   /\ saver' = [saver EXCEPT ![t].step = "commit"]
                                   /\ UNCHANGED reboots
             [] OTHER           -> /\ saver' = [saver EXCEPT ![t] = NoSave]
                                   /\ reboots' = TRUE
                                   /\ UNCHANGED nvs
    /\ pending' = IF t = "ble" /\ saver[t].step = "commit" THEN None ELSE pending
    /\ UNCHANGED <<boot, poll, gaveUp, air, loop, drive, ble, bluetooth, used>>

SaveFails(t) ==
    /\ Saving(t) /\ Use("failures")
    /\ saver' = [saver EXCEPT ![t] = NoSave]
    /\ UNCHANGED <<boot, poll, gaveUp, air, nvs, reboots, loop, drive, phone>>

\* wifiResetPostHandler with clearWifiCredentials; httpd is one task.
ResetWifi ==
    /\ mode # "none" /\ ~Saving("http") /\ Use("requests")
    /\ nvs' = [ssid |-> None, pwd |-> None]
    /\ reboots' = TRUE
    /\ UNCHANGED <<boot, poll, gaveUp, air, saver, loop, drive, phone>>

\* POST /api/bluetooth/disable.
DisableBluetooth ==
    /\ mode # "none" /\ bluetooth /\ Use("requests")
    /\ bluetooth' = FALSE
    /\ UNCHANGED <<boot, poll, gaveUp, air, store, loop, drive, ble, pending>>

Restart == reboots /\ Reset /\ UNCHANGED used

PowerCycle == Use("resets") /\ Reset

-----------------------------------------------------------------------------
MainStep == \/ Start \/ Join \/ Woken \/ DeleteGroup \/ ForgetGroup \/ Leave
            \/ ServeSta \/ ServeSetup \/ ReleaseBle
HandlerStep == \/ OnStart \/ OnLostRetry \/ OnLostLast \/ OnLostLater \/ OnAddress
               \/ AfterDelay \/ SetBit \/ Unheard

Next ==
    \/ MainStep \/ HandlerStep \/ MinutePasses
    \/ Linked \/ Lost \/ Missed \/ ApGoes \/ ApComes
    \/ Receive \/ CredFail \/ CredSuccess \/ PostWifi \/ ResetWifi \/ DisableBluetooth
    \/ \E t \in Tasks : SaveStep(t) \/ SaveFails(t)
    \/ Restart \/ PowerCycle

\* Tasks run, an attempt to join ends, a rebootTask wakes up.  Nothing says
\* that the access point comes back.
Fairness ==
    /\ WF_vars(MainStep) /\ WF_vars(HandlerStep)
    /\ WF_vars(Linked) /\ WF_vars(Lost)
    /\ WF_vars(Restart) /\ \A t \in Tasks : WF_vars(SaveStep(t))

Spec == Init /\ [][Next]_vars /\ Fairness

-----------------------------------------------------------------------------
Values == Nets \cup {None}

TypeOK ==
    /\ nvs \in [ssid : Values, pwd : Values] /\ config \in [ssid : Values, pwd : Values]
    /\ main \in {"init", "join", "wait", "woken", "serve", "leave", "setup", "release",
                 "done", "halted"}
    /\ mode \in {"none", "ap", "sta"}
    /\ client \in [connected : BOOLEAN, handlers : BOOLEAN]
    /\ group \in {"none", "live", "deleted"} /\ bits \subseteq {"connected", "failed"}
    /\ got \in {"nothing", "connected", "failed"}
    /\ handler \in {"idle", "delay", "fail", "tell"}
    /\ retries \in 0..MaxRetries /\ since \in {"zero", "recent", "old"}
    /\ wifi \in {"stopped", "idle", "joining", "linked"} /\ netifs \subseteq {"ap", "sta"}
    /\ events \in Seq({"start", "lost", "address"})
    /\ ble \in {"off", "on", "released"} /\ pending \in Values
    /\ saver \in [Tasks -> [step : {"idle", "ssid", "pwd", "commit"}, net : Values,
                            alone : BOOLEAN]]
    /\ {apUp, reboots, bluetooth, gaveUp} \subseteq BOOLEAN
    /\ used \in [Kinds -> Nat] /\ Incidents <= MaxIncidents

\* Once the network is up the objects and the driver agree with the mode,
\* whatever way led there: as a station the handlers are registered, the
\* driver runs and nobody waits on an event group; in the set-up network no
\* handler is left that would go on joining the network that failed.
WifiMatchesMode ==
    /\ mode = "sta" => /\ client.connected /\ client.handlers
                       /\ wifi # "stopped" /\ group = "none"
    /\ mode = "ap" => /\ ~client.connected /\ ~client.handlers
                      /\ wifi = "idle" /\ handler = "idle" /\ netifs = {"ap", "sta"}

\* A start ends as a station or with the set-up network, however the attempt
\* to join goes, unless a call of the platform fails.
ComesUp == main = "init" ~> (mode # "none" \/ main = "halted")

\* A station that loses its link gets it back when the access point is there
\* again, by whatever interleaving of events it lost it, and one that is off
\* the air for a minute enables Bluetooth; see gaveUp for the one exception.
StaysReachable ==
    /\ mode = "sta" ~> (wifi = "linked" \/ ~apUp \/ mode # "sta" \/ gaveUp)
    /\ (mode = "sta" /\ since = "old") ~> (bluetooth \/ since # "old" \/ gaveUp)

\* Credentials of an existing network that are saved over HTTP or over BLE,
\* with no other save or clear about, are joined after the restart, through
\* as many lost attempts as there are retries.
ProvisionedJoins ==
    \A t \in Tasks, net \in Existing \ LongNamed :
        (saver[t].net = net /\ saver[t].alone /\ ~reboots)
            ~> \/ mode = "sta" /\ config = [ssid |-> net, pwd |-> net]
               \/ used.requests > 1 \/ used.misses > MaxRetries \/ ~apUp
               \/ used.timeouts > 0 \/ used.failures > 0 \/ used.resets > 0

\* What the comment in wifiEventHandler says of a link that is lost after the
\* start: the attempts go on for ever on their own.
RetriesForever == mode = "sta" ~> (wifi = "linked" \/ ~apUp \/ mode # "sta")

=============================================================================
