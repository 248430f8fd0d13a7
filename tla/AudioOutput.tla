----------------------------- MODULE AudioOutput -----------------------------
(***************************************************************************)
(* What leaves the loudspeaker: the profile and power state AudioService   *)
(* keeps, the two DSP cells it drives (the input multiplexer and the       *)
(* master gain), and the streams that borrow the ESP32 input through       *)
(* audio_routing and the one I2S sink.                                     *)
(*                                                                         *)
(* AudioService has no lock.  The HTTP task, the alarm task, the web radio *)
(* player and the phone stream server call it, so every DSP write, every   *)
(* test of the power state and every update of the profile is a step.  The *)
(* equaliser and the enhancements of a profile are left out: they only     *)
(* matter as the writes after the master gain that may fail.               *)
(***************************************************************************)
EXTENDS Naturals

CONSTANTS
    Users,       \* tasks that run HTTP handlers or the alarm clock
    Streams,     \* tasks that play a stream: web radio player, phone server
    UserOps,     \* what users do: a subset of UserCalls
    Sources,     \* core::ActiveSource
    Esp32,       \* the source fed by the I2S sink (kEsp32Input)
    Levels,      \* master gains of a user
    Mute, Faded, \* the mute floor; any attenuated step of a fade
    None,        \* no task, no source
    MaxFailures  \* bound on DSP writes and saves that fail

Tasks     == Users \cup Streams
UserCalls == {"profile", "reapply", "volume", "power", "save", "upload"}

ASSUME AudioOutputAssumption ==
    /\ Users \cap Streams = {} /\ None \notin Tasks
    /\ UserOps \subseteq UserCalls
    /\ Esp32 \in Sources /\ None \notin Sources
    /\ Levels # {} /\ Mute \notin Levels /\ Faded \notin Levels /\ Mute # Faded
    /\ MaxFailures \in Nat

VARIABLES
    profile,   \* AudioService::profile_: its input and its master gain
    power,     \* AudioService::powerState_
    saved,     \* the profile in NVS
    dsp,       \* the DSP's input multiplexer and master gain
    previous,  \* gPrevious of audio_routing
    sink,      \* gInUse of the I2S sink, with the task that set it
    job,       \* the call each task is in
    failures,  \* failures injected so far
    sure,      \* history: the cells whose last operation did not fail
    chosen,    \* history: the source of the last profile a user applied
    overlap    \* history: what has overlapped inside AudioService

vars == <<profile, power, saved, dsp, previous, sink, job, failures, sure,
          chosen, overlap>>

Profiles == [source : Sources, master : Levels]
Gains    == Levels \cup {Mute, Faded}
Cells    == {"source", "master"}
Powers   == {"on", "standby"}
Ops      == UserCalls \cup {"none", "claim", "restore"}
PCs      == {"idle", "enter", "fadeDown?", "fadeDown", "mux", "selected",
             "source", "master", "rest", "fadeUp?", "fadeUp", "level?", "level",
             "adoptLevel", "powerWrite", "persist", "uploading", "claim",
             "claimed", "streaming", "restore", "forget", "release"}

(* The call of one task: where it is, what it was asked, and its locals.   *)
Jobs == [pc : PCs, op : Ops, src : Sources, lvl : Gains, val : Gains,
         prev : Powers, cur : Sources, switch : BOOLEAN, ok : BOOLEAN]

NoCall == [pc |-> "idle", op |-> "none", src |-> Esp32,
           lvl |-> Mute, val |-> Mute, prev |-> "on",
           cur |-> Esp32, switch |-> FALSE, ok |-> FALSE]

Master(level) == IF power = "standby" THEN Mute ELSE level

\* No task is inside AudioService.
Quiet(t) == job[t].pc \in {"idle", "uploading", "claim", "claimed", "streaming",
                           "restore", "forget", "release"}
Rest     == \A t \in Tasks : Quiet(t)

TypeOK ==
    /\ profile \in Profiles /\ saved \in Profiles /\ power \in Powers
    /\ dsp \in [source : Sources, master : Gains]
    /\ previous \in Sources \cup {None} /\ sink \in Tasks \cup {None}
    /\ job \in [Tasks -> Jobs]
    /\ failures \in 0..MaxFailures
    /\ sure \subseteq Cells /\ chosen \in Sources
    /\ overlap \in {"no", "calls", "profiles"}

(***************************************************************************)
(* After loadAndApply at boot: the DSP shows the profile, no stream plays. *)
(***************************************************************************)
Init ==
    \E p \in Profiles :
        /\ profile = p /\ saved = p /\ chosen = p.source /\ dsp = p
        /\ power = "on" /\ previous = None /\ sink = None /\ failures = 0
        /\ sure = Cells /\ overlap = "no"
        /\ job = [t \in Tasks |-> NoCall]

At(t, pc)   == job[t].pc = pc

\* A call that has returned keeps no locals.
Goto(t, pc) ==
    job' = [job EXCEPT ![t] =
              IF pc \in {"idle", "streaming", "release"}
              THEN [NoCall EXCEPT !.pc = pc] ELSE [@ EXCEPT !.pc = pc]]

(* A write of one DSP cell, by a task that goes on at ok or at bad.  A     *)
(* write that fails may have reached the cell; it leaves the cells dirty   *)
(* out of step with the profile.                                           *)
Write(t, cell, value, ok, bad, dirty) ==
    \/ /\ dsp' = [dsp EXCEPT ![cell] = value]
       /\ sure' = sure \cup {cell}
       /\ Goto(t, ok)
       /\ UNCHANGED failures
    \/ /\ failures < MaxFailures
       /\ failures' = failures + 1
       /\ dsp' \in {dsp, [dsp EXCEPT ![cell] = value]}
       /\ sure' = sure \ dirty
       /\ Goto(t, bad)

serviceVars == <<profile, power, saved, chosen>>
routeVars   == <<previous, sink>>

(* A call begins while others are inside AudioService: does it concern a   *)
(* change of the profile?                                                  *)
Enters(t, op) ==
    LET inside == {u \in Tasks \ {t} : ~Quiet(u)}
    IN  overlap' = IF inside = {} \/ overlap = "profiles" THEN overlap
                   ELSE IF op = "profile" \/ \E u \in inside : job[u].op = "profile"
                        THEN "profiles" ELSE "calls"

(***************************************************************************)
(* The calls of a user.                                                    *)
(***************************************************************************)
ApplyProfile(t, p) ==
    /\ "profile" \in UserOps /\ At(t, "idle")
    /\ job' = [job EXCEPT ![t].op = "profile", ![t].src = p.source,
                          ![t].lvl = p.master, ![t].ok = FALSE,
                          ![t].pc = "enter"]
    /\ Enters(t, "profile")
    /\ UNCHANGED <<serviceVars, dsp, routeVars, failures, sure>>

\* IntegrationService applies the current profile again after a recall.
Reapply(t) ==
    /\ "reapply" \in UserOps /\ At(t, "idle")
    /\ job' = [job EXCEPT ![t].op = "reapply", ![t].src = profile.source,
                          ![t].lvl = profile.master, ![t].switch = FALSE,
                          ![t].val = Master(profile.master),
                          ![t].pc = "source"]
    /\ Enters(t, "reapply")
    /\ UNCHANGED <<serviceVars, dsp, routeVars, failures, sure>>

\* Mutant: the volume reaches the DSP without a test of the power state.
MutantSetMasterVolume(t, level) ==
    /\ "volume" \in UserOps /\ At(t, "idle")
    /\ job' = [job EXCEPT ![t].op = "volume", ![t].lvl = level,
                          ![t].val = level, ![t].pc = "level"]
    /\ Enters(t, "volume")
    /\ UNCHANGED <<serviceVars, dsp, routeVars, failures, sure>>

SetMasterVolume(t, level) ==
    /\ "volume" \in UserOps /\ At(t, "idle")
    /\ job' = [job EXCEPT ![t].op = "volume", ![t].lvl = level,
                          ![t].val = Master(level), ![t].pc = "level"]
    /\ Enters(t, "volume")
    /\ UNCHANGED <<serviceVars, dsp, routeVars, failures, sure>>

SetPowerState(t, s) ==
    /\ "power" \in UserOps /\ At(t, "idle")
    /\ power' = s
    /\ job' = [job EXCEPT ![t].op = "power", ![t].prev = power,
                          ![t].val = IF s = "standby" THEN Mute
                                     ELSE profile.master,
                          ![t].pc = "powerWrite"]
    /\ Enters(t, "power")
    /\ UNCHANGED <<profile, saved, chosen, dsp, routeVars, failures, sure>>

(* Setting an enhancement or applying a preset touches neither cell, but   *)
(* ends by saving the profile.                                             *)
SaveProfile(t) ==
    /\ "save" \in UserOps /\ At(t, "idle")
    /\ job' = [job EXCEPT ![t].op = "save", ![t].pc = "persist"]
    /\ Enters(t, "save")
    /\ UNCHANGED <<serviceVars, dsp, routeVars, failures, sure>>

\* PUT /api/audio/stream takes the sink and leaves the routing alone.
Upload(t) ==
    /\ "upload" \in UserOps /\ At(t, "idle") /\ sink = None
    /\ sink' = t
    /\ job' = [job EXCEPT ![t].op = "upload", ![t].pc = "uploading"]
    /\ UNCHANGED <<serviceVars, dsp, previous, failures, sure, overlap>>

UploadEnds(t) ==
    /\ At(t, "uploading")
    /\ sink' = None
    /\ Goto(t, "idle")
    /\ UNCHANGED <<serviceVars, dsp, previous, failures, sure, overlap>>

(***************************************************************************)
(* switchInput and applyProfile: the test for a real change of input, the  *)
(* fade around it, the writes, and the adoption by the profile.            *)
(***************************************************************************)
Selecting(t) == job[t].op \in {"claim", "restore"}

Enter(t) ==
    /\ At(t, "enter")
    /\ job' = [job EXCEPT
          ![t].switch = job[t].src # profile.source,
          ![t].val    = Master(job[t].lvl),
          ![t].pc     = IF job[t].src # profile.source THEN "fadeDown?"
                        ELSE IF Selecting(t) THEN "mux" ELSE "source"]
    /\ UNCHANGED <<serviceVars, dsp, routeVars, failures, sure, overlap>>

AfterDown(t) == IF Selecting(t) THEN "mux" ELSE "source"

\* fadeMaster(true): the power state is tested once, before the loop.
FadeDownTest(t) ==
    /\ At(t, "fadeDown?")
    /\ job' = [job EXCEPT
          ![t].val = Mute,
          ![t].pc  = IF power = "standby" THEN AfterDown(t) ELSE "fadeDown"]
    /\ UNCHANGED <<serviceVars, dsp, routeVars, failures, sure, overlap>>

\* A step of a fade is best effort; then the next one, or what follows.
FadeStep(t) ==
    \/ /\ At(t, "fadeDown")
       /\ \E next \in {"fadeDown", AfterDown(t)} :
             Write(t, "master", Faded, next, next, {"master"})
       /\ UNCHANGED <<serviceVars, routeVars, overlap>>
    \/ /\ At(t, "fadeUp")
       /\ \E next \in {"fadeUp", "level?"} :
             Write(t, "master", Faded, next, next, {"master"})
       /\ UNCHANGED <<serviceVars, routeVars, overlap>>

(* Where a call of switchInput returns to.                                 *)
Return(t) ==
    CASE job[t].op = "claim"   -> "claimed"
      [] job[t].op = "restore" -> "forget"
      [] job[t].op = "profile" -> IF job[t].ok THEN "persist" ELSE "idle"
      [] OTHER                 -> "idle"

\* dsp_.selectSource(): faded when the input changes, bare otherwise.
SelectMux(t) ==
    /\ At(t, "mux")
    /\ Write(t, "source", job[t].src, "selected",
             IF job[t].switch THEN "fadeUp?" ELSE Return(t), {"source"})
    /\ UNCHANGED <<serviceVars, routeVars, overlap>>

\* The input is selected; only a change of input is adopted.
Selected(t) ==
    /\ At(t, "selected")
    /\ profile' = IF job[t].switch THEN [profile EXCEPT !.source = job[t].src]
                  ELSE profile
    /\ job' = [job EXCEPT ![t].ok = TRUE,
                          ![t].pc = IF job[t].switch THEN "fadeUp?"
                                    ELSE Return(t)]
    /\ UNCHANGED <<power, saved, chosen, dsp, routeVars, failures, sure, overlap>>

(* dsp_.applyProfile(): the multiplexer, the master gain, the rest.  It    *)
(* stops at the first failure, and what it wrote before stays in the DSP.  *)
Failed(t) == IF job[t].switch THEN "fadeUp?" ELSE "idle"

ApplySource(t) ==
    /\ At(t, "source")
    /\ Write(t, "source", job[t].src, "master", Failed(t), {"source"})
    /\ UNCHANGED <<serviceVars, routeVars, overlap>>

ApplyMaster(t) ==
    /\ At(t, "master")
    /\ Write(t, "master", job[t].val, "rest", Failed(t), Cells)
    /\ UNCHANGED <<serviceVars, routeVars, overlap>>

ApplyRest(t) ==
    /\ At(t, "rest")
    /\ \/ /\ IF job[t].op = "reapply" THEN UNCHANGED <<profile, chosen>>
             ELSE /\ profile' = [source |-> job[t].src, master |-> job[t].lvl]
                  /\ chosen' = job[t].src
          /\ IF job[t].switch
             THEN job' = [job EXCEPT ![t].ok = TRUE, ![t].pc = "fadeUp?"]
             ELSE Goto(t, IF job[t].op = "profile" THEN "persist" ELSE "idle")
          /\ UNCHANGED <<failures, sure>>
       \/ /\ failures < MaxFailures
          /\ failures' = failures + 1
          /\ sure' = {}
          /\ Goto(t, Failed(t))
          /\ UNCHANGED <<profile, chosen>>
    /\ UNCHANGED <<power, saved, dsp, routeVars, overlap>>

\* fadeMaster(false): the test, the steps, and the user's level again.
FadeUpTest(t) ==
    /\ At(t, "fadeUp?")
    /\ Goto(t, IF power = "standby" THEN Return(t) ELSE "fadeUp")
    /\ UNCHANGED <<serviceVars, dsp, routeVars, failures, sure, overlap>>

LevelTest(t) ==
    /\ At(t, "level?")
    /\ job' = [job EXCEPT ![t].val = Master(profile.master), ![t].pc = "level"]
    /\ UNCHANGED <<serviceVars, dsp, routeVars, failures, sure, overlap>>

\* The write of writeMaster, after its test of the power state.
WriteLevel(t) ==
    /\ At(t, "level")
    /\ IF job[t].op = "volume"
       THEN Write(t, "master", job[t].val, "adoptLevel", "idle", {"master"})
       ELSE Write(t, "master", job[t].val, Return(t), Return(t), {"master"})
    /\ UNCHANGED <<serviceVars, routeVars, overlap>>

\* The only caller, the alarm clock's ramp, does not save the level.
AdoptLevel(t) ==
    /\ At(t, "adoptLevel")
    /\ profile' = [profile EXCEPT !.master = job[t].lvl]
    /\ Goto(t, "idle")
    /\ UNCHANGED <<power, saved, chosen, dsp, routeVars, failures, sure, overlap>>

\* setPowerState takes the new state back when its write fails.
PowerWrite(t) ==
    /\ At(t, "powerWrite")
    /\ Write(t, "master", job[t].val, "idle", "idle", {"master"})
    /\ power' = IF failures' = failures THEN power ELSE job[t].prev
    /\ UNCHANGED <<profile, saved, chosen, routeVars, overlap>>

\* persistProfile saves the whole profile as it is now.
Persist(t) ==
    /\ At(t, "persist")
    /\ \/ /\ saved' = profile
          /\ UNCHANGED failures
       \/ /\ failures < MaxFailures
          /\ failures' = failures + 1
          /\ UNCHANGED saved
    /\ Goto(t, "idle")
    /\ UNCHANGED <<profile, power, chosen, dsp, routeVars, sure, overlap>>

(***************************************************************************)
(* A stream: take the sink, claim the ESP32 input, play, restore, release. *)
(***************************************************************************)
Acquire(t) ==
    /\ At(t, "idle") /\ sink = None
    /\ sink' = t
    /\ Goto(t, "claim")
    /\ UNCHANGED <<serviceVars, dsp, previous, failures, sure, overlap>>

\* The web radio finds no memory for its ring and gives the sink back.
RingFails(t) ==
    /\ At(t, "claim")
    /\ Goto(t, "release")
    /\ UNCHANGED <<serviceVars, dsp, routeVars, failures, sure, overlap>>

\* claimEsp32Input: nothing to do when the input is already selected.
Claim(t) ==
    /\ At(t, "claim")
    /\ \/ /\ profile.source = Esp32
          /\ Goto(t, "streaming")
          /\ UNCHANGED overlap
       \/ /\ profile.source # Esp32
          /\ Enters(t, "claim")
          /\ job' = [job EXCEPT ![t].op = "claim", ![t].src = Esp32,
                                ![t].cur = profile.source, ![t].ok = FALSE,
                                ![t].pc = "enter"]
    /\ UNCHANGED <<serviceVars, dsp, routeVars, failures, sure>>

Claimed(t) ==
    /\ At(t, "claimed")
    /\ previous' = IF job[t].ok THEN job[t].cur ELSE previous
    /\ Goto(t, "streaming")
    /\ UNCHANGED <<serviceVars, dsp, sink, failures, sure, overlap>>

\* Mutant: the sink is released before the source is restored.
MutantStreamEnds(t) ==
    /\ At(t, "streaming")
    /\ sink' = None
    /\ Goto(t, "restore")
    /\ UNCHANGED <<serviceVars, dsp, previous, failures, sure, overlap>>

StreamEnds(t) ==
    /\ At(t, "streaming")
    /\ Goto(t, "restore")
    /\ UNCHANGED <<serviceVars, dsp, routeVars, failures, sure, overlap>>

\* Mutant: the source is restored whatever is selected by now.
MutantRestore(t) ==
    /\ At(t, "restore")
    /\ \/ previous = None /\ Goto(t, "release") /\ UNCHANGED overlap
       \/ /\ previous # None
          /\ Enters(t, "restore")
          /\ job' = [job EXCEPT ![t].op = "restore", ![t].src = previous,
                                ![t].ok = FALSE, ![t].pc = "enter"]
    /\ UNCHANGED <<serviceVars, dsp, routeVars, failures, sure>>

(* restorePreviousSource: only while the ESP32 input is still selected.    *)
Restore(t) ==
    /\ At(t, "restore")
    /\ \/ /\ previous = None
          /\ Goto(t, "release")
          /\ UNCHANGED overlap
       \/ /\ previous # None /\ profile.source # Esp32
          /\ Goto(t, "forget")
          /\ UNCHANGED overlap
       \/ /\ previous # None /\ profile.source = Esp32
          /\ Enters(t, "restore")
          /\ job' = [job EXCEPT ![t].op = "restore", ![t].src = previous,
                                ![t].ok = FALSE, ![t].pc = "enter"]
    /\ UNCHANGED <<serviceVars, dsp, routeVars, failures, sure>>

Forget(t) ==
    /\ At(t, "forget")
    /\ previous' = None
    /\ Goto(t, "release")
    /\ UNCHANGED <<serviceVars, dsp, sink, failures, sure, overlap>>

Release(t) ==
    /\ At(t, "release")
    /\ sink' = None
    /\ Goto(t, "idle")
    /\ UNCHANGED <<serviceVars, dsp, previous, failures, sure, overlap>>

(***************************************************************************)
(* The specification.                                                      *)
(***************************************************************************)
UserCall(t) ==
    \/ \E p \in Profiles : ApplyProfile(t, p)
    \/ Reapply(t)
    \/ \E l \in Levels : SetMasterVolume(t, l)
    \/ \E s \in Powers : SetPowerState(t, s)
    \/ SaveProfile(t) \/ Upload(t) \/ UploadEnds(t)

ServiceStep(t) ==
    \/ Enter(t) \/ FadeDownTest(t) \/ FadeStep(t) \/ SelectMux(t)
    \/ Selected(t) \/ ApplySource(t) \/ ApplyMaster(t) \/ ApplyRest(t)
    \/ FadeUpTest(t) \/ LevelTest(t) \/ WriteLevel(t) \/ AdoptLevel(t)
    \/ PowerWrite(t) \/ Persist(t)

StreamStep(t) ==
    \/ Acquire(t) \/ RingFails(t) \/ Claim(t) \/ Claimed(t) \/ StreamEnds(t)
    \/ Restore(t) \/ Forget(t) \/ Release(t)

Next ==
    \/ \E t \in Users : UserCall(t)
    \/ \E t \in Tasks : ServiceStep(t)
    \/ \E t \in Streams : StreamStep(t)

Spec == Init /\ [][Next]_vars

(***************************************************************************)
(* Properties.                                                             *)
(***************************************************************************)
(* Between two calls, whatever succeeded last is what is heard: the input  *)
(* of the profile, and its level or, in standby, the mute floor.  It is    *)
(* the contract of AudioService over any sequence of volume changes,       *)
(* profile changes, stream claims, standby and failed writes, as long as   *)
(* no two calls have overlapped.                                           *)
DspAgrees ==
    Rest /\ overlap = "no" =>
        /\ "source" \in sure => dsp.source = profile.source
        /\ "master" \in sure => dsp.master = Master(profile.master)

(* The source to go back to is remembered only by the stream that holds    *)
(* the sink: restorePreviousSource runs before release, so the next        *)
(* stream never undoes the switch of the one before, however the calls     *)
(* overlap.                                                                *)
PreviousBelongsToHolder ==
    previous # None => /\ sink \in Streams
                       /\ job[sink].pc \notin {"idle", "claim", "release"}

(* Once the sink is free again and nothing failed, the input is the one    *)
(* the user applied last, whatever calls have overlapped, short of a       *)
(* change of profile overlapping another call.  A user who picks the ESP32 *)
(* input while a stream plays is the exception: that choice is taken for   *)
(* the stream's own switch and undone.                                     *)
SourceRestored ==
    Rest /\ sink = None /\ failures = 0 /\ overlap # "profiles" /\ chosen # Esp32 =>
        profile.source = chosen

(* AudioService.hpp: in standby every master write is the mute floor.      *)
MutedInStandby ==
    Rest /\ power = "standby" /\ "master" \in sure => dsp.master = Mute

=============================================================================
