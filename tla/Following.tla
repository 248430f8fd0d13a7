----------------------------- MODULE Following -----------------------------
(***************************************************************************)
(* Who retunes the radio: the listener over HTTP, the af_follow task that  *)
(* looks for a better FM frequency of the same station, for another source *)
(* of a lost DAB service and for the way back from FM to DAB               *)
(* (AfFollowService with AlternateFrequencyFollower, DabServiceFollower    *)
(* and DabReturnPolicy), and the spectrum sweep (SpectrumScanService).     *)
(*                                                                         *)
(* Every call of TunerService takes its recursive mutex; a tick of the     *)
(* af_follow task keeps it from its first read to its last tune, a sweep   *)
(* takes it call by call and raises sweepActive_ meanwhile.  Time is       *)
(* counted in ticks (3 s), as ages that stop growing at the limit they are *)
(* compared with.  Levels are further apart than improvementDb.            *)
(***************************************************************************)
EXTENDS Tuner

CONSTANTS
    LinkFm,        \* the FM frequencies linked to each service (FIG 0/6, 0/21)
    LinkPi,        \* the PI its hard linkage announces
    Fading,        \* the carriers whose level changes
    UserOps,       \* what the listener does: a subset of UserCalls
    MaxUser,       \* bound on what the listener does
    MaxSweeps,     \* bound on sweeps
    Settle,        \* settleMs in ticks
    Cooldown,      \* cooldownMs in ticks
    WeakNeeded,    \* weakObservations
    MetadataEvery, \* kMetadataEveryTicks
    ReturnEvery    \* the return interval in ticks

UserCalls == {"tuneDab", "tuneFm", "play", "list", "follow", "minutes"}
Carriers  == Ensembles \cup Frequencies

ASSUME FollowingAssumption ==
    /\ LinkFm \in [Services -> SUBSET Frequencies] /\ LinkPi \in [Services -> Pis]
    /\ Fading \subseteq Carriers /\ UserOps \subseteq UserCalls
    /\ MaxUser \in Nat /\ MaxSweeps \in Nat
    /\ Settle \in Nat /\ Cooldown \in Nat /\ ReturnEvery \in Nat
    /\ WeakNeeded \in Nat \ {0} /\ MetadataEvery \in Nat \ {0}

VARIABLES
    level,     \* reception of every carrier
    tuner,     \* Si4684Tuner and TunerService
    settings,  \* af-follow on, dab_return_min not 0
    ticks,     \* AfFollowService::ticks_
    round,     \* the tick under way; it holds the mutex unless it is Idle
    station,   \* AlternateFrequencyFollower
    dab,       \* DabServiceFollower
    fallback,  \* DabReturnPolicy, and AfFollowStats::onFmFallback
    active,    \* TunerService::sweepActive_
    sweep,     \* the spectrum task
    sweeps, calls,  \* bounds
    chosen     \* history: the service and ensemble the listener last chose and heard

vars == <<level, tuner, settings, ticks, round, station, dab, fallback, active,
          sweep, sweeps, calls, chosen>>

policyVars == <<station, dab, fallback>>
sweepVars  == <<active, sweep, sweeps>>
userVars   == <<settings, calls, chosen>>

Idle == [pc |-> "idle", band |-> "off", at |-> None, level |-> 0, pi |-> None,
         service |-> None, index |-> CHOOSE e \in Ensembles : TRUE, left |-> {},
         samples |-> {}, switched |-> FALSE, failures |-> 0]
Samples == [at : Frequencies, level : Levels, pi : Pis \cup {None}]
Targets == [index : Ensembles, service : Services, pi : Pis]
NoSweep == [pc |-> "idle", band |-> "fm", left |-> {}, origin |-> {}]

Rounds ==
    [pc : {"idle", "fm", "probe", "dab", "huntDab", "end"}, band : {"off", "dab", "fm"},
     at : Carriers \cup {None}, level : Levels, pi : Pis \cup {None},
     service : Services \cup {None}, index : Ensembles, left : SUBSET Carriers,
     samples : SUBSET Samples, switched : BOOLEAN, failures : 0..MaxFailures]
StationStates ==
    [set : SUBSET Frequencies, pi : Pis \cup {None}, streak : 0..WeakNeeded,
     since : 0..Settle, hunted : 0..Cooldown]
DabStates ==
    [service : Services \cup {None}, index : Ensembles, linked : BOOLEAN,
     streak : 0..WeakNeeded, since : 0..Settle, hunted : 0..Cooldown]
FallbackStates == [target : SUBSET Targets, age : 0..ReturnEvery, onFm : BOOLEAN]
Origins ==
    [band : {"dab", "fm"}, at : Carriers \cup {None}, index : Ensembles,
     played : Services \cup {None}, muted : BOOLEAN, failures : 0..MaxFailures,
     calls : 0..MaxUser]
Sweeps ==
    [pc : {"idle", "begin", "capture", "mute", "measure", "retune", "replay", "volume",
           "release"},
     band : {"dab", "fm"}, left : SUBSET Carriers, origin : SUBSET Origins]

TypeOK ==
    /\ level \in [Carriers -> Levels]
    /\ tuner \in TunerStates
    /\ settings \in [follow : BOOLEAN, back : BOOLEAN]
    /\ ticks \in 0..MetadataEvery - 1
    /\ round \in Rounds
    /\ station \in StationStates /\ dab \in DabStates
    /\ fallback \in FallbackStates /\ Cardinality(fallback.target) <= 1
    /\ active \in BOOLEAN /\ sweep \in Sweeps
    /\ sweeps \in 0..MaxSweeps /\ calls \in 0..MaxUser
    /\ chosen \subseteq [service : Services, index : Ensembles]

\* After the boot: the DAB image, nothing tuned, following off.
Init ==
    /\ level = [c \in Carriers |-> 2]
    /\ tuner = [band |-> "dab", at |-> None, service |-> None, index |-> Idle.index,
                played |-> None, muted |-> FALSE, failures |-> 0]
    /\ settings = [follow |-> FALSE, back |-> TRUE]
    /\ ticks = 0 /\ round = Idle
    /\ station = [set |-> {}, pi |-> None, streak |-> 0, since |-> 0, hunted |-> Cooldown]
    /\ dab = [service |-> None, index |-> Idle.index, linked |-> FALSE,
              streak |-> 0, since |-> 0, hunted |-> Cooldown]
    /\ fallback = [target |-> {}, age |-> 0, onFm |-> FALSE]
    /\ active = FALSE /\ sweep = NoSweep
    /\ sweeps = 0 /\ calls = 0 /\ chosen = {}

Free == round.pc = "idle"      \* TunerService::mutex_

\* Reception changes at any time.
Fade ==
    /\ \E c \in Fading, l \in Levels : level' = [level EXCEPT ![c] = l]
    /\ UNCHANGED <<tuner, settings, ticks, round, policyVars, sweepVars, calls, chosen>>

(***************************************************************************)
(* The listener: one call of TunerService each.                            *)
(***************************************************************************)
User(op) ==
    /\ Free /\ op \in UserOps
    /\ calls < MaxUser /\ calls' = calls + 1
    /\ UNCHANGED <<level, ticks, round, policyVars, sweepVars>>

UserTuneDab ==
    /\ User("tuneDab")
    /\ \E e \in Ensembles : \E r \in TuneDab(tuner, e) :
          tuner' = r.t /\ chosen' = {}
    /\ UNCHANGED settings

UserTuneFm ==
    /\ User("tuneFm")
    /\ \E f \in Frequencies : \E r \in TuneFm(tuner, f) :
          tuner' = r.t /\ chosen' = {}
    /\ UNCHANGED settings

UserPlay ==
    /\ User("play")
    /\ \E s \in Services : \E r \in PlayDab(tuner, s, level) :
          /\ tuner' = r.t
          /\ chosen' = IF r.t.service = s THEN {[service |-> s, index |-> r.t.index]} ELSE {}
    /\ UNCHANGED settings

\* GET /api/tuner/services.
UserList ==
    /\ User("list")
    /\ \E r \in ListDab(tuner, level) : tuner' = r.t
    /\ UNCHANGED <<settings, chosen>>

\* POST /api/tuner/af.
UserSet ==
    /\ \/ User("follow") /\ settings' = [settings EXCEPT !.follow = ~@]
       \/ User("minutes") /\ settings' = [settings EXCEPT !.back = ~@]
    /\ UNCHANGED <<tuner, chosen>>

(***************************************************************************)
(* AfFollowService::tick.                                                  *)
(***************************************************************************)
Older(age, limit) == IF age < limit THEN age + 1 ELSE age

\* Mutant: the flag is not looked at.
MutantTick ==
    /\ Free /\ settings.follow
    /\ ticks' = (ticks + 1) % MetadataEvery
    /\ station' = [station EXCEPT !.since = Older(@, Settle), !.hunted = Older(@, Cooldown)]
    /\ dab' = [dab EXCEPT !.since = Older(@, Settle), !.hunted = Older(@, Cooldown)]
    /\ fallback' = [fallback EXCEPT !.age = Older(@, ReturnEvery)]
    /\ \E r \in ReadStatus(tuner) :
          /\ tuner' = r.t
          /\ IF ~r.ok THEN UNCHANGED round
             ELSE \E pi \in {None} \cup
                     (IF ticks = 0 /\ tuner.band = "fm" /\ LevelOf(tuner, level) > 0
                      THEN {Pi[tuner.at]} ELSE {}) :
                  round' = [Idle EXCEPT !.pc = tuner.band, !.band = tuner.band,
                     !.at = NamedAt(tuner), !.level = LevelOf(tuner, level), !.pi = pi,
                     !.service = tuner.played, !.index = tuner.index,
                     !.failures = tuner.failures]
    /\ UNCHANGED <<level, sweepVars, userVars>>

\* The snapshot a tick works on.  The PI and the AF list are read every
\* MetadataEvery ticks, and only once the RDS decoder has confirmed them.
Tick ==
    /\ Free /\ settings.follow /\ ~active
    /\ ticks' = (ticks + 1) % MetadataEvery
    /\ station' = [station EXCEPT !.since = Older(@, Settle), !.hunted = Older(@, Cooldown)]
    /\ dab' = [dab EXCEPT !.since = Older(@, Settle), !.hunted = Older(@, Cooldown)]
    /\ fallback' = [fallback EXCEPT !.age = Older(@, ReturnEvery)]
    /\ \E r \in ReadStatus(tuner) :
          /\ tuner' = r.t
          /\ IF ~r.ok THEN UNCHANGED round
             ELSE \E pi \in {None} \cup
                     (IF ticks = 0 /\ tuner.band = "fm" /\ LevelOf(tuner, level) > 0
                      THEN {Pi[tuner.at]} ELSE {}) :
                  round' = [Idle EXCEPT !.pc = tuner.band, !.band = tuner.band,
                     !.at = NamedAt(tuner), !.level = LevelOf(tuner, level), !.pi = pi,
                     !.service = tuner.played, !.index = tuner.index,
                     !.failures = tuner.failures]
    /\ UNCHANGED <<level, sweepVars, userVars>>

Round(pc)  == round.pc = pc /\ UNCHANGED <<level, ticks, sweepVars, userVars>>
End(moved) == round' = [round EXCEPT !.pc = "end", !.left = {}, !.switched = moved]

\* The mutex is released.
Unlock ==
    /\ Round("end") /\ round' = Idle
    /\ UNCHANGED <<tuner, policyVars>>

\* Which PI a status may show: none before two groups agree.
PiSeen(f) == {None} \cup IF level[f] > 0 THEN {Pi[f]} ELSE {}

(***************************************************************************)
(* A tick on FM: the way back to DAB, then the alternate frequencies.      *)
(***************************************************************************)
\* Mutant: a PI that is not known yet is another station.
MutantStaleFallback == \E t \in fallback.target : round.pi # t.pi

StaleFallback == \E t \in fallback.target : round.pi \notin {None, t.pi}

\* DabReturnPolicy::shouldTry.
ReturnDue ==
    fallback.target # {} /\ ~StaleFallback /\ settings.back /\ fallback.age = ReturnEvery

\* returnToDab, which wants a good signal before it plays.
TryReturn(t) ==
    Then(TuneDab(tuner, t.index), LAMBDA u :
    Then(ReadStatus(u), LAMBDA v :
         IF LevelOf(v, level) = 2 THEN PlayDab(v, t.service, level)
         ELSE {Result(FALSE, v)}))

NoFallback == [fallback EXCEPT !.target = {}, !.onFm = FALSE]

TickDabReturn ==
    /\ Round("fm") /\ ReturnDue
    /\ \E t \in fallback.target : \E r \in TryReturn(t) :
          IF r.ok
          THEN tuner' = r.t /\ fallback' = NoFallback
          ELSE /\ \E q \in TuneFm(r.t, round.at) : tuner' = q.t
               /\ fallback' = [fallback EXCEPT !.age = 0]
    /\ End(fallback'.target = {})
    /\ UNCHANGED <<station, dab>>

\* AlternateFrequencyFollower::observe and shouldHunt.
ObserveFm ==
    /\ Round("fm") /\ ~ReturnDue
    /\ fallback' = IF StaleFallback THEN NoFallback ELSE fallback
    /\ LET other == \/ round.at \notin station.set
                    \/ station.pi # None /\ round.pi \notin {None, station.pi}
           known == IF other THEN [set |-> {round.at}, pi |-> round.pi, streak |-> 0,
                                   since |-> 0, hunted |-> Cooldown]
                    ELSE station
           afs   == {f \in Frequencies : Pi[f] = round.pi}
           now   == [known EXCEPT !.streak = IF round.level < 2 THEN Older(@, WeakNeeded) ELSE 0,
                                  !.set = @ \cup afs,
                                  !.pi  = IF @ = None THEN round.pi ELSE @]
           hunt  == /\ Cardinality(now.set) >= 2 /\ now.streak = WeakNeeded
                    /\ now.since = Settle /\ now.hunted = Cooldown
       IN  /\ station' = now
           /\ IF hunt THEN round' = [round EXCEPT !.pc = "probe", !.left = now.set \ {round.at}]
              ELSE End(FALSE)
    /\ UNCHANGED <<tuner, dab>>

Probe(f) ==
    /\ Round("probe") /\ f \in round.left
    /\ \E r \in Then(TuneFm(tuner, f), ReadStatus), pi \in PiSeen(f) :
          /\ tuner' = r.t
          /\ round' = [round EXCEPT !.left = @ \ {f}, !.samples = @ \cup
                IF r.ok THEN {[at |-> f, level |-> level[f], pi |-> pi]} ELSE {}]
    /\ UNCHANGED policyVars

\* AlternateFrequencyFollower::choose: the best of those that may be the same
\* station, if it is usable and better than what the radio left.
Choice ==
    LET same == {s \in round.samples : station.pi = None \/ s.pi \in {None, station.pi}}
        best == {s \in same : \A o \in same : o.level <= s.level}
        good == {s \in best : s.level > 0 /\ (s.level > round.level \/ round.level = 0)}
    IN  IF good = {} THEN {round.at} ELSE {s.at : s \in good}

\* Mutant: the radio is retuned only if it moves.
MutantChooseAf ==
    /\ Round("probe") /\ round.left = {}
    /\ \E f \in Choice :
          /\ IF f = round.at THEN UNCHANGED tuner
             ELSE \E r \in TuneFm(tuner, f) : tuner' = r.t
          /\ End(f # round.at)
    /\ station' = [station EXCEPT !.streak = 0, !.hunted = 0]
    /\ UNCHANGED <<dab, fallback>>

\* The switch is recorded even if the tune fails.
ChooseAf ==
    /\ Round("probe") /\ round.left = {}
    /\ \E f \in Choice : \E r \in TuneFm(tuner, f) : tuner' = r.t /\ End(f # round.at)
    /\ station' = [station EXCEPT !.streak = 0, !.hunted = 0]
    /\ UNCHANGED <<dab, fallback>>

(***************************************************************************)
(* A tick on DAB.                                                          *)
(***************************************************************************)
\* Mutant: the FM frequencies are forgotten.
MutantDabCandidates(d) ==
    IF d.service = None \/ ~d.linked THEN {}
    ELSE {e \in Ensembles : d.service \in Carried[e]} \ {d.index}

DabCandidates(d) ==
    IF d.service = None \/ ~d.linked THEN {}
    ELSE ({e \in Ensembles : d.service \in Carried[e]} \ {d.index}) \cup LinkFm[d.service]

\* DabServiceFollower::observe, which ignores a snapshot with no service, the
\* linkage while the signal is good, and shouldHunt.
ObserveDab ==
    /\ Round("dab")
    /\ LET other == dab.service # round.service \/ dab.index # round.index
           known == IF other THEN [service |-> round.service, index |-> round.index,
                                   linked |-> FALSE, streak |-> 0, since |-> 0,
                                   hunted |-> Cooldown]
                    ELSE dab
           seen  == IF round.service = None THEN dab
                    ELSE [known EXCEPT !.streak =
                             IF round.level < 2 THEN Older(@, WeakNeeded) ELSE 0]
           needs == seen.service # None /\ seen.streak = 0
       IN  \E r \in IF needs THEN ReadStatus(tuner) ELSE Done(tuner) :
             LET now == [seen EXCEPT !.linked = @ \/ (needs /\ r.ok)]
             IN  /\ tuner' = r.t /\ dab' = now
                 /\ IF /\ DabCandidates(now) # {} /\ now.streak = WeakNeeded
                       /\ now.since = Settle /\ now.hunted = Cooldown
                    THEN round' = [round EXCEPT !.pc = "huntDab", !.left = DabCandidates(now)]
                    ELSE End(FALSE)
    /\ UNCHANGED <<station, fallback>>

HuntedDab == dab' = [dab EXCEPT !.streak = 0, !.hunted = 0]

\* tryEnsemble: the service is played if the list of the ensemble has it.
TryEnsemble(e) ==
    /\ Round("huntDab") /\ e \in round.left \cap Ensembles
    /\ \E r \in Then(TuneDab(tuner, e), LAMBDA t :
                 Then(ListDab(t, level), LAMBDA u : PlayDab(u, dab.service, level))) :
          /\ tuner' = r.t
          /\ IF r.ok THEN End(TRUE) /\ HuntedDab
             ELSE round' = [round EXCEPT !.left = @ \ {e}] /\ UNCHANGED dab
    /\ UNCHANGED <<station, fallback>>

\* tryFm, after the ensembles, and armDabReturn.
TryFm(f) ==
    /\ Round("huntDab") /\ round.left \cap Ensembles = {} /\ f \in round.left
    /\ \E r \in Then(TuneFm(tuner, f), ReadStatus), pi \in PiSeen(f) :
          /\ tuner' = r.t
          /\ IF r.ok /\ level[f] > 0 /\ pi \in {None, LinkPi[dab.service]}
             THEN /\ End(TRUE) /\ HuntedDab
                  /\ fallback' = IF round.service = None THEN fallback
                                 ELSE [target |-> {[index |-> round.index, service |-> round.service,
                                                    pi |-> LinkPi[dab.service]]},
                                       age |-> 0, onFm |-> TRUE]
             ELSE round' = [round EXCEPT !.left = @ \ {f}] /\ UNCHANGED <<dab, fallback>>
    /\ UNCHANGED station

RestoreDab ==
    /\ Round("huntDab") /\ round.left = {}
    /\ \E r \in IF round.service = None THEN Done(tuner)
              ELSE Then(TuneDab(tuner, round.index), LAMBDA t : PlayDab(t, round.service, level)) :
          tuner' = r.t
    /\ End(FALSE) /\ HuntedDab
    /\ UNCHANGED <<station, fallback>>

Follow ==
    \/ Tick \/ TickDabReturn \/ ObserveFm \/ ChooseAf \/ ObserveDab \/ RestoreDab \/ Unlock
    \/ \E f \in Frequencies : Probe(f) \/ TryFm(f)
    \/ \E e \in Ensembles : TryEnsemble(e)

(***************************************************************************)
(* SpectrumScanService: the task of one sweep.                             *)
(***************************************************************************)
StartSweep(band) ==
    /\ sweep.pc = "idle" /\ sweeps < MaxSweeps /\ sweeps' = sweeps + 1
    /\ sweep' = [NoSweep EXCEPT !.pc = "begin", !.band = band]
    /\ UNCHANGED <<level, tuner, ticks, round, policyVars, active, userVars>>

Sweep(pc) ==
    /\ sweep.pc = pc
    /\ UNCHANGED <<level, ticks, round, policyVars, sweeps, userVars>>
Go(pc) == sweep' = [sweep EXCEPT !.pc = pc]

\* setSweepActive takes no lock: a tick may be under way.
BeginSweep == Sweep("begin") /\ active' = TRUE /\ Go("capture") /\ UNCHANGED tuner

\* The failures and calls so far are history.
CaptureOrigin ==
    /\ Sweep("capture") /\ Free
    /\ \E r \in ReadStatus(tuner) :
          /\ tuner' = r.t
          /\ sweep' = [sweep EXCEPT !.pc = "mute",
                !.origin = IF r.ok THEN {[band |-> tuner.band, at |-> NamedAt(tuner),
                                          index |-> tuner.index, played |-> tuner.played,
                                          muted |-> tuner.muted, failures |-> tuner.failures,
                                          calls |-> calls]}
                           ELSE {}]
    /\ UNCHANGED active

\* A sweep that could not be muted goes on.
Mute ==
    /\ Sweep("mute") /\ Free
    /\ \E r \in SetVolume(tuner, TRUE) : tuner' = r.t
    /\ sweep' = [sweep EXCEPT !.pc = "measure",
                              !.left = IF sweep.band = "fm" THEN Frequencies ELSE Ensembles]
    /\ UNCHANGED active

\* One point; the first failure ends the sweep.
Measure ==
    /\ Sweep("measure") /\ Free
    /\ LET c    == CHOOSE x \in sweep.left : TRUE
           rest == sweep.left \ {c}
           tune == IF sweep.band = "fm" THEN TuneFm(tuner, c) ELSE TuneDab(tuner, c)
       IN  \E r \in Then(tune, ReadStatus) :
             /\ tuner' = r.t
             /\ sweep' = [sweep EXCEPT !.left = rest, !.pc =
                            IF r.ok /\ rest # {} THEN "measure"
                            ELSE IF sweep.origin = {} THEN "release" ELSE "retune"]
    /\ UNCHANGED active

Retune ==
    /\ Sweep("retune") /\ Free
    /\ \E o \in sweep.origin :
          \E r \in IF o.band = "fm" THEN TuneFm(tuner, o.at) ELSE TuneDab(tuner, o.index) :
             /\ tuner' = r.t
             /\ Go(IF o.band = "dab" /\ r.ok /\ o.played # None THEN "replay" ELSE "volume")
    /\ UNCHANGED active

Replay ==
    /\ Sweep("replay") /\ Free
    /\ \E o \in sweep.origin : \E r \in PlayDab(tuner, o.played, level) : tuner' = r.t
    /\ Go("volume") /\ UNCHANGED active

\* Mutant: the volume of the sweep is put back.
MutantVolume ==
    /\ Sweep("volume") /\ Free
    /\ \E r \in SetVolume(tuner, tuner.muted) : tuner' = r.t
    /\ Go("release") /\ UNCHANGED active

Volume ==
    /\ Sweep("volume") /\ Free
    /\ \E o \in sweep.origin : \E r \in SetVolume(tuner, o.muted) : tuner' = r.t
    /\ Go("release") /\ UNCHANGED active

Release ==
    /\ Sweep("release") /\ active' = FALSE
    /\ sweep' = NoSweep /\ UNCHANGED tuner

SweepTask ==
    \/ BeginSweep \/ CaptureOrigin \/ Mute \/ Measure \/ Retune \/ Replay \/ Volume \/ Release

Next ==
    \/ Fade \/ UserTuneDab \/ UserTuneFm \/ UserPlay \/ UserList \/ UserSet
    \/ Follow \/ SweepTask \/ \E band \in {"dab", "fm"} : StartSweep(band)

Spec == Init /\ [][Next]_vars

\* FreeRTOS runs the two tasks; the mutex inherits priority.
FairSpec == Spec /\ WF_vars(Follow) /\ WF_vars(SweepTask)

-----------------------------------------------------------------------------
\* A tick that does not switch leaves the radio where it found it: a hunt that
\* finds nothing better and a return that fails go back.
StaysPut ==
    (/\ round.pc = "end" /\ ~round.switched /\ tuner.failures = round.failures
     /\ round.at # None /\ (round.band = "dab" => round.at = round.index /\ round.service # None))
    => /\ tuner.band = round.band /\ NamedAt(tuner) = round.at
       /\ round.band = "dab" => tuner.played = round.service

\* Once a sweep has noted what plays, no tick retunes until it has put it back.
SweepAlone == sweep.pc \notin {"idle", "begin", "capture", "release"} => Free

\* Before it lets the follower go on, a sweep that met no failure and no call of
\* the listener has put back the station, the service and the volume.
SweepRestores ==
    sweep.pc = "release" =>
       \A o \in sweep.origin :
          o.failures = tuner.failures /\ o.calls = calls
          /\ (o.band = "dab" => o.at = o.index) =>
             /\ tuner.band = o.band /\ NamedAt(tuner) = o.at /\ tuner.muted = o.muted
             /\ o.band = "dab" => tuner.played = o.played

\* A listener who chose a service is taken back to it when its ensemble is good
\* again, unless they moved or switched following off.
Owed(t) ==
    /\ settings.follow /\ settings.back /\ level[t.index] = 2
    /\ \E c \in chosen : c.service = t.service
ReturnsToDab ==
    \A t \in Targets : (t \in fallback.target /\ Owed(t)) ~>
       ((tuner.band = "dab" /\ tuner.played = t.service) \/ ~Owed(t))

\* A chosen service whose ensembles are all lost goes on on the linked FM, if
\* its linkage was read in time.
Lost(s) ==
    /\ settings.follow /\ \E c \in chosen : c.service = s
    /\ \A e \in Ensembles : s \in Carried[e] => level[e] = 0
    /\ \A f \in LinkFm[s] : level[f] = 2
LeavesWeak ==
    \A s \in Services :
       (dab.service = s /\ dab.linked /\ tuner.played = s /\ Lost(s))
       ~> (tuner.at \in LinkFm[s] \/ ~Lost(s))

-----------------------------------------------------------------------------
(***************************************************************************)
(* What the documentation says and the code does not do.                   *)
(***************************************************************************)
\* A hunt "goes back to the original service if none works": what the radio says
\* it plays is heard once its ensemble is good again.
BackToOriginal ==
    \A s \in Services : \A e \in Ensembles :
       (tuner.played = s /\ tuner.at = e /\ s \in Carried[e] /\ level[e] = 2 /\ chosen # {})
       ~> (tuner.service = s \/ level[e] # 2 \/ chosen = {} \/ tuner.at # e)
=============================================================================
