---------------------- MODULE FollowingReceptionProofs ----------------------
(***************************************************************************)
(* The radio, for any ensembles, frequencies and services, any reception,  *)
(* and any number of calls, chip commands that fail and packets.           *)
(*                                                                         *)
(* First who retunes it (Following): each lemma on a call of the tuner     *)
(* says what every result has in common and what a result that worked      *)
(* ensures, so that the steps of the tasks can be followed without opening *)
(* the calls again.  Then what is received (Reception): the slides, the    *)
(* driver, and that the driver acts as the tuner that Following is built   *)
(* on.  Last what is on show: that a call leaves no text of what was heard *)
(* before, and what each accumulator of text holds after every packet.     *)
(***************************************************************************)
EXTENDS Following, Reception, FiniteSetTheorems, TLAPS

-----------------------------------------------------------------------------
(* The calls of the tuner.                                                  *)

\* States of a receiver: what is tuned is of the band that is loaded.
Fit == {t \in TunerStates :
          /\ t.band = "off" => t.at = None
          /\ t.band = "fm"  => t.at \in Frequencies \cup {None}
          /\ t.band = "dab" => t.at \in Ensembles \cup {None}}

\* A result r of a call from t that counts every failure; one that also fails
\* without counting it, when the chip does not receive or is not booted.
Lasting(t, r) == r.t \in Fit /\ t.failures <= r.t.failures
Counted(t, r) == Lasting(t, r) /\ (~r.ok => t.failures < r.t.failures)

LEMMA Failing ==
    ASSUME NEW t \in Fit, NEW r \in Failed(t)
    PROVE  /\ ~r.ok /\ r.t \in Fit /\ r.t.failures = t.failures + 1
           /\ t.failures < r.t.failures
<1>1. t.failures # MaxFailures /\ r = [ok |-> FALSE, t |-> [t EXCEPT !.failures = @ + 1]]
  BY DEF Failed, Result
<1>2. r.ok = FALSE /\ r.t = [t EXCEPT !.failures = @ + 1]
  BY <1>1
<1>3. t.failures \in 0..MaxFailures /\ t.failures + 1 \in 0..MaxFailures
  BY <1>1, TunerAssumption DEF TunerStates, Fit
<1> QED
  BY <1>2, <1>3 DEF TunerStates, Fit

LEMMA Working ==
    ASSUME NEW t, NEW r \in Done(t)
    PROVE  r.ok /\ r.t = t
<1>1. r = [ok |-> TRUE, t |-> t]
  BY DEF Done, Result
<1>2. r.ok = TRUE /\ r.t = t
  BY <1>1
<1> QED
  BY <1>2

LEMMA Loading ==
    ASSUME NEW t \in Fit, NEW band \in {"dab", "fm"}, NEW r \in Load(t, band)
    PROVE  /\ Counted(t, r)
           /\ r.ok => /\ r.t.band = band /\ r.t.failures = t.failures
                      /\ t.band = band => r.t = t
<1> DEFINE fresh == [t EXCEPT !.band = band, !.service = None,
                              !.at = IF band = "fm" THEN DefaultFm ELSE None]
           dead  == [t EXCEPT !.band = "off", !.service = None, !.at = None]
           half  == [fresh EXCEPT !.at = None]
<1>1. fresh \in Fit /\ dead \in Fit /\ half \in Fit
  BY TunerAssumption DEF TunerStates, Fit
<1>2. /\ fresh.band = band
      /\ fresh.failures = t.failures /\ dead.failures = t.failures /\ half.failures = t.failures
  BY DEF TunerStates, Fit
<1>3. \/ r \in Done(t) /\ t.band = band
      \/ t.band # band /\ r \in Done(fresh) \cup Failed(fresh) \cup Failed(half) \cup Failed(dead)
  BY DEF Load
<1>4. t.failures \in Nat
  BY TunerAssumption DEF TunerStates, Fit
<1> HIDE DEF fresh, dead, half
<1>5. CASE r \in Done(t) /\ t.band = band
  BY <1>5, <1>4, Working DEF Counted, Lasting
<1>6. CASE t.band # band /\ r \in Done(fresh)
  BY <1>6, <1>1, <1>2, <1>4, Working DEF Counted, Lasting
<1>7. ASSUME NEW u \in {fresh, half, dead}, r \in Failed(u) PROVE Counted(t, r) /\ ~r.ok
  <2>1. u \in Fit /\ u.failures = t.failures
    BY <1>1, <1>2
  <2>2. ~r.ok /\ r.t \in Fit /\ r.t.failures = u.failures + 1
    BY <1>7, <2>1, Failing
  <2> QED
    BY <1>4, <2>1, <2>2 DEF Counted, Lasting
<1> QED
  BY <1>3, <1>5, <1>6, <1>7

\* A call that follows a load: a result r of it from u, where the load ended.
LEMMA AfterLoading ==
    ASSUME NEW t \in Fit, NEW band \in {"dab", "fm"}, NEW l \in Load(t, band), l.ok,
           NEW u \in Fit, u.failures = l.t.failures,
           NEW r \in Done(u) \cup Failed(u)
    PROVE  Counted(t, r) /\ (r.ok => r.t = u)
<1>1. l.t.failures = t.failures /\ t.failures \in Nat
  BY Loading, TunerAssumption DEF TunerStates, Fit
<1> QED
  BY <1>1, Working, Failing DEF Counted, Lasting

LEMMA TuningDab ==
    ASSUME NEW t \in Fit, NEW e \in Ensembles, NEW r \in TuneDab(t, e)
    PROVE  /\ Counted(t, r)
           /\ r.ok => r.t.band = "dab" /\ r.t.at = e /\ r.t.index = e /\ r.t.played = None
<1>1. PICK l \in Load(t, "dab") :
         IF l.ok
         THEN r \in Done([l.t EXCEPT !.at = e, !.index = e, !.service = None, !.played = None])
                    \cup Failed(l.t) \cup Failed([l.t EXCEPT !.at = e, !.service = None])
         ELSE r = l
  BY DEF TuneDab, Then
<1>2. CASE ~l.ok
  BY <1>1, <1>2, Loading
<1>3. CASE l.ok
  <2> DEFINE u == [l.t EXCEPT !.at = e, !.index = e, !.service = None, !.played = None]
             v == [l.t EXCEPT !.at = e, !.service = None]
  <2>1. l.t \in Fit /\ l.t.band = "dab"
    BY <1>3, Loading DEF Counted, Lasting
  <2>2. /\ u \in Fit /\ u.failures = l.t.failures
        /\ u.band = "dab" /\ u.at = e /\ u.index = e /\ u.played = None
    BY <2>1 DEF Fit, TunerStates
  <2>3. v \in Fit /\ v.failures = l.t.failures
    BY <2>1 DEF Fit, TunerStates
  <2>4. r \in Done(u) \/ r \in Failed(l.t) \/ r \in Failed(v)
    BY <1>1, <1>3
  <2> HIDE DEF u, v
  <2>5. CASE r \in Done(u)
    BY <1>3, <2>2, <2>5, AfterLoading
  <2>6. CASE r \in Failed(l.t)
    BY <1>3, <2>1, <2>6, AfterLoading, Failing
  <2>7. CASE r \in Failed(v)
    BY <1>3, <2>3, <2>7, AfterLoading, Failing
  <2> QED
    BY <2>4, <2>5, <2>6, <2>7
<1> QED
  BY <1>2, <1>3

LEMMA TuningFm ==
    ASSUME NEW t \in Fit, NEW f \in Frequencies, NEW r \in TuneFm(t, f)
    PROVE  /\ Counted(t, r)
           /\ r.ok => r.t.band = "fm" /\ r.t.at = f
<1>1. PICK l \in Load(t, "fm") :
         IF l.ok
         THEN r \in Done([l.t EXCEPT !.at = f]) \cup Failed(l.t)
                    \cup Failed([l.t EXCEPT !.at = f])
         ELSE r = l
  BY DEF TuneFm, Then
<1>2. CASE ~l.ok
  BY <1>1, <1>2, Loading
<1>3. CASE l.ok
  <2> DEFINE u == [l.t EXCEPT !.at = f]
  <2>1. l.t \in Fit /\ l.t.band = "fm"
    BY <1>3, Loading DEF Counted, Lasting
  <2>2. u \in Fit /\ u.failures = l.t.failures /\ u.band = "fm" /\ u.at = f
    BY <2>1 DEF Fit, TunerStates
  <2>3. r \in Done(u) \/ r \in Failed(l.t) \/ r \in Failed(u)
    BY <1>1, <1>3
  <2> HIDE DEF u
  <2>4. CASE r \in Done(u) \/ r \in Failed(u)
    BY <1>3, <2>2, <2>4, AfterLoading, Failing
  <2>5. CASE r \in Failed(l.t)
    BY <1>3, <2>1, <2>5, AfterLoading, Failing
  <2> QED
    BY <2>3, <2>4, <2>5
<1> QED
  BY <1>2, <1>3

LEMMA Playing ==
    ASSUME NEW t \in Fit, NEW s \in Services, NEW lev, NEW r \in PlayDab(t, s, lev)
    PROVE  /\ Counted(t, r)
           /\ r.ok => /\ r.t.band = "dab" /\ r.t.played = s
                      /\ t.band = "dab" => r.t.at = t.at /\ r.t.index = t.index
<1>1. PICK l \in Load(t, "dab") :
         IF l.ok
         THEN LET on == IF Receives(l.t, s, lev) THEN [l.t EXCEPT !.service = s] ELSE l.t
              IN  r \in Done([on EXCEPT !.played = s]) \cup Failed(l.t) \cup Failed(on)
         ELSE r = l
  BY DEF PlayDab, Then
<1>2. CASE ~l.ok
  BY <1>1, <1>2, Loading
<1>3. CASE l.ok
  <2> DEFINE u == IF Receives(l.t, s, lev) THEN [l.t EXCEPT !.service = s] ELSE l.t
             v == [u EXCEPT !.played = s]
  <2>1. l.t \in Fit /\ l.t.band = "dab" /\ (t.band = "dab" => l.t = t)
    BY <1>3, Loading DEF Counted, Lasting
  <2>2. /\ u \in Fit /\ u.failures = l.t.failures
        /\ u.band = "dab" /\ u.at = l.t.at /\ u.index = l.t.index
    BY <2>1 DEF Fit, TunerStates
  <2> HIDE DEF u
  <2>3. /\ v \in Fit /\ v.failures = l.t.failures
        /\ v.band = "dab" /\ v.played = s /\ v.at = l.t.at /\ v.index = l.t.index
    BY <2>2 DEF Fit, TunerStates
  <2>4. r \in Done(v) \/ r \in Failed(l.t) \/ r \in Failed(u)
    BY <1>1, <1>3 DEF u
  <2> HIDE DEF v
  <2>5. CASE r \in Done(v)
    BY <1>3, <2>1, <2>3, <2>5, AfterLoading
  <2>6. CASE r \in Failed(l.t)
    BY <1>3, <2>1, <2>6, AfterLoading, Failing
  <2>7. CASE r \in Failed(u)
    BY <1>3, <2>2, <2>7, AfterLoading, Failing
  <2> QED
    BY <2>4, <2>5, <2>6, <2>7
<1> QED
  BY <1>2, <1>3

LEMMA Listing ==
    ASSUME NEW t \in Fit, NEW lev, NEW r \in ListDab(t, lev)
    PROVE  /\ Lasting(t, r)
           /\ r.ok => /\ r.t.band = "dab"
                      /\ t.band = "dab" => r.t = t
<1>1. PICK l \in Load(t, "dab") :
         IF l.ok
         THEN r \in Done(l.t) \cup Failed(l.t) \cup {Result(FALSE, l.t)}
         ELSE r = l
  BY DEF ListDab, Then
<1>2. Counted(t, l) /\ (l.ok => l.t.band = "dab" /\ (t.band = "dab" => l.t = t))
  BY Loading
<1>3. CASE ~l.ok
  BY <1>1, <1>2, <1>3 DEF Counted
<1>4. CASE l.ok /\ r \in Done(l.t) \cup Failed(l.t)
  BY <1>2, <1>4, AfterLoading DEF Counted, Lasting
<1>5. CASE l.ok /\ r = Result(FALSE, l.t)
  <2>1. r.t = l.t /\ r.ok = FALSE
    BY <1>5 DEF Result
  <2> QED
    BY <1>2, <2>1 DEF Counted, Lasting
<1> QED
  BY <1>1, <1>3, <1>4, <1>5

LEMMA ReadingStatus ==
    ASSUME NEW t \in Fit, NEW r \in ReadStatus(t)
    PROVE  /\ Lasting(t, r) /\ (r.ok => r.t = t /\ t.band # "off")
           /\ t.band # "off" => Counted(t, r)
<1>1. t.failures \in Nat
  BY TunerAssumption DEF TunerStates, Fit
<1>2. CASE t.band = "off"
  <2>1. r.t = t /\ r.ok = FALSE
    BY <1>2 DEF ReadStatus, Result
  <2>2. Lasting(t, r)
    BY <1>1, <2>1 DEF Lasting
  <2> QED
    BY <1>2, <2>1, <2>2
<1>3. CASE t.band # "off"
  <2>1. CASE r \in Done(t)
    <3>1. Counted(t, r)
      BY <1>1, <2>1, Working DEF Counted, Lasting
    <3> QED
      BY <1>3, <2>1, <3>1, Working DEF Counted
  <2>2. CASE r \in Failed(t)
    <3>1. Counted(t, r) /\ ~r.ok
      BY <1>1, <2>2, Failing DEF Counted, Lasting
    <3> QED
      BY <3>1 DEF Counted
  <2> QED
    BY <1>3, <2>1, <2>2 DEF ReadStatus
<1> QED
  BY <1>2, <1>3

LEMMA SettingVolume ==
    ASSUME NEW t \in Fit, NEW m \in BOOLEAN, NEW r \in SetVolume(t, m)
    PROVE  /\ Counted(t, r)
           /\ r.ok => /\ r.t.muted = m
                      /\ r.t.band = t.band /\ r.t.at = t.at /\ r.t.index = t.index
                      /\ r.t.played = t.played
<1> DEFINE u == [t EXCEPT !.muted = m]
<1>1. /\ u \in Fit /\ u.failures = t.failures /\ u.muted = m
      /\ u.band = t.band /\ u.at = t.at /\ u.index = t.index /\ u.played = t.played
  BY DEF Fit, TunerStates
<1>2. t.failures \in Nat
  BY TunerAssumption DEF TunerStates, Fit
<1>3. r \in Done(u) \/ r \in Failed(t)
  BY DEF SetVolume
<1> HIDE DEF u
<1> QED
  BY <1>1, <1>2, <1>3, Working, Failing DEF Counted, Lasting

-----------------------------------------------------------------------------
(* Types.                                                                   *)

Before == {"idle", "begin", "capture"}   \* before the origin of a sweep is noted

RoundTyped ==
    /\ round \in Rounds
    /\ round.pc \in {"fm", "probe"} => round.band = "fm" /\ round.at \in Frequencies
    /\ round.pc \in {"dab", "huntDab"} => round.band = "dab"
    /\ round.pc = "huntDab" => dab.service \in Services

PolicyTyped ==
    /\ station \in StationStates /\ dab \in DabStates
    /\ fallback \in FallbackStates /\ Cardinality(fallback.target) <= 1

SweepTyped ==
    /\ sweep \in Sweeps
    /\ sweep.left \subseteq IF sweep.band = "fm" THEN Frequencies ELSE Ensembles
    /\ sweep.pc \in Before => sweep.origin = {}
    /\ sweep.pc = "measure" => sweep.left # {}
    /\ \A o, p \in sweep.origin : o = p
    /\ \A o \in sweep.origin :
          /\ o.band = "fm" => o.at \in Frequencies
          /\ sweep.pc = "replay" => o.band = "dab" /\ o.played # None

UserTyped ==
    /\ settings \in [follow : BOOLEAN, back : BOOLEAN]
    /\ calls \in 0..MaxUser
    /\ chosen \subseteq [service : Services, index : Ensembles]

RestTyped ==
    /\ level \in [Carriers -> Levels] /\ ticks \in 0..MetadataEvery - 1
    /\ active \in BOOLEAN /\ sweeps \in 0..MaxSweeps

Typed ==
    /\ tuner \in Fit
    /\ RoundTyped /\ PolicyTyped /\ SweepTyped /\ UserTyped /\ RestTyped

LEMMA TypedTypes == Typed => TypeOK
BY DEF Typed, RoundTyped, PolicyTyped, SweepTyped, UserTyped, RestTyped, Fit, TypeOK

LEMMA SomeEnsemble == Idle.index \in Ensembles
BY TunerAssumption DEF Idle

LEMMA IdleTyped == Idle \in Rounds /\ Idle.pc = "idle"
<1>1. (CHOOSE e \in Ensembles : TRUE) \in Ensembles
  BY TunerAssumption
<1>2. MaxFailures \in Nat
  BY TunerAssumption
<1> QED
  BY <1>1, <1>2 DEF Idle, Rounds, Levels

LEMMA NoSweepTyped ==
    NoSweep \in Sweeps /\ NoSweep.pc = "idle" /\ NoSweep.left = {} /\ NoSweep.origin = {}
BY DEF NoSweep, Sweeps

LEMMA InitTyped == Init => Typed
<1> SUFFICES ASSUME Init PROVE Typed
  OBVIOUS
<1>1. tuner \in Fit
  BY SomeEnsemble, TunerAssumption DEF Init, Fit, TunerStates
<1>2. RoundTyped
  BY IdleTyped DEF Init, RoundTyped
<1>3. PolicyTyped
  <2>1. station \in StationStates
    BY FollowingAssumption DEF Init, StationStates
  <2>2. dab \in DabStates
    <3>1. 0 \in 0..WeakNeeded /\ 0 \in 0..Settle /\ Cooldown \in 0..Cooldown
      BY FollowingAssumption
    <3>2. dab = [service |-> None, index |-> Idle.index, linked |-> FALSE,
                 streak |-> 0, since |-> 0, hunted |-> Cooldown]
      BY DEF Init
    <3>3. None \in Services \cup {None} /\ FALSE \in BOOLEAN
      OBVIOUS
    <3> HIDE DEF Idle
    <3> QED
      BY <3>1, <3>2, <3>3, SomeEnsemble, Zenon DEF DabStates
  <2>3. fallback \in FallbackStates /\ fallback.target = {}
    BY FollowingAssumption DEF Init, FallbackStates
  <2> QED
    BY <2>1, <2>2, <2>3, FS_EmptySet DEF PolicyTyped
<1>4. SweepTyped
  BY NoSweepTyped DEF Init, SweepTyped
<1>5. UserTyped
  <2>1. settings \in [follow : BOOLEAN, back : BOOLEAN]
    BY Zenon DEF Init
  <2> QED
    BY <2>1, FollowingAssumption DEF Init, UserTyped
<1>6. RestTyped
  <2>1. level = [c \in Carriers |-> 2] /\ ticks = 0 /\ sweeps = 0
    BY DEF Init
  <2>2. active \in BOOLEAN
    BY Zenon DEF Init
  <2> QED
    BY <2>1, <2>2, FollowingAssumption DEF RestTyped, Levels
<1> QED
  BY <1>1, <1>2, <1>3, <1>4, <1>5, <1>6 DEF Typed

LEMMA Named ==
    ASSUME NEW t \in Fit, level \in [Carriers -> Levels]
    PROVE  /\ NamedAt(t) \in Carriers \cup {None}
           /\ t.band = "fm" => NamedAt(t) \in Frequencies
           /\ LevelOf(t, level) \in Levels
BY TunerAssumption DEF Fit, TunerStates, NamedAt, LevelOf, Levels, Carriers

LEMMA FadeTyped == ASSUME Typed, Fade PROVE Typed'
<1>1. level' \in [Carriers -> Levels]
  BY DEF Typed, RestTyped, Fade
<1> QED
  BY <1>1 DEF Typed, RoundTyped, PolicyTyped, SweepTyped, UserTyped, RestTyped, Fade,
              policyVars, sweepVars

\* A call of the listener.
LEMMA UserFrame ==
    ASSUME Typed, NEW op, User(op), tuner' \in Fit,
           settings' \in [follow : BOOLEAN, back : BOOLEAN],
           chosen' \subseteq [service : Services, index : Ensembles]
    PROVE  Typed'
<1>1. calls' \in 0..MaxUser
  BY FollowingAssumption DEF User, Typed, UserTyped
<1> QED
  BY <1>1 DEF Typed, RoundTyped, PolicyTyped, SweepTyped, UserTyped, RestTyped, User,
              policyVars, sweepVars

LEMMA UserSteps ==
    ASSUME Typed, UserTuneDab \/ UserTuneFm \/ UserPlay \/ UserList \/ UserSet PROVE Typed'
<1>1. /\ tuner \in Fit /\ settings \in [follow : BOOLEAN, back : BOOLEAN]
      /\ chosen \subseteq [service : Services, index : Ensembles]
  BY DEF Typed, UserTyped
<1>2. CASE UserTuneDab
  <2>1. PICK e \in Ensembles : \E r \in TuneDab(tuner, e) : tuner' = r.t /\ chosen' = {}
    BY <1>2 DEF UserTuneDab
  <2>2. tuner' \in Fit
    BY <1>1, <2>1, TuningDab DEF Counted, Lasting
  <2> QED
    BY <1>1, <1>2, <2>1, <2>2, UserFrame DEF UserTuneDab
<1>3. CASE UserTuneFm
  <2>1. PICK f \in Frequencies : \E r \in TuneFm(tuner, f) : tuner' = r.t /\ chosen' = {}
    BY <1>3 DEF UserTuneFm
  <2>2. tuner' \in Fit
    BY <1>1, <2>1, TuningFm DEF Counted, Lasting
  <2> QED
    BY <1>1, <1>3, <2>1, <2>2, UserFrame DEF UserTuneFm
<1>4. CASE UserPlay
  <2>1. PICK s \in Services : \E r \in PlayDab(tuner, s, level) :
          /\ tuner' = r.t
          /\ chosen' = IF r.t.service = s THEN {[service |-> s, index |-> r.t.index]} ELSE {}
    BY <1>4 DEF UserPlay
  <2>2. tuner' \in Fit /\ tuner'.index \in Ensembles
    BY <1>1, <2>1, Playing DEF Counted, Lasting, Fit, TunerStates
  <2>3. chosen' \subseteq [service : Services, index : Ensembles]
    BY <2>1, <2>2
  <2> QED
    BY <1>1, <1>4, <2>2, <2>3, UserFrame DEF UserPlay
<1>5. CASE UserList
  <2>1. tuner' \in Fit
    BY <1>1, <1>5, Listing DEF UserList, Lasting
  <2> QED
    BY <1>1, <1>5, <2>1, UserFrame DEF UserList
<1>6. CASE UserSet
  <2>1. settings' \in [follow : BOOLEAN, back : BOOLEAN]
    BY Zenon, <1>1, <1>6 DEF UserSet
  <2> QED
    BY <1>1, <1>6, <2>1, UserFrame DEF UserSet
<1> QED
  BY <1>2, <1>3, <1>4, <1>5, <1>6

LEMMA FollowFrame ==
    ASSUME Typed, UNCHANGED <<level, sweepVars, userVars>>, ticks' \in 0..MetadataEvery - 1,
           tuner' \in Fit, RoundTyped', PolicyTyped'
    PROVE  Typed'
BY DEF Typed, SweepTyped, UserTyped, RestTyped, sweepVars, userVars

LEMMA Ageing ==
    ASSUME NEW limit \in Nat, NEW age \in 0..limit PROVE Older(age, limit) \in 0..limit
BY DEF Older

LEMMA Ending ==
    ASSUME round \in Rounds, NEW moved \in BOOLEAN, End(moved)
    PROVE  /\ round' \in Rounds /\ round'.pc = "end" /\ round'.switched = moved
           /\ round'.band = round.band /\ round'.at = round.at
           /\ round'.service = round.service /\ round'.index = round.index
           /\ round'.failures = round.failures
BY DEF End, Rounds

\* The snapshot a round starts with.
LEMMA Snapshot ==
    ASSUME Typed, Tick
    PROVE  /\ tuner' \in Fit
           /\ \/ UNCHANGED round
              \/ /\ UNCHANGED tuner /\ round' \in Rounds
                 /\ round'.pc \in {"dab", "fm"} /\ round'.pc = tuner.band
                 /\ round'.band = tuner.band /\ round'.at = NamedAt(tuner)
                 /\ round'.service = tuner.played /\ round'.failures = tuner.failures
                 /\ tuner.band = "fm" => NamedAt(tuner) \in Frequencies
<1>1. tuner \in Fit /\ level \in [Carriers -> Levels]
  BY DEF Typed, RestTyped
<1>2. PICK r \in ReadStatus(tuner) :
         /\ tuner' = r.t
         /\ IF ~r.ok THEN UNCHANGED round
            ELSE \E pi \in {None} \cup
                    (IF ticks = 0 /\ tuner.band = "fm" /\ LevelOf(tuner, level) > 0
                     THEN {Pi[tuner.at]} ELSE {}) :
                 round' = [Idle EXCEPT !.pc = tuner.band, !.band = tuner.band,
                    !.at = NamedAt(tuner), !.level = LevelOf(tuner, level), !.pi = pi,
                    !.service = tuner.played, !.index = tuner.index,
                    !.failures = tuner.failures]
  BY DEF Tick
<1>3. tuner' \in Fit
  BY <1>1, <1>2, ReadingStatus DEF Lasting
<1>4. CASE UNCHANGED round
  BY <1>3, <1>4
<1>5. CASE r.ok
  <2>1. PICK pi \in {None} \cup
                  (IF ticks = 0 /\ tuner.band = "fm" /\ LevelOf(tuner, level) > 0
                   THEN {Pi[tuner.at]} ELSE {}) :
               round' = [Idle EXCEPT !.pc = tuner.band, !.band = tuner.band,
                  !.at = NamedAt(tuner), !.level = LevelOf(tuner, level), !.pi = pi,
                  !.service = tuner.played, !.index = tuner.index,
                  !.failures = tuner.failures]
    BY <1>2, <1>5
  <2>2. tuner.band \in {"dab", "fm"} /\ UNCHANGED tuner
    BY <1>1, <1>2, <1>5, ReadingStatus DEF Fit, TunerStates
  <2>3. pi \in Pis \cup {None}
    <3>1. CASE tuner.band = "fm" /\ LevelOf(tuner, level) > 0
      <4>1. tuner.at \in Frequencies
        BY <1>1, <3>1 DEF LevelOf, Fit
      <4> QED
        BY <4>1 DEF Pis
    <3> QED
      BY <3>1
  <2>4. /\ NamedAt(tuner) \in Carriers \cup {None}
        /\ tuner.band = "fm" => NamedAt(tuner) \in Frequencies
        /\ LevelOf(tuner, level) \in Levels
    BY <1>1, Named
  <2>5. /\ tuner.played \in Services \cup {None} /\ tuner.index \in Ensembles
        /\ tuner.failures \in 0..MaxFailures
    BY <1>1 DEF Fit, TunerStates
  <2>6. /\ round' \in Rounds /\ round'.pc = tuner.band /\ round'.band = tuner.band
        /\ round'.at = NamedAt(tuner)
        /\ round'.service = tuner.played /\ round'.failures = tuner.failures
    BY <2>1, <2>2, <2>3, <2>4, <2>5, IdleTyped DEF Rounds
  <2> QED
    BY <1>3, <2>2, <2>4, <2>6
<1> QED
  BY <1>2, <1>4, <1>5

LEMMA TickTyped == ASSUME Typed, Tick PROVE Typed'
<1>1. /\ tuner \in Fit /\ level \in [Carriers -> Levels] /\ round \in Rounds
      /\ station \in StationStates /\ dab \in DabStates
      /\ fallback \in FallbackStates /\ Cardinality(fallback.target) <= 1
  BY DEF Typed, RestTyped, RoundTyped, PolicyTyped
<1>2. station' \in StationStates
  <2>1. /\ Older(station.since, Settle) \in 0..Settle
        /\ Older(station.hunted, Cooldown) \in 0..Cooldown
    BY <1>1, Ageing, FollowingAssumption DEF StationStates
  <2> QED
    BY <1>1, <2>1 DEF Tick, StationStates
<1>3. dab' \in DabStates /\ dab'.service = dab.service
  <2>1. /\ Older(dab.since, Settle) \in 0..Settle
        /\ Older(dab.hunted, Cooldown) \in 0..Cooldown
    BY <1>1, Ageing, FollowingAssumption DEF DabStates
  <2> QED
    BY <1>1, <2>1 DEF Tick, DabStates
<1>4. fallback' \in FallbackStates /\ fallback'.target = fallback.target
  <2>1. Older(fallback.age, ReturnEvery) \in 0..ReturnEvery
    BY <1>1, Ageing, FollowingAssumption DEF FallbackStates
  <2>2. fallback' = [fallback EXCEPT !.age = Older(@, ReturnEvery)]
    BY DEF Tick
  <2> QED
    BY <1>1, <2>1, <2>2 DEF FallbackStates
<1>5. ticks' \in 0..MetadataEvery - 1
  <2>1. MetadataEvery \in Nat \ {0}
    BY FollowingAssumption
  <2>2. ticks + 1 \in Nat
    BY <2>1 DEF Typed, RestTyped
  <2>3. ticks' = (ticks + 1) % MetadataEvery
    BY DEF Tick
  <2> QED
    BY <2>1, <2>2, <2>3
<1>6. tuner' \in Fit
  BY Snapshot
<1>7. RoundTyped'
  <2>1. CASE UNCHANGED round
    BY <1>3, <2>1 DEF Tick, Free, RoundTyped, Typed
  <2>2. CASE ~UNCHANGED round
    BY <2>2, Snapshot DEF RoundTyped
  <2> QED
    BY <2>1, <2>2
<1> QED
  BY <1>1, <1>2, <1>3, <1>4, <1>5, <1>6, <1>7, FollowFrame DEF Tick, PolicyTyped

\* A step of a round, which keeps the mutex.
LEMMA RoundFrame ==
    ASSUME Typed, NEW pc, Round(pc), tuner' \in Fit, RoundTyped', PolicyTyped'
    PROVE  Typed'
BY FollowFrame DEF Round, Typed, RestTyped

LEMMA UnlockTyped == ASSUME Typed, Unlock PROVE Typed'
<1>1. RoundTyped' /\ PolicyTyped'
  BY IdleTyped DEF Typed, RoundTyped, PolicyTyped, Unlock, policyVars
<1> QED
  BY <1>1, RoundFrame DEF Unlock, Typed

\* The way back to DAB.
LEMMA Returning ==
    ASSUME tuner \in Fit, NEW t \in Targets, NEW r \in TryReturn(t)
    PROVE  Lasting(tuner, r)
<1>1. t.index \in Ensembles /\ t.service \in Services
  BY DEF Targets
<1>2. PICK a \in TuneDab(tuner, t.index) :
         r \in IF a.ok
               THEN Then(ReadStatus(a.t), LAMBDA v :
                         IF LevelOf(v, level) = 2 THEN PlayDab(v, t.service, level)
                         ELSE {Result(FALSE, v)})
               ELSE {a}
  BY DEF TryReturn, Then
<1>3. Lasting(tuner, a)
  BY <1>1, TuningDab DEF Counted
<1>4. CASE ~a.ok
  BY <1>2, <1>3, <1>4
<1>5. CASE a.ok
  <2>1. PICK b \in ReadStatus(a.t) :
           IF b.ok
           THEN r \in PlayDab(b.t, t.service, level) \/ r = Result(FALSE, b.t)
           ELSE r = b
    BY <1>2, <1>5 DEF Then
  <2>2. Lasting(a.t, b)
    BY <1>3, ReadingStatus DEF Lasting
  <2>3. b.t \in Fit
    BY <2>2 DEF Lasting
  <2>4. Lasting(b.t, r) \/ r = Result(FALSE, b.t) \/ r = b
    BY <1>1, <2>1, <2>3, Playing DEF Counted
  <2>5. r.t = b.t \/ Lasting(b.t, r)
    BY <2>4 DEF Result
  <2>6. tuner.failures \in Nat /\ a.t.failures \in Nat /\ b.t.failures \in Nat
    BY <1>3, <2>2, TunerAssumption DEF Lasting, Fit, TunerStates
  <2>7. r.t \in Fit /\ b.t.failures <= r.t.failures /\ r.t.failures \in Nat
    BY <2>3, <2>5, <2>6, TunerAssumption DEF Lasting, Fit, TunerStates
  <2> QED
    BY <1>3, <2>2, <2>6, <2>7 DEF Lasting
<1> QED
  BY <1>4, <1>5

LEMMA TickDabReturnTyped == ASSUME Typed, TickDabReturn PROVE Typed'
<1>1. /\ tuner \in Fit /\ round \in Rounds /\ round.at \in Frequencies
      /\ round.pc = "fm" /\ fallback \in FallbackStates
  BY DEF Typed, RoundTyped, PolicyTyped, TickDabReturn, Round
<1>2. PICK t \in fallback.target : \E r \in TryReturn(t) :
         IF r.ok
         THEN tuner' = r.t /\ fallback' = NoFallback
         ELSE /\ \E q \in TuneFm(r.t, round.at) : tuner' = q.t
              /\ fallback' = [fallback EXCEPT !.age = 0]
  BY DEF TickDabReturn
<1>3. PICK r \in TryReturn(t) :
         IF r.ok
         THEN tuner' = r.t /\ fallback' = NoFallback
         ELSE /\ \E q \in TuneFm(r.t, round.at) : tuner' = q.t
              /\ fallback' = [fallback EXCEPT !.age = 0]
  BY <1>2
<1>4. t \in Targets
  BY <1>1 DEF FallbackStates
<1>5. r.t \in Fit
  BY <1>1, <1>3, <1>4, Returning DEF Lasting
<1>6. tuner' \in Fit
  BY <1>1, <1>3, <1>5, TuningFm DEF Counted, Lasting
<1>7. fallback' \in FallbackStates /\ fallback'.target \in {{}, fallback.target}
  <2>1. \/ fallback' = [fallback EXCEPT !.target = {}, !.onFm = FALSE]
        \/ fallback' = [fallback EXCEPT !.age = 0]
    BY <1>3 DEF NoFallback
  <2>2. 0 \in 0..ReturnEvery
    BY FollowingAssumption
  <2> QED
    BY <1>1, <2>1, <2>2 DEF FallbackStates
<1>8. PolicyTyped'
  BY <1>7, FS_EmptySet DEF Typed, PolicyTyped, TickDabReturn
<1>9. RoundTyped'
  <2>1. PICK moved \in BOOLEAN : End(moved)
    BY DEF TickDabReturn
  <2> QED
    BY <1>1, <2>1, Ending DEF RoundTyped
<1> QED
  BY <1>6, <1>8, <1>9, RoundFrame DEF TickDabReturn

\* What a step of a round has to start from.
LEMMA InRound ==
    ASSUME Typed
    PROVE  /\ tuner \in Fit /\ level \in [Carriers -> Levels] /\ round \in Rounds
           /\ station \in StationStates /\ dab \in DabStates /\ fallback \in FallbackStates
           /\ Cardinality(fallback.target) <= 1
           /\ round.pc \in {"fm", "probe"} => round.band = "fm" /\ round.at \in Frequencies
           /\ round.pc \in {"dab", "huntDab"} => round.band = "dab"
           /\ round.pc = "huntDab" => dab.service \in Services
BY DEF Typed, RoundTyped, PolicyTyped, RestTyped

LEMMA EndTyped ==
    ASSUME round \in Rounds, NEW moved \in BOOLEAN, End(moved) PROVE RoundTyped'
BY Ending DEF RoundTyped

LEMMA NoFallbackTyped ==
    ASSUME fallback \in FallbackStates
    PROVE  NoFallback \in FallbackStates /\ NoFallback.target = {}
BY DEF NoFallback, FallbackStates

LEMMA ObserveFmTyped == ASSUME Typed, ObserveFm PROVE Typed'
<1>1. /\ tuner \in Fit /\ round \in Rounds /\ round.pc = "fm" /\ round.band = "fm"
      /\ round.at \in Frequencies
      /\ station \in StationStates /\ dab \in DabStates /\ fallback \in FallbackStates
      /\ Cardinality(fallback.target) <= 1
  BY InRound DEF ObserveFm, Round
<1> DEFINE fresh == [set |-> {round.at}, pi |-> round.pi, streak |-> 0,
                     since |-> 0, hunted |-> Cooldown]
           other == \/ round.at \notin station.set
                    \/ station.pi # None /\ round.pi \notin {None, station.pi}
           known == IF other THEN fresh ELSE station
           afs   == {f \in Frequencies : Pi[f] = round.pi}
           now   == [known EXCEPT !.streak = IF round.level < 2 THEN Older(@, WeakNeeded) ELSE 0,
                                  !.set = @ \cup afs,
                                  !.pi  = IF @ = None THEN round.pi ELSE @]
<1>2. /\ station' = now
      /\ \/ round' = [round EXCEPT !.pc = "probe", !.left = now.set \ {round.at}]
         \/ End(FALSE)
      /\ fallback' \in {NoFallback, fallback} /\ UNCHANGED <<tuner, dab>>
  BY DEF ObserveFm
<1>3. fresh \in StationStates
  BY <1>1, FollowingAssumption DEF StationStates, Rounds
<1>4. known \in StationStates
  BY <1>1, <1>3
<1>5. now \in StationStates
  <2> HIDE DEF known
  <2>1. Older(known.streak, WeakNeeded) \in 0..WeakNeeded /\ 0 \in 0..WeakNeeded
    BY <1>4, Ageing, FollowingAssumption DEF StationStates
  <2>2. afs \subseteq Frequencies /\ round.pi \in Pis \cup {None}
    BY <1>1 DEF Rounds
  <2> HIDE DEF afs
  <2> QED
    BY <1>4, <2>1, <2>2 DEF StationStates
<1> HIDE DEF now
<1>6. RoundTyped'
  <2>1. CASE round' = [round EXCEPT !.pc = "probe", !.left = now.set \ {round.at}]
    <3>1. now.set \ {round.at} \subseteq Carriers
      BY <1>5 DEF StationStates, Carriers
    <3>2. /\ round' \in Rounds /\ round'.pc = "probe" /\ round'.band = "fm"
          /\ round'.at = round.at
      BY <1>1, <2>1, <3>1 DEF Rounds
    <3> QED
      BY <1>1, <3>2 DEF RoundTyped
  <2>2. CASE End(FALSE)
    BY <1>1, <2>2, EndTyped
  <2> QED
    BY <1>2, <2>1, <2>2
<1>7. PolicyTyped'
  BY <1>1, <1>2, <1>5, NoFallbackTyped, FS_EmptySet DEF PolicyTyped
<1> QED
  BY <1>1, <1>2, <1>6, <1>7, RoundFrame DEF ObserveFm

LEMMA Probing ==
    ASSUME NEW t \in Fit, NEW f \in Frequencies, NEW r \in Then(TuneFm(t, f), ReadStatus)
    PROVE  Lasting(t, r)
<1>1. PICK a \in TuneFm(t, f) : IF a.ok THEN r \in ReadStatus(a.t) ELSE r = a
  BY DEF Then
<1>2. a.t \in Fit /\ t.failures <= a.t.failures /\ t.failures \in Nat /\ a.t.failures \in Nat
  BY TuningFm, TunerAssumption DEF Counted, Lasting, Fit, TunerStates
<1>3. CASE ~a.ok
  BY <1>1, <1>2, <1>3 DEF Lasting
<1>4. CASE a.ok
  <2>1. Lasting(a.t, r)
    BY <1>1, <1>2, <1>4, ReadingStatus
  <2>2. r.t.failures \in Nat
    BY <2>1, TunerAssumption DEF Lasting, Fit, TunerStates
  <2> QED
    BY <1>2, <2>1, <2>2 DEF Lasting
<1> QED
  BY <1>3, <1>4

LEMMA ProbeTyped == ASSUME Typed, NEW f \in Frequencies, Probe(f) PROVE Typed'
<1>1. /\ tuner \in Fit /\ level \in [Carriers -> Levels] /\ round \in Rounds
      /\ round.pc = "probe" /\ round.band = "fm" /\ round.at \in Frequencies
  BY InRound DEF Probe, Round
<1>2. PICK r \in Then(TuneFm(tuner, f), ReadStatus), pi \in PiSeen(f) :
         /\ tuner' = r.t
         /\ round' = [round EXCEPT !.left = @ \ {f}, !.samples = @ \cup
                IF r.ok THEN {[at |-> f, level |-> level[f], pi |-> pi]} ELSE {}]
  BY DEF Probe
<1>3. tuner' \in Fit
  BY <1>1, <1>2, Probing DEF Lasting
<1>4. [at |-> f, level |-> level[f], pi |-> pi] \in Samples
  <2>1. pi \in Pis \cup {None} /\ level[f] \in Levels
    BY <1>1 DEF PiSeen, Pis, Carriers
  <2> QED
    BY <2>1 DEF Samples
<1>5. /\ round' \in Rounds /\ round'.pc = "probe" /\ round'.band = "fm"
      /\ round'.at = round.at
  <2> DEFINE more == IF r.ok THEN {[at |-> f, level |-> level[f], pi |-> pi]} ELSE {}
  <2>1. more \subseteq Samples
    BY <1>4
  <2>2. round' = [round EXCEPT !.left = @ \ {f}, !.samples = @ \cup more]
    BY <1>2
  <2> HIDE DEF more
  <2> QED
    BY <1>1, <2>1, <2>2 DEF Rounds
<1>6. RoundTyped' /\ PolicyTyped'
  BY <1>1, <1>5 DEF RoundTyped, PolicyTyped, Typed, Probe, policyVars
<1> QED
  BY <1>3, <1>6, RoundFrame DEF Probe

LEMMA Chosen ==
    ASSUME round \in Rounds, round.at \in Frequencies, NEW f \in Choice
    PROVE  f \in Frequencies
BY DEF Choice, Rounds, Samples

LEMMA ChooseAfTyped == ASSUME Typed, ChooseAf PROVE Typed'
<1>1. /\ tuner \in Fit /\ round \in Rounds /\ round.at \in Frequencies
      /\ station \in StationStates
  BY InRound DEF ChooseAf, Round
<1>2. PICK f \in Choice : \E r \in TuneFm(tuner, f) : tuner' = r.t /\ End(f # round.at)
  BY DEF ChooseAf
<1>3. f \in Frequencies
  BY <1>1, Chosen
<1>4. tuner' \in Fit
  BY <1>1, <1>2, <1>3, TuningFm DEF Counted, Lasting
<1>5. RoundTyped'
  <2> DEFINE moved == f # round.at
  <2>1. moved \in BOOLEAN
    OBVIOUS
  <2>2. End(moved)
    BY <1>2, Zenon
  <2> HIDE DEF moved
  <2> QED
    BY <1>1, <2>1, <2>2, EndTyped
<1>6. station' \in StationStates
  <2>1. 0 \in 0..WeakNeeded /\ 0 \in 0..Cooldown
    BY FollowingAssumption
  <2>2. station' = [station EXCEPT !.streak = 0, !.hunted = 0]
    BY DEF ChooseAf
  <2> QED
    BY <1>1, <2>1, <2>2 DEF StationStates
<1>7. PolicyTyped'
  BY <1>6 DEF Typed, PolicyTyped, ChooseAf
<1> QED
  BY <1>4, <1>5, <1>7, RoundFrame DEF ChooseAf

LEMMA ObserveDabTyped == ASSUME Typed, ObserveDab PROVE Typed'
<1>1. /\ tuner \in Fit /\ round \in Rounds /\ round.pc = "dab" /\ round.band = "dab"
      /\ station \in StationStates /\ dab \in DabStates /\ fallback \in FallbackStates
      /\ Cardinality(fallback.target) <= 1
  BY InRound DEF ObserveDab, Round
<1> DEFINE fresh == [service |-> round.service, index |-> round.index,
                     linked |-> FALSE, streak |-> 0, since |-> 0, hunted |-> Cooldown]
           other == dab.service # round.service \/ dab.index # round.index
           known == IF other THEN fresh ELSE dab
           seen  == IF round.service = None THEN dab
                    ELSE [known EXCEPT !.streak =
                             IF round.level < 2 THEN Older(@, WeakNeeded) ELSE 0]
           needs == seen.service # None /\ seen.streak = 0
           now(r) == [seen EXCEPT !.linked = @ \/ (needs /\ r.ok)]
<1>2. PICK r \in IF needs THEN ReadStatus(tuner) ELSE Done(tuner) :
         /\ tuner' = r.t /\ dab' = now(r)
         /\ IF /\ DabCandidates(now(r)) # {} /\ now(r).streak = WeakNeeded
               /\ now(r).since = Settle /\ now(r).hunted = Cooldown
            THEN round' = [round EXCEPT !.pc = "huntDab", !.left = DabCandidates(now(r))]
            ELSE End(FALSE)
  BY DEF ObserveDab
<1>3. fresh \in DabStates
  <2>1. 0 \in 0..WeakNeeded /\ 0 \in 0..Settle /\ Cooldown \in 0..Cooldown
    BY FollowingAssumption
  <2>2. round.service \in Services \cup {None} /\ round.index \in Ensembles
    BY <1>1 DEF Rounds
  <2> QED
    BY <2>1, <2>2, Zenon DEF DabStates
<1>4. seen \in DabStates
  <2>1. known \in DabStates
    BY <1>1, <1>3
  <2> HIDE DEF known
  <2>2. Older(known.streak, WeakNeeded) \in 0..WeakNeeded /\ 0 \in 0..WeakNeeded
    BY <2>1, Ageing, FollowingAssumption DEF DabStates
  <2> QED
    BY <1>1, <2>1, <2>2 DEF DabStates
<1>5. dab' \in DabStates /\ dab'.service = seen.service
  <2> HIDE DEF seen, needs
  <2> DEFINE b == seen.linked \/ (needs /\ r.ok)
  <2>1. b \in BOOLEAN
    OBVIOUS
  <2>2. dab' = [seen EXCEPT !.linked = b]
    BY <1>2
  <2> HIDE DEF b
  <2> QED
    BY <1>4, <2>1, <2>2 DEF DabStates
<1>6. tuner' \in Fit
  BY <1>1, <1>2, ReadingStatus, Working DEF Lasting
<1>7. RoundTyped'
  <2>1. CASE End(FALSE)
    BY <1>1, <2>1, EndTyped
  <2>2. CASE /\ DabCandidates(dab') # {}
             /\ round' = [round EXCEPT !.pc = "huntDab", !.left = DabCandidates(dab')]
    <3>1. dab'.service \in Services
      BY <1>5, <2>2 DEF DabCandidates, DabStates
    <3>2. DabCandidates(dab') \subseteq Carriers
      BY <3>1, FollowingAssumption DEF DabCandidates, Carriers
    <3>3. round' \in Rounds /\ round'.pc = "huntDab" /\ round'.band = "dab"
      BY <1>1, <2>2, <3>2 DEF Rounds
    <3> QED
      BY <3>1, <3>3 DEF RoundTyped
  <2> QED
    <3> HIDE DEF now
    <3> QED
      BY <1>2, <2>1, <2>2
<1>8. PolicyTyped'
  BY <1>1, <1>5 DEF PolicyTyped, ObserveDab
<1> QED
  BY <1>6, <1>7, <1>8, RoundFrame DEF ObserveDab

LEMMA HuntedTyped ==
    ASSUME dab \in DabStates, HuntedDab PROVE dab' \in DabStates
<1>1. 0 \in 0..WeakNeeded /\ 0 \in 0..Cooldown
  BY FollowingAssumption
<1> QED
  BY <1>1 DEF HuntedDab, DabStates

\* tryEnsemble: tune, list, play; and the way back: tune, play.
Attempt(t, e, s, lev) ==
    Then(TuneDab(t, e), LAMBDA u : Then(ListDab(u, lev), LAMBDA v : PlayDab(v, s, lev)))
GoBack(t, e, s, lev) == Then(TuneDab(t, e), LAMBDA u : PlayDab(u, s, lev))

LEMMA Trying ==
    ASSUME NEW t \in Fit, NEW e \in Ensembles, NEW s \in Services, NEW lev,
           NEW r \in Attempt(t, e, s, lev)
    PROVE  Lasting(t, r)
<1>1. PICK a \in TuneDab(t, e) :
         r \in IF a.ok THEN Then(ListDab(a.t, lev), LAMBDA v : PlayDab(v, s, lev)) ELSE {a}
  BY DEF Attempt, Then
<1>2. Lasting(t, a)
  BY TuningDab DEF Counted
<1>3. CASE ~a.ok
  BY <1>1, <1>2, <1>3
<1>4. CASE a.ok
  <2>1. PICK b \in ListDab(a.t, lev) : r \in IF b.ok THEN PlayDab(b.t, s, lev) ELSE {b}
    BY <1>1, <1>4 DEF Then
  <2>2. Lasting(a.t, b)
    BY <1>2, Listing DEF Lasting
  <2>3. Lasting(b.t, r) \/ r = b
    BY <2>1, <2>2, Playing DEF Lasting, Counted
  <2> QED
    BY <1>2, <2>2, <2>3, TunerAssumption DEF Lasting, Fit, TunerStates
<1> QED
  BY <1>3, <1>4

LEMMA TryEnsembleTyped == ASSUME Typed, NEW e \in Ensembles, TryEnsemble(e) PROVE Typed'
<1>1. /\ tuner \in Fit /\ round \in Rounds /\ dab \in DabStates
      /\ round.pc = "huntDab" /\ round.band = "dab" /\ dab.service \in Services
  BY InRound DEF TryEnsemble, Round
<1>2. PICK r \in Attempt(tuner, e, dab.service, level) :
          /\ tuner' = r.t
          /\ IF r.ok THEN End(TRUE) /\ HuntedDab
             ELSE round' = [round EXCEPT !.left = @ \ {e}] /\ UNCHANGED dab
  BY DEF TryEnsemble, Attempt
<1>3. tuner' \in Fit
  BY <1>1, <1>2, Trying DEF Lasting
<1>4. dab' \in DabStates
  BY <1>1, <1>2, HuntedTyped
<1>5. RoundTyped'
  <2>1. CASE End(TRUE)
    BY <1>1, <2>1, EndTyped
  <2>2. CASE round' = [round EXCEPT !.left = @ \ {e}] /\ UNCHANGED dab
    <3>1. round' \in Rounds /\ round'.pc = "huntDab" /\ round'.band = "dab"
      BY <1>1, <2>2 DEF Rounds
    <3> QED
      BY <1>1, <2>2, <3>1 DEF RoundTyped
  <2> QED
    BY <1>2, <2>1, <2>2
<1>6. PolicyTyped'
  BY <1>4 DEF Typed, PolicyTyped, TryEnsemble
<1> QED
  BY <1>3, <1>5, <1>6, RoundFrame DEF TryEnsemble

LEMMA TryFmTyped == ASSUME Typed, NEW f \in Frequencies, TryFm(f) PROVE Typed'
<1>1. /\ tuner \in Fit /\ round \in Rounds /\ dab \in DabStates
      /\ fallback \in FallbackStates /\ Cardinality(fallback.target) <= 1
      /\ round.pc = "huntDab" /\ round.band = "dab" /\ dab.service \in Services
  BY InRound DEF TryFm, Round
<1> DEFINE target == [index |-> round.index, service |-> round.service, pi |-> LinkPi[dab.service]]
           armed == [target |-> {target}, age |-> 0, onFm |-> TRUE]
<1>2. PICK r \in Then(TuneFm(tuner, f), ReadStatus) :
         /\ tuner' = r.t
         /\ \/ End(TRUE) /\ HuntedDab
               /\ fallback' = IF round.service = None THEN fallback ELSE armed
            \/ round' = [round EXCEPT !.left = @ \ {f}] /\ UNCHANGED <<dab, fallback>>
  BY DEF TryFm
<1>3. tuner' \in Fit
  BY <1>1, <1>2, Probing DEF Lasting
<1>4. dab' \in DabStates
  BY <1>1, <1>2, HuntedTyped
<1>5. RoundTyped'
  <2>1. CASE End(TRUE)
    BY <1>1, <2>1, EndTyped
  <2>2. CASE round' = [round EXCEPT !.left = @ \ {f}] /\ UNCHANGED dab
    <3>1. round' \in Rounds /\ round'.pc = "huntDab" /\ round'.band = "dab"
      BY <1>1, <2>2 DEF Rounds
    <3> QED
      BY <1>1, <2>2, <3>1 DEF RoundTyped
  <2> QED
    BY <1>2, <2>1, <2>2
<1>6. fallback' \in FallbackStates /\ Cardinality(fallback'.target) <= 1
  <2>1. CASE UNCHANGED fallback
    BY <1>1, <2>1
  <2>2. CASE round.service # None /\ fallback' = armed
    <3>1. target \in Targets
      BY <1>1, <2>2, FollowingAssumption DEF Targets, Rounds
    <3> HIDE DEF target
    <3>2. armed \in FallbackStates /\ armed.target = {target}
      BY <3>1, FollowingAssumption DEF FallbackStates
    <3>3. Cardinality({target}) = 1
      BY FS_Singleton
    <3> QED
      BY <2>2, <3>2, <3>3
  <2> QED
    BY <1>2, <2>1, <2>2
<1>7. PolicyTyped'
  BY <1>4, <1>6 DEF Typed, PolicyTyped, TryFm
<1> QED
  BY <1>3, <1>5, <1>7, RoundFrame DEF TryFm

LEMMA Restoring ==
    ASSUME NEW t \in Fit, NEW e \in Ensembles, NEW s \in Services, NEW lev,
           NEW r \in GoBack(t, e, s, lev)
    PROVE  /\ Counted(t, r)
           /\ r.ok => /\ r.t.band = "dab" /\ r.t.at = e /\ r.t.index = e
                      /\ r.t.played = s
<1>1. PICK a \in TuneDab(t, e) : r \in IF a.ok THEN PlayDab(a.t, s, lev) ELSE {a}
  BY DEF GoBack, Then
<1>2. Counted(t, a) /\ (a.ok => a.t.band = "dab" /\ a.t.at = e /\ a.t.index = e)
  BY TuningDab
<1>3. CASE ~a.ok
  BY <1>1, <1>2, <1>3
<1>4. CASE a.ok
  <2>1. /\ Counted(a.t, r)
        /\ r.ok => r.t.band = "dab" /\ r.t.played = s /\ r.t.at = e /\ r.t.index = e
    BY <1>1, <1>2, <1>4, Playing DEF Counted, Lasting
  <2> QED
    BY <1>2, <2>1, TunerAssumption DEF Counted, Lasting, Fit, TunerStates
<1> QED
  BY <1>3, <1>4

LEMMA RestoreDabTyped == ASSUME Typed, RestoreDab PROVE Typed'
<1>1. /\ tuner \in Fit /\ round \in Rounds /\ dab \in DabStates
  BY InRound
<1>2. PICK r \in IF round.service = None THEN Done(tuner)
              ELSE GoBack(tuner, round.index, round.service, level) :
          tuner' = r.t
  BY DEF RestoreDab, GoBack
<1>3. tuner' \in Fit
  <2>1. CASE round.service = None
    BY <1>1, <1>2, <2>1, Working
  <2>2. CASE round.service # None
    <3>1. round.service \in Services /\ round.index \in Ensembles
      BY <1>1, <2>2 DEF Rounds
    <3> QED
      BY <1>1, <1>2, <2>2, <3>1, Restoring DEF Counted, Lasting
  <2> QED
    BY <2>1, <2>2
<1>4. RoundTyped'
  BY <1>1, EndTyped DEF RestoreDab
<1>5. PolicyTyped'
  BY <1>1, HuntedTyped DEF Typed, PolicyTyped, RestoreDab
<1> QED
  BY <1>3, <1>4, <1>5, RoundFrame DEF RestoreDab

LEMMA FollowTyped == ASSUME Typed, Follow PROVE Typed'
<1>1. CASE Tick \/ Unlock
  BY <1>1, TickTyped, UnlockTyped
<1>2. CASE TickDabReturn \/ ObserveFm \/ ChooseAf
  BY <1>2, TickDabReturnTyped, ObserveFmTyped, ChooseAfTyped
<1>3. CASE ObserveDab \/ RestoreDab
  BY <1>3, ObserveDabTyped, RestoreDabTyped
<1>4. CASE \E f \in Frequencies : Probe(f) \/ TryFm(f)
  BY <1>4, ProbeTyped, TryFmTyped
<1>5. CASE \E e \in Ensembles : TryEnsemble(e)
  BY <1>5, TryEnsembleTyped
<1> QED
  BY <1>1, <1>2, <1>3, <1>4, <1>5 DEF Follow

\* The sweep.
LEMMA SweepFrame ==
    ASSUME Typed, UNCHANGED <<level, ticks, round, policyVars, userVars>>,
           sweeps' \in 0..MaxSweeps, active' \in BOOLEAN, tuner' \in Fit, SweepTyped'
    PROVE  Typed'
BY DEF Typed, RoundTyped, PolicyTyped, UserTyped, RestTyped, policyVars, userVars

LEMMA StartSweepTyped ==
    ASSUME Typed, NEW band \in {"dab", "fm"}, StartSweep(band) PROVE Typed'
<1>1. sweeps' \in 0..MaxSweeps
  BY FollowingAssumption DEF StartSweep, Typed, RestTyped
<1>2. /\ sweep' \in Sweeps /\ sweep'.pc = "begin" /\ sweep'.left = {} /\ sweep'.origin = {}
  BY NoSweepTyped DEF StartSweep, Sweeps
<1>3. SweepTyped'
  BY <1>2 DEF SweepTyped, Before
<1> QED
  BY <1>1, <1>3, SweepFrame DEF StartSweep, Typed, RestTyped

LEMMA Going ==
    ASSUME sweep \in Sweeps,
           NEW pc \in {"idle", "begin", "capture", "mute", "measure", "retune", "replay",
                       "volume", "release"},
           Go(pc)
    PROVE  /\ sweep' \in Sweeps /\ sweep'.pc = pc
           /\ sweep'.band = sweep.band /\ sweep'.left = sweep.left
           /\ sweep'.origin = sweep.origin
BY DEF Go, Sweeps

LEMMA InSweep ==
    ASSUME Typed
    PROVE  /\ tuner \in Fit /\ level \in [Carriers -> Levels] /\ sweep \in Sweeps
           /\ sweep.left \subseteq IF sweep.band = "fm" THEN Frequencies ELSE Ensembles
           /\ sweep.pc \in Before => sweep.origin = {}
           /\ sweep.pc = "measure" => sweep.left # {}
           /\ active \in BOOLEAN /\ calls \in 0..MaxUser /\ sweeps \in 0..MaxSweeps
           /\ round \in Rounds
           /\ \A o, p \in sweep.origin : o = p
           /\ \A o \in sweep.origin :
                 /\ o \in Origins /\ (o.band = "fm" => o.at \in Frequencies)
                 /\ sweep.pc = "replay" => o.band = "dab" /\ o.played # None
BY DEF Typed, Sweeps, SweepTyped, RestTyped, UserTyped, RoundTyped

\* A step that only goes on, with the tuner changed.
LEMMA GoingTyped ==
    ASSUME Typed, NEW from, NEW pc \in {"retune", "replay", "volume", "release"},
           Sweep(from), Go(pc), UNCHANGED active, tuner' \in Fit,
           pc = "replay" => \A o \in sweep.origin : o.band = "dab" /\ o.played # None
    PROVE  Typed'
<1>1. SweepTyped'
  BY InSweep, Going DEF SweepTyped, Before
<1> QED
  BY <1>1, InSweep, SweepFrame DEF Sweep

LEMMA Tuning ==
    ASSUME NEW t \in Fit, NEW band \in {"dab", "fm"},
           NEW c \in IF band = "fm" THEN Frequencies ELSE Ensembles,
           NEW r \in IF band = "fm" THEN TuneFm(t, c) ELSE TuneDab(t, c)
    PROVE  Counted(t, r)
BY TuningFm, TuningDab

LEMMA Measuring ==
    ASSUME NEW t \in Fit, NEW tune, NEW r \in Then(tune, ReadStatus),
           \A a \in tune : Counted(t, a)
    PROVE  Lasting(t, r)
<1>1. PICK a \in tune : IF a.ok THEN r \in ReadStatus(a.t) ELSE r = a
  BY DEF Then
<1>2. Lasting(t, a)
  BY DEF Counted
<1>3. CASE r = a
  BY <1>2, <1>3
<1>4. CASE r \in ReadStatus(a.t)
  <2>1. Lasting(a.t, r)
    BY <1>2, <1>4, ReadingStatus DEF Lasting
  <2> QED
    BY <1>2, <2>1, TunerAssumption DEF Lasting, Fit, TunerStates
<1> QED
  BY <1>1, <1>3, <1>4

\* The origin that is noted.
LEMMA Capturing ==
    ASSUME Typed, CaptureOrigin
    PROVE  /\ tuner' \in Fit /\ sweep' \in Sweeps /\ sweep'.pc = "mute"
           /\ UNCHANGED active /\ sweep'.left = sweep.left /\ sweep'.band = sweep.band
           /\ tuner.failures <= tuner'.failures
           /\ \/ sweep'.origin = {}
              \/ /\ tuner.band # "off" /\ (tuner.band = "fm" => NamedAt(tuner) \in Frequencies)
                 /\ sweep'.origin = {[band |-> tuner.band, at |-> NamedAt(tuner),
                                      index |-> tuner.index, played |-> tuner.played,
                                      muted |-> tuner.muted, failures |-> tuner.failures,
                                      calls |-> calls]}
<1> DEFINE o == [band |-> tuner.band, at |-> NamedAt(tuner), index |-> tuner.index,
                 played |-> tuner.played, muted |-> tuner.muted,
                 failures |-> tuner.failures, calls |-> calls]
<1>1. PICK r \in ReadStatus(tuner) :
         /\ tuner' = r.t
         /\ sweep' = [sweep EXCEPT !.pc = "mute", !.origin = IF r.ok THEN {o} ELSE {}]
  BY DEF CaptureOrigin
<1>2. Lasting(tuner, r) /\ (r.ok => tuner.band # "off")
  BY InSweep, ReadingStatus
<1>3. r.ok => o \in Origins
  <2>1. /\ tuner.band \in {"off", "dab", "fm"} /\ tuner.index \in Ensembles
        /\ tuner.played \in Services \cup {None} /\ tuner.muted \in BOOLEAN
        /\ tuner.failures \in 0..MaxFailures /\ calls \in 0..MaxUser
        /\ NamedAt(tuner) \in Carriers \cup {None}
    BY InSweep, Named DEF Fit, TunerStates
  <2> QED
    BY <1>2, <2>1 DEF Origins
<1> HIDE DEF o
<1>4. UNCHANGED active
  BY DEF CaptureOrigin
<1>5. CASE r.ok
  <2>1. sweep' = [sweep EXCEPT !.pc = "mute", !.origin = {o}] /\ o \in Origins
    BY <1>1, <1>3, <1>5
  <2>2. /\ sweep' \in Sweeps /\ sweep'.pc = "mute" /\ sweep'.left = sweep.left
        /\ sweep'.band = sweep.band /\ sweep'.origin = {o}
    BY <2>1, InSweep DEF Sweeps
  <2> QED
    BY <1>1, <1>2, <1>4, <1>5, <2>2, InSweep, Named DEF Lasting, o
<1>6. CASE ~r.ok
  <2>1. sweep' = [sweep EXCEPT !.pc = "mute", !.origin = {}]
    BY <1>1, <1>6
  <2>2. /\ sweep' \in Sweeps /\ sweep'.pc = "mute" /\ sweep'.left = sweep.left
        /\ sweep'.band = sweep.band /\ sweep'.origin = {}
    BY <2>1, InSweep DEF Sweeps
  <2> QED
    BY <1>1, <1>2, <1>4, <2>2 DEF Lasting
<1> QED
  BY <1>5, <1>6

\* One point of a sweep: what it leaves.
LEMMA Measured ==
    ASSUME Typed, Measure
    PROVE  /\ tuner' \in Fit /\ tuner.failures <= tuner'.failures /\ UNCHANGED active
           /\ sweep' \in Sweeps /\ sweep'.band = sweep.band /\ sweep'.origin = sweep.origin
           /\ sweep'.left \subseteq sweep.left
           /\ sweep'.pc = "measure" => sweep'.left # {}
           /\ sweep'.pc \in {"measure", "retune"} \/ (sweep'.pc = "release" /\ sweep.origin = {})
<1> DEFINE c    == CHOOSE x \in sweep.left : TRUE
           rest == sweep.left \ {c}
           tune == IF sweep.band = "fm" THEN TuneFm(tuner, c) ELSE TuneDab(tuner, c)
<1>1. PICK r \in Then(tune, ReadStatus) :
         /\ tuner' = r.t
         /\ sweep' = [sweep EXCEPT !.left = rest, !.pc =
                        IF r.ok /\ rest # {} THEN "measure"
                        ELSE IF sweep.origin = {} THEN "release" ELSE "retune"]
  BY DEF Measure
<1>2. sweep.left # {} /\ sweep.band \in {"dab", "fm"}
  BY InSweep DEF Measure, Sweep, Sweeps
<1>3. c \in IF sweep.band = "fm" THEN Frequencies ELSE Ensembles
  BY <1>2, InSweep
<1>4. \A a \in tune : Counted(tuner, a)
  BY <1>2, <1>3, InSweep, Tuning
<1>5. UNCHANGED active
  BY DEF Measure
<1> HIDE DEF tune
<1>6. Lasting(tuner, r)
  BY <1>1, <1>4, InSweep, Measuring
<1> HIDE DEF c
<1>7. rest \subseteq sweep.left /\ rest \subseteq Carriers
  BY InSweep DEF Sweeps
<1> HIDE DEF rest
<1> DEFINE pc == IF r.ok /\ rest # {} THEN "measure"
                 ELSE IF sweep.origin = {} THEN "release" ELSE "retune"
<1>8. /\ pc \in {"measure", "release", "retune"}
      /\ pc = "measure" => rest # {}
      /\ pc = "release" => sweep.origin = {}
  OBVIOUS
<1>9. sweep' = [sweep EXCEPT !.left = rest, !.pc = pc]
  BY <1>1
<1> HIDE DEF pc
<1>10. /\ sweep' \in Sweeps /\ sweep'.band = sweep.band /\ sweep'.origin = sweep.origin
       /\ sweep'.left = rest /\ sweep'.pc = pc
  BY <1>7, <1>8, <1>9, InSweep DEF Sweeps
<1>11. tuner' \in Fit /\ tuner.failures <= tuner'.failures
  BY <1>1, <1>6 DEF Lasting
<1> QED
  BY <1>5, <1>7, <1>8, <1>10, <1>11

LEMMA SweepStepsTyped == ASSUME Typed, SweepTask PROVE Typed'
<1>1. CASE BeginSweep
  <2>1. active' \in BOOLEAN
    BY <1>1, Zenon DEF BeginSweep
  <2>2. SweepTyped'
    BY <1>1, InSweep, Going DEF BeginSweep, Sweep, SweepTyped, Before
  <2> QED
    BY <1>1, <2>1, <2>2, InSweep, SweepFrame DEF BeginSweep, Sweep
<1>2. CASE CaptureOrigin
  <2>1. SweepTyped'
    BY <1>2, InSweep, Capturing DEF SweepTyped, Before
  <2> QED
    BY <1>2, <2>1, InSweep, Capturing, SweepFrame DEF CaptureOrigin, Sweep
<1>3. CASE Mute
  <2>1. tuner' \in Fit
    BY <1>3, InSweep, SettingVolume DEF Mute, Counted, Lasting
  <2>2. /\ sweep' = [sweep EXCEPT !.pc = "measure", !.left = sweep'.left]
        /\ sweep'.left = IF sweep.band = "fm" THEN Frequencies ELSE Ensembles
    BY <1>3, InSweep DEF Mute, Sweeps
  <2>3. sweep'.left \subseteq Carriers /\ sweep'.left # {}
    BY <2>2, TunerAssumption DEF Carriers
  <2>4. SweepTyped'
    BY <2>2, <2>3, InSweep DEF SweepTyped, Sweeps, Before
  <2> QED
    BY <1>3, <2>1, <2>4, InSweep, SweepFrame DEF Mute, Sweep
<1>4. CASE Measure
  <2>1. SweepTyped'
    BY <1>4, InSweep, Measured DEF SweepTyped, Before
  <2> QED
    BY <1>4, <2>1, InSweep, Measured, SweepFrame DEF Measure, Sweep
<1>5. CASE Retune
  <2>1. PICK o \in sweep.origin :
          \E r \in IF o.band = "fm" THEN TuneFm(tuner, o.at) ELSE TuneDab(tuner, o.index) :
             /\ tuner' = r.t
             /\ Go(IF o.band = "dab" /\ r.ok /\ o.played # None THEN "replay" ELSE "volume")
    BY <1>5 DEF Retune
  <2>2. o \in Origins /\ (o.band = "fm" => o.at \in Frequencies)
    BY InSweep
  <2>3. tuner' \in Fit
    BY <2>1, <2>2, InSweep, TuningFm, TuningDab DEF Counted, Lasting, Origins
  <2>4. \/ Go("volume")
        \/ Go("replay") /\ o.band = "dab" /\ o.played # None
    BY <2>1
  <2>5. CASE Go("volume")
    BY <1>5, <2>3, <2>5, GoingTyped DEF Retune
  <2>6. CASE Go("replay") /\ o.band = "dab" /\ o.played # None
    <3>1. \A p \in sweep.origin : p.band = "dab" /\ p.played # None
      BY <2>6, InSweep
    <3> QED
      BY <1>5, <2>3, <2>6, <3>1, GoingTyped DEF Retune
  <2> QED
    BY <2>4, <2>5, <2>6
<1>6. CASE Replay
  <2>1. PICK o \in sweep.origin : \E r \in PlayDab(tuner, o.played, level) : tuner' = r.t
    BY <1>6 DEF Replay
  <2>2. o.played \in Services
    BY <1>6, InSweep DEF Replay, Sweep, Origins
  <2>3. tuner' \in Fit
    BY <2>1, <2>2, InSweep, Playing DEF Counted, Lasting
  <2> QED
    BY <1>6, <2>3, GoingTyped DEF Replay
<1>7. CASE Volume
  <2>1. PICK o \in sweep.origin : \E r \in SetVolume(tuner, o.muted) : tuner' = r.t
    BY <1>7 DEF Volume
  <2>2. tuner' \in Fit
    BY <2>1, InSweep, SettingVolume DEF Counted, Lasting, Origins
  <2> QED
    BY <1>7, <2>2, GoingTyped DEF Volume
<1>8. CASE Release
  <2>1. active' \in BOOLEAN
    BY <1>8, Zenon DEF Release
  <2>2. SweepTyped'
    BY <1>8, NoSweepTyped DEF Release, SweepTyped, Before
  <2> QED
    BY <1>8, <2>1, <2>2, InSweep, SweepFrame DEF Release, Sweep
<1> QED
  BY <1>1, <1>2, <1>3, <1>4, <1>5, <1>6, <1>7, <1>8 DEF SweepTask

LEMMA NextTyped == ASSUME Typed, [Next]_vars PROVE Typed'
<1>1. CASE Fade
  BY <1>1, FadeTyped
<1>2. CASE UserTuneDab \/ UserTuneFm \/ UserPlay \/ UserList \/ UserSet
  BY <1>2, UserSteps
<1>3. CASE Follow
  BY <1>3, FollowTyped
<1>4. CASE SweepTask \/ \E band \in {"dab", "fm"} : StartSweep(band)
  BY <1>4, SweepStepsTyped, StartSweepTyped
<1>5. CASE UNCHANGED vars
  BY <1>5 DEF vars, Typed, RoundTyped, PolicyTyped, SweepTyped, UserTyped, RestTyped
<1> QED
  BY <1>1, <1>2, <1>3, <1>4, <1>5 DEF Next

\* Every variable keeps its type: what the tasks note of the tuner in the middle
\* of a hunt, a way back and a sweep is what the calls that follow can be given.
THEOREM FollowingTypeCorrect == Spec => []TypeOK
BY InitTyped, NextTyped, TypedTypes, PTL DEF Spec

-----------------------------------------------------------------------------
(* The way back of a round.                                                 *)

\* The radio plays what the round found it playing.
Put ==
    /\ tuner.band = round.band /\ NamedAt(tuner) = round.at
    /\ round.band = "dab" => tuner.played = round.service

\* A round that may be held to it: nothing failed since its snapshot, and on DAB
\* the snapshot names a service and the ensemble that a hunt goes back to.
Held ==
    /\ ~round.switched /\ tuner.failures = round.failures
    /\ round.band = "dab" => round.at = round.index /\ round.service # None

RoundInv ==
    round.pc # "idle" =>
       /\ round.failures <= tuner.failures
       /\ round.pc \in {"fm", "dab"} => Put /\ tuner.failures = round.failures
       /\ round.pc = "end" /\ Held => Put

LEMMA RoundAlone ==
    ASSUME RoundInv, UNCHANGED round, Free \/ UNCHANGED tuner PROVE RoundInv'
BY DEF RoundInv, Free, Put, Held, NamedAt

\* The failures of the tuner and of the round are numbers.
LEMMA Failures ==
    ASSUME NEW t \in Fit PROVE t.failures \in Nat
BY TunerAssumption DEF Fit, TunerStates

LEMMA RoundFailures == ASSUME round \in Rounds PROVE round.failures \in Nat
BY TunerAssumption DEF Rounds

\* A call in a round does not lose the failures before it.
LEMMA StillCounted ==
    ASSUME Typed, RoundInv, round.pc # "idle", NEW r, Lasting(tuner, r)
    PROVE  /\ round.failures <= r.t.failures
           /\ tuner.failures < r.t.failures => r.t.failures # round.failures
<1>1. tuner.failures \in Nat /\ r.t.failures \in Nat /\ round.failures \in Nat
  BY InRound, Failures, RoundFailures DEF Lasting
<1> QED
  BY <1>1 DEF Lasting, RoundInv

\* The last step of a round.
LEMMA EndPut ==
    ASSUME round \in Rounds, NEW moved \in BOOLEAN, End(moved),
           round.failures <= tuner'.failures,
           /\ ~moved /\ tuner'.failures = round.failures
           /\ round.band = "dab" => round.at = round.index /\ round.service # None
           => /\ tuner'.band = round.band /\ NamedAt(tuner)' = round.at
              /\ round.band = "dab" => tuner'.played = round.service
    PROVE  RoundInv'
BY Ending DEF RoundInv, Put, Held

\* A step that goes on with a hunt.
LEMMA HuntPut ==
    ASSUME round.failures <= tuner'.failures, round'.failures = round.failures,
           round'.pc \in {"probe", "huntDab"}
    PROVE  RoundInv'
BY DEF RoundInv

\* A tune to where the round found the radio brings it there or counts a failure.
LEMMA TuningBack ==
    ASSUME Typed, NEW u \in Fit, round.failures <= u.failures,
           round.band = "fm", round.at \in Frequencies,
           NEW q \in TuneFm(u, round.at)
    PROVE  /\ round.failures <= q.t.failures
           /\ q.t.failures = round.failures => q.t.band = "fm" /\ NamedAt(q.t) = round.at
<1>1. Counted(u, q) /\ (q.ok => q.t.band = "fm" /\ q.t.at = round.at)
  BY TuningFm
<1>2. u.failures \in Nat /\ q.t.failures \in Nat /\ round.failures \in Nat
  BY <1>1, InRound, Failures, RoundFailures DEF Counted, Lasting
<1>3. round.at # None
  BY TunerAssumption
<1> QED
  BY <1>1, <1>2, <1>3 DEF Counted, Lasting, NamedAt

LEMMA TickPut == ASSUME Typed, RoundInv, Tick PROVE RoundInv'
<1>1. CASE UNCHANGED round
  BY <1>1, RoundAlone DEF Tick
<1>2. CASE ~UNCHANGED round
  <2>1. /\ UNCHANGED tuner /\ round'.pc \in {"dab", "fm"}
        /\ round'.band = tuner.band /\ round'.at = NamedAt(tuner)
        /\ round'.service = tuner.played /\ round'.failures = tuner.failures
    BY <1>2, Snapshot
  <2>2. tuner.failures \in Nat
    BY InRound, Failures
  <2> QED
    BY <2>1, <2>2 DEF RoundInv, Put, NamedAt
<1> QED
  BY <1>1, <1>2

LEMMA TickDabReturnPut == ASSUME Typed, RoundInv, TickDabReturn PROVE RoundInv'
<1>1. /\ tuner \in Fit /\ round \in Rounds /\ round.at \in Frequencies
      /\ round.pc = "fm" /\ round.band = "fm" /\ fallback \in FallbackStates
  BY InRound DEF TickDabReturn, Round
<1> DEFINE moved == fallback'.target = {}
<1>2. PICK t \in fallback.target : \E r \in TryReturn(t) :
         IF r.ok
         THEN tuner' = r.t /\ fallback' = NoFallback
         ELSE /\ \E q \in TuneFm(r.t, round.at) : tuner' = q.t
              /\ fallback' = [fallback EXCEPT !.age = 0]
  BY DEF TickDabReturn
<1>3. PICK r \in TryReturn(t) :
         IF r.ok
         THEN tuner' = r.t /\ fallback' = NoFallback
         ELSE \E q \in TuneFm(r.t, round.at) : tuner' = q.t
  BY <1>2
<1>4. moved \in BOOLEAN /\ End(moved)
  BY Zenon DEF TickDabReturn
<1>5. Lasting(tuner, r)
  BY <1>1, <1>2, <1>3, Returning DEF FallbackStates
<1>6. r.t \in Fit /\ round.failures <= r.t.failures
  BY <1>1, <1>5, StillCounted DEF Lasting
<1>7. CASE r.ok
  <2>1. tuner' = r.t /\ moved
    BY <1>1, <1>3, <1>7, NoFallbackTyped
  <2> HIDE DEF moved
  <2> QED
    BY <1>1, <1>4, <1>6, <2>1, EndPut
<1>8. CASE ~r.ok
  <2>1. PICK q \in TuneFm(r.t, round.at) : tuner' = q.t
    BY <1>3, <1>8
  <2>2. /\ round.failures <= tuner'.failures
        /\ tuner'.failures = round.failures => tuner'.band = "fm" /\ NamedAt(q.t) = round.at
    BY <1>1, <1>6, <2>1, TuningBack
  <2>3. NamedAt(tuner)' = NamedAt(q.t)
    BY <2>1 DEF NamedAt
  <2> HIDE DEF moved
  <2> QED
    BY <1>1, <1>4, <2>2, <2>3, EndPut
<1> QED
  BY <1>7, <1>8

LEMMA ObserveFmPut == ASSUME Typed, RoundInv, ObserveFm PROVE RoundInv'
<1>1. /\ round \in Rounds /\ round.pc = "fm" /\ UNCHANGED tuner
  BY InRound DEF ObserveFm, Round
<1>2. Put /\ tuner.failures = round.failures /\ round.failures <= tuner'.failures
  BY <1>1 DEF RoundInv
<1>3. \/ End(FALSE)
      \/ \E left : round' = [round EXCEPT !.pc = "probe", !.left = left]
  BY DEF ObserveFm
<1>4. CASE End(FALSE)
  BY <1>1, <1>2, <1>4, EndPut DEF Put, NamedAt
<1>5. CASE \E left : round' = [round EXCEPT !.pc = "probe", !.left = left]
  <2>1. round'.pc = "probe" /\ round'.failures = round.failures
    BY <1>1, <1>5 DEF Rounds
  <2> QED
    BY <1>2, <2>1, HuntPut
<1> QED
  BY <1>3, <1>4, <1>5

LEMMA ProbePut == ASSUME Typed, RoundInv, NEW f \in Frequencies, Probe(f) PROVE RoundInv'
<1>1. tuner \in Fit /\ round \in Rounds /\ round.pc = "probe"
  BY InRound DEF Probe, Round
<1>2. PICK r \in Then(TuneFm(tuner, f), ReadStatus) :
         /\ tuner' = r.t
         /\ \E left, samples : round' = [round EXCEPT !.left = left, !.samples = samples]
  BY DEF Probe
<1>3. round.failures <= tuner'.failures
  BY <1>1, <1>2, Probing, StillCounted
<1>4. round'.pc = "probe" /\ round'.failures = round.failures
  BY <1>1, <1>2 DEF Rounds
<1> QED
  BY <1>3, <1>4, HuntPut

LEMMA ChooseAfPut == ASSUME Typed, RoundInv, ChooseAf PROVE RoundInv'
<1>1. /\ tuner \in Fit /\ round \in Rounds /\ round.pc = "probe" /\ round.band = "fm"
      /\ round.at \in Frequencies
  BY InRound DEF ChooseAf, Round
<1>2. PICK f \in Choice : \E r \in TuneFm(tuner, f) : tuner' = r.t /\ End(f # round.at)
  BY DEF ChooseAf
<1>3. PICK r \in TuneFm(tuner, f) : tuner' = r.t
  BY <1>2
<1> DEFINE moved == f # round.at
<1>4. moved \in BOOLEAN /\ End(moved)
  BY <1>2, Zenon
<1>5. f \in Frequencies /\ round.failures <= tuner.failures
  BY <1>1, Chosen DEF RoundInv
<1>6. CASE moved
  <2>1. round.failures <= tuner'.failures
    BY <1>1, <1>3, <1>5, TuningFm, StillCounted DEF Counted
  <2> HIDE DEF moved
  <2> QED
    BY <1>1, <1>4, <1>6, <2>1, EndPut
<1>7. CASE ~moved
  <2>1. r \in TuneFm(tuner, round.at)
    BY <1>3, <1>7
  <2>2. /\ round.failures <= tuner'.failures
        /\ tuner'.failures = round.failures => tuner'.band = "fm" /\ NamedAt(r.t) = round.at
    BY <1>1, <1>3, <1>5, <2>1, TuningBack
  <2>3. NamedAt(tuner)' = NamedAt(r.t)
    BY <1>3 DEF NamedAt
  <2> HIDE DEF moved
  <2> QED
    BY <1>1, <1>4, <2>2, <2>3, EndPut
<1> QED
  BY <1>6, <1>7

LEMMA ObserveDabPut == ASSUME Typed, RoundInv, ObserveDab PROVE RoundInv'
<1>1. /\ tuner \in Fit /\ round \in Rounds /\ round.pc = "dab" /\ round.band = "dab"
  BY InRound DEF ObserveDab, Round
<1>2. Put /\ tuner.failures = round.failures /\ tuner.band = "dab"
  BY <1>1 DEF RoundInv, Put
<1>3. PICK r \in ReadStatus(tuner) \cup Done(tuner) :
         /\ tuner' = r.t
         /\ \/ End(FALSE)
            \/ round' = [round EXCEPT !.pc = "huntDab", !.left = DabCandidates(dab')]
  BY DEF ObserveDab
<1>4. Counted(tuner, r) /\ (r.ok => r.t = tuner)
  BY <1>1, <1>2, <1>3, ReadingStatus, Working, Failures DEF Counted, Lasting
<1>5. /\ round.failures <= tuner'.failures
      /\ tuner'.failures = round.failures => UNCHANGED tuner
  BY <1>1, <1>3, <1>4, StillCounted DEF Counted
<1>6. CASE End(FALSE)
  BY <1>1, <1>2, <1>5, <1>6, EndPut DEF Put, NamedAt
<1>7. CASE round' = [round EXCEPT !.pc = "huntDab", !.left = DabCandidates(dab')]
  <2>1. round'.pc = "huntDab" /\ round'.failures = round.failures
    BY <1>1, <1>7 DEF Rounds
  <2> QED
    BY <1>5, <2>1, HuntPut
<1> QED
  BY <1>3, <1>6, <1>7

\* A step of the hunt for another source of the service.
LEMMA HuntingPut ==
    ASSUME Typed, RoundInv, round.pc = "huntDab", NEW r, Lasting(tuner, r), tuner' = r.t,
           \/ End(TRUE)
           \/ \E left : round' = [round EXCEPT !.left = left]
    PROVE  RoundInv'
<1>1. round \in Rounds
  BY InRound
<1>2. round.failures <= tuner'.failures
  BY StillCounted
<1>3. CASE End(TRUE)
  BY <1>1, <1>2, <1>3, EndPut
<1>4. CASE \E left : round' = [round EXCEPT !.left = left]
  <2>1. round'.pc = "huntDab" /\ round'.failures = round.failures
    BY <1>1, <1>4 DEF Rounds
  <2> QED
    BY <1>2, <2>1, HuntPut
<1> QED
  BY <1>3, <1>4

LEMMA TryEnsemblePut ==
    ASSUME Typed, RoundInv, NEW e \in Ensembles, TryEnsemble(e) PROVE RoundInv'
<1>1. tuner \in Fit /\ round.pc = "huntDab" /\ dab.service \in Services
  BY InRound DEF TryEnsemble, Round
<1>2. PICK r \in Attempt(tuner, e, dab.service, level) :
         /\ tuner' = r.t
         /\ \/ End(TRUE)
            \/ \E left : round' = [round EXCEPT !.left = left]
  BY DEF TryEnsemble, Attempt
<1>3. Lasting(tuner, r)
  BY <1>1, Trying
<1> QED
  BY <1>1, <1>2, <1>3, HuntingPut

LEMMA TryFmPut ==
    ASSUME Typed, RoundInv, NEW f \in Frequencies, TryFm(f) PROVE RoundInv'
<1>1. tuner \in Fit /\ round.pc = "huntDab"
  BY InRound DEF TryFm, Round
<1>2. PICK r \in Then(TuneFm(tuner, f), ReadStatus) :
         /\ tuner' = r.t
         /\ \/ End(TRUE)
            \/ \E left : round' = [round EXCEPT !.left = left]
  BY DEF TryFm
<1>3. Lasting(tuner, r)
  BY <1>1, Probing
<1> QED
  BY <1>1, <1>2, <1>3, HuntingPut

LEMMA RestoreDabPut == ASSUME Typed, RoundInv, RestoreDab PROVE RoundInv'
<1>1. /\ tuner \in Fit /\ round \in Rounds /\ round.pc = "huntDab" /\ round.band = "dab"
      /\ round.failures <= tuner.failures
  BY InRound DEF RestoreDab, Round, RoundInv
<1>2. End(FALSE)
  BY DEF RestoreDab
<1>3. CASE round.service = None
  <2>1. UNCHANGED tuner
    BY <1>3, Working DEF RestoreDab
  <2> QED
    BY <1>1, <1>2, <1>3, <2>1, EndPut
<1>4. CASE round.service # None
  <2>1. PICK r \in GoBack(tuner, round.index, round.service, level) : tuner' = r.t
    BY <1>4 DEF RestoreDab, GoBack
  <2>2. round.service \in Services /\ round.index \in Ensembles
    BY <1>1, <1>4 DEF Rounds
  <2>3. /\ Counted(tuner, r)
        /\ r.ok => r.t.band = "dab" /\ r.t.at = round.index /\ r.t.played = round.service
    BY <1>1, <2>1, <2>2, Restoring
  <2>4. /\ round.failures <= tuner'.failures
        /\ tuner'.failures = round.failures => r.ok
    BY <1>1, <2>1, <2>3, StillCounted DEF Counted
  <2>5. r.ok => NamedAt(tuner)' = round.index
    BY <2>1, <2>3 DEF NamedAt
  <2> QED
    BY <1>1, <1>2, <2>1, <2>3, <2>4, <2>5, EndPut
<1> QED
  BY <1>3, <1>4

LEMMA FollowPut == ASSUME Typed, RoundInv, Follow PROVE RoundInv'
<1>1. CASE Tick \/ TickDabReturn
  BY <1>1, TickPut, TickDabReturnPut
<1>2. CASE ObserveFm \/ ChooseAf \/ \E f \in Frequencies : Probe(f)
  BY <1>2, ObserveFmPut, ChooseAfPut, ProbePut
<1>3. CASE ObserveDab \/ RestoreDab
  BY <1>3, ObserveDabPut, RestoreDabPut
<1>4. CASE \/ \E e \in Ensembles : TryEnsemble(e)
           \/ \E f \in Frequencies : TryFm(f)
  BY <1>4, TryEnsemblePut, TryFmPut
<1>5. CASE Unlock
  BY <1>5, IdleTyped DEF Unlock, RoundInv
<1> QED
  BY <1>1, <1>2, <1>3, <1>4, <1>5 DEF Follow

LEMMA OthersPut ==
    ASSUME RoundInv,
           \/ Fade \/ UserTuneDab \/ UserTuneFm \/ UserPlay \/ UserList \/ UserSet
           \/ SweepTask \/ \E band \in {"dab", "fm"} : StartSweep(band)
    PROVE  RoundInv'
<1>1. UNCHANGED round
  BY DEF Fade, UserTuneDab, UserTuneFm, UserPlay, UserList, UserSet, User, SweepTask,
         BeginSweep, CaptureOrigin, Mute, Measure, Retune, Replay, Volume, Release, Sweep,
         StartSweep
<1>2. Free \/ UNCHANGED tuner
  BY DEF Fade, UserTuneDab, UserTuneFm, UserPlay, UserList, UserSet, User, SweepTask,
         BeginSweep, CaptureOrigin, Mute, Measure, Retune, Replay, Volume, Release,
         StartSweep
<1> QED
  BY <1>1, <1>2, RoundAlone

LEMMA NextPut == ASSUME Typed, RoundInv, [Next]_vars PROVE RoundInv'
<1>1. CASE Next
  BY <1>1, FollowPut, OthersPut DEF Next
<1>2. CASE UNCHANGED vars
  BY <1>2, RoundAlone DEF vars
<1> QED
  BY <1>1, <1>2

LEMMA RoundHolds == Spec => [](Typed /\ RoundInv)
<1>1. Init => RoundInv
  BY IdleTyped DEF Init, RoundInv
<1> QED
  BY <1>1, InitTyped, NextTyped, NextPut, PTL DEF Spec

\* A tick that does not switch leaves the radio where it found it.
THEOREM StaysPutHolds == Spec => []StaysPut
<1>1. RoundInv => StaysPut
  BY DEF RoundInv, StaysPut, Put, Held
<1> QED
  BY <1>1, RoundHolds, PTL

-----------------------------------------------------------------------------
(* The sweep.                                                               *)

\* Nothing failed and nobody called since the origin o was noted.
Quiet(o) == tuner.failures = o.failures /\ calls = o.calls

Back(o) ==
    /\ tuner.band = o.band
    /\ IF o.band = "fm" THEN NamedAt(tuner) = o.at ELSE tuner.at = o.index

\* What the sweep has put back of the origin o.
Restored(o) ==
    /\ sweep.pc \in {"replay", "volume", "release"} => Back(o)
    /\ sweep.pc \in {"volume", "release"} /\ o.band = "dab" => tuner.played = o.played
    /\ sweep.pc = "release" => tuner.muted = o.muted

SweepInv ==
    /\ sweep.pc \notin {"idle", "begin"} => active
    /\ sweep.pc \notin Before => Free
    /\ \A o \in sweep.origin :
          /\ o.failures <= tuner.failures /\ o.calls <= calls
          /\ Quiet(o) => Restored(o)

LEMMA OriginNumbers ==
    ASSUME NEW o \in Origins
    PROVE  /\ o.failures \in Nat /\ o.calls \in Nat
           /\ o.band \in {"dab", "fm"} /\ o.index \in Ensembles
           /\ o.played \in Services \cup {None} /\ o.muted \in BOOLEAN
BY TunerAssumption, FollowingAssumption DEF Origins

\* The listener: a call is seen.
LEMMA CallAlone ==
    ASSUME Typed, SweepInv, UNCHANGED <<round, sweepVars>>, calls' = calls + 1,
           tuner' \in Fit, tuner.failures <= tuner'.failures
    PROVE  SweepInv'
<1>1. ASSUME NEW o \in sweep.origin
      PROVE  o.failures <= tuner'.failures /\ o.calls <= calls' /\ calls' # o.calls
  <2>1. o.failures \in Nat /\ o.calls \in Nat /\ calls \in Nat
    BY <1>1, InSweep, OriginNumbers, FollowingAssumption
  <2>2. tuner.failures \in Nat /\ tuner'.failures \in Nat
    BY InSweep, Failures
  <2> QED
    BY <1>1, <2>1, <2>2 DEF SweepInv
<1> QED
  BY <1>1 DEF SweepInv, sweepVars, Free, Quiet

LEMMA UserAlone ==
    ASSUME Typed, SweepInv, UserTuneDab \/ UserTuneFm \/ UserPlay \/ UserList \/ UserSet
    PROVE  SweepInv'
<1>1. UNCHANGED <<round, sweepVars>> /\ calls' = calls + 1
  BY DEF UserTuneDab, UserTuneFm, UserPlay, UserList, UserSet, User
<1>2. tuner \in Fit /\ tuner.failures \in Nat
  BY InSweep, Failures
<1>3. tuner' \in Fit /\ tuner.failures <= tuner'.failures
  <2>1. CASE UserTuneDab
    <3>1. PICK e \in Ensembles : \E r \in TuneDab(tuner, e) : tuner' = r.t
      BY <2>1 DEF UserTuneDab
    <3> QED
      BY <1>2, <3>1, TuningDab DEF Counted, Lasting
  <2>2. CASE UserTuneFm
    <3>1. PICK f \in Frequencies : \E r \in TuneFm(tuner, f) : tuner' = r.t
      BY <2>2 DEF UserTuneFm
    <3> QED
      BY <1>2, <3>1, TuningFm DEF Counted, Lasting
  <2>3. CASE UserPlay
    <3>1. PICK s \in Services : \E r \in PlayDab(tuner, s, level) : tuner' = r.t
      BY <2>3 DEF UserPlay
    <3> QED
      BY <1>2, <3>1, Playing DEF Counted, Lasting
  <2>4. CASE UserList
    BY <1>2, <2>4, Listing DEF UserList, Lasting
  <2>5. CASE UserSet
    BY <1>2, <2>5 DEF UserSet
  <2> QED
    BY <2>1, <2>2, <2>3, <2>4, <2>5
<1> QED
  BY <1>1, <1>3, CallAlone

\* The follower: no tick starts or goes on after the origin is noted.
LEMMA FollowAlone == ASSUME Typed, SweepInv, Follow PROVE SweepInv'
<1>1. UNCHANGED sweepVars
  BY DEF Follow, Tick, TickDabReturn, ObserveFm, ChooseAf, ObserveDab, RestoreDab, Unlock,
         Probe, TryFm, TryEnsemble, Round
<1>2. ~active \/ ~Free
  BY DEF Follow, Tick, TickDabReturn, ObserveFm, ChooseAf, ObserveDab, RestoreDab, Unlock,
         Probe, TryFm, TryEnsemble, Round, Free
<1>3. sweep.pc \in Before /\ sweep.origin = {}
  BY <1>2, InSweep DEF SweepInv, Before
<1> QED
  BY <1>1, <1>3 DEF SweepInv, sweepVars

\* A step of the sweep with the mutex, between the origin and the release: it
\* leaves quiet only what was quiet.
LEMMA StepAlone ==
    ASSUME Typed, SweepInv, sweep.pc \notin {"idle", "begin"}, Free,
           UNCHANGED <<round, active, calls>>, NEW r, Lasting(tuner, r), tuner' = r.t,
           sweep'.origin = sweep.origin,
           \A o \in sweep.origin : Quiet(o)' /\ Quiet(o) /\ Restored(o) => Restored(o)'
    PROVE  SweepInv'
<1>1. ASSUME NEW o \in sweep.origin
      PROVE  /\ o.failures <= tuner'.failures /\ o.calls <= calls'
             /\ Quiet(o)' => Restored(o)'
  <2>1. o.failures \in Nat /\ tuner.failures \in Nat /\ tuner'.failures \in Nat
    BY <1>1, InSweep, OriginNumbers, Failures DEF Lasting
  <2>2. /\ o.failures <= tuner.failures /\ tuner.failures <= tuner'.failures
        /\ o.calls <= calls /\ (Quiet(o) => Restored(o))
    BY <1>1 DEF SweepInv, Lasting
  <2>3. Quiet(o)' => Quiet(o)
    BY <2>1, <2>2 DEF Quiet
  <2> QED
    BY <1>1, <2>1, <2>2, <2>3
<1> QED
  BY <1>1 DEF SweepInv, Free

\* A call that failed is not quiet.
LEMMA FailedLoud ==
    ASSUME Typed, NEW r, Counted(tuner, r), tuner' = r.t, NEW o, Quiet(o)', Quiet(o)
    PROVE  r.ok
<1>1. tuner.failures \in Nat
  BY InSweep, Failures
<1> QED
  BY <1>1 DEF Counted, Quiet

LEMMA RetuneAlone == ASSUME Typed, SweepInv, Retune PROVE SweepInv'
<1>1. /\ tuner \in Fit /\ sweep \in Sweeps /\ sweep.pc = "retune" /\ Free
      /\ UNCHANGED <<round, active, calls>>
  BY InSweep DEF Retune, Sweep, userVars
<1>2. PICK o \in sweep.origin :
        \E r \in IF o.band = "fm" THEN TuneFm(tuner, o.at) ELSE TuneDab(tuner, o.index) :
           /\ tuner' = r.t
           /\ Go(IF o.band = "dab" /\ r.ok /\ o.played # None THEN "replay" ELSE "volume")
  BY DEF Retune
<1>3. PICK r \in IF o.band = "fm" THEN TuneFm(tuner, o.at) ELSE TuneDab(tuner, o.index) :
           /\ tuner' = r.t
           /\ Go(IF o.band = "dab" /\ r.ok /\ o.played # None THEN "replay" ELSE "volume")
  BY <1>2
<1>4. /\ o.band \in {"dab", "fm"} /\ o.index \in Ensembles
      /\ o.band = "fm" => o.at \in Frequencies
      /\ \A p \in sweep.origin : p = o
  BY InSweep, OriginNumbers
<1>5. /\ Counted(tuner, r)
      /\ r.ok => Back(o)' /\ (o.band = "dab" => tuner'.played = None)
  <2>1. CASE o.band = "fm"
    <3>1. Counted(tuner, r) /\ (r.ok => tuner'.band = "fm" /\ tuner'.at = o.at)
      BY <1>1, <1>3, <1>4, <2>1, TuningFm
    <3>2. o.at # None
      BY <1>4, <2>1, TunerAssumption
    <3> QED
      BY <2>1, <3>1, <3>2 DEF Back, NamedAt
  <2>2. CASE o.band = "dab"
    BY <1>1, <1>3, <1>4, <2>2, TuningDab DEF Back
  <2> QED
    BY <1>4, <2>1, <2>2
<1>6. /\ sweep'.origin = sweep.origin /\ sweep'.pc \in {"replay", "volume"}
      /\ r.ok /\ o.band = "dab" /\ sweep'.pc = "volume" => o.played = None
  BY <1>1, <1>3 DEF Go, Sweeps
<1>7. ASSUME NEW p \in sweep.origin, Quiet(p)', Quiet(p) PROVE Restored(p)'
  <2>1. r.ok
    BY <1>3, <1>5, <1>7, FailedLoud
  <2>2. p = o
    BY <1>4, <1>7
  <2> QED
    BY <1>5, <1>6, <2>1, <2>2 DEF Restored
<1> QED
  BY <1>1, <1>3, <1>5, <1>6, <1>7, StepAlone DEF Counted

LEMMA ReplayAlone == ASSUME Typed, SweepInv, Replay PROVE SweepInv'
<1>1. /\ tuner \in Fit /\ sweep \in Sweeps /\ sweep.pc = "replay" /\ Free
      /\ UNCHANGED <<round, active, calls>>
  BY InSweep DEF Replay, Sweep, userVars
<1>2. PICK o \in sweep.origin : \E r \in PlayDab(tuner, o.played, level) : tuner' = r.t
  BY DEF Replay
<1>3. PICK r \in PlayDab(tuner, o.played, level) : tuner' = r.t
  BY <1>2
<1>4. /\ o.band = "dab" /\ o.played \in Services
      /\ \A p \in sweep.origin : p = o
  BY <1>1, InSweep, OriginNumbers
<1>5. /\ Counted(tuner, r)
      /\ r.ok => tuner'.band = "dab" /\ tuner'.played = o.played
                 /\ (tuner.band = "dab" => tuner'.at = tuner.at)
  BY <1>1, <1>3, <1>4, Playing
<1>6. sweep'.origin = sweep.origin /\ sweep'.pc = "volume"
  BY <1>1 DEF Replay, Go, Sweeps
<1>7. ASSUME NEW p \in sweep.origin, Quiet(p)', Quiet(p), Restored(p) PROVE Restored(p)'
  <2>1. r.ok
    BY <1>3, <1>5, <1>7, FailedLoud
  <2>2. p = o /\ tuner.band = "dab" /\ tuner.at = o.index
    BY <1>1, <1>4, <1>7 DEF Restored, Back
  <2> QED
    BY <1>4, <1>5, <1>6, <2>1, <2>2 DEF Restored, Back
<1> QED
  BY <1>1, <1>3, <1>5, <1>6, <1>7, StepAlone DEF Counted

LEMMA VolumeAlone == ASSUME Typed, SweepInv, Volume PROVE SweepInv'
<1>1. /\ tuner \in Fit /\ sweep \in Sweeps /\ sweep.pc = "volume" /\ Free
      /\ UNCHANGED <<round, active, calls>>
  BY InSweep DEF Volume, Sweep, userVars
<1>2. PICK o \in sweep.origin : \E r \in SetVolume(tuner, o.muted) : tuner' = r.t
  BY DEF Volume
<1>3. PICK r \in SetVolume(tuner, o.muted) : tuner' = r.t
  BY <1>2
<1>4. o.muted \in BOOLEAN /\ \A p \in sweep.origin : p = o
  BY InSweep, OriginNumbers
<1>5. /\ Counted(tuner, r)
      /\ r.ok => /\ tuner'.muted = o.muted
                 /\ tuner'.band = tuner.band /\ tuner'.at = tuner.at
                 /\ tuner'.played = tuner.played
  BY <1>1, <1>3, <1>4, SettingVolume
<1>6. sweep'.origin = sweep.origin /\ sweep'.pc = "release"
  BY <1>1 DEF Volume, Go, Sweeps
<1>7. ASSUME NEW p \in sweep.origin, Quiet(p)', Quiet(p), Restored(p) PROVE Restored(p)'
  <2>1. r.ok
    BY <1>3, <1>5, <1>7, FailedLoud
  <2>2. p = o /\ Back(o) /\ (o.band = "dab" => tuner.played = o.played)
    BY <1>1, <1>4, <1>7 DEF Restored
  <2>3. NamedAt(tuner)' = NamedAt(tuner)
    BY <1>5, <2>1 DEF NamedAt
  <2> QED
    BY <1>4, <1>5, <1>6, <2>1, <2>2, <2>3 DEF Restored, Back
<1> QED
  BY <1>1, <1>3, <1>5, <1>6, <1>7, StepAlone DEF Counted

LEMMA SweepStepsAlone == ASSUME Typed, SweepInv, SweepTask PROVE SweepInv'
<1>1. CASE BeginSweep
  <2>1. sweep.origin = {} /\ sweep' = [sweep EXCEPT !.pc = "capture"] /\ active'
    BY <1>1, InSweep DEF BeginSweep, Sweep, Go, Before
  <2>2. sweep'.origin = {} /\ sweep'.pc = "capture"
    BY <2>1, InSweep DEF Sweeps
  <2> QED
    BY <2>1, <2>2 DEF SweepInv, Before
<1>2. CASE CaptureOrigin
  <2>1. active /\ Free /\ UNCHANGED <<round, active, calls>>
    BY <1>2 DEF CaptureOrigin, Sweep, SweepInv, userVars
  <2>2. calls \in Nat
    BY InSweep, FollowingAssumption
  <2>3. \A o \in sweep'.origin :
           o.failures <= tuner'.failures /\ o.calls <= calls'
    BY <1>2, <2>1, <2>2, Capturing
  <2>4. sweep'.pc = "mute"
    BY <1>2, Capturing
  <2> QED
    BY <2>1, <2>3, <2>4 DEF SweepInv, Free, Restored
<1>3. CASE Mute
  <2>1. /\ sweep.pc = "mute" /\ Free /\ UNCHANGED <<round, active, calls>>
        /\ sweep'.origin = sweep.origin /\ sweep'.pc = "measure"
    BY <1>3, InSweep DEF Mute, Sweep, Sweeps, userVars
  <2>2. PICK r \in SetVolume(tuner, TRUE) : tuner' = r.t
    BY <1>3 DEF Mute
  <2>3. Lasting(tuner, r)
    BY InSweep, SettingVolume DEF Counted
  <2> QED
    BY <2>1, <2>2, <2>3, StepAlone DEF Restored
<1>4. CASE Measure
  <2>1. sweep.pc = "measure" /\ Free /\ UNCHANGED <<round, active, calls>>
    BY <1>4 DEF Measure, Sweep, userVars
  <2>2. /\ sweep'.origin = sweep.origin
        /\ sweep'.pc \in {"measure", "retune"} \/ (sweep'.pc = "release" /\ sweep.origin = {})
        /\ tuner' \in Fit /\ tuner.failures <= tuner'.failures
    BY <1>4, Measured
  <2>3. \A o \in sweep.origin : Restored(o)'
    BY <2>2 DEF Restored
  <2> DEFINE r == [t |-> tuner']
  <2>4. Lasting(tuner, r) /\ tuner' = r.t
    BY <2>2 DEF Lasting
  <2> HIDE DEF r
  <2> QED
    BY <2>1, <2>2, <2>3, <2>4, StepAlone
<1>5. CASE Retune \/ Replay \/ Volume
  BY <1>5, RetuneAlone, ReplayAlone, VolumeAlone
<1>6. CASE Release
  BY <1>6, NoSweepTyped DEF Release, SweepInv, Before
<1> QED
  BY <1>1, <1>2, <1>3, <1>4, <1>5, <1>6 DEF SweepTask

LEMMA NextAlone == ASSUME Typed, SweepInv, [Next]_vars PROVE SweepInv'
<1>1. CASE Fade \/ UNCHANGED vars
  <2>1. UNCHANGED <<tuner, round, active, sweep, calls>>
    BY <1>1 DEF Fade, sweepVars, vars
  <2> QED
    BY <2>1 DEF SweepInv, Free, Quiet, Restored, Back, NamedAt
<1>2. CASE UserTuneDab \/ UserTuneFm \/ UserPlay \/ UserList \/ UserSet
  BY <1>2, UserAlone
<1>3. CASE Follow
  BY <1>3, FollowAlone
<1>4. CASE SweepTask
  BY <1>4, SweepStepsAlone
<1>5. CASE \E band \in {"dab", "fm"} : StartSweep(band)
  <2>1. sweep'.pc = "begin" /\ sweep'.origin = {}
    BY <1>5, NoSweepTyped DEF StartSweep, Sweeps
  <2> QED
    BY <2>1 DEF SweepInv, Before
<1> QED
  BY <1>1, <1>2, <1>3, <1>4, <1>5 DEF Next

LEMMA SweepHolds == Spec => [](Typed /\ SweepInv)
<1>1. Init => SweepInv
  BY NoSweepTyped DEF Init, SweepInv, Before
<1> QED
  BY <1>1, InitTyped, NextTyped, NextAlone, PTL DEF Spec

\* Once a sweep has noted what plays, no tick retunes until it has put it back.
THEOREM SweepAloneHolds == Spec => []SweepAlone
<1>1. SweepInv => SweepAlone
  BY DEF SweepInv, SweepAlone, Before
<1> QED
  BY <1>1, SweepHolds, PTL

\* A sweep that met no failure and no call of the listener has put back the
\* station, the service and the volume before the follower goes on.
THEOREM SweepRestoresHolds == Spec => []SweepRestores
<1>1. ASSUME Typed, SweepInv PROVE SweepRestores
  <2> SUFFICES ASSUME sweep.pc = "release", NEW o \in sweep.origin,
                      o.failures = tuner.failures, o.calls = calls,
                      o.band = "dab" => o.at = o.index
               PROVE  /\ tuner.band = o.band /\ NamedAt(tuner) = o.at
                      /\ tuner.muted = o.muted
                      /\ o.band = "dab" => tuner.played = o.played
    BY DEF SweepRestores
  <2>1. Back(o) /\ tuner.muted = o.muted /\ (o.band = "dab" => tuner.played = o.played)
    BY <1>1 DEF SweepInv, Restored, Quiet
  <2>2. o.band \in {"dab", "fm"}
    BY <1>1, InSweep, OriginNumbers
  <2> QED
    BY <2>1, <2>2 DEF Back, NamedAt
<1> QED
  BY <1>1, SweepHolds, PTL

-----------------------------------------------------------------------------
(* The slides.                                                              *)

\* What an assembler and a slot may hold.
Cells == {Empty, Spoilt} \cup (Services \X Nat) \X Nat

Assemblers ==
    [service : Services \cup {Unset}, id : Nat \cup {Unset}, shownId : Nat \cup {Unset},
     size : Nat, last : Nat \cup {Unset}, received : SUBSET Nat,
     writing : 0..Slots - 1, shown : 0..Slots - 1, erased : SUBSET Nat,
     picture : Nat \cup {Unset},
     flash : [0..Slots - 1 -> [0..Units - 1 -> Cells]]]

\* The picture on show is an object that the service sent, whole.
ShownWhole(a, sent) ==
    a.picture # Unset =>
        /\ a.service \in Services
        /\ \E v \in 0..sent[a.service] :
              /\ a.picture = Sizes[v + 1] /\ a.picture <= Units
              /\ \A u \in 0..a.picture - 1 : a.flash[a.shown][u] = << <<a.service, v>>, u>>

\* The object that is being received is written beside the one on show; its
\* slot holds, in every sector that was erased, what was received and no more.
BegunWhole(a, sent) ==
    a.id # Unset =>
        /\ a.service \in Services /\ a.id \in 0..sent[a.service]
        /\ a.size = Sizes[a.id + 1] /\ a.size <= Units
        /\ a.last \in {Unset, a.size - 1}
        /\ a.writing # a.shown
        /\ a.received \subseteq 0..a.size - 1
        /\ \A u \in a.received : SectorOf(u) \in a.erased
        /\ \A u \in 0..Units - 1 :
              SectorOf(u) \in a.erased =>
                  a.flash[a.writing][u] =
                      IF u \in a.received THEN << <<a.service, a.id>>, u>> ELSE Empty

Whole(a, sent) == ShownWhole(a, sent) /\ BegunWhole(a, sent)

\* A unit is in a sector.
LEMMA Sectors == \A u \in Nat : SectorOf(u) \in Nat
BY SlideshowAssumption DEF SectorOf

\* A slot follows every slot.
LEMMA NextSlots ==
    ASSUME NEW n \in 0..Slots - 1
    PROVE  (n + 1) % Slots \in 0..Slots - 1 /\ (n + 1) % Slots # n
<1>1. CASE n + 1 < Slots
  <2>1. (n + 1) % Slots = n + 1
    BY <1>1, SlideshowAssumption
  <2> QED
    BY <2>1, <1>1, SlideshowAssumption
<1>2. CASE n + 1 = Slots
  <2>1. (n + 1) % Slots = 0
    BY <1>2, SlideshowAssumption
  <2> QED
    BY <2>1, <1>2, SlideshowAssumption
<1> QED
  BY <1>1, <1>2, SlideshowAssumption

\* beginSlide never gives the slot on show.
LEMMA NextSlotIsFree ==
    ASSUME NEW a \in Assemblers
    PROVE  NextSlot(a) \in 0..Slots - 1 /\ NextSlot(a) # a.shown
<1>1. a.writing \in 0..Slots - 1
  BY DEF Assemblers
<1>2. (a.writing + 1) % Slots \in 0..Slots - 1
  BY <1>1, NextSlots
<1> DEFINE n == (a.writing + 1) % Slots
<1>3. (n + 1) % Slots \in 0..Slots - 1 /\ (n + 1) % Slots # n
  <2> HIDE DEF n
  <2> QED
    BY <1>2, NextSlots DEF n
<1> QED
  BY <1>2, <1>3 DEF NextSlot

\* A data group of another service starts over; what was on show is withdrawn.
LEMMA Serving ==
    ASSUME NEW sent, NEW a \in Assemblers, Whole(a, sent), NEW s \in Services
    PROVE  /\ ForService(a, s) \in Assemblers /\ Whole(ForService(a, s), sent)
           /\ ForService(a, s).service = s
<1>1. CASE a.service = s
  BY <1>1 DEF ForService
<1>2. CASE a.service # s
  <2> DEFINE u == [a EXCEPT !.service = s, !.id = Unset, !.shownId = Unset, !.last = Unset,
                   !.received = {}, !.picture = IF a.service # Unset THEN Unset ELSE @]
  <2>1. ForService(a, s) = u
    BY <1>2 DEF ForService
  <2>2. u \in Assemblers
    BY DEF Assemblers
  <2>3. u.id = Unset /\ u.service = s /\ (u.picture # Unset => a.service = Unset /\ a.picture # Unset)
    BY DEF Assemblers
  <2>4. u.picture = Unset
    BY <2>3, ReceptionAssumption DEF Whole, ShownWhole
  <2> QED
    BY <2>1, <2>2, <2>3, <2>4 DEF Whole, ShownWhole, BegunWhole
<1> QED
  BY <1>1, <1>2

\* The groups that a service sends: of the object under way, and in its range.
Fits(g, sent) ==
    /\ g.service \in Services /\ sent[g.service] \in 0..MaxVersion
    /\ g.id = sent[g.service] /\ g.object = <<g.service, g.id>>
    /\ g.size = Sizes[g.id + 1] /\ g.type \in {"header", "body"}
    /\ g.type = "body" => /\ g.part \in 0..g.size - 1
                          /\ g.last <=> g.part = g.size - 1
    /\ g.last \in BOOLEAN

\* Every object has a segment.
LEMMA SizeOfObject ==
    ASSUME NEW v \in 0..MaxVersion PROVE Sizes[v + 1] \in Nat /\ Sizes[v + 1] > 0
<1>1. v + 1 \in 1..MaxVersion + 1
  BY ReceptionAssumption
<1> QED
  BY <1>1, ReceptionAssumption

\* onHeader begins a slide beside the one on show, or does nothing.
LEMMA Heading ==
    ASSUME NEW sent, NEW a \in Assemblers, Whole(a, sent), NEW g, Fits(g, sent),
           a.service = g.service
    PROVE  OnHeader(a, g) \in Assemblers /\ Whole(OnHeader(a, g), sent)
<1>1. CASE g.id \in {a.shownId, a.id} \/ g.size = 0 \/ g.size > Units
  BY <1>1 DEF OnHeader
<1>2. CASE ~(g.id \in {a.shownId, a.id} \/ g.size = 0 \/ g.size > Units)
  <2> DEFINE b == [a EXCEPT !.writing = NextSlot(a), !.erased = {}, !.id = g.id,
                            !.size = g.size, !.last = Unset, !.received = {}]
  <2>1. OnHeader(a, g) = b
    BY <1>2 DEF OnHeader, Begin
  <2>2. NextSlot(a) \in 0..Slots - 1 /\ NextSlot(a) # a.shown
    BY NextSlotIsFree
  <2>3. g.size \in Nat /\ g.size <= Units /\ g.id \in Nat /\ g.id \in 0..sent[g.service]
    BY <1>2, SizeOfObject, SlideshowAssumption DEF Fits
  <2>4. b \in Assemblers
    BY <2>2, <2>3 DEF Assemblers
  <2>5. /\ b.picture = a.picture /\ b.service = a.service /\ b.flash = a.flash
        /\ b.shown = a.shown /\ b.writing = NextSlot(a) /\ b.erased = {} /\ b.id = g.id
        /\ b.size = g.size /\ b.last = Unset /\ b.received = {}
    BY DEF Assemblers
  <2> HIDE DEF b
  <2>6. ShownWhole(b, sent)
    BY <2>5 DEF Whole, ShownWhole
  <2>7. BegunWhole(b, sent)
    BY <2>2, <2>3, <2>5 DEF BegunWhole, Fits
  <2> QED
    BY <2>1, <2>4, <2>6, <2>7 DEF Whole
<1> QED
  BY <1>1, <1>2

\* What a step that writes the slot of the object under way leaves as it was.
SameBut(a, b) ==
    /\ b.service = a.service /\ b.id = a.id /\ b.shownId = a.shownId /\ b.size = a.size
    /\ b.last = a.last /\ b.received = a.received /\ b.writing = a.writing
    /\ b.shown = a.shown /\ b.picture = a.picture
    /\ a.writing # a.shown => b.flash[a.shown] = a.flash[a.shown]

\* What is on show stays whole while its slot is left alone.
LEMMA ShownStays ==
    ASSUME NEW sent, NEW a, ShownWhole(a, sent), NEW b,
           b.picture = a.picture, b.service = a.service, b.shown = a.shown,
           b.flash[a.shown] = a.flash[a.shown]
    PROVE  ShownWhole(b, sent)
BY DEF ShownWhole

\* eraseSectors erases what the object under way has not written yet.
LEMMA Erasing ==
    ASSUME NEW sent, NEW a \in Assemblers, Whole(a, sent), a.id # Unset,
           NEW unit \in 0..Units - 1
    PROVE  LET e == Erase(a, unit)
           IN  /\ e \in Assemblers /\ Whole(e, sent) /\ SameBut(a, e)
               /\ SectorOf(unit) \in e.erased
<1>1. CASE SectorOf(unit) \in a.erased
  BY <1>1 DEF Erase, SameBut
<1>2. CASE SectorOf(unit) \notin a.erased
  <2> DEFINE slot == [u \in 0..Units - 1 |-> IF SectorOf(u) = SectorOf(unit) THEN Empty
                                             ELSE a.flash[a.writing][u]]
             e == [a EXCEPT !.erased = @ \cup {SectorOf(unit)}, !.flash[a.writing] = slot]
  <2>0. /\ a.flash \in [0..Slots - 1 -> [0..Units - 1 -> Cells]] /\ a.writing \in 0..Slots - 1
        /\ a.shown \in 0..Slots - 1 /\ SectorOf(unit) \in Nat
    <3>1. unit \in Nat
      BY SlideshowAssumption
    <3>2. SectorOf(unit) \in Nat
      BY <3>1, Sectors
    <3> QED
      BY <3>2 DEF Assemblers
  <2>1. Erase(a, unit) = e
    <3> DEFINE marked == [a EXCEPT !.erased = @ \cup {SectorOf(unit)}]
               other  == [u \in DOMAIN marked.flash[a.writing] |->
                             IF SectorOf(u) = SectorOf(unit) THEN Empty
                             ELSE marked.flash[a.writing][u]]
    <3>1. marked.flash = a.flash /\ DOMAIN a.flash[a.writing] = 0..Units - 1
      BY <2>0 DEF Assemblers
    <3>2. Erase(a, unit) = [marked EXCEPT !.flash[a.writing] = other]
      BY <1>2 DEF Erase
    <3>3. e = [marked EXCEPT !.flash[a.writing] = slot]
      OBVIOUS
    <3>4. other = slot
      BY <3>1
    <3> HIDE DEF marked, other, slot, e
    <3> QED
      BY <3>2, <3>3, <3>4
  <2>2. slot \in [0..Units - 1 -> Cells]
    <3>1. Empty \in Cells
      BY Zenon DEF Cells
    <3>2. \A u \in 0..Units - 1 : a.flash[a.writing][u] \in Cells
      BY <2>0
    <3> QED
      BY <3>1, <3>2
  <2>3. /\ e.service = a.service /\ e.id = a.id /\ e.shownId = a.shownId /\ e.size = a.size
        /\ e.last = a.last /\ e.received = a.received /\ e.writing = a.writing
        /\ e.shown = a.shown /\ e.picture = a.picture
        /\ e.erased = a.erased \cup {SectorOf(unit)}
        /\ e.flash = [a.flash EXCEPT ![a.writing] = slot]
    BY DEF Assemblers
  <2>4. e \in Assemblers
    <3> HIDE DEF slot
    <3>1. [a.flash EXCEPT ![a.writing] = slot] \in [0..Slots - 1 -> [0..Units - 1 -> Cells]]
      BY <2>0, <2>2
    <3>2. a.erased \cup {SectorOf(unit)} \in SUBSET Nat
      BY <2>0 DEF Assemblers
    <3> QED
      BY <3>1, <3>2 DEF Assemblers
  <2> HIDE DEF e
  <2>5. e.flash[a.writing] = slot
    BY <2>0, <2>3
  <2>6. a.writing # a.shown /\ e.flash[a.shown] = a.flash[a.shown]
    BY <2>0, <2>3 DEF Whole, BegunWhole
  <2>7. BegunWhole(e, sent)
    <3>1. \A u \in 0..Units - 1 : SectorOf(u) \in e.erased =>
             e.flash[e.writing][u] =
                 IF u \in e.received THEN << <<e.service, e.id>>, u>> ELSE Empty
      <4> SUFFICES ASSUME NEW u \in 0..Units - 1, SectorOf(u) \in e.erased
                   PROVE  e.flash[e.writing][u] =
                              IF u \in e.received THEN << <<e.service, e.id>>, u>> ELSE Empty
        OBVIOUS
      <4>1. e.flash[e.writing][u] = slot[u]
        BY <2>3, <2>5
      <4>2. CASE SectorOf(u) = SectorOf(unit)
        <5>1. u \notin a.received
          BY <1>2, <4>2 DEF Whole, BegunWhole
        <5> QED
          BY <4>1, <4>2, <5>1, <2>3
      <4>3. CASE SectorOf(u) # SectorOf(unit)
        <5>1. SectorOf(u) \in a.erased
          BY <4>3, <2>3
        <5>2. slot[u] = a.flash[a.writing][u]
          BY <4>3
        <5> QED
          BY <4>1, <5>1, <5>2, <2>3 DEF Whole, BegunWhole
      <4> QED
        BY <4>2, <4>3
    <3> QED
      BY <3>1, <2>3 DEF Whole, BegunWhole
  <2>8. ShownWhole(e, sent)
    BY <2>3, <2>6, ShownStays DEF Whole
  <2> QED
    BY <2>1, <2>3, <2>4, <2>6, <2>7, <2>8 DEF SameBut, Whole
<1> QED
  BY <1>1, <1>2

\* A segment of the object under way, put where its sector was erased.
PutSegment(a, u, l) == [Program(a, u, << <<a.service, a.id>>, u>>)
                    EXCEPT !.received = @ \cup {u}, !.last = l]

\* The segment that was put is in its place, and the others where they were.
LEMMA Programming ==
    ASSUME NEW sent, NEW a \in Assemblers, Whole(a, sent), a.id # Unset,
           a.service \in Services => sent[a.service] \in 0..MaxVersion,
           NEW u \in 0..a.size - 1, u \notin a.received, SectorOf(u) \in a.erased,
           NEW l \in {a.last, a.size - 1}
    PROVE  PutSegment(a, u, l) \in Assemblers /\ Whole(PutSegment(a, u, l), sent) /\ PutSegment(a, u, l).id = a.id
<1> DEFINE segment == << <<a.service, a.id>>, u>>
           slot == [a.flash[a.writing] EXCEPT ![u] = segment]
           h == PutSegment(a, u, l)
<1>1. /\ a.flash \in [0..Slots - 1 -> [0..Units - 1 -> Cells]] /\ a.writing \in 0..Slots - 1
      /\ a.shown \in 0..Slots - 1 /\ a.writing # a.shown
      /\ a.service \in Services /\ a.id \in 0..sent[a.service] /\ a.size <= Units
      /\ a.size = Sizes[a.id + 1] /\ a.last \in {Unset, a.size - 1}
      /\ a.received \subseteq 0..a.size - 1
  BY DEF Assemblers, Whole, BegunWhole
<1>2. a.size \in Nat /\ a.size > 0 /\ a.id \in Nat
  <2>1. a.id \in 0..MaxVersion
    BY <1>1, ReceptionAssumption
  <2> QED
    BY <2>1, <1>1, SizeOfObject, ReceptionAssumption
<1>3. u \in 0..Units - 1 /\ u \in Nat
  BY <1>1, <1>2, SlideshowAssumption
<1>4. a.flash[a.writing][u] = Empty
  BY <1>3 DEF Whole, BegunWhole
<1>5. segment \in Cells
  <2>1. segment \in (Services \X Nat) \X Nat
    BY <1>1, <1>2, <1>3
  <2> QED
    BY <2>1, Zenon DEF Cells
<1>6. slot \in [0..Units - 1 -> Cells]
  <2> HIDE DEF segment
  <2> QED
    BY <1>1, <1>3, <1>5
<1>7. h = [a EXCEPT !.flash = [a.flash EXCEPT ![a.writing] = slot],
                    !.received = a.received \cup {u}, !.last = l]
  <2> HIDE DEF segment
  <2>1. Program(a, u, segment) = [a EXCEPT !.flash[a.writing][u] = segment]
    BY <1>4 DEF Program
  <2>2. h = [Program(a, u, segment) EXCEPT !.received = @ \cup {u}, !.last = l]
    BY DEF PutSegment, segment
  <2> QED
    BY <2>1, <2>2 DEF Assemblers
<1> HIDE DEF slot, h
<1>8. /\ h.service = a.service /\ h.id = a.id /\ h.shownId = a.shownId /\ h.size = a.size
      /\ h.last = l /\ h.received = a.received \cup {u} /\ h.writing = a.writing
      /\ h.shown = a.shown /\ h.picture = a.picture /\ h.erased = a.erased
      /\ h.flash = [a.flash EXCEPT ![a.writing] = slot]
  BY <1>7 DEF Assemblers
<1>9. h \in Assemblers
  <2>1. [a.flash EXCEPT ![a.writing] = slot] \in [0..Slots - 1 -> [0..Units - 1 -> Cells]]
    BY <1>1, <1>6
  <2>2. a.received \cup {u} \in SUBSET Nat /\ l \in Nat \cup {Unset}
    BY <1>1, <1>2, <1>3 DEF Assemblers
  <2> QED
    BY <1>7, <2>1, <2>2 DEF Assemblers
<1>10. h.flash[h.writing] = slot /\ h.flash[h.shown] = a.flash[a.shown]
  BY <1>1, <1>8
<1>11. ShownWhole(h, sent)
  BY <1>8, <1>10, ShownStays DEF Whole
<1>12. BegunWhole(h, sent)
  <2>1. \A x \in h.received : SectorOf(x) \in h.erased
    BY <1>8 DEF Whole, BegunWhole
  <2>2. ASSUME NEW x \in 0..Units - 1, SectorOf(x) \in h.erased
        PROVE  h.flash[h.writing][x] =
                   IF x \in h.received THEN << <<h.service, h.id>>, x>> ELSE Empty
    <3>1. CASE x = u
      <4>1. slot[u] = segment
        BY <1>1, <1>3 DEF slot
      <4> QED
        BY <3>1, <4>1, <1>8, <1>10
    <3>2. CASE x # u
      <4>1. slot[x] = a.flash[a.writing][x]
        BY <1>1, <1>3, <3>2 DEF slot
      <4>2. SectorOf(x) \in a.erased /\ (x \in h.received <=> x \in a.received)
        BY <3>2, <2>2, <1>8
      <4> QED
        BY <4>1, <4>2, <1>8, <1>10 DEF Whole, BegunWhole
    <3> QED
      BY <3>1, <3>2
  <2>3. h.received \subseteq 0..h.size - 1 /\ h.last \in {Unset, h.size - 1}
    BY <1>1, <1>8
  <2> QED
    BY <1>1, <1>8, <2>1, <2>2, <2>3 DEF BegunWhole
<1> QED
  BY <1>8, <1>9, <1>11, <1>12 DEF Whole, h

\* An object is complete when every one of its segments was received.
LEMMA AllReceived ==
    ASSUME NEW n \in Nat, NEW S \in SUBSET (0..n), Cardinality(S) = n + 1
    PROVE  S = 0..n
<1>1. IsFiniteSet(0..n) /\ Cardinality(0..n) = n + 1
  BY FS_Interval
<1> QED
  BY <1>1, FS_Subset

\* commitSlide shows an object that was received whole.
LEMMA Committing ==
    ASSUME NEW sent, NEW a \in Assemblers, Whole(a, sent), a.id # Unset, Complete(a),
           a.service \in Services => sent[a.service] \in 0..MaxVersion
    PROVE  Commit(a) \in Assemblers /\ Whole(Commit(a), sent)
<1> DEFINE c == Commit(a)
<1>1. /\ a.service \in Services /\ a.id \in 0..sent[a.service] /\ a.size <= Units
      /\ a.size = Sizes[a.id + 1] /\ a.last = a.size - 1
      /\ a.received \subseteq 0..a.size - 1 /\ a.id \in Nat
  BY DEF Whole, BegunWhole, Complete, Assemblers
<1>2. a.size \in Nat /\ a.size > 0
  <2>1. a.id \in 0..MaxVersion
    BY <1>1, ReceptionAssumption
  <2> QED
    BY <2>1, <1>1, SizeOfObject
<1>3. a.received = 0..a.size - 1
  <2>1. a.size - 1 \in Nat
    BY <1>2
  <2> QED
    BY <2>1, <1>1, AllReceived DEF Complete
<1>4. /\ c.service = a.service /\ c.id = Unset /\ c.shown = a.writing
      /\ c.picture = a.size /\ c.flash = a.flash
  BY DEF Assemblers, Commit
<1>5. c \in Assemblers
  BY DEF Assemblers, Commit
<1>6. ASSUME NEW u \in 0..a.size - 1
      PROVE  a.flash[a.writing][u] = << <<a.service, a.id>>, u>>
  <2>1. u \in 0..Units - 1 /\ u \in a.received
    BY <1>1, <1>2, <1>3, SlideshowAssumption
  <2> QED
    BY <2>1 DEF Whole, BegunWhole
<1> HIDE DEF c
<1>7. ShownWhole(c, sent)
  BY <1>1, <1>4, <1>6 DEF ShownWhole
<1>8. BegunWhole(c, sent)
  BY <1>4 DEF BegunWhole
<1> QED
  BY <1>5, <1>7, <1>8 DEF Whole, c

\* A segment that is wanted is put at its place in the object.
LEMMA WantedFits ==
    ASSUME NEW sent, NEW a \in Assemblers, Whole(a, sent), NEW g, Fits(g, sent),
           a.service = g.service, g.type = "body", Wanted(a, g)
    PROVE  /\ a.id # Unset /\ g.id = a.id /\ OffsetOf(a, g) = g.part
           /\ g.object = <<a.service, a.id>> /\ g.part \in 0..a.size - 1
           /\ g.part \in 0..Units - 1 /\ g.part \notin a.received
           /\ g.last => g.part = a.size - 1
<1>1. g.id \in 0..MaxVersion /\ g.id \in Nat /\ g.id = a.id /\ a.id # Unset
  BY ReceptionAssumption, SlideshowAssumption DEF Fits, Wanted
<1>2. a.size = g.size /\ a.size \in Nat /\ a.size <= Units
  BY <1>1, SizeOfObject DEF Whole, BegunWhole, Fits
<1>3. g.part \in 0..a.size - 1 /\ (g.last => g.part = a.size - 1)
  BY <1>2 DEF Fits
<1>4. g.part \in 0..Units - 1
  BY <1>2, <1>3, SlideshowAssumption
<1> QED
  BY <1>1, <1>3, <1>4 DEF Wanted, OffsetOf, Fits

\* onBody keeps what is on show, or shows the object that it completes.
LEMMA Bodying ==
    ASSUME NEW sent, NEW a \in Assemblers, Whole(a, sent), NEW g, Fits(g, sent),
           a.service = g.service, g.type = "body"
    PROVE  OnBody(a, g) \in Assemblers /\ Whole(OnBody(a, g), sent)
<1>1. CASE ~Wanted(a, g)
  BY <1>1 DEF OnBody
<1>2. CASE Wanted(a, g)
  <2> DEFINE e == Erase(a, g.part)
             l == IF g.last THEN g.part ELSE e.last
             h == [Program(e, g.part, <<g.object, g.part>>)
                      EXCEPT !.received = @ \cup {g.part}, !.last = l]
  <2>1. /\ a.id # Unset /\ OffsetOf(a, g) = g.part
        /\ g.object = <<a.service, a.id>> /\ g.part \in 0..a.size - 1
        /\ g.part \in 0..Units - 1 /\ g.part \notin a.received
        /\ g.last => g.part = a.size - 1
    BY <1>2, WantedFits
  <2>2. /\ e \in Assemblers /\ Whole(e, sent) /\ SameBut(a, e)
        /\ SectorOf(g.part) \in e.erased
    BY <2>1, Erasing
  <2>3. /\ e.id # Unset /\ e.service = a.service /\ e.id = a.id /\ e.size = a.size
        /\ e.last = a.last /\ e.received = a.received
    BY <2>1, <2>2 DEF SameBut
  <2>4. sent[e.service] \in 0..MaxVersion
    BY <2>3 DEF Fits
  <2>5. l \in {e.last, e.size - 1}
    BY <2>1, <2>3
  <2>6. OnBody(a, g) = IF Complete(h) THEN Commit(h) ELSE h
    <3>1. h = [Program(e, g.part, <<g.object, g.part>>)
                EXCEPT !.received = @ \cup {g.part}, !.last = IF g.last THEN g.part ELSE @]
      <4>1. Program(e, g.part, <<g.object, g.part>>).last = e.last
        BY <2>2 DEF Program, Assemblers
      <4> HIDE DEF e
      <4> QED
        BY <4>1
    <3> QED
      BY <1>2, <2>1, <3>1 DEF OnBody
  <2>7. h \in Assemblers /\ Whole(h, sent) /\ h.id = e.id /\ h.service = e.service
    <3> DEFINE k == PutSegment(e, g.part, l)
    <3> HIDE DEF e, l
    <3>1. h = k
      BY <2>1, <2>3 DEF PutSegment
    <3>a. g.part \in 0..e.size - 1 /\ g.part \notin e.received
      BY <2>1, <2>3
    <3>b. k \in Assemblers /\ Whole(k, sent) /\ k.id = e.id
      BY <2>2, <2>3, <2>4, <2>5, <3>a, Programming
    <3>2. h \in Assemblers /\ Whole(h, sent) /\ h.id = e.id
      BY <3>1, <3>b
    <3>3. h.service = e.service
      BY <2>2 DEF Program, Assemblers
    <3> QED
      BY <3>2, <3>3
  <2> HIDE DEF h
  <2>8. CASE Complete(h)
    BY <2>3, <2>4, <2>6, <2>7, <2>8, Committing
  <2>9. CASE ~Complete(h)
    BY <2>6, <2>7, <2>9
  <2> QED
    BY <2>8, <2>9
<1> QED
  BY <1>1, <1>2

\* After a write that failed nothing is being received, and what is on show stays.
LEMMA FailingWrite ==
    ASSUME NEW sent, NEW a \in Assemblers, Whole(a, sent), NEW g, Fits(g, sent),
           a.service = g.service, g.type = "body", Wanted(a, g),
           NEW w \in OnBodyFails(a, g)
    PROVE  w \in Assemblers /\ Whole(w, sent)
<1> DEFINE e == Erase(a, g.part)
           f == [e EXCEPT !.flash[a.writing][g.part] = Spoilt]
<1>1. /\ a.id # Unset /\ OffsetOf(a, g) = g.part /\ g.part \in 0..Units - 1
  BY WantedFits
<1>2. PICK x \in {a, e, f} : w = [x EXCEPT !.id = Unset]
  BY <1>1 DEF OnBodyFails, FailedWrites
<1>3. e \in Assemblers /\ Whole(e, sent) /\ SameBut(a, e)
  BY <1>1, Erasing
<1>4. f \in Assemblers /\ ShownWhole(f, sent)
  <2> HIDE DEF e
  <2>1. /\ e.flash \in [0..Slots - 1 -> [0..Units - 1 -> Cells]] /\ a.writing \in 0..Slots - 1
        /\ e.shown \in 0..Slots - 1 /\ a.writing # a.shown /\ e.shown = a.shown
    BY <1>1, <1>3 DEF Assemblers, Whole, BegunWhole, SameBut
  <2> DEFINE slot == [e.flash[a.writing] EXCEPT ![g.part] = Spoilt]
             flash == [e.flash EXCEPT ![a.writing] = slot]
  <2>2. Spoilt \in Cells
    BY Zenon DEF Cells
  <2>3. flash \in [0..Slots - 1 -> [0..Units - 1 -> Cells]] /\ flash[e.shown] = e.flash[e.shown]
    BY <2>1, <2>2, <1>1
  <2>4. f = [e EXCEPT !.flash = flash]
    OBVIOUS
  <2> HIDE DEF flash, f
  <2>5. f \in Assemblers
    BY <2>3, <2>4, <1>3 DEF Assemblers
  <2>6. f.picture = e.picture /\ f.service = e.service /\ f.shown = e.shown /\ f.flash = flash
    BY <2>4, <1>3 DEF Assemblers
  <2> QED
    BY <2>3, <2>5, <2>6, <1>3, ShownStays DEF Whole
<1> HIDE DEF e, f
<1>5. x \in Assemblers /\ ShownWhole(x, sent)
  BY <1>2, <1>3, <1>4 DEF Whole
<1>6. /\ w \in Assemblers /\ w.id = Unset /\ w.picture = x.picture
      /\ w.service = x.service /\ w.shown = x.shown /\ w.flash = x.flash
  BY <1>2, <1>5 DEF Assemblers
<1> QED
  BY <1>5, <1>6, ShownStays DEF Whole, BegunWhole

\* MotSlideAssembler::apply, on a data group that a service sends.
LEMMA Applying ==
    ASSUME NEW sent, NEW a \in Assemblers, Whole(a, sent), NEW g, Fits(g, sent)
    PROVE  /\ ApplyMot(a, g) \in Assemblers /\ Whole(ApplyMot(a, g), sent)
           /\ \A w \in ApplyMotFails(a, g) : w \in Assemblers /\ Whole(w, sent)
<1> DEFINE u == ForService(a, g.service)
<1>1. u \in Assemblers /\ Whole(u, sent) /\ u.service = g.service
  BY Serving DEF Fits
<1>2. g.type \in {"header", "body"}
  BY DEF Fits
<1> HIDE DEF u
<1>3. CASE g.type = "header"
  BY <1>1, <1>3, Heading DEF ApplyMot, ApplyMotFails, u
<1>4. CASE g.type = "body"
  <2>1. ApplyMot(a, g) = OnBody(u, g)
    BY <1>4 DEF ApplyMot, u
  <2>2. ASSUME NEW w \in ApplyMotFails(a, g) PROVE w \in Assemblers /\ Whole(w, sent)
    <3>1. Wanted(u, g) /\ w \in OnBodyFails(u, g)
      BY <2>2 DEF ApplyMotFails, u
    <3> QED
      BY <1>1, <1>4, <3>1, FailingWrite
  <2> QED
    BY <1>1, <1>4, <2>1, <2>2, Bodying
<1> QED
  BY <1>2, <1>3, <1>4

-----------------------------------------------------------------------------
(* The driver does what Tuner says.                                         *)

Chips == [image : {"none", "dab", "fm"}, set : BOOLEAN,
          at : Ensembles \cup Frequencies \cup {None}, service : Services \cup {None},
          muted : BOOLEAN]

\* What booted_ and loadedBand_ say of the chip is true of it.
Radios(texts, labels) ==
    {t \in [booted : BOOLEAN, loaded : {"dab", "fm"}, fmReady : BOOLEAN,
            index : Ensembles, freq : Frequencies, muted : BOOLEAN,
            service : Services \cup {None}, played : Services \cup {None},
            failures : 0..MaxFailures, chip : Chips, rds : texts, dls : labels] :
        t.booted => t.chip.set /\ t.chip.image = t.loaded}

\* A state of Tuner, written out.
TunerState(band, at, service, index, played, muted, failures) ==
    [band |-> band, at |-> at, service |-> service, index |-> index,
     played |-> played, muted |-> muted, failures |-> failures]

\* What a result r of the driver is seen as.
Seen(r) == Result(r.ok, AsTuner(r.t))

\* A result is seen with the outcome that it has.
LEMMA SeenFields ==
    ASSUME NEW r PROVE Seen(r).ok = r.ok /\ Seen(r).t = AsTuner(r.t)
BY DEF Seen, Result

\* A tuner in the states that the driver keeps, seen field by field.
LEMMA View ==
    ASSUME NEW texts, NEW labels, NEW t \in Radios(texts, labels)
    PROVE  AsTuner(t) =
             IF t.booted
             THEN TunerState(t.loaded, t.chip.at, t.chip.service,
                             t.index, t.played, t.muted, t.failures)
             ELSE TunerState("off", None, None, t.index, t.played, t.muted, t.failures)
<1> USE DEF TunerState
<1>1. CASE t.booted
  <2>1. t.chip.set /\ t.chip.image = t.loaded
    BY <1>1 DEF Radios
  <2> QED
    BY <1>1, <2>1 DEF AsTuner
<1>2. CASE ~t.booted
  BY <1>2 DEF AsTuner
<1> QED
  BY <1>1, <1>2

\* A command that works.
LEMMA DoneIs ==
    ASSUME NEW t, NEW r \in Done(t)
    PROVE  r.ok = TRUE /\ r.t = t /\ r = Result(TRUE, t)
<1>1. r = [ok |-> TRUE, t |-> t]
  BY DEF Done, Result
<1>2. r.ok = TRUE /\ r.t = t
  BY <1>1
<1> QED
  BY <1>1, <1>2 DEF Result

\* A command that fails is seen to fail.
LEMMA FailedIs ==
    ASSUME NEW texts, NEW labels, NEW t \in Radios(texts, labels), NEW r \in Failed(t)
    PROVE  /\ r.ok = FALSE /\ r = Result(FALSE, r.t) /\ r.t \in Radios(texts, labels)
           /\ Seen(r) \in Failed(AsTuner(t))
<1>1. t.failures # MaxFailures /\ r = [ok |-> FALSE, t |-> [t EXCEPT !.failures = @ + 1]]
  BY DEF Failed, Result
<1>2. r.ok = FALSE /\ r.t = [t EXCEPT !.failures = @ + 1]
  BY <1>1
<1>3. t.failures \in 0..MaxFailures /\ t.failures + 1 \in 0..MaxFailures
  BY <1>1, TunerAssumption DEF Radios
<1>4. r.t \in Radios(texts, labels)
  BY <1>2, <1>3 DEF Radios
<1>5. /\ r.t.booted = t.booted /\ r.t.loaded = t.loaded /\ r.t.chip = t.chip /\ r.t.index = t.index
      /\ r.t.played = t.played /\ r.t.muted = t.muted /\ r.t.failures = t.failures + 1
  BY <1>2 DEF Radios
<1>6. AsTuner(r.t) = [AsTuner(t) EXCEPT !.failures = t.failures + 1]
  BY <1>5 DEF AsTuner
<1>7. AsTuner(t).failures = t.failures
  BY DEF AsTuner
<1>8. Failed(AsTuner(t)) = {Result(FALSE, [AsTuner(t) EXCEPT !.failures = t.failures + 1])}
  BY <1>1, <1>7 DEF Failed
<1> QED
  BY <1>1, <1>2, <1>4, <1>6, <1>8 DEF Seen, Result

\* Two states of the driver with nothing but the chip between them.
ActsOnChip(t, acted) == acted = [t EXCEPT !.chip = acted.chip]

\* The volume of the chip is not seen.
LEMMA Muting ==
    ASSUME NEW texts, NEW labels, NEW t \in Radios(texts, labels), NEW m \in BOOLEAN
    PROVE  LET u == [t EXCEPT !.chip.muted = m]
           IN  /\ u \in Radios(texts, labels) /\ AsTuner(u) = AsTuner(t)
               /\ ActsOnChip(t, u)
<1> DEFINE c == [t.chip EXCEPT !.muted = m]
           u == [t EXCEPT !.chip = c]
<1>1. t.chip \in Chips
  BY DEF Radios
<1>2. /\ c \in Chips /\ c.image = t.chip.image /\ c.set = t.chip.set /\ c.at = t.chip.at
      /\ c.service = t.chip.service
  BY <1>1 DEF Chips
<1> HIDE DEF c
<1>3. u \in Radios(texts, labels)
  BY <1>2 DEF Radios
<1>4. /\ u.booted = t.booted /\ u.chip = c /\ u.index = t.index
      /\ u.played = t.played /\ u.muted = t.muted /\ u.failures = t.failures
  BY DEF Radios
<1>5. AsTuner(u) = AsTuner(t)
  <2> HIDE DEF u
  <2> QED
    BY <1>2, <1>4 DEF AsTuner
<1> QED
  BY <1>3, <1>4, <1>5 DEF c, ActsOnChip

\* A command without an answer fails, before it acted or after.
LEMMA UnansweredIs ==
    ASSUME NEW texts, NEW labels, NEW t \in Radios(texts, labels),
           NEW acted \in Radios(texts, labels), ActsOnChip(t, acted),
           NEW r \in Unanswered(t, acted)
    PROVE  /\ r.ok = FALSE /\ r.t \in Radios(texts, labels)
           /\ Seen(r) \in Failed(AsTuner(t)) \cup Failed(AsTuner(acted))
<1>1. r \in Failed(t) \/ r \in Failed(acted)
  BY DEF Unanswered, ActsOnChip
<1> QED
  BY <1>1, FailedIs

\* A command acts on the chip, or is seen to fail.
LEMMA Commanding ==
    ASSUME NEW texts, NEW labels, NEW t \in Radios(texts, labels),
           NEW acted \in Radios(texts, labels), ActsOnChip(t, acted),
           NEW r \in Command(t, acted)
    PROVE  /\ r.ok \in BOOLEAN /\ r.t \in Radios(texts, labels)
           /\ r.ok => r.t = acted
           /\ ~r.ok => Seen(r) \in Failed(AsTuner(t)) \cup Failed(AsTuner(acted))
<1>1. r \in Done(acted) \/ r \in Unanswered(t, acted)
  BY DEF Command
<1>2. CASE r \in Done(acted)
  BY <1>2, DoneIs
<1>3. CASE r \in Unanswered(t, acted)
  BY <1>3, UnansweredIs
<1> QED
  BY <1>1, <1>2, <1>3

\* setVolume of the driver, which needs a chip that is booted.
LEMMA SettingChipVolume ==
    ASSUME NEW texts, NEW labels, NEW t \in Radios(texts, labels), NEW m \in BOOLEAN,
           NEW r \in SetChipVolume(t, m)
    PROVE  /\ r.ok \in BOOLEAN /\ r.t \in Radios(texts, labels)
           /\ r.ok => /\ t.booted /\ r.t.booted /\ r.t.loaded = t.loaded
                      /\ AsTuner(r.t) = AsTuner(t)
           /\ ~r.ok => IF t.booted THEN Seen(r) \in Failed(AsTuner(t)) ELSE r = Result(FALSE, t)
<1>1. CASE t.booted
  <2> DEFINE u == [t EXCEPT !.chip.muted = m]
  <2>1. /\ u \in Radios(texts, labels) /\ AsTuner(u) = AsTuner(t)
        /\ ActsOnChip(t, u)
    BY Muting
  <2>2. r \in Command(t, u)
    BY <1>1 DEF SetChipVolume
  <2> HIDE DEF u
  <2>3. /\ r.ok \in BOOLEAN /\ r.t \in Radios(texts, labels)
        /\ r.ok => r.t = u
        /\ ~r.ok => Seen(r) \in Failed(AsTuner(t)) \cup Failed(AsTuner(u))
    BY <2>1, <2>2, Commanding
  <2>4. u.booted = t.booted /\ u.loaded = t.loaded
    BY DEF Radios, u
  <2> QED
    BY <1>1, <2>1, <2>3, <2>4
<1>2. CASE ~t.booted
  <2>1. r = Result(FALSE, t)
    BY <1>2 DEF SetChipVolume
  <2>2. r.ok = FALSE /\ r.t = t
    BY <2>1 DEF Result
  <2> QED
    BY <1>2, <2>1, <2>2
<1> QED
  BY <1>1, <1>2

\* A tuner in which an image runs, or none, tuned to nothing.
Half(u, band) == TunerState(band, None, None, u.index, u.played, u.muted, u.failures)

\* Where a boot that fails leaves a state of the driver, as it is seen.
LEMMA HalfIs ==
    ASSUME NEW t, NEW band
    PROVE  Half(AsTuner(t), band) =
             TunerState(band, None, None, t.index, t.played, t.muted, t.failures)
BY DEF Half, AsTuner

\* Si4684Driver::boot ends with the image of the band, or with a chip that is
\* not used.
LEMMA Booting ==
    ASSUME NEW texts, NEW labels, NEW t \in Radios(texts, labels), NEW band \in {"dab", "fm"},
           ~(t.booted /\ t.loaded = band), NEW r \in Boot(t, band)
    PROVE  /\ r.ok \in BOOLEAN /\ r.t \in Radios(texts, labels)
           /\ r.ok => /\ r.t.booted /\ r.t.loaded = band /\ r.t.chip.at = None
                      /\ AsTuner(r.t) = Half(AsTuner(t), band)
           /\ ~r.ok => Seen(r) \in Failed(Half(AsTuner(t), "off"))
<1> DEFINE off == [t EXCEPT !.booted = FALSE]
           dead == [off EXCEPT !.chip = IdleChip("none", FALSE)]
           up  == [off EXCEPT !.booted = TRUE, !.loaded = band, !.chip = IdleChip(band, FALSE)]
           set == [up EXCEPT !.chip.set = TRUE]
           half == [up EXCEPT !.booted = FALSE]
<1>0. /\ IdleChip("none", FALSE) \in Chips /\ IdleChip(band, FALSE) \in Chips
      /\ IdleChip(band, TRUE) \in Chips
      /\ [IdleChip(band, FALSE) EXCEPT !.set = TRUE] = IdleChip(band, TRUE)
      /\ IdleChip(band, TRUE).image = band /\ IdleChip(band, TRUE).set = TRUE
      /\ IdleChip(band, TRUE).at = None /\ IdleChip(band, TRUE).service = None
  <2>1. \A i \in {"none", "dab", "fm"}, b \in BOOLEAN : IdleChip(i, b) \in Chips
    BY Zenon DEF IdleChip, Chips
  <2>2. /\ IdleChip(band, TRUE).image = band /\ IdleChip(band, TRUE).set = TRUE
        /\ IdleChip(band, TRUE).at = None /\ IdleChip(band, TRUE).service = None
    BY DEF IdleChip
  <2>3. [IdleChip(band, FALSE) EXCEPT !.set = TRUE] = IdleChip(band, TRUE)
    <3>1. \A x, y, z :
             [[image |-> band, set |-> x, at |-> None, service |-> None, muted |-> y] EXCEPT !.set = z]
               = [image |-> band, set |-> z, at |-> None, service |-> None, muted |-> y]
      OBVIOUS
    <3> QED
      BY <3>1, Zenon DEF IdleChip
  <2> QED
    BY <2>1, <2>2, <2>3
<1>1. off \in Radios(texts, labels) /\ dead \in Radios(texts, labels)
  BY <1>0 DEF Radios
<1>2. half = [t EXCEPT !.booted = FALSE, !.loaded = band, !.chip = IdleChip(band, FALSE)]
  BY DEF Radios
<1>3. set = [t EXCEPT !.booted = TRUE, !.loaded = band, !.chip = IdleChip(band, TRUE)]
  <2>1. up = [t EXCEPT !.booted = TRUE, !.loaded = band, !.chip = IdleChip(band, FALSE)]
    BY DEF Radios
  <2>2. up.chip = IdleChip(band, FALSE)
    BY DEF Radios
  <2>3. set = [up EXCEPT !.chip = IdleChip(band, TRUE)]
    BY <2>2, <1>0
  <2> QED
    BY <2>1, <2>3 DEF Radios
<1>4. half \in Radios(texts, labels)
  BY <1>0, <1>2 DEF Radios
<1>5. set \in Radios(texts, labels)
  BY <1>0, <1>3 DEF Radios
<1>6. Boot(t, band) = Then(LoadImage(off, band), Configure)
  BY DEF Boot
<1>7. LoadImage(off, band) = Done(up) \cup Failed(off) \cup Failed(dead)
  BY DEF LoadImage
<1>8. \/ r \in Configure(up)
      \/ r \in Failed(off) \/ r \in Failed(dead)
  <2>1. PICK l \in LoadImage(off, band) : r \in IF l.ok THEN Configure(l.t) ELSE {l}
    BY <1>6 DEF Then
  <2>2. CASE l \in Done(up)
    <3>1. l.ok = TRUE /\ l.t = up
      BY <2>2, DoneIs
    <3> QED
      BY <2>1, <3>1
  <2>3. CASE l \in Failed(off) \/ l \in Failed(dead)
    <3>1. l.ok = FALSE
      BY <2>3, <1>1, FailedIs
    <3> QED
      BY <2>1, <2>3, <3>1
  <2> QED
    BY <2>1, <2>2, <2>3, <1>7
<1>9. r \in Done(set) \/ r \in Failed(half) \/ r \in Failed(off) \/ r \in Failed(dead)
  BY <1>8 DEF Configure
<1>12. set.booted /\ set.loaded = band /\ set.chip.at = None
  BY <1>0, <1>3 DEF Radios
<1>10. AsTuner(set) = Half(AsTuner(t), band)
  <2>1. /\ set.booted = TRUE /\ set.chip = IdleChip(band, TRUE) /\ set.index = t.index
        /\ set.played = t.played /\ set.muted = t.muted /\ set.failures = t.failures
    BY <1>3 DEF Radios
  <2> HIDE DEF set, up, off
  <2>2. AsTuner(set) = TunerState(set.loaded, set.chip.at, set.chip.service,
                                  set.index, set.played, set.muted, set.failures)
    BY <1>5, <1>12, View
  <2>3. set.loaded = band /\ set.chip.at = None /\ set.chip.service = None
    BY <1>0, <1>12, <2>1
  <2>4. AsTuner(set) = TunerState(band, None, None, t.index, t.played, t.muted, t.failures)
    BY <2>1, <2>2, <2>3
  <2> QED
    BY <2>4, HalfIs
<1>11. ASSUME NEW x \in {off, dead, half} PROVE AsTuner(x) = Half(AsTuner(t), "off")
  <2>1. /\ x.booted = FALSE /\ x.index = t.index
        /\ x.played = t.played /\ x.muted = t.muted /\ x.failures = t.failures
    BY <1>2 DEF Radios
  <2>2. x \in Radios(texts, labels)
    BY <1>1, <1>4
  <2> HIDE DEF off, dead, half
  <2>3. AsTuner(x) = TunerState("off", None, None, x.index, x.played, x.muted, x.failures)
    BY <2>1, <2>2, View
  <2> QED
    BY <2>1, <2>3, HalfIs
<1> HIDE DEF off, dead, up, set, half
<1>13. CASE r \in Done(set)
  BY <1>5, <1>10, <1>12, <1>13, DoneIs
<1>14. ASSUME NEW x \in {off, dead, half}, r \in Failed(x)
       PROVE  /\ r.ok = FALSE /\ r.t \in Radios(texts, labels)
              /\ Seen(r) \in Failed(Half(AsTuner(t), "off"))
  <2>1. x \in Radios(texts, labels) /\ AsTuner(x) = Half(AsTuner(t), "off")
    BY <1>1, <1>4, <1>11
  <2> QED
    BY <1>14, <2>1, FailedIs
<1> QED
  BY <1>9, <1>13, <1>14

\* What Load gives from a tuner that stands for a state of the driver.
Loaded(u, band) ==
    TunerState(band, IF band = "fm" THEN DefaultFm ELSE None, None, u.index, u.played, u.muted,
               u.failures)

IsState(u) == u = TunerState(u.band, u.at, u.service, u.index, u.played, u.muted, u.failures)

\* The results of Load, one by one.
LEMMA LoadIs ==
    ASSUME NEW u, IsState(u), NEW band
    PROVE  Load(u, band) =
             IF u.band = band THEN Done(u)
             ELSE Done(Loaded(u, band)) \cup Failed(Loaded(u, band))
                  \cup Failed(Half(u, band)) \cup Failed(Half(u, "off"))
<1> DEFINE at == IF band = "fm" THEN DefaultFm ELSE None
           fresh == [u EXCEPT !.band = band, !.service = None, !.at = at]
           dead  == [u EXCEPT !.band = "off", !.service = None, !.at = None]
           half  == [fresh EXCEPT !.at = None]
<1> DEFINE b == u.at
           c == u.service
           d == u.index
           e == u.played
           f == u.muted
           g == u.failures
<1>0. u = TunerState(u.band, b, c, d, e, f, g)
  BY DEF IsState
<1> HIDE DEF b, c, d, e, f, g
<1>1. ASSUME NEW x, NEW y
      PROVE  [u EXCEPT !.band = x, !.service = None, !.at = y] = TunerState(x, y, None, d, e, f, g)
  <2>1. [u EXCEPT !.band = x] = TunerState(x, b, c, d, e, f, g)
    BY <1>0 DEF TunerState
  <2>2. [TunerState(x, b, c, d, e, f, g) EXCEPT !.service = None]
            = TunerState(x, b, None, d, e, f, g)
    BY DEF TunerState
  <2>3. [TunerState(x, b, None, d, e, f, g) EXCEPT !.at = y] = TunerState(x, y, None, d, e, f, g)
    BY DEF TunerState
  <2> QED
    BY <2>1, <2>2, <2>3
<1>2. fresh = TunerState(band, at, None, d, e, f, g) /\ dead = TunerState("off", None, None, d, e, f, g)
  <2> HIDE DEF at
  <2> QED
    BY <1>1
<1>3. half = TunerState(band, None, None, d, e, f, g)
  <2>1. [TunerState(band, at, None, d, e, f, g) EXCEPT !.at = None]
            = TunerState(band, None, None, d, e, f, g)
    BY DEF TunerState
  <2> QED
    BY <1>2, <2>1
<1>4. u.index = d /\ u.played = e /\ u.muted = f /\ u.failures = g
  BY DEF d, e, f, g
<1>5. fresh = Loaded(u, band) /\ half = Half(u, band) /\ dead = Half(u, "off")
  BY <1>2, <1>3, <1>4 DEF Loaded, Half
<1>6. Load(u, band) = IF u.band = band THEN Done(u)
                      ELSE Done(fresh) \cup Failed(fresh) \cup Failed(half) \cup Failed(dead)
  BY DEF Load
<1> HIDE DEF fresh, half, dead
<1> QED
  BY <1>5, <1>6

\* stopDabService on the way to FM: the chip may play on, the driver has let
\* go.
LEMMA Leaving ==
    ASSUME NEW texts, NEW labels, NoDls \in labels, NEW t \in Radios(texts, labels),
           NEW band \in {"dab", "fm"}, NEW u \in LeaveDab(t, band)
    PROVE  /\ u \in Radios(texts, labels) /\ u.booted = t.booted /\ u.loaded = t.loaded
           /\ t.booted /\ t.loaded = band => u = t
           /\ \A b : Half(AsTuner(u), b) = Half(AsTuner(t), b)
<1> DEFINE left == [t EXCEPT !.service = None, !.dls = NoDls]
           stop == [left EXCEPT !.chip.service = None]
           c    == [t.chip EXCEPT !.service = None]
<1>1. c \in Chips /\ c.set = t.chip.set /\ c.image = t.chip.image
  BY DEF Radios, Chips
<1>2. left \in Radios(texts, labels)
  BY DEF Radios
<1>3. stop = [t EXCEPT !.service = None, !.dls = NoDls, !.chip = c]
  BY DEF Radios
<1> HIDE DEF c
<1>4. stop \in Radios(texts, labels)
  BY <1>1, <1>3 DEF Radios
<1>5. ASSUME NEW x \in {t, left, stop}
      PROVE  /\ x.booted = t.booted /\ x.loaded = t.loaded /\ x.index = t.index
             /\ x.played = t.played /\ x.muted = t.muted /\ x.failures = t.failures
  BY <1>3 DEF Radios
<1>6. u \in {t, left, stop} /\ (t.booted /\ t.loaded = band => u = t)
  BY DEF LeaveDab
<1> HIDE DEF left, stop
<1>7. \A b : Half(AsTuner(u), b) = Half(AsTuner(t), b)
  BY <1>5, <1>6, HalfIs
<1> QED
  BY <1>2, <1>4, <1>5, <1>6, <1>7

\* Another frequency or service, on a chip that runs.
At(t, x) == [t EXCEPT !.chip.at = x]
ChipPlays(t, s) == [t EXCEPT !.chip.service = s]
ChipAtPlays(t, x, s) == [t EXCEPT !.chip.at = x, !.chip.service = s]

TunedTo(u, x) == [u EXCEPT !.at = x]
Plays(u, s) == [u EXCEPT !.service = s]

\* The chip on another frequency or service is seen there.
LEMMA Moving ==
    ASSUME NEW texts, NEW labels, NEW t \in Radios(texts, labels), t.booted,
           NEW x \in Ensembles \cup Frequencies \cup {None}, NEW s \in Services \cup {None}
    PROVE  /\ At(t, x) \in Radios(texts, labels) /\ ActsOnChip(t, At(t, x))
           /\ ChipPlays(t, s) \in Radios(texts, labels)
           /\ ActsOnChip(t, ChipPlays(t, s))
           /\ ChipAtPlays(t, x, s) \in Radios(texts, labels)
           /\ ActsOnChip(t, ChipAtPlays(t, x, s))
           /\ AsTuner(At(t, x)) = TunedTo(AsTuner(t), x)
           /\ AsTuner(ChipPlays(t, s)) = Plays(AsTuner(t), s)
           /\ AsTuner(ChipAtPlays(t, x, s)) = Plays(TunedTo(AsTuner(t), x), s)
<1> DEFINE U == [t.chip EXCEPT !.at = x, !.service = s]
           V == [t.chip EXCEPT !.at = x]
           W == [t.chip EXCEPT !.service = s]
           u == [t EXCEPT !.chip.at = x, !.chip.service = s]
           v == [t EXCEPT !.chip.at = x]
           w == [t EXCEPT !.chip.service = s]
<1>1. t.chip \in Chips /\ t.chip.set /\ t.chip.image = t.loaded
  BY DEF Radios
<1>2. u = [t EXCEPT !.chip = U]
  BY <1>1 DEF Radios
<1>3. v = [t EXCEPT !.chip = V] /\ w = [t EXCEPT !.chip = W]
  OBVIOUS
<1>4. /\ U \in Chips /\ U.set /\ U.image = t.loaded /\ U.at = x /\ U.service = s
      /\ V \in Chips /\ V.set /\ V.image = t.loaded /\ V.at = x /\ V.service = t.chip.service
      /\ W \in Chips /\ W.set /\ W.image = t.loaded /\ W.at = t.chip.at /\ W.service = s
  BY <1>1 DEF Chips
<1> HIDE DEF U, V, W
<1>5. ASSUME NEW C \in Chips, C.set, C.image = t.loaded, NEW y, y = [t EXCEPT !.chip = C]
      PROVE  /\ y \in Radios(texts, labels) /\ y.chip = C
             /\ AsTuner(y) = TunerState(t.loaded, C.at, C.service, t.index, t.played, t.muted,
                                        t.failures)
  <2>1. y \in Radios(texts, labels)
    BY <1>5 DEF Radios
  <2>2. /\ y.booted = t.booted /\ y.loaded = t.loaded /\ y.chip = C /\ y.index = t.index
        /\ y.played = t.played /\ y.muted = t.muted /\ y.failures = t.failures
    BY <1>5 DEF Radios
  <2>3. AsTuner(y) = TunerState(y.loaded, y.chip.at, y.chip.service, y.index, y.played, y.muted,
                                y.failures)
    BY <2>1, <2>2, View
  <2> QED
    BY <2>1, <2>2, <2>3
<1>6. AsTuner(t) = TunerState(t.loaded, t.chip.at, t.chip.service, t.index, t.played, t.muted,
                              t.failures)
  BY View
<1> HIDE DEF u, v, w
<1>7. /\ u \in Radios(texts, labels) /\ u.chip = U
      /\ AsTuner(u) = TunerState(t.loaded, x, s, t.index, t.played, t.muted, t.failures)
  BY <1>2, <1>4, <1>5
<1>8. /\ v \in Radios(texts, labels) /\ v.chip = V
      /\ AsTuner(v) = TunerState(t.loaded, x, t.chip.service, t.index, t.played, t.muted, t.failures)
  BY <1>3, <1>4, <1>5
<1>9. /\ w \in Radios(texts, labels) /\ w.chip = W
      /\ AsTuner(w) = TunerState(t.loaded, t.chip.at, s, t.index, t.played, t.muted, t.failures)
  BY <1>3, <1>4, <1>5
<1>10. /\ [AsTuner(t) EXCEPT !.at = x] = AsTuner(v)
       /\ [AsTuner(t) EXCEPT !.service = s] = AsTuner(w)
       /\ [AsTuner(v) EXCEPT !.service = s] = AsTuner(u)
  <2>1. [AsTuner(t) EXCEPT !.at = x] = AsTuner(v)
    BY <1>6, <1>8 DEF TunerState
  <2>2. [AsTuner(t) EXCEPT !.service = s] = AsTuner(w)
    BY <1>6, <1>9 DEF TunerState
  <2>3. [AsTuner(v) EXCEPT !.service = s] = AsTuner(u)
    BY <1>7, <1>8 DEF TunerState
  <2> QED
    BY <2>1, <2>2, <2>3
<1> QED
  <2>1. u = ChipAtPlays(t, x, s) /\ v = At(t, x) /\ w = ChipPlays(t, s)
    BY DEF u, v, w, At, ChipPlays, ChipAtPlays
  <2>2. /\ AsTuner(u) = Plays(TunedTo(AsTuner(t), x), s)
        /\ AsTuner(v) = TunedTo(AsTuner(t), x)
        /\ AsTuner(w) = Plays(AsTuner(t), s)
    BY <1>10 DEF Plays, TunedTo
  <2>3. ActsOnChip(t, u) /\ ActsOnChip(t, v) /\ ActsOnChip(t, w)
    BY <1>2, <1>3, <1>7, <1>8, <1>9 DEF ActsOnChip
  <2> QED
    BY <1>7, <1>8, <1>9, <2>1, <2>2, <2>3

\* tuneFm of the driver.
LEMMA TuningChip ==
    ASSUME NEW texts, NEW labels, NEW t \in Radios(texts, labels), t.booted,
           NEW f \in Frequencies, NEW r \in TuneChipFm(t, f)
    PROVE  LET moved == TunedTo(AsTuner(t), f)
           IN  /\ r.ok \in BOOLEAN /\ r.t \in Radios(texts, labels)
               /\ r.ok => r.t = At(t, f) /\ AsTuner(r.t) = moved
               /\ ~r.ok => Seen(r) \in Failed(AsTuner(t)) \cup Failed(moved)
<1> DEFINE v == At(t, f)
           moved == TunedTo(AsTuner(t), f)
<1>1. v \in Radios(texts, labels) /\ ActsOnChip(t, v) /\ AsTuner(v) = moved
  <2>1. f \in Ensembles \cup Frequencies \cup {None} /\ None \in Services \cup {None}
    OBVIOUS
  <2> QED
    BY <2>1, Moving
<1>2. r \in Command(t, v)
  BY DEF TuneChipFm, At
<1> HIDE DEF v
<1>3. /\ r.ok \in BOOLEAN /\ r.t \in Radios(texts, labels)
      /\ r.ok => r.t = v
      /\ ~r.ok => Seen(r) \in Failed(AsTuner(t)) \cup Failed(AsTuner(v))
  BY <1>1, <1>2, Commanding
<1> QED
  BY <1>1, <1>3 DEF v

\* A driver that is on a band, and does not hold the text of another.
OnBand(t, band) == t.booted /\ t.loaded = band

\* The end of ensureBandLoaded, from the image that runs.
LEMMA Entering ==
    ASSUME NEW texts, NEW labels, NoRds \in texts, NoDls \in labels,
           NEW t \in Radios(texts, labels), NEW band \in {"dab", "fm"}, OnBand(t, band),
           NEW r \in Enter(t, band)
    PROVE  LET moved == TunedTo(AsTuner(t), DefaultFm)
           IN  /\ r.ok \in BOOLEAN /\ r.t \in Radios(texts, labels)
               /\ r.ok => /\ OnBand(r.t, band)
                          /\ AsTuner(r.t) = IF band = "fm" THEN moved ELSE AsTuner(t)
               /\ ~r.ok => band = "fm" /\ Seen(r) \in Failed(AsTuner(t)) \cup Failed(moved)
<1>a. DefaultFm \in Frequencies
  BY TunerAssumption
<1>0. ASSUME NEW x \in Radios(texts, labels), NEW y \in Radios(texts, labels),
             y.booted = x.booted, y.loaded = x.loaded, y.chip = x.chip, y.index = x.index,
             y.played = x.played, y.muted = x.muted, y.failures = x.failures
      PROVE  AsTuner(y) = AsTuner(x)
  BY <1>0 DEF AsTuner
<1>1. CASE band = "fm"
  <2> DEFINE fm == [t EXCEPT !.rds = NoRds, !.freq = DefaultFm, !.fmReady = FALSE]
             ready(u) == [u EXCEPT !.fmReady = TRUE]
  <2>1. fm \in Radios(texts, labels)
    BY <1>a DEF Radios
  <2>2. /\ fm.booted = t.booted /\ fm.loaded = t.loaded /\ fm.chip = t.chip
        /\ fm.index = t.index /\ fm.played = t.played /\ fm.muted = t.muted
        /\ fm.failures = t.failures
    BY DEF Radios
  <2>3. Enter(t, band) = Then(TuneChipFm(fm, DefaultFm), LAMBDA u : Done(ready(u)))
    BY <1>1 DEF Enter
  <2>4. PICK l \in TuneChipFm(fm, DefaultFm) : r \in IF l.ok THEN Done(ready(l.t)) ELSE {l}
    BY <2>3 DEF Then
  <2> HIDE DEF fm
  <2>5. AsTuner(fm) = AsTuner(t)
    BY <1>0, <2>1, <2>2
  <2>6. /\ l.ok \in BOOLEAN /\ l.t \in Radios(texts, labels)
        /\ l.ok => /\ l.t = At(fm, DefaultFm)
                   /\ AsTuner(l.t) = TunedTo(AsTuner(fm), DefaultFm)
        /\ ~l.ok => Seen(l) \in Failed(AsTuner(fm)) \cup Failed(TunedTo(AsTuner(fm), DefaultFm))
    BY <1>a, <2>1, <2>2, TuningChip DEF OnBand
  <2>7. CASE l.ok
    <3>1. r.ok = TRUE /\ r.t = ready(l.t)
      BY <2>4, <2>7, DoneIs
    <3>2. /\ r.t \in Radios(texts, labels) /\ r.t.booted = l.t.booted /\ r.t.loaded = l.t.loaded
          /\ r.t.chip = l.t.chip /\ r.t.index = l.t.index /\ r.t.played = l.t.played
          /\ r.t.muted = l.t.muted /\ r.t.failures = l.t.failures
      BY <2>6, <3>1 DEF Radios
    <3>3. AsTuner(r.t) = AsTuner(l.t)
      BY <1>0, <2>6, <3>2
    <3>4. l.t.booted = fm.booted /\ l.t.loaded = fm.loaded
      BY <2>1, <2>6, <2>7 DEF Radios, At
    <3> QED
      BY <1>1, <2>2, <2>5, <2>6, <2>7, <3>1, <3>2, <3>3, <3>4 DEF OnBand
  <2>8. CASE ~l.ok
    <3>1. r = l
      BY <2>4, <2>8
    <3> QED
      BY <1>1, <2>5, <2>6, <2>8, <3>1
  <2> QED
    BY <2>7, <2>8
<1>2. CASE band = "dab"
  <2> DEFINE d == [t EXCEPT !.fmReady = FALSE, !.dls = NoDls, !.service = None]
  <2>1. d \in Radios(texts, labels)
    BY DEF Radios
  <2>2. /\ d.booted = t.booted /\ d.loaded = t.loaded /\ d.chip = t.chip
        /\ d.index = t.index /\ d.played = t.played /\ d.muted = t.muted
        /\ d.failures = t.failures
    BY DEF Radios
  <2>3. r.ok = TRUE /\ r.t = d
    <3>1. r \in Done(d)
      BY <1>2 DEF Enter
    <3> QED
      BY <3>1, DoneIs
  <2> HIDE DEF d
  <2>4. AsTuner(d) = AsTuner(t)
    BY <1>0, <2>1, <2>2
  <2> QED
    BY <1>2, <2>1, <2>2, <2>3, <2>4 DEF OnBand
<1> QED
  BY <1>1, <1>2

\* Load from a tuner that stands for a state of the driver.
LEMMA LoadIsOf ==
    ASSUME NEW texts, NEW labels, NEW t \in Radios(texts, labels), NEW band \in {"dab", "fm"}
    PROVE  LET u == AsTuner(t)
           IN  /\ OnBand(t, band) <=> u.band = band
               /\ Load(u, band) =
                    IF u.band = band THEN Done(u)
                    ELSE Done(Loaded(u, band)) \cup Failed(Loaded(u, band))
                         \cup Failed(Half(u, band)) \cup Failed(Half(u, "off"))
<1> DEFINE u == AsTuner(t)
<1>8. OnBand(t, band) <=> u.band = band
  <2>1. u.band = IF t.booted THEN t.loaded ELSE "off"
    BY View DEF TunerState
  <2> QED
    BY <2>1 DEF OnBand
<1> HIDE DEF u
<1>9. Load(u, band) =
         IF u.band = band THEN Done(u)
         ELSE Done(Loaded(u, band)) \cup Failed(Loaded(u, band))
              \cup Failed(Half(u, band)) \cup Failed(Half(u, "off"))
  <2>1. IsState(u)
    BY View DEF u, IsState, TunerState
  <2> QED
    BY <2>1, LoadIs
<1> QED
  BY <1>8, <1>9 DEF u

\* A band that is on already is loaded already.
LEMMA Readying ==
    ASSUME NEW texts, NEW labels, NoRds \in texts, NoDls \in labels,
           NEW t \in Radios(texts, labels), NEW band \in {"dab", "fm"}, OnBand(t, band),
           NEW r \in Then(SetChipVolume(t, t.muted), LAMBDA w : Enter(w, band))
    PROVE  LET moved == TunedTo(AsTuner(t), DefaultFm)
           IN  /\ r.ok \in BOOLEAN /\ r.t \in Radios(texts, labels)
               /\ r.ok => /\ OnBand(r.t, band)
                          /\ AsTuner(r.t) = IF band = "fm" THEN moved ELSE AsTuner(t)
               /\ ~r.ok => \/ Seen(r) \in Failed(AsTuner(t))
                           \/ band = "fm" /\ Seen(r) \in Failed(moved)
<1>1. PICK l \in SetChipVolume(t, t.muted) : r \in IF l.ok THEN Enter(l.t, band) ELSE {l}
  BY DEF Then
<1>2. t.muted \in BOOLEAN
  BY DEF Radios
<1>3. /\ l.ok \in BOOLEAN /\ l.t \in Radios(texts, labels)
      /\ l.ok => l.t.booted /\ l.t.loaded = t.loaded /\ AsTuner(l.t) = AsTuner(t)
      /\ ~l.ok => Seen(l) \in Failed(AsTuner(t))
  BY <1>2, SettingChipVolume DEF OnBand
<1>4. CASE l.ok
  <2>1. OnBand(l.t, band) /\ r \in Enter(l.t, band)
    BY <1>1, <1>3, <1>4 DEF OnBand
  <2> QED
    BY <1>3, <1>4, <2>1, Entering
<1>5. CASE ~l.ok
  BY <1>1, <1>3, <1>5
<1> QED
  BY <1>4, <1>5

\* From a tuner that is asked for FM: where the FM image runs, and what a tune
\* of some frequency may give.
FmBase(u, b) ==
    \E l \in Load(u, "fm") : l.ok /\ (b = l.t \/ \E x \in Frequencies : b = TunedTo(l.t, x))

FmResults(u) == UNION {TuneFm(u, f) : f \in Frequencies}

\* The results of TuneFm.
LEMMA TuneFmIs ==
    ASSUME NEW u, NEW f, NEW r
    PROVE  r \in TuneFm(u, f) <=>
             \E l \in Load(u, "fm") :
                 IF l.ok THEN r \in Done(TunedTo(l.t, f)) \cup Failed(l.t) \cup Failed(TunedTo(l.t, f))
                 ELSE r = l
BY DEF TuneFm, Then, TunedTo

\* Load, when it works, leaves a state of Tuner on the band.
LEMMA LoadsAreStates ==
    ASSUME NEW texts, NEW labels, NEW t \in Radios(texts, labels), NEW band \in {"dab", "fm"},
           NEW l \in Load(AsTuner(t), band), l.ok
    PROVE  IsState(l.t) /\ l.t.band = band
<1>1. ASSUME NEW x, l \in Failed(x) PROVE FALSE
  <2>1. l = [ok |-> FALSE, t |-> [x EXCEPT !.failures = @ + 1]]
    BY <1>1 DEF Failed, Result
  <2>2. l.ok = FALSE
    BY <2>1
  <2> QED
    BY <2>2
<1>2. \/ AsTuner(t).band = band /\ l \in Done(AsTuner(t))
      \/ l \in Done(Loaded(AsTuner(t), band))
  BY <1>1, LoadIsOf
<1>3. CASE AsTuner(t).band = band /\ l \in Done(AsTuner(t))
  <2>1. IsState(AsTuner(t))
    BY View DEF IsState, TunerState
  <2> QED
    BY <1>3, <2>1, DoneIs
<1>4. CASE l \in Done(Loaded(AsTuner(t), band))
  <2>1. l.t = Loaded(AsTuner(t), band)
    BY <1>4, DoneIs
  <2> QED
    BY <2>1 DEF Loaded, IsState, TunerState
<1> QED
  BY <1>2, <1>3, <1>4

\* Of two tunes the second stays.
LEMMA TunedTwice ==
    ASSUME NEW u, IsState(u), NEW x, NEW y
    PROVE  /\ TunedTo(TunedTo(u, x), y) = TunedTo(u, y)
           /\ IsState(TunedTo(u, x)) /\ TunedTo(u, x).band = u.band
<1>1. \A z : TunedTo(u, z) = TunerState(u.band, z, u.service, u.index, u.played, u.muted, u.failures)
  BY DEF TunedTo, IsState, TunerState
<1>2. TunedTo(TunerState(u.band, x, u.service, u.index, u.played, u.muted, u.failures), y)
        = TunerState(u.band, y, u.service, u.index, u.played, u.muted, u.failures)
  BY DEF TunedTo, TunerState
<1>3. /\ IsState(TunerState(u.band, x, u.service, u.index, u.played, u.muted, u.failures))
      /\ TunerState(u.band, x, u.service, u.index, u.played, u.muted, u.failures).band = u.band
  BY DEF IsState, TunerState
<1> QED
  BY <1>1, <1>2, <1>3

\* From a base of u, a frequency is tuned as from u.
LEMMA FromBase ==
    ASSUME NEW texts, NEW labels, NEW t \in Radios(texts, labels), NEW b, FmBase(AsTuner(t), b)
    PROVE  /\ Failed(b) \subseteq FmResults(AsTuner(t))
           /\ \A f \in Frequencies :
                 /\ Done(TunedTo(b, f)) \cup Failed(TunedTo(b, f)) \subseteq FmResults(AsTuner(t))
                 /\ FmBase(AsTuner(t), TunedTo(b, f))
<1> DEFINE u == AsTuner(t)
<1>1. PICK l \in Load(u, "fm") : l.ok /\ (b = l.t \/ \E x \in Frequencies : b = TunedTo(l.t, x))
  BY DEF FmBase
<1>2. IsState(l.t)
  BY <1>1, LoadsAreStates
<1> HIDE DEF u
<1>3. \A f \in Frequencies : Done(TunedTo(l.t, f)) \cup Failed(l.t) \cup Failed(TunedTo(l.t, f))
                                \subseteq FmResults(u)
  BY <1>1, TuneFmIs DEF FmResults
<1>4. DefaultFm \in Frequencies
  BY TunerAssumption
<1>5. Failed(b) \subseteq FmResults(u)
  BY <1>1, <1>3, <1>4
<1>6. \A f \in Frequencies : TunedTo(b, f) = TunedTo(l.t, f)
  BY <1>1, <1>2, TunedTwice
<1>7. \A f \in Frequencies : FmBase(u, TunedTo(b, f))
  BY <1>1, <1>6 DEF FmBase
<1> QED
  BY <1>3, <1>5, <1>6, <1>7 DEF u

\* ensureBandLoaded does what Load says; but an FM image whose first tune was
\* not confirmed is tuned again, as by a call that tunes a frequency.
LEMMA LoadingBand ==
    ASSUME NEW texts, NEW labels, NoRds \in texts, NoDls \in labels,
           NEW t \in Radios(texts, labels), NEW band \in {"dab", "fm"},
           NEW r \in EnsureBandLoaded(t, band)
    PROVE  /\ r.ok \in BOOLEAN /\ r.t \in Radios(texts, labels)
           /\ r.ok => OnBand(r.t, band)
           /\ band = "dab" => Seen(r) \in Load(AsTuner(t), "dab")
           /\ band = "fm" => IF r.ok THEN FmBase(AsTuner(t), AsTuner(r.t))
                             ELSE Seen(r) \in FmResults(AsTuner(t))
<1> DEFINE u == AsTuner(t)
           tail(v) == Then(SetChipVolume(v, v.muted), LAMBDA w : Enter(w, band))
<1>1. /\ OnBand(t, band) <=> u.band = band
      /\ Load(u, band) =
           IF u.band = band THEN Done(u)
           ELSE Done(Loaded(u, band)) \cup Failed(Loaded(u, band))
                \cup Failed(Half(u, band)) \cup Failed(Half(u, "off"))
  BY LoadIsOf
<1>2. DefaultFm \in Frequencies
  BY TunerAssumption
<1>3. CASE r \in Done(t) /\ OnBand(t, band)
  <2>1. r.ok = TRUE /\ r.t = t
    BY <1>3, DoneIs
  <2>2. Seen(r) = Result(TRUE, u)
    BY <2>1 DEF Seen
  <2>3. Seen(r) \in Load(u, band) /\ Seen(r).ok /\ Seen(r).t = u
    BY <1>1, <1>3, <2>2 DEF Done, Result
  <2> HIDE DEF u
  <2>4. band = "fm" => FmBase(u, u)
    BY <2>3 DEF FmBase
  <2> QED
    BY <1>3, <2>1, <2>3, <2>4 DEF u
<1>4. ASSUME NEW v \in Radios(texts, labels), OnBand(v, band), r \in tail(v),
             \/ OnBand(t, band) /\ band = "fm" /\ AsTuner(v) = u
             \/ ~OnBand(t, band) /\ AsTuner(v) = Half(u, band)
      PROVE  /\ r.ok \in BOOLEAN /\ r.t \in Radios(texts, labels)
             /\ r.ok => OnBand(r.t, band)
             /\ band = "dab" => Seen(r) \in Load(u, "dab")
             /\ band = "fm" => IF r.ok THEN FmBase(u, AsTuner(r.t)) ELSE Seen(r) \in FmResults(u)
  <2> DEFINE moved == TunedTo(AsTuner(v), DefaultFm)
  <2>1. /\ r.ok \in BOOLEAN /\ r.t \in Radios(texts, labels)
        /\ r.ok => /\ OnBand(r.t, band)
                   /\ AsTuner(r.t) = IF band = "fm" THEN moved ELSE AsTuner(v)
        /\ ~r.ok => \/ Seen(r) \in Failed(AsTuner(v))
                    \/ band = "fm" /\ Seen(r) \in Failed(moved)
    BY <1>4, Readying
  <2>2. Seen(r) = Result(r.ok, AsTuner(r.t))
    BY DEF Seen
  <2>3. CASE band = "dab"
    <3>1. Half(u, band) = Loaded(u, band)
      BY <2>3 DEF Half, Loaded
    <3>2. AsTuner(v) = Loaded(u, band) /\ u.band # band
      BY <1>1, <1>4, <2>3, <3>1
    <3>3. CASE r.ok
      <4>1. Seen(r) \in Done(Loaded(u, band))
        BY <2>1, <2>2, <2>3, <3>2, <3>3 DEF Done
      <4> QED
        BY <1>1, <2>1, <2>3, <3>2, <3>3, <4>1
    <3>4. CASE ~r.ok
      BY <1>1, <2>1, <2>3, <3>2, <3>4
    <3> QED
      BY <3>3, <3>4, <2>1
  <2>4. CASE band = "fm"
    <3>1. FmBase(u, moved) /\ (Failed(AsTuner(v)) \cup Failed(moved) \subseteq FmResults(u))
      <4>1. CASE OnBand(t, band) /\ AsTuner(v) = u
        <5>1. FmBase(u, u)
          <6>1. Result(TRUE, u) \in Load(u, "fm") /\ Result(TRUE, u).ok /\ Result(TRUE, u).t = u
            BY <1>1, <2>4, <4>1 DEF Done, Result
          <6> HIDE DEF u
          <6> QED
            BY <6>1 DEF FmBase
        <5> QED
          BY <1>2, <4>1, <5>1, FromBase
      <4>2. CASE ~OnBand(t, band) /\ AsTuner(v) = Half(u, band)
        <5>1. moved = Loaded(u, band)
          <6> HIDE DEF u
          <6> QED
            BY <2>4, <4>2 DEF TunedTo, Half, Loaded, TunerState
        <5>2. Result(TRUE, moved) \in Load(u, "fm") /\ Result(TRUE, moved).ok
              /\ Result(TRUE, moved).t = moved
          BY <1>1, <2>4, <4>2, <5>1 DEF Done, Result
        <5>3. FmBase(u, moved)
          <6> HIDE DEF u, moved
          <6> QED
            BY <5>2 DEF FmBase
        <5>4. Failed(moved) \subseteq FmResults(u)
          BY <5>3, FromBase
        <5>5. Failed(Half(u, band)) \subseteq Load(u, "fm")
          BY <1>1, <2>4, <4>2
        <5>6. ASSUME NEW q \in Failed(Half(u, band)) PROVE q \in FmResults(u)
          <6>1. q = Result(FALSE, [Half(u, band) EXCEPT !.failures = @ + 1])
            BY <5>6 DEF Failed
          <6>2. q.ok = FALSE
            BY <6>1 DEF Result
          <6>3. q \in TuneFm(u, DefaultFm)
            BY <5>5, <6>2, <5>6, TuneFmIs
          <6> QED
            BY <6>3, <1>2 DEF FmResults
        <5> QED
          BY <4>2, <5>3, <5>4, <5>6
      <4> QED
        BY <1>4, <4>1, <4>2
    <3> HIDE DEF moved
    <3> QED
      BY <2>1, <2>4, <3>1
  <2> QED
    BY <2>3, <2>4
<1>5. CASE OnBand(t, band) /\ ~(band = "dab" \/ t.fmReady)
  <2>1. EnsureBandLoaded(t, band) = Then(UNION {Boot(x, band) : x \in LeaveDab(t, band)}, tail)
    BY <1>5 DEF EnsureBandLoaded
  <2>2. PICK l \in UNION {Boot(x, band) : x \in LeaveDab(t, band)} :
               r \in IF l.ok THEN tail(l.t) ELSE {l}
    BY <2>1 DEF Then
  <2>3. PICK x \in LeaveDab(t, band) : l \in Boot(x, band)
    BY <2>2
  <2>4. x = t
    BY <1>5, <2>3, Leaving DEF OnBand
  <2>5. l \in Done(t)
    BY <1>5, <2>3, <2>4 DEF Boot, OnBand
  <2>6. l.ok = TRUE /\ l.t = t
    BY <2>5, DoneIs
  <2>7. r \in tail(t)
    BY <2>2, <2>6
  <2> QED
    BY <1>4, <1>5, <2>7
<1>6. CASE ~OnBand(t, band)
  <2>1. EnsureBandLoaded(t, band) = Then(UNION {Boot(x, band) : x \in LeaveDab(t, band)}, tail)
    BY <1>6 DEF EnsureBandLoaded, OnBand
  <2>2. PICK l \in UNION {Boot(x, band) : x \in LeaveDab(t, band)} :
               r \in IF l.ok THEN tail(l.t) ELSE {l}
    BY <2>1 DEF Then
  <2>3. PICK x \in LeaveDab(t, band) : l \in Boot(x, band)
    BY <2>2
  <2>4. /\ x \in Radios(texts, labels) /\ ~(x.booted /\ x.loaded = band)
        /\ \A b : Half(AsTuner(x), b) = Half(u, b)
    BY <1>6, <2>3, Leaving DEF OnBand
  <2>5. /\ l.ok \in BOOLEAN /\ l.t \in Radios(texts, labels)
        /\ l.ok => OnBand(l.t, band) /\ AsTuner(l.t) = Half(u, band)
        /\ ~l.ok => Seen(l) \in Failed(Half(u, "off"))
    BY <2>3, <2>4, Booting DEF OnBand
  <2>6. CASE l.ok
    BY <1>4, <1>6, <2>2, <2>5, <2>6
  <2>7. CASE ~l.ok
    <3>1. r = l /\ Seen(r) \in Load(u, band)
      BY <1>1, <1>6, <2>2, <2>5, <2>7
    <3>2. Seen(r).ok = FALSE
      BY <3>1, <2>7, <2>5 DEF Seen, Result
    <3>3. band = "fm" => Seen(r) \in TuneFm(u, DefaultFm)
      BY <3>1, <3>2, TuneFmIs
    <3> QED
      BY <1>2, <2>5, <2>7, <3>1, <3>3 DEF FmResults
  <2> QED
    BY <2>5, <2>6, <2>7
<1> QED
  BY <1>3, <1>5, <1>6 DEF EnsureBandLoaded, OnBand

-----------------------------------------------------------------------------
(* The calls of TunerService, each seen as one of Tuner.                    *)

\* TunerService::tuneDab is a TuneDab.
LEMMA SeenTuneEnsemble ==
    ASSUME NEW texts, NEW labels, NoRds \in texts, NoDls \in labels,
           NEW t \in Radios(texts, labels), NEW e \in Ensembles, NEW r \in TuneEnsemble(t, e)
    PROVE  r.t \in Radios(texts, labels) /\ Seen(r) \in TuneDab(AsTuner(t), e)
<1> DEFINE u == AsTuner(t)
           moved(x) == [x EXCEPT !.chip.at = e, !.chip.service = None]
           tuned(x) == [moved(x) EXCEPT !.index = e, !.dls = NoDls, !.service = None, !.played = None]
           on(b)    == [b EXCEPT !.at = e, !.index = e, !.service = None, !.played = None]
           half(b)  == [b EXCEPT !.at = e, !.service = None]
<1>1. PICK l \in EnsureBandLoaded(t, "dab") :
         r \in IF l.ok THEN Done(tuned(l.t)) \cup Unanswered(l.t, moved(l.t)) ELSE {l}
  BY DEF TuneEnsemble, Then
<1>2. /\ l.ok \in BOOLEAN /\ l.t \in Radios(texts, labels) /\ Seen(l) \in Load(u, "dab")
      /\ l.ok => OnBand(l.t, "dab")
  BY LoadingBand
<1>3. Seen(l).ok = l.ok /\ Seen(l).t = AsTuner(l.t)
  BY SeenFields
<1>4. \A q : q \in TuneDab(u, e) <=>
         \E k \in Load(u, "dab") :
             q \in IF k.ok THEN Done(on(k.t)) \cup Failed(k.t) \cup Failed(half(k.t)) ELSE {k}
  BY DEF TuneDab, Then
<1>5. CASE ~l.ok
  <2>1. r = l /\ Seen(r) \in {Seen(l)}
    BY <1>1, <1>5
  <2> QED
    BY <1>2, <1>3, <1>4, <1>5, <2>1
<1>6. CASE l.ok
  <2> DEFINE x == l.t
             m == ChipAtPlays(x, e, None)
             f == tuned(x)
  <2>1. x.booted /\ x.loaded = "dab" /\ x \in Radios(texts, labels)
    BY <1>2, <1>6 DEF OnBand
  <2>2. e \in Ensembles \cup Frequencies \cup {None} /\ None \in Services \cup {None}
    OBVIOUS
  <2>3. m \in Radios(texts, labels) /\ ActsOnChip(x, m) /\ AsTuner(m) = Plays(TunedTo(AsTuner(x), e), None)
    BY <2>1, <2>2, Moving
  <2>4. m = moved(x) /\ m.chip.at = e /\ m.chip.service = None
    BY <2>1 DEF ChipAtPlays, Radios, Chips
  <2>5. AsTuner(m) = half(AsTuner(x))
    BY <2>3 DEF Plays, TunedTo
  <2>6. f = [m EXCEPT !.index = e, !.dls = NoDls, !.service = None, !.played = None]
    BY <2>4
  <2>7. /\ m.booted /\ m.loaded = "dab" /\ m.muted = x.muted /\ m.failures = x.failures
    BY <2>1 DEF ChipAtPlays, Radios
  <2> HIDE DEF m, x
  <2>8. f \in Radios(texts, labels)
    BY <2>2, <2>3, <2>6 DEF Radios
  <2>9. /\ f.booted /\ f.loaded = "dab" /\ f.chip.at = e /\ f.chip.service = None
        /\ f.index = e /\ f.played = None /\ f.muted = x.muted /\ f.failures = x.failures
    BY <2>3, <2>4, <2>6, <2>7 DEF Radios
  <2> HIDE DEF f
  <2>10. AsTuner(f) = TunerState("dab", e, None, e, None, x.muted, x.failures)
    <3>1. AsTuner(f) = TunerState(f.loaded, f.chip.at, f.chip.service, f.index, f.played, f.muted,
                                  f.failures)
      BY <2>8, <2>9, View
    <3> QED
      BY <3>1, <2>9
  <2>11. AsTuner(x) = TunerState("dab", x.chip.at, x.chip.service, x.index, x.played, x.muted,
                                 x.failures)
    BY <2>1, View
  <2>12. on(AsTuner(x)) = AsTuner(f)
    <3>1. [AsTuner(x) EXCEPT !.at = e]
            = TunerState("dab", e, x.chip.service, x.index, x.played, x.muted, x.failures)
      BY <2>11 DEF TunerState
    <3>2. [TunerState("dab", e, x.chip.service, x.index, x.played, x.muted, x.failures) EXCEPT !.index = e]
            = TunerState("dab", e, x.chip.service, e, x.played, x.muted, x.failures)
      BY DEF TunerState
    <3>3. [TunerState("dab", e, x.chip.service, e, x.played, x.muted, x.failures) EXCEPT !.service = None]
            = TunerState("dab", e, None, e, x.played, x.muted, x.failures)
      BY DEF TunerState
    <3>4. [TunerState("dab", e, None, e, x.played, x.muted, x.failures) EXCEPT !.played = None]
            = TunerState("dab", e, None, e, None, x.muted, x.failures)
      BY DEF TunerState
    <3> QED
      BY <3>1, <3>2, <3>3, <3>4, <2>10
  <2>13. r \in Done(f) \/ r \in Unanswered(x, m)
    BY <1>1, <1>6, <2>4 DEF f, x
  <2>14. CASE r \in Done(f)
    <3>1. r.ok = TRUE /\ r.t = f
      BY <2>14, DoneIs
    <3>2. Seen(r) \in Done(on(AsTuner(x)))
      BY <3>1, <2>12 DEF Seen, Done
    <3> QED
      BY <1>2, <1>3, <1>4, <1>6, <2>8, <3>1, <3>2 DEF x
  <2>15. CASE r \in Unanswered(x, m)
    <3>0. r.t \in Radios(texts, labels) /\ Seen(r) \in Failed(AsTuner(x)) \cup Failed(AsTuner(m))
      BY <2>1, <2>3, <2>15, UnansweredIs
    <3>1. r.t \in Radios(texts, labels) /\ Seen(r) \in Failed(AsTuner(x)) \cup Failed(half(AsTuner(x)))
      BY <2>5, <3>0
    <3> QED
      BY <1>2, <1>3, <1>4, <1>6, <3>1 DEF x
  <2> QED
    BY <2>13, <2>14, <2>15
<1> QED
  BY <1>2, <1>5, <1>6

\* TunerService::playDabService is a PlayDab.
LEMMA SeenPlay ==
    ASSUME NEW texts, NEW labels, NoRds \in texts, NoDls \in labels,
           NEW t \in Radios(texts, labels), NEW s \in Services, NEW lev, NEW r \in Play(t, s, lev)
    PROVE  r.t \in Radios(texts, labels) /\ Seen(r) \in PlayDab(AsTuner(t), s, lev)
<1> DEFINE u == AsTuner(t)
           on(x) == IF Receives(x.chip, s, lev) THEN [x EXCEPT !.chip.service = s] ELSE x
           played(x) == [on(x) EXCEPT !.service = s, !.played = s, !.dls = NoDls]
           seen(b) == IF Receives(b, s, lev) THEN [b EXCEPT !.service = s] ELSE b
<1>1. PICK l \in EnsureBandLoaded(t, "dab") :
         r \in IF l.ok THEN Done(played(l.t)) \cup Unanswered(l.t, on(l.t)) ELSE {l}
  BY DEF Play, Then
<1>2. /\ l.ok \in BOOLEAN /\ l.t \in Radios(texts, labels) /\ Seen(l) \in Load(u, "dab")
      /\ l.ok => OnBand(l.t, "dab")
  BY LoadingBand
<1>3. Seen(l).ok = l.ok /\ Seen(l).t = AsTuner(l.t)
  BY SeenFields
<1>4. \A q : q \in PlayDab(u, s, lev) <=>
         \E k \in Load(u, "dab") :
             q \in IF k.ok THEN Done([seen(k.t) EXCEPT !.played = s]) \cup Failed(k.t)
                                \cup Failed(seen(k.t))
                   ELSE {k}
  BY DEF PlayDab, Then
<1>5. CASE ~l.ok
  <2>1. r = l /\ Seen(r) \in {Seen(l)}
    BY <1>1, <1>5
  <2> QED
    BY <1>2, <1>3, <1>4, <1>5, <2>1
<1>6. CASE l.ok
  <2> DEFINE x == l.t
             m == on(x)
             f == [m EXCEPT !.service = s, !.played = s, !.dls = NoDls]
  <2>1. x.booted /\ x.loaded = "dab" /\ x \in Radios(texts, labels)
    BY <1>2, <1>6 DEF OnBand
  <2> HIDE DEF x
  <2>2. None \in Ensembles \cup Frequencies \cup {None} /\ s \in Services \cup {None}
    OBVIOUS
  <2>3. /\ ChipPlays(x, s) \in Radios(texts, labels) /\ ActsOnChip(x, ChipPlays(x, s))
        /\ AsTuner(ChipPlays(x, s)) = Plays(AsTuner(x), s)
    BY <2>1, <2>2, Moving
  <2>4. AsTuner(x) = TunerState("dab", x.chip.at, x.chip.service, x.index, x.played, x.muted,
                                 x.failures)
    BY <2>1, View
  <2>5. Receives(AsTuner(x), s, lev) <=> Receives(x.chip, s, lev)
    <3>1. AsTuner(x).at = x.chip.at
      BY <2>4 DEF TunerState
    <3> QED
      BY <3>1 DEF Receives
  <2>6. ActsOnChip(x, x)
    BY <2>1 DEF ActsOnChip, Radios
  <2>7. m \in Radios(texts, labels) /\ ActsOnChip(x, m) /\ AsTuner(m) = seen(AsTuner(x))
    <3>1. CASE Receives(x.chip, s, lev)
      BY <3>1, <2>3, <2>5 DEF Plays, ChipPlays
    <3>2. CASE ~Receives(x.chip, s, lev)
      BY <3>2, <2>1, <2>5, <2>6
    <3> QED
      BY <3>1, <3>2
  <2>8. m.booted /\ m.loaded = "dab"
    BY <2>1 DEF Radios
  <2>9. r \in Done(f) \/ r \in Unanswered(x, m)
    BY <1>1, <1>6 DEF x
  <2> HIDE DEF m
  <2>10. f \in Radios(texts, labels)
    BY <2>2, <2>7 DEF Radios
  <2>11. /\ f.booted /\ f.loaded = "dab" /\ f.chip = m.chip /\ f.played = s
         /\ f.index = m.index /\ f.muted = m.muted /\ f.failures = m.failures
    BY <2>7, <2>8 DEF Radios
  <2> HIDE DEF f
  <2>12. AsTuner(f) = [seen(AsTuner(x)) EXCEPT !.played = s]
    <3>1. AsTuner(m) = TunerState("dab", m.chip.at, m.chip.service, m.index, m.played, m.muted,
                                  m.failures)
      BY <2>7, <2>8, View
    <3>2. AsTuner(f) = TunerState(f.loaded, f.chip.at, f.chip.service, f.index, f.played, f.muted,
                                  f.failures)
      BY <2>10, <2>11, View
    <3>3. AsTuner(f) = TunerState("dab", m.chip.at, m.chip.service, m.index, s, m.muted, m.failures)
      BY <2>11, <3>2
    <3>4. [AsTuner(m) EXCEPT !.played = s] = AsTuner(f)
      BY <3>1, <3>3 DEF TunerState
    <3> QED
      BY <2>7, <3>4
  <2>14. CASE r \in Done(f)
    <3>1. r.ok = TRUE /\ r.t = f
      BY <2>14, DoneIs
    <3>2. Seen(r) \in Done([seen(AsTuner(x)) EXCEPT !.played = s])
      BY <3>1, <2>12 DEF Seen, Done
    <3> QED
      BY <1>2, <1>3, <1>4, <1>6, <2>10, <3>1, <3>2 DEF x
  <2>15. CASE r \in Unanswered(x, m)
    <3>1. r.t \in Radios(texts, labels) /\ Seen(r) \in Failed(AsTuner(x)) \cup Failed(seen(AsTuner(x)))
      BY <2>1, <2>7, <2>15, UnansweredIs
    <3> QED
      BY <1>2, <1>3, <1>4, <1>6, <3>1 DEF x
  <2> QED
    BY <2>9, <2>14, <2>15
<1> QED
  BY <1>2, <1>5, <1>6

\* TunerService::listDabServices is a ListDab.
LEMMA SeenList ==
    ASSUME NEW texts, NEW labels, NoRds \in texts, NoDls \in labels,
           NEW t \in Radios(texts, labels), NEW lev, NEW r \in List(t, lev)
    PROVE  r.t \in Radios(texts, labels) /\ Seen(r) \in ListDab(AsTuner(t), lev)
<1> DEFINE u == AsTuner(t)
           listed(b) == IF b.at # None /\ lev[b.at] > 0 THEN Done(b) \cup Failed(b)
                        ELSE {Result(FALSE, b)}
<1>1. PICK l \in EnsureBandLoaded(t, "dab") :
         r \in IF l.ok
               THEN IF l.t.chip.at # None /\ lev[l.t.chip.at] > 0 THEN Done(l.t) \cup Failed(l.t)
                    ELSE {Result(FALSE, l.t)}
               ELSE {l}
  BY DEF List, Then
<1>2. /\ l.ok \in BOOLEAN /\ l.t \in Radios(texts, labels) /\ Seen(l) \in Load(u, "dab")
      /\ l.ok => OnBand(l.t, "dab")
  BY LoadingBand
<1>3. Seen(l).ok = l.ok /\ Seen(l).t = AsTuner(l.t)
  BY SeenFields
<1>4. \A q : q \in ListDab(u, lev) <=>
         \E k \in Load(u, "dab") : q \in IF k.ok THEN listed(k.t) ELSE {k}
  BY DEF ListDab, Then
<1>5. CASE ~l.ok
  <2>1. r = l /\ Seen(r) \in {Seen(l)}
    BY <1>1, <1>5
  <2> QED
    BY <1>2, <1>3, <1>4, <1>5, <2>1
<1>6. CASE l.ok
  <2>1. AsTuner(l.t).at = l.t.chip.at
    BY <1>2, <1>6, View DEF OnBand, TunerState
  <2>2. r.t \in Radios(texts, labels) /\ Seen(r) \in listed(AsTuner(l.t))
    <3>1. CASE l.t.chip.at # None /\ lev[l.t.chip.at] > 0 /\ r \in Done(l.t)
      <4>1. r.ok = TRUE /\ r.t = l.t
        BY <3>1, DoneIs
      <4> QED
        BY <1>2, <2>1, <3>1, <4>1 DEF Seen, Done
    <3>2. CASE l.t.chip.at # None /\ lev[l.t.chip.at] > 0 /\ r \in Failed(l.t)
      <4>1. r.t \in Radios(texts, labels) /\ Seen(r) \in Failed(AsTuner(l.t))
        BY <1>2, <3>2, FailedIs
      <4> QED
        BY <2>1, <3>2, <4>1
    <3>3. CASE ~(l.t.chip.at # None /\ lev[l.t.chip.at] > 0)
      <4>1. r = Result(FALSE, l.t)
        BY <1>1, <1>6, <3>3
      <4>2. r.ok = FALSE /\ r.t = l.t
        BY <4>1 DEF Result
      <4> QED
        BY <1>2, <2>1, <3>3, <4>2 DEF Seen
    <3> QED
      BY <1>1, <1>6, <3>1, <3>2, <3>3
  <2> QED
    BY <1>2, <1>3, <1>4, <1>6, <2>2
<1> QED
  BY <1>2, <1>5, <1>6

\* What a tune of FM may give, a call of the driver may give.
LEMMA TuningFrom ==
    ASSUME NEW texts, NEW labels, NoRds \in texts, NoDls \in labels,
           NEW t \in Radios(texts, labels), NEW v \in Radios(texts, labels), OnBand(v, "fm"),
           FmBase(AsTuner(t), AsTuner(v)), NEW f \in Frequencies,
           NEW r \in Then(TuneChipFm(v, f), LAMBDA w : Done([w EXCEPT !.freq = f, !.rds = NoRds]))
    PROVE  r.t \in Radios(texts, labels) /\ Seen(r) \in FmResults(AsTuner(t))
<1> DEFINE u == AsTuner(t)
           tuned(w) == [w EXCEPT !.freq = f, !.rds = NoRds]
           moved == TunedTo(AsTuner(v), f)
<1>1. PICK l \in TuneChipFm(v, f) : r \in IF l.ok THEN Done(tuned(l.t)) ELSE {l}
  BY DEF Then
<1>2. /\ l.ok \in BOOLEAN /\ l.t \in Radios(texts, labels)
      /\ l.ok => AsTuner(l.t) = moved
      /\ ~l.ok => Seen(l) \in Failed(AsTuner(v)) \cup Failed(moved)
  BY TuningChip DEF OnBand
<1>3. /\ Failed(AsTuner(v)) \subseteq FmResults(u)
      /\ Done(moved) \cup Failed(moved) \subseteq FmResults(u)
  BY FromBase
<1> HIDE DEF u, moved
<1>4. CASE l.ok
  <2>1. r.ok = TRUE /\ r.t = tuned(l.t)
    BY <1>1, <1>4, DoneIs
  <2>2. /\ r.t \in Radios(texts, labels) /\ r.t.booted = l.t.booted /\ r.t.loaded = l.t.loaded
        /\ r.t.chip = l.t.chip /\ r.t.index = l.t.index /\ r.t.played = l.t.played
        /\ r.t.muted = l.t.muted /\ r.t.failures = l.t.failures
    BY <1>2, <2>1 DEF Radios
  <2>3. AsTuner(r.t) = moved
    BY <1>2, <1>4, <2>2 DEF AsTuner
  <2> QED
    BY <1>3, <2>1, <2>2, <2>3 DEF Seen, Done, u
<1>5. CASE ~l.ok
  BY <1>1, <1>2, <1>3, <1>5 DEF u
<1> QED
  BY <1>2, <1>4, <1>5

\* A base of a base is a base.
LEMMA BaseOfBase ==
    ASSUME NEW texts, NEW labels, NEW t \in Radios(texts, labels),
           NEW v \in Radios(texts, labels), OnBand(v, "fm"), FmBase(AsTuner(t), AsTuner(v))
    PROVE  /\ FmResults(AsTuner(v)) \subseteq FmResults(AsTuner(t))
           /\ \A b : FmBase(AsTuner(v), b) => FmBase(AsTuner(t), b)
<1> DEFINE u == AsTuner(t)
           m == AsTuner(v)
<1>1. Load(m, "fm") = Done(m)
  <2>1. m.band = "fm"
    BY LoadIsOf
  <2> QED
    BY <2>1, LoadIsOf
<1>2. /\ Failed(m) \subseteq FmResults(u)
      /\ \A f \in Frequencies : /\ Done(TunedTo(m, f)) \cup Failed(TunedTo(m, f)) \subseteq FmResults(u)
                                /\ FmBase(u, TunedTo(m, f))
  BY FromBase
<1>3. FmBase(u, m)
  OBVIOUS
<1> HIDE DEF u, m
<1>4. ASSUME NEW r \in FmResults(m) PROVE r \in FmResults(u)
  <2>1. PICK f \in Frequencies : r \in TuneFm(m, f)
    BY <1>4 DEF FmResults
  <2>2. PICK l \in Done(m) :
           IF l.ok THEN r \in Done(TunedTo(l.t, f)) \cup Failed(l.t) \cup Failed(TunedTo(l.t, f))
           ELSE r = l
    BY <1>1, <2>1, TuneFmIs
  <2>3. l.ok = TRUE /\ l.t = m
    BY DoneIs
  <2> QED
    BY <1>2, <2>2, <2>3
<1>5. ASSUME NEW b, FmBase(m, b) PROVE FmBase(u, b)
  <2>1. PICK l \in Done(m) : l.ok /\ (b = l.t \/ \E x \in Frequencies : b = TunedTo(l.t, x))
    BY <1>1, <1>5 DEF FmBase
  <2>2. l.t = m
    BY DoneIs
  <2> QED
    BY <1>2, <1>3, <2>1, <2>2
<1> QED
  BY <1>4, <1>5 DEF u, m

\* TunerService::tuneFm is a tune of some frequency.
LEMMA SeenTuneFrequency ==
    ASSUME NEW texts, NEW labels, NoRds \in texts, NoDls \in labels,
           NEW t \in Radios(texts, labels), NEW f \in Frequencies, NEW r \in TuneFrequency(t, f)
    PROVE  r.t \in Radios(texts, labels) /\ Seen(r) \in FmResults(AsTuner(t))
<1> DEFINE tune(v) == Then(TuneChipFm(v, f), LAMBDA w : Done([w EXCEPT !.freq = f, !.rds = NoRds]))
<1>1. PICK l \in EnsureBandLoaded(t, "fm") : r \in IF l.ok THEN tune(l.t) ELSE {l}
  <2>1. TuneFrequency(t, f) = Then(EnsureBandLoaded(t, "fm"), tune)
    BY DEF TuneFrequency
  <2> QED
    BY <2>1 DEF Then
<1>2. /\ l.ok \in BOOLEAN /\ l.t \in Radios(texts, labels) /\ (l.ok => OnBand(l.t, "fm"))
      /\ IF l.ok THEN FmBase(AsTuner(t), AsTuner(l.t)) ELSE Seen(l) \in FmResults(AsTuner(t))
  BY LoadingBand
<1>3. CASE l.ok
  <2>1. r \in tune(l.t)
    BY <1>1, <1>3
  <2> QED
    BY <1>2, <1>3, <2>1, TuningFrom
<1>4. CASE ~l.ok
  BY <1>1, <1>2, <1>4
<1> QED
  BY <1>2, <1>3, <1>4

\* TunerService::seekFm is a tune of some frequency.
LEMMA SeenSeek ==
    ASSUME NEW texts, NEW labels, NoRds \in texts, NoDls \in labels,
           NEW t \in Radios(texts, labels), NEW up \in BOOLEAN, NEW r \in Seek(t, up)
    PROVE  r.t \in Radios(texts, labels) /\ Seen(r) \in FmResults(AsTuner(t))
<1> DEFINE step(f) == IF up THEN Next100[f] ELSE CHOOSE g \in Frequencies : Next100[g] = f
           found(u, f) == Done([u EXCEPT !.chip.at = f, !.freq = f, !.rds = NoRds])
           stepped(u, f) == TuneFrequency([u EXCEPT !.chip.at = f], step(u.freq))
           rest(u) == (UNION {found(u, f) : f \in Frequencies \ {u.freq}})
                      \cup (UNION {stepped(u, f) : f \in Frequencies \cup {u.chip.at}})
<1>1. PICK l \in EnsureBandLoaded(t, "fm") : r \in IF l.ok THEN rest(l.t) ELSE {l}
  BY DEF Seek, Then
<1>2. /\ l.ok \in BOOLEAN /\ l.t \in Radios(texts, labels) /\ (l.ok => OnBand(l.t, "fm"))
      /\ IF l.ok THEN FmBase(AsTuner(t), AsTuner(l.t)) ELSE Seen(l) \in FmResults(AsTuner(t))
  BY LoadingBand
<1>3. \A f \in Frequencies : step(f) \in Frequencies
  BY ReceiverAssumption
<1>4. CASE l.ok
  <2> DEFINE u == l.t
  <2>1. u \in Radios(texts, labels) /\ u.booted /\ u.loaded = "fm" /\ FmBase(AsTuner(t), AsTuner(u))
    BY <1>2, <1>4 DEF OnBand
  <2>2. \/ \E f \in Frequencies : r \in found(u, f)
        \/ \E f \in Frequencies \cup {u.chip.at} : r \in stepped(u, f)
    <3>1. r \in rest(u)
      BY <1>1, <1>4
    <3> HIDE DEF found, stepped, u
    <3> QED
      BY <3>1
  <2>3. u.freq \in Frequencies /\ u.chip.at \in Ensembles \cup Frequencies \cup {None}
    BY <2>1 DEF Radios, Chips
  <2>4. step(u.freq) \in Frequencies
    BY <1>3, <2>3
  <2> HIDE DEF u, step
  <2>5. ASSUME NEW f \in Frequencies \cup {u.chip.at}
        PROVE  /\ At(u, f) \in Radios(texts, labels) /\ OnBand(At(u, f), "fm")
               /\ AsTuner(At(u, f)) = TunedTo(AsTuner(u), f)
               /\ FmBase(AsTuner(t), TunedTo(AsTuner(u), f))
    <3>1. f \in Ensembles \cup Frequencies \cup {None} /\ None \in Services \cup {None}
      BY <2>3
    <3>2. /\ At(u, f) \in Radios(texts, labels)
          /\ AsTuner(At(u, f)) = TunedTo(AsTuner(u), f)
      BY <2>1, <3>1, Moving
    <3>3. OnBand(At(u, f), "fm")
      BY <2>1 DEF At, OnBand, Radios
    <3>4. CASE f \in Frequencies
      BY <2>1, <3>2, <3>3, <3>4, FromBase
    <3>5. CASE f = u.chip.at
      <4>1. AsTuner(u) = TunerState("fm", u.chip.at, u.chip.service, u.index, u.played, u.muted,
                                     u.failures)
        BY <2>1, View
      <4>2. TunedTo(AsTuner(u), f) = AsTuner(u)
        BY <3>5, <4>1 DEF TunedTo, TunerState
      <4> QED
        BY <2>1, <3>2, <3>3, <4>2
    <3> QED
      BY <3>4, <3>5
  <2>6. ASSUME NEW f \in Frequencies,
               r \in Done([u EXCEPT !.chip.at = f, !.freq = f, !.rds = NoRds])
        PROVE  r.t \in Radios(texts, labels) /\ Seen(r) \in FmResults(AsTuner(t))
    <3> DEFINE v == [u EXCEPT !.chip.at = f, !.freq = f, !.rds = NoRds]
               a == At(u, f)
    <3>1. r.ok = TRUE /\ r.t = v
      BY <2>6, DoneIs
    <3>2. /\ a \in Radios(texts, labels) /\ OnBand(a, "fm")
          /\ AsTuner(a) = TunedTo(AsTuner(u), f)
      BY <2>5
    <3>3. v = [a EXCEPT !.freq = f, !.rds = NoRds]
      BY DEF At
    <3> HIDE DEF a, v
    <3>4. v \in Radios(texts, labels)
      BY <3>2, <3>3 DEF Radios
    <3>5. /\ v.booted = a.booted /\ v.loaded = a.loaded /\ v.chip = a.chip /\ v.index = a.index
          /\ v.played = a.played /\ v.muted = a.muted /\ v.failures = a.failures
      BY <3>2, <3>3 DEF Radios
    <3>6. AsTuner(v) = AsTuner(a)
      BY <3>5 DEF AsTuner
    <3>7. Seen(r) \in Done(TunedTo(AsTuner(u), f))
      BY <3>1, <3>2, <3>6 DEF Seen, Done
    <3>8. Done(TunedTo(AsTuner(u), f)) \subseteq FmResults(AsTuner(t))
      BY <2>1, FromBase
    <3> QED
      BY <3>1, <3>4, <3>7, <3>8
  <2>7. ASSUME NEW f \in Frequencies \cup {u.chip.at},
               r \in TuneFrequency([u EXCEPT !.chip.at = f], step(u.freq))
        PROVE  r.t \in Radios(texts, labels) /\ Seen(r) \in FmResults(AsTuner(t))
    <3> DEFINE a == At(u, f)
    <3>1. /\ a \in Radios(texts, labels) /\ OnBand(a, "fm") /\ FmBase(AsTuner(t), AsTuner(a))
      BY <2>5
    <3>2. r \in TuneFrequency(a, step(u.freq))
      BY <2>7 DEF At
    <3> HIDE DEF a
    <3>3. r.t \in Radios(texts, labels) /\ Seen(r) \in FmResults(AsTuner(a))
      BY <2>4, <3>1, <3>2, SeenTuneFrequency
    <3>4. FmResults(AsTuner(a)) \subseteq FmResults(AsTuner(t))
      BY <3>1, BaseOfBase
    <3> QED
      BY <3>3, <3>4
  <2> QED
    BY <2>2, <2>6, <2>7
<1>5. CASE ~l.ok
  BY <1>1, <1>2, <1>5
<1> QED
  BY <1>2, <1>4, <1>5

\* TunerService::setVolume is a SetVolume, or changes nothing that is seen.
LEMMA SeenSetMuted ==
    ASSUME NEW texts, NEW labels, NEW t \in Radios(texts, labels), NEW m \in BOOLEAN,
           NEW r \in SetMuted(t, m)
    PROVE  /\ r.t \in Radios(texts, labels)
           /\ Seen(r) \in SetVolume(AsTuner(t), m) \/ AsTuner(r.t) = AsTuner(t)
<1> DEFINE set(x) == [x EXCEPT !.muted = m]
<1>1. PICK l \in SetChipVolume(t, m) : r \in IF l.ok THEN Done(set(l.t)) ELSE {l}
  BY DEF SetMuted, Then
<1>2. /\ l.ok \in BOOLEAN /\ l.t \in Radios(texts, labels)
      /\ l.ok => /\ t.booted /\ l.t.booted /\ l.t.loaded = t.loaded
                 /\ AsTuner(l.t) = AsTuner(t)
      /\ ~l.ok => IF t.booted THEN Seen(l) \in Failed(AsTuner(t)) ELSE l = Result(FALSE, t)
  BY SettingChipVolume
<1>3. CASE l.ok
  <2> DEFINE v == set(l.t)
             x == l.t
  <2>1. r.ok = TRUE /\ r.t = v
    BY <1>1, <1>3, DoneIs
  <2>2. v \in Radios(texts, labels)
    BY <1>2 DEF Radios
  <2>3. /\ v.booted = x.booted /\ v.loaded = x.loaded /\ v.chip = x.chip /\ v.index = x.index
        /\ v.played = x.played /\ v.muted = m /\ v.failures = x.failures
    BY <1>2 DEF Radios
  <2> HIDE DEF v
  <2>4. AsTuner(v) = [AsTuner(x) EXCEPT !.muted = m]
    <3>1. AsTuner(v) = TunerState(v.loaded, v.chip.at, v.chip.service, v.index, v.played, v.muted,
                                  v.failures)
      BY <1>2, <1>3, <2>2, <2>3, View
    <3>2. AsTuner(x) = TunerState(x.loaded, x.chip.at, x.chip.service, x.index, x.played, x.muted,
                                  x.failures)
      BY <1>2, <1>3, View
    <3>3. AsTuner(v) = TunerState(x.loaded, x.chip.at, x.chip.service, x.index, x.played, m,
                                  x.failures)
      BY <2>3, <3>1
    <3> QED
      BY <3>2, <3>3 DEF TunerState
  <2>5. Seen(r) \in SetVolume(AsTuner(t), m)
    BY <1>2, <1>3, <2>1, <2>4 DEF Seen, SetVolume, Done
  <2> QED
    BY <2>1, <2>2, <2>5
<1>4. CASE ~l.ok
  <2>1. r = l
    BY <1>1, <1>4
  <2>2. CASE t.booted
    BY <1>2, <1>4, <2>1, <2>2 DEF SetVolume
  <2>3. CASE ~t.booted
    <3>1. r.t = t
      BY <1>2, <1>4, <2>1, <2>3 DEF Result
    <3> QED
      BY <3>1
  <2> QED
    BY <2>2, <2>3
<1> QED
  BY <1>2, <1>3, <1>4

\* TunerService::refreshStatus is a ReadStatus.
LEMMA SeenStatus ==
    ASSUME NEW texts, NEW labels, NEW t \in Radios(texts, labels), NEW r \in Status(t)
    PROVE  r.t \in Radios(texts, labels) /\ Seen(r) \in ReadStatus(AsTuner(t))
<1> DEFINE read == [t EXCEPT !.freq = t.chip.at]
<1>0. AsTuner(t).band = IF t.booted THEN t.loaded ELSE "off"
  BY View DEF TunerState
<1>1. CASE ~t.booted
  <2>1. r = Result(FALSE, t)
    BY <1>1 DEF Status
  <2>2. r.ok = FALSE /\ r.t = t
    BY <2>1 DEF Result
  <2> QED
    BY <1>0, <1>1, <2>2 DEF Seen, ReadStatus
<1>2. CASE t.booted
  <2>0. ReadStatus(AsTuner(t)) = Done(AsTuner(t)) \cup Failed(AsTuner(t))
    <3>1. AsTuner(t).band \in {"dab", "fm"}
      BY <1>0, <1>2 DEF Radios
    <3> QED
      BY <3>1 DEF ReadStatus
  <2>1. \/ r \in Done(t) \/ r \in Failed(t)
        \/ r \in Done(read) /\ t.chip.at \in Frequencies
    BY <1>2 DEF Status
  <2>2. CASE r \in Done(t)
    <3>1. r.ok = TRUE /\ r.t = t
      BY <2>2, DoneIs
    <3> QED
      BY <2>0, <3>1 DEF Seen, Done
  <2>3. CASE r \in Failed(t)
    BY <2>0, <2>3, FailedIs
  <2>4. CASE r \in Done(read) /\ t.chip.at \in Frequencies
    <3>1. r.ok = TRUE /\ r.t = read
      BY <2>4, DoneIs
    <3>2. read \in Radios(texts, labels)
      BY <2>4 DEF Radios
    <3>3. /\ read.booted = t.booted /\ read.loaded = t.loaded /\ read.chip = t.chip
          /\ read.index = t.index /\ read.played = t.played /\ read.muted = t.muted
          /\ read.failures = t.failures
      BY DEF Radios
    <3> HIDE DEF read
    <3>4. AsTuner(read) = AsTuner(t)
      BY <3>3 DEF AsTuner
    <3> QED
      BY <2>0, <3>1, <3>2, <3>4 DEF Seen, Done
  <2> QED
    BY <2>1, <2>2, <2>3, <2>4
<1> QED
  BY <1>1, <1>2

-----------------------------------------------------------------------------
(* The receiver implements the calls of Tuner.                              *)

\* The driver's state, whatever text it holds.
RadioInv == radio \in Radios({NoRds, radio.rds}, {NoDls, radio.dls})

\* What text is held makes no difference.
LEMMA AnyText ==
    ASSUME NEW texts, NEW labels, NEW t \in Radios(texts, labels)
    PROVE  t \in Radios({NoRds, t.rds}, {NoDls, t.dls})
BY DEF Radios

\* Until something is received: a chip that runs, and no text.
LEMMA TunedInitially ==
    ASSUME NEW e \in Ensembles, NEW s \in Services \cup {None}, NEW f \in Frequencies
    PROVE  /\ OnFrequency(f) \in Radios({NoRds}, {NoDls}) /\ OnFrequency(f).failures = 0
           /\ OnService(e, s) \in Radios({NoRds}, {NoDls}) /\ OnService(e, s).failures = 0
<1> DEFINE first == CHOOSE x \in Ensembles : TRUE
           States == [booted : BOOLEAN, loaded : {"dab", "fm"}, fmReady : BOOLEAN,
                      index : Ensembles, freq : Frequencies, muted : BOOLEAN,
                      service : Services \cup {None}, played : Services \cup {None},
                      failures : 0..MaxFailures, chip : Chips, rds : {NoRds}, dls : {NoDls}]
<1>1. first \in Ensembles /\ DefaultFm \in Frequencies /\ 0 \in 0..MaxFailures
  BY TunerAssumption
<1> HIDE DEF first
<1>2. \A i \in {"none", "dab", "fm"}, b \in BOOLEAN : IdleChip(i, b) \in Chips
  BY Zenon DEF IdleChip, Chips
<1>3. /\ IdleChip("fm", TRUE).set = TRUE /\ IdleChip("fm", TRUE).image = "fm"
      /\ IdleChip("dab", TRUE).set = TRUE /\ IdleChip("dab", TRUE).image = "dab"
  BY DEF IdleChip
<1> DEFINE fmChip  == [IdleChip("fm", TRUE) EXCEPT !.at = f]
           dabChip == [IdleChip("dab", TRUE) EXCEPT !.at = e, !.service = s]
<1>4. /\ fmChip \in Chips /\ fmChip.set = TRUE /\ fmChip.image = "fm"
      /\ dabChip \in Chips /\ dabChip.set = TRUE /\ dabChip.image = "dab"
  BY <1>2, <1>3 DEF Chips
<1> HIDE DEF fmChip, dabChip
<1>5. Fresh \in States /\ Fresh.failures = 0 /\ Fresh.loaded = "dab"
  <2>1. Fresh = [booted |-> FALSE, loaded |-> "dab", fmReady |-> FALSE,
                 index |-> first, freq |-> DefaultFm,
                 muted |-> FALSE, service |-> None, played |-> None, failures |-> 0,
                 chip |-> IdleChip("none", FALSE), rds |-> NoRds, dls |-> NoDls]
    BY DEF Fresh, first
  <2>2. Fresh.failures = 0 /\ Fresh.loaded = "dab"
    BY <2>1
  <2>3. IdleChip("none", FALSE) \in Chips /\ FALSE \in BOOLEAN /\ "dab" \in {"dab", "fm"}
        /\ None \in Services \cup {None} /\ NoRds \in {NoRds} /\ NoDls \in {NoDls}
    BY <1>2
  <2> QED
    BY <1>1, <2>1, <2>2, <2>3, Zenon
<1> DEFINE onF == [Fresh EXCEPT !.booted = TRUE, !.loaded = "fm", !.fmReady = TRUE,
                                !.freq = f, !.chip = fmChip]
           onS == [Fresh EXCEPT !.booted = TRUE, !.index = e, !.service = s, !.played = s,
                                !.chip = dabChip]
<1>6. OnFrequency(f) = onF /\ OnService(e, s) = onS
  BY DEF OnFrequency, OnService, fmChip, dabChip
<1>7. /\ onF \in States /\ onF.chip = fmChip /\ onF.loaded = "fm" /\ onF.failures = 0
  BY <1>4, <1>5
<1>8. /\ onS \in States /\ onS.chip = dabChip /\ onS.loaded = "dab" /\ onS.failures = 0
  BY <1>4, <1>5
<1> HIDE DEF onF, onS
<1>9. onF \in Radios({NoRds}, {NoDls}) /\ onS \in Radios({NoRds}, {NoDls})
  BY <1>4, <1>7, <1>8 DEF Radios
<1> QED
  BY <1>6, <1>7, <1>8, <1>9

\* The receiver starts in a state of the driver.
LEMMA RadioInitially == ReceptionInit => RadioInv /\ radio.failures = 0
<1> SUFFICES ASSUME ReceptionInit PROVE RadioInv /\ radio.failures = 0
  OBVIOUS
<1>1. CASE OnFm
  <2>1. PICK f \in Frequencies : radio = OnFrequency(f)
    BY <1>1 DEF ReceptionInit
  <2>2. OnFrequency(f) \in Radios({NoRds}, {NoDls}) /\ OnFrequency(f).failures = 0
    <3>1. PICK e \in Ensembles : TRUE
      BY TunerAssumption
    <3>2. None \in Services \cup {None}
      OBVIOUS
    <3> QED
      BY <3>1, <3>2, TunedInitially
  <2> QED
    BY <2>1, <2>2, AnyText DEF RadioInv
<1>2. CASE ~OnFm
  <2>1. radio \in UNION {{OnService(e, s) : s \in Carried[e]} : e \in Ensembles}
    BY <1>2 DEF ReceptionInit
  <2>2. PICK e \in Ensembles : radio \in {OnService(e, s) : s \in Carried[e]}
    BY <2>1
  <2>3. PICK s \in Carried[e] : radio = OnService(e, s)
    BY <2>2
  <2>4. s \in Services
    BY DEF Services
  <2>5. OnService(e, s) \in Radios({NoRds}, {NoDls}) /\ OnService(e, s).failures = 0
    BY <2>4, TunerAssumption, TunedInitially
  <2> QED
    BY <2>3, <2>5, AnyText DEF RadioInv
<1> QED
  BY <1>1, <1>2

\* Every result of a call of Tuner.
CallsOf(u) ==
    UNION {UNION {TuneDab(u, e) : e \in Ensembles}, FmResults(u),
           UNION {PlayDab(u, s, Level) : s \in Services}, ListDab(u, Level),
           UNION {SetVolume(u, m) : m \in BOOLEAN}, ReadStatus(u)}

\* The tuner as those who call it see it: nothing, or one of their calls.
Steps(u, v) == v = u \/ \E q \in CallsOf(u) : v = q.t

\* A call that gives results of Tuner is a step of Tuner.
LEMMA Called ==
    ASSUME RadioInv, NEW results, NEW tunes, Call(results, tunes),
           \A r \in results :
               /\ r.t \in Radios({NoRds, radio.rds}, {NoDls, radio.dls})
               /\ AsTuner(r.t) = AsTuner(radio) \/ Seen(r) \in CallsOf(AsTuner(radio))
    PROVE  RadioInv' /\ Steps(AsTuner(radio), AsTuner(radio'))
<1>1. PICK r \in results : radio' = r.t
  BY DEF Call
<1>2. r.t \in Radios({NoRds, r.t.rds}, {NoDls, r.t.dls})
  BY AnyText
<1>3. RadioInv'
  BY <1>1, <1>2 DEF RadioInv
<1>4. Seen(r).t = AsTuner(r.t)
  BY SeenFields
<1> QED
  BY <1>1, <1>3, <1>4 DEF Steps

\* No step of the receiver leaves the states of the driver, and each is seen as
\* a call of Tuner, or not seen.
LEMMA RadioSteps ==
    ASSUME RadioInv, kind \in Kinds, [ReceptionNext]_receptionVars
    PROVE  RadioInv' /\ Steps(AsTuner(radio), AsTuner(radio'))
<1> DEFINE texts  == {NoRds, radio.rds}
           labels == {NoDls, radio.dls}
           u == AsTuner(radio)
<1>0. radio \in Radios(texts, labels) /\ NoRds \in texts /\ NoDls \in labels
  BY DEF RadioInv
<1> HIDE DEF texts, labels, u
<1>1. CASE TunePost
  <2>1. ASSUME NEW e \in Ensembles, Call(TuneEnsemble(radio, e), TRUE)
        PROVE  RadioInv' /\ Steps(u, AsTuner(radio'))
    <3>1. \A r \in TuneEnsemble(radio, e) : r.t \in Radios(texts, labels) /\ Seen(r) \in TuneDab(u, e)
      BY <1>0, SeenTuneEnsemble DEF u
    <3>2. TuneDab(u, e) \subseteq CallsOf(u)
      BY DEF CallsOf
    <3> QED
      BY <2>1, <3>1, <3>2, Called DEF texts, labels, u
  <2>2. ASSUME NEW f \in Frequencies, Call(TuneFrequency(radio, f), TRUE)
        PROVE  RadioInv' /\ Steps(u, AsTuner(radio'))
    <3>1. \A r \in TuneFrequency(radio, f) : r.t \in Radios(texts, labels) /\ Seen(r) \in FmResults(u)
      BY <1>0, SeenTuneFrequency DEF u
    <3>2. FmResults(u) \subseteq CallsOf(u)
      BY DEF CallsOf
    <3> QED
      BY <2>2, <3>1, <3>2, Called DEF texts, labels, u
  <2> QED
    BY <1>1, <2>1, <2>2 DEF TunePost, u
<1>2. CASE SeekPost
  <2>1. PICK up \in BOOLEAN : Call(Seek(radio, up), TRUE)
    BY <1>2 DEF SeekPost
  <2>2. \A r \in Seek(radio, up) : r.t \in Radios(texts, labels) /\ Seen(r) \in FmResults(u)
    BY <1>0, SeenSeek DEF u
  <2>3. FmResults(u) \subseteq CallsOf(u)
    BY DEF CallsOf
  <2> QED
    BY <2>1, <2>2, <2>3, Called DEF texts, labels, u
<1>3. CASE PlayPost
  <2>1. PICK s \in Services : Call(Play(radio, s, Level), TRUE)
    BY <1>3 DEF PlayPost
  <2>2. \A r \in Play(radio, s, Level) : r.t \in Radios(texts, labels) /\ Seen(r) \in PlayDab(u, s, Level)
    BY <1>0, SeenPlay DEF u
  <2>3. PlayDab(u, s, Level) \subseteq CallsOf(u)
    BY DEF CallsOf
  <2> QED
    BY <2>1, <2>2, <2>3, Called DEF texts, labels, u
<1>4. CASE ServicesGet
  <2>1. \A r \in List(radio, Level) : r.t \in Radios(texts, labels) /\ Seen(r) \in ListDab(u, Level)
    BY <1>0, SeenList DEF u
  <2>2. ListDab(u, Level) \subseteq CallsOf(u)
    BY DEF CallsOf
  <2> QED
    BY <1>4, <2>1, <2>2, Called DEF ServicesGet, texts, labels, u
<1>5. CASE StatusGet
  <2>1. \A r \in Status(radio) : r.t \in Radios(texts, labels) /\ Seen(r) \in ReadStatus(u)
    BY <1>0, SeenStatus DEF u
  <2>2. ReadStatus(u) \subseteq CallsOf(u)
    BY DEF CallsOf
  <2> QED
    BY <1>5, <2>1, <2>2, Called DEF StatusGet, texts, labels, u
<1>6. CASE SetVolumeOf
  <2>1. PICK m \in BOOLEAN : Call(SetMuted(radio, m), FALSE)
    BY <1>6 DEF SetVolumeOf
  <2>2. \A r \in SetMuted(radio, m) :
           /\ r.t \in Radios(texts, labels)
           /\ Seen(r) \in SetVolume(u, m) \/ AsTuner(r.t) = u
    BY <1>0, SeenSetMuted DEF u
  <2>3. SetVolume(u, m) \subseteq CallsOf(u)
    BY DEF CallsOf
  <2> QED
    BY <2>1, <2>2, <2>3, Called DEF texts, labels, u
<1>7. ASSUME NEW g, NEW d,
             radio' \in {radio, [radio EXCEPT !.rds = g], [radio EXCEPT !.dls = d]}
      PROVE  RadioInv' /\ Steps(u, AsTuner(radio'))
  <2>1. /\ radio'.booted = radio.booted /\ radio'.loaded = radio.loaded /\ radio'.chip = radio.chip
        /\ radio'.index = radio.index /\ radio'.played = radio.played
        /\ radio'.muted = radio.muted /\ radio'.failures = radio.failures
    BY <1>0, <1>7 DEF Radios
  <2>2. radio' \in Radios(texts \cup {g}, labels \cup {d})
    BY <1>0, <1>7 DEF Radios
  <2>3. RadioInv'
    BY <2>2, AnyText DEF RadioInv
  <2>4. AsTuner(radio') = AsTuner(radio)
    BY <2>1 DEF AsTuner
  <2> QED
    BY <2>3, <2>4 DEF Steps, u
<1>8. ASSUME NEW p, Take(p) PROVE RadioInv' /\ Steps(u, AsTuner(radio'))
  <2>1. \/ radio' = [radio EXCEPT !.rds = ApplyGroup(@, p)]
        \/ radio' = [radio EXCEPT !.dls = ApplyDls(@, p)]
        \/ radio' = radio
    BY <1>8, ReceptionAssumption DEF Take, OnFm
  <2> QED
    BY <1>7, <2>1

<1>9. CASE Receive
  BY <1>8, <1>9 DEF Receive, u
<1>10. CASE Corrupt
  <2>1. PICK g \in Corrupted(Packet) : Take(g)
    BY <1>10 DEF Corrupt
  <2> QED
    BY <1>8, <2>1 DEF u
<1>11. CASE Lose \/ FlashFails \/ Change \/ Watch \/ UNCHANGED receptionVars
  <2>1. radio' = radio
    BY <1>11 DEF Lose, FlashFails, Change, Watch, receptionVars
  <2> QED
    BY <1>7, <2>1 DEF u
<1> QED
  BY <1>1, <1>2, <1>3, <1>4, <1>5, <1>6, <1>9, <1>10, <1>11 DEF ReceptionNext

-----------------------------------------------------------------------------
(* The refinement.                                                          *)

\* The calls that TunerCalls names are those of Tuner: what they are made of.
LEMMA SameCommands ==
    ASSUME NEW u
    PROVE  /\ Calls!Done(u) = Done(u) /\ Calls!Failed(u) = Failed(u)
           /\ \A ok : Calls!Result(ok, u) = Result(ok, u)
BY DEF Calls!Done, Calls!Failed, Calls!Result, Done, Failed, Result

\* The calls that TunerCalls names are those of Tuner: the image of a band.
LEMMA SameLoad ==
    ASSUME NEW u, NEW band
    PROVE  Calls!Load(u, band) = Load(u, band)
BY SameCommands DEF Calls!Load, Load

\* The same for the tunes.
LEMMA SameTunes ==
    ASSUME NEW u
    PROVE  /\ \A e \in Ensembles : Calls!TuneDab(u, e) = TuneDab(u, e)
           /\ \A f \in Frequencies : Calls!TuneFm(u, f) = TuneFm(u, f)
<1>1. ASSUME NEW e \in Ensembles PROVE Calls!TuneDab(u, e) = TuneDab(u, e)
  BY SameLoad DEF Calls!TuneDab, TuneDab, Calls!Then, Then, Calls!Done, Calls!Failed,
                  Calls!Result, Done, Failed, Result
<1>2. ASSUME NEW f \in Frequencies PROVE Calls!TuneFm(u, f) = TuneFm(u, f)
  BY SameLoad DEF Calls!TuneFm, TuneFm, Calls!Then, Then, Calls!Done, Calls!Failed,
                  Calls!Result, Done, Failed, Result
<1> QED
  BY <1>1, <1>2

\* The same for the services.
LEMMA SamePlays ==
    ASSUME NEW u
    PROVE  /\ \A s \in Services : Calls!PlayDab(u, s, Level) = PlayDab(u, s, Level)
           /\ Calls!ListDab(u, Level) = ListDab(u, Level)
<1>1. ASSUME NEW s \in Services PROVE Calls!PlayDab(u, s, Level) = PlayDab(u, s, Level)
  BY SameLoad DEF Calls!PlayDab, PlayDab, Calls!Then, Then, Calls!Done, Calls!Failed,
                  Calls!Result, Done, Failed, Result, Calls!Receives, Receives
<1>2. Calls!ListDab(u, Level) = ListDab(u, Level)
  BY SameLoad DEF Calls!ListDab, ListDab, Calls!Then, Then, Calls!Done, Calls!Failed,
                  Calls!Result, Done, Failed, Result
<1> QED
  BY <1>1, <1>2

\* The same for all of the calls.
LEMMA SameCalls == Calls!Calls = CallsOf(AsTuner(radio))
<1> DEFINE u == AsTuner(radio)
<1>1. Calls!Services = Services
  BY DEF Calls!Services, Services
<1>2. UNION {Calls!TuneDab(u, e) : e \in Ensembles} = UNION {TuneDab(u, e) : e \in Ensembles}
  BY SameTunes
<1>3. UNION {Calls!TuneFm(u, f) : f \in Frequencies} = FmResults(u)
  BY SameTunes DEF FmResults
<1>4. UNION {Calls!PlayDab(u, s, Level) : s \in Calls!Services}
        = UNION {PlayDab(u, s, Level) : s \in Services}
  BY <1>1, SamePlays
<1>5. \A m \in BOOLEAN : Calls!SetVolume(u, m) = SetVolume(u, m)
  BY SameCommands DEF Calls!SetVolume, SetVolume, Calls!Done, Calls!Failed, Calls!Result, Done,
                      Failed, Result
<1>6. Calls!ReadStatus(u) = ReadStatus(u)
  BY SameCommands DEF Calls!ReadStatus, ReadStatus
<1>7. UNION {Calls!SetVolume(u, m) : m \in BOOLEAN} = UNION {SetVolume(u, m) : m \in BOOLEAN}
  BY <1>5
<1> QED
  BY <1>2, <1>3, <1>4, <1>6, <1>7, SamePlays DEF Calls!Calls, CallsOf, u

\* The first state of the receiver is one of Tuner.
LEMMA CallsInitially == ASSUME RadioInv, radio.failures = 0 PROVE Calls!Init
<1> DEFINE u == AsTuner(radio)
           texts == {NoRds, radio.rds}
           labels == {NoDls, radio.dls}
<1>1. radio \in Radios(texts, labels)
  BY DEF RadioInv
<1> HIDE DEF texts, labels
<1>2. u = IF radio.booted
          THEN TunerState(radio.loaded, radio.chip.at, radio.chip.service, radio.index,
                          radio.played, radio.muted, radio.failures)
          ELSE TunerState("off", None, None, radio.index, radio.played, radio.muted,
                          radio.failures)
  BY <1>1, View
<1>3. /\ radio.loaded \in {"dab", "fm"} /\ radio.index \in Ensembles /\ radio.muted \in BOOLEAN
      /\ radio.played \in Services \cup {None} /\ radio.failures \in 0..MaxFailures
      /\ radio.chip \in Chips
  BY <1>1 DEF Radios
<1>4. /\ radio.chip.at \in Ensembles \cup Frequencies \cup {None}
      /\ radio.chip.service \in Services \cup {None}
  BY <1>3 DEF Chips
<1>5. \A band \in {"off", "dab", "fm"}, at \in Ensembles \cup Frequencies \cup {None},
         service \in Services \cup {None} :
         TunerState(band, at, service, radio.index, radio.played, radio.muted, radio.failures)
            \in TunerStates
  BY <1>3, Zenon DEF TunerState, TunerStates
<1>6. u \in TunerStates
  BY <1>2, <1>3, <1>4, <1>5
<1>7. u.failures = radio.failures
  BY DEF AsTuner
<1>8. Calls!TunerStates = TunerStates
  BY DEF Calls!TunerStates, TunerStates, Calls!Services, Services
<1> QED
  BY <1>6, <1>7, <1>8 DEF Calls!Init, u

-----------------------------------------------------------------------------
(* The invariant.                                                           *)

\* The flags of the driver tell the truth, what the stations send grows, and the
\* slide on show and the one under way are what one service sent.
OnAirInv ==
    /\ RadioInv
    /\ kind \in Kinds /\ pos \in Nat
    /\ version \in [Stations -> 0..MaxVersion]
    /\ slides \in Assemblers /\ Whole(slides, version)

\* What is heard is a service, of which the station sends.
LEMMA HeardService ==
    ASSUME OnAirInv, kind = "slide", Heard # None
    PROVE  Heard \in Services
<1>1. ~OnFm
  BY DEF OnFm
<1>2. radio.loaded = "dab" /\ radio.chip \in Chips
  <2>1. radio.loaded # "fm"
    BY <1>1 DEF Heard
  <2>2. radio.loaded \in {"dab", "fm"} /\ radio.chip \in Chips
    BY DEF OnAirInv, RadioInv, Radios
  <2> QED
    BY <2>1, <2>2
<1>3. Heard \in {None, radio.chip.service}
  BY <1>1, <1>2 DEF Heard, Source
<1>4. radio.chip.service \in Services \cup {None}
  BY <1>2 DEF Chips
<1> QED
  BY <1>3, <1>4

\* A sequence given by its elements.
LEMMA LengthOf ==
    ASSUME NEW n \in Nat, NEW T, NEW c \in [1..n -> T]
    PROVE  Len(c) = n
<1>1. c \in Seq(T)
  OBVIOUS
<1> QED
  BY <1>1

\* The carousel of a slide: its header and its segments.
LEMMA SlideCarousel ==
    ASSUME NEW s, kind = "slide", SizeOf(s) \in Nat
    PROVE  /\ Len(Carousel(s)) = SizeOf(s) + 1
           /\ \A i \in 1..SizeOf(s) + 1 :
                 Carousel(s)[i] = IF i = 1 THEN DataGroup(s, "header", 0)
                                  ELSE DataGroup(s, "body", i - 2)
<1> DEFINE n == SizeOf(s) + 1
           c == [i \in 1..n |-> IF i = 1 THEN DataGroup(s, "header", 0)
                                ELSE DataGroup(s, "body", i - 2)]
           T == {c[i] : i \in 1..n}
<1>1. Carousel(s) = c
  BY DEF Carousel
<1>2. c \in [1..n -> T]
  OBVIOUS
<1>3. n \in Nat
  OBVIOUS
<1>4. Len(c) = n
  <2> HIDE DEF c, n, T
  <2> QED
    BY <1>2, <1>3, LengthOf
<1> QED
  BY <1>1, <1>4

\* What a service that is heard sends: an object, with segments.
LEMMA HeardObject ==
    ASSUME OnAirInv, kind = "slide", Heard # None
    PROVE  /\ Heard \in Services /\ version[Heard] \in 0..MaxVersion /\ version[Heard] \in Nat
           /\ SizeOf(Heard) \in Nat /\ SizeOf(Heard) > 0
           /\ SizeOf(Heard) = Sizes[version[Heard] + 1]
<1>1. Heard \in Services
  BY HeardService
<1>2. version[Heard] \in 0..MaxVersion /\ version[Heard] \in Nat
  BY <1>1, ReceptionAssumption DEF OnAirInv, Stations
<1> QED
  BY <1>1, <1>2, SizeOfObject DEF SizeOf

\* A carousel is never empty.
LEMMA CarouselTurns ==
    ASSUME OnAirInv, Heard # None
    PROVE  Len(Carousel(Heard)) \in Nat \ {0}
<1>1. CASE kind = "name"
  BY <1>1 DEF Carousel
<1>2. CASE kind = "radiotext"
  BY <1>2 DEF Carousel
<1>3. CASE kind = "label"
  BY <1>3 DEF Carousel
<1>4. CASE kind = "slide"
  BY <1>4, HeardObject, SlideCarousel
<1> QED
  BY <1>1, <1>2, <1>3, <1>4, ReceptionAssumption DEF OnAirInv

\* A data group that is received is one of the object that its service sends.
LEMMA PacketFits ==
    ASSUME OnAirInv, kind = "slide", Heard # None
    PROVE  Fits(Packet, version)
<1> DEFINE s == Heard
           n == SizeOf(s)
           i == (pos % (n + 1)) + 1
<1>1. s \in Services /\ version[s] \in 0..MaxVersion /\ version[s] \in Nat
  BY HeardObject
<1>2. n \in Nat /\ n > 0 /\ n = Sizes[version[s] + 1]
  BY HeardObject
<1>3. /\ Len(Carousel(s)) = n + 1
      /\ \A j \in 1..n + 1 : Carousel(s)[j] = IF j = 1 THEN DataGroup(s, "header", 0)
                                              ELSE DataGroup(s, "body", j - 2)
  BY <1>2, SlideCarousel
<1> HIDE DEF s, n
<1>4. i \in 1..n + 1
  BY <1>2 DEF OnAirInv
<1>5. Packet = Carousel(s)[i]
  BY <1>3 DEF Packet, s
<1>6. Packet = IF i = 1 THEN DataGroup(s, "header", 0) ELSE DataGroup(s, "body", i - 2)
  <2> HIDE DEF i
  <2> QED
    BY <1>3, <1>4, <1>5
<1>7. ASSUME NEW type \in {"header", "body"}, NEW part \in 0..n - 1
      PROVE  Fits(DataGroup(s, type, part), version)
  <2> DEFINE g == DataGroup(s, type, part)
  <2>1. /\ g.service = s /\ g.type = type /\ g.id = version[s] /\ g.object = <<s, version[s]>>
        /\ g.size = n /\ g.part = part /\ g.last = (part = n - 1)
    BY DEF DataGroup, Sent, n
  <2> HIDE DEF g
  <2>2. g.last \in BOOLEAN
    BY <2>1
  <2> QED
    BY <1>1, <1>2, <2>1, <2>2 DEF Fits, g
<1>8. CASE i = 1
  <2>1. 0 \in 0..n - 1
    BY <1>2
  <2> QED
    BY <1>6, <1>7, <1>8, <2>1
<1>9. CASE i # 1
  <2>1. i - 2 \in 0..n - 1
    BY <1>2, <1>4, <1>9
  <2> QED
    BY <1>6, <1>7, <1>9, <2>1
<1> QED
  BY <1>8, <1>9

\* A station that goes on to its next slide sent those before.
LEMMA SentStays ==
    ASSUME NEW a \in Assemblers, NEW sent, NEW more, Whole(a, sent),
           \A s \in Services : sent[s] \in Nat /\ more[s] \in Nat /\ sent[s] <= more[s]
    PROVE  Whole(a, more)
<1>1. \A s \in Services : 0..sent[s] \subseteq 0..more[s]
  OBVIOUS
<1>2. ShownWhole(a, more)
  BY <1>1 DEF Whole, ShownWhole
<1>3. BegunWhole(a, more)
  BY <1>1 DEF Whole, BegunWhole
<1> QED
  BY <1>2, <1>3 DEF Whole

\* The invariant holds when a station was just tuned.
LEMMA OnAirInitially == ReceptionInit => OnAirInv
<1> SUFFICES ASSUME ReceptionInit PROVE OnAirInv
  OBVIOUS
<1>1. slides \in Assemblers /\ Whole(slides, version)
  <2> DEFINE blank == [s \in 0..Slots - 1 |-> [u \in 0..Units - 1 |-> Spoilt]]
  <2>1. blank \in [0..Slots - 1 -> [0..Units - 1 -> Cells]]
    <3>1. Spoilt \in Cells
      BY Zenon DEF Cells
    <3> QED
      BY <3>1
  <2>2. slides = [service |-> Unset, id |-> Unset, shownId |-> Unset, size |-> 0,
                  last |-> Unset, received |-> {}, writing |-> 1, shown |-> 0,
                  erased |-> {}, picture |-> Unset, flash |-> blank]
    BY DEF ReceptionInit, NoSlide
  <2> HIDE DEF blank
  <2>3. 0 \in 0..Slots - 1 /\ 1 \in 0..Slots - 1
    BY SlideshowAssumption
  <2>4. slides \in Assemblers
    BY <2>1, <2>2, <2>3 DEF Assemblers
  <2>5. slides.picture = Unset /\ slides.id = Unset
    BY <2>2
  <2> QED
    BY <2>4, <2>5 DEF Whole, ShownWhole, BegunWhole
<1>2. version \in [Stations -> 0..MaxVersion] /\ pos \in Nat /\ kind \in Kinds
  BY ReceptionAssumption DEF ReceptionInit
<1> QED
  BY <1>1, <1>2, RadioInitially DEF OnAirInv

\* What the drain does to the slides: nothing, or what a data group does.
LEMMA SlidesTaken ==
    ASSUME OnAirInv, Heard # None, NEW p, Take(p), kind = "slide" => p = Packet
    PROVE  slides' \in Assemblers /\ Whole(slides', version)
<1>1. slides' = slides \/ (kind = "slide" /\ slides' = ApplyMot(slides, p))
  BY ReceptionAssumption DEF Take, OnFm, OnAirInv
<1> QED
  BY <1>1, PacketFits, Applying DEF OnAirInv

\* Every step keeps the invariant.
LEMMA SlideStep ==
    ASSUME OnAirInv, [ReceptionNext]_receptionVars
    PROVE  OnAirInv'
<1>0. RadioInv' /\ kind' = kind /\ kind \in Kinds
  <2>1. kind' = kind
    BY DEF ReceptionNext, receptionVars, TunePost, SeekPost, PlayPost, ServicesGet, StatusGet,
           SetVolumeOf, Call, Receive, Lose, Corrupt, FlashFails, Change, Watch
  <2> QED
    BY <2>1, RadioSteps DEF OnAirInv
<1>1. ASSUME UNCHANGED <<slides, version>>, pos' \in Nat PROVE OnAirInv'
  BY <1>0, <1>1 DEF OnAirInv
<1>2. ASSUME Pass PROVE Heard # None /\ pos' \in Nat
  <2>1. Heard # None /\ pos' = (pos + 1) % Len(Carousel(Heard))
    BY <1>2 DEF Pass
  <2>2. Len(Carousel(Heard)) \in Nat \ {0}
    BY <2>1, CarouselTurns
  <2> QED
    BY <2>1, <2>2 DEF OnAirInv
<1>3. CASE TunePost \/ SeekPost \/ PlayPost \/ ServicesGet \/ StatusGet \/ SetVolumeOf \/ Watch
           \/ UNCHANGED receptionVars
  <2>1. UNCHANGED <<slides, version>> /\ pos' = pos
    BY <1>3 DEF TunePost, SeekPost, PlayPost, ServicesGet, StatusGet, SetVolumeOf, Call, Watch,
                receptionVars
  <2> QED
    BY <1>1, <2>1 DEF OnAirInv
<1>4. CASE Receive
  <2>1. Take(Packet) /\ version' = version /\ Pass
    BY <1>4 DEF Receive, Drain
  <2> QED
    BY <1>0, <1>2, <2>1, SlidesTaken DEF OnAirInv
<1>5. CASE Corrupt
  <2>1. PICK g \in Corrupted(Packet) : Take(g)
    BY <1>5 DEF Corrupt
  <2>2. kind # "slide" /\ version' = version /\ Pass
    BY <1>5 DEF Corrupt, OnFm
  <2> QED
    BY <1>0, <1>2, <2>1, <2>2, SlidesTaken DEF OnAirInv
<1>6. CASE Lose
  BY <1>1, <1>2, <1>6 DEF Lose
<1>7. CASE FlashFails
  <2>1. slides' \in ApplyMotFails(slides, Packet) /\ version' = version /\ Pass /\ kind = "slide"
    BY <1>7 DEF FlashFails
  <2>2. slides' \in Assemblers /\ Whole(slides', version)
    BY <1>2, <2>1, PacketFits, Applying DEF OnAirInv
  <2> QED
    BY <1>0, <1>2, <2>1, <2>2 DEF OnAirInv
<1>8. CASE Change
  <2>1. /\ version[Heard] < MaxVersion /\ pos' = 0 /\ slides' = slides
        /\ version' = [version EXCEPT ![Heard] = @ + 1]
    BY <1>8 DEF Change
  <2>2. version \in [Stations -> 0..MaxVersion] /\ Services \subseteq Stations
    BY DEF OnAirInv, Stations
  <2>3. version' \in [Stations -> 0..MaxVersion]
    <3>1. Heard \in Stations => version[Heard] + 1 \in 0..MaxVersion
      BY <2>1, <2>2, ReceptionAssumption
    <3> QED
      BY <2>1, <2>2, <3>1
  <2>4. \A s \in Services : version[s] \in Nat /\ version'[s] \in Nat /\ version[s] <= version'[s]
    BY <2>1, <2>2, <2>3, ReceptionAssumption
  <2>5. Whole(slides, version')
    BY <2>4, SentStays DEF OnAirInv
  <2> QED
    BY <1>0, <2>1, <2>3, <2>5 DEF OnAirInv
<1> QED
  BY <1>3, <1>4, <1>5, <1>6, <1>7, <1>8 DEF ReceptionNext

\* Whatever is called, lost or failing: what booted_ and loadedBand_ say of the
\* chip is true, and the slots of FlashSlideStore hold what the assembler
\* believes: whole on show, and as far as it was received in the one written.
THEOREM ReceptionInvariant == ReceptionSpec => []OnAirInv
<1>1. OnAirInv /\ [ReceptionNext]_receptionVars => OnAirInv'
  BY SlideStep
<1> QED
  BY <1>1, OnAirInitially, PTL DEF ReceptionSpec

\* GET /api/tuner/slide never reads half a slide, or parts of two, for slides and
\* sectors of any size: MotSlideAssembler and FlashSlideStore keep the object on
\* show whole while the next is received, writes fail and services change.
THEOREM ShownSlideIsWhole == ReceptionSpec => []SlideIsWhole
<1>1. OnAirInv => SlideIsWhole
  <2> SUFFICES ASSUME OnAirInv, slides.picture # Unset
               PROVE  \E v \in 0..version[slides.service] :
                         /\ slides.picture = Sizes[v + 1]
                         /\ Reading(slides) = [u \in 0..Sizes[v + 1] - 1 |->
                                                  << <<slides.service, v>>, u>>]
    BY DEF SlideIsWhole
  <2>1. PICK v \in 0..version[slides.service] :
           /\ slides.picture = Sizes[v + 1]
           /\ \A u \in 0..slides.picture - 1 :
                 slides.flash[slides.shown][u] = << <<slides.service, v>>, u>>
    BY DEF OnAirInv, Whole, ShownWhole
  <2> QED
    BY <2>1 DEF Reading
<1> QED
  BY <1>1, ReceptionInvariant, PTL

\* Si4684Driver, Si4684Tuner and TunerService do what TunerCalls says, which is
\* what Following assumes of them: however far a boot, a tune or a start came
\* before it failed, a call is seen from outside as one that Tuner allows.
THEOREM DriverActsAsTuner == ReceptionSpec => ActsAsTuner
<1>1. ReceptionInit => Calls!Init
  BY RadioInitially, CallsInitially
<1>2. OnAirInv /\ [ReceptionNext]_receptionVars => [Calls!Next]_(AsTuner(radio))
  <2> SUFFICES ASSUME OnAirInv, [ReceptionNext]_receptionVars
               PROVE  Calls!Next \/ AsTuner(radio)' = AsTuner(radio)
    OBVIOUS
  <2>1. Steps(AsTuner(radio), AsTuner(radio'))
    BY RadioSteps DEF OnAirInv
  <2>2. AsTuner(radio)' = AsTuner(radio')
    BY DEF AsTuner
  <2> QED
    BY <2>1, <2>2, SameCalls DEF Steps, Calls!Next
<1> QED
  BY <1>1, <1>2, ReceptionInvariant, PTL DEF ReceptionSpec, ActsAsTuner, Calls!Spec

-----------------------------------------------------------------------------
(* What is on show: texts of what is on the air.                            *)

\* A failure that is seen was counted.
LEMMA CountedIs ==
    ASSUME NEW t, NEW r, Counted(AsTuner(t), Seen(r)), ~r.ok, AsTuner(t) \in Fit
    PROVE  r.t.failures # t.failures
<1>0. \A u : AsTuner(u).failures = u.failures
  BY DEF AsTuner
<1>1. Seen(r).t.failures = r.t.failures /\ AsTuner(t).failures = t.failures /\ ~Seen(r).ok
  BY SeenFields, <1>0
<1>2. t.failures \in Nat /\ r.t.failures \in Nat
  BY <1>1, TunerAssumption DEF Counted, Lasting, Fit, TunerStates
<1> QED
  BY <1>1, <1>2 DEF Counted

\* The tuner that the driver is seen as is on a frequency or ensemble of its band.
FitInv == AsTuner(radio) \in Fit

\* No call of TunerService leaves those.
LEMMA StepsFit ==
    ASSUME NEW u \in Fit, NEW v, Steps(u, v)
    PROVE  v \in Fit
<1>1. CASE v = u
  BY <1>1
<1>2. ASSUME NEW q \in CallsOf(u), v = q.t PROVE v \in Fit
  <2>1. CASE \E e \in Ensembles : q \in TuneDab(u, e)
    BY <1>2, <2>1, TuningDab DEF Counted, Lasting
  <2>2. CASE q \in FmResults(u)
    <3>1. PICK f \in Frequencies : q \in TuneFm(u, f)
      BY <2>2 DEF FmResults
    <3> QED
      BY <1>2, <3>1, TuningFm DEF Counted, Lasting
  <2>3. CASE \E s \in Services : q \in PlayDab(u, s, Level)
    BY <1>2, <2>3, Playing DEF Counted, Lasting
  <2>4. CASE q \in ListDab(u, Level)
    BY <1>2, <2>4, Listing DEF Counted, Lasting
  <2>5. CASE \E m \in BOOLEAN : q \in SetVolume(u, m)
    BY <1>2, <2>5, SettingVolume DEF Counted, Lasting
  <2>6. CASE q \in ReadStatus(u)
    BY <1>2, <2>6, ReadingStatus DEF Counted, Lasting
  <2> QED
    BY <1>2, <2>1, <2>2, <2>3, <2>4, <2>5, <2>6 DEF CallsOf
<1> QED
  BY <1>1, <1>2 DEF Steps

\* After a call that chose what is heard, or loaded another band, nothing is left of
\* the text before.
Renewed(u) ==
    /\ u.booted
    /\ u.loaded = "fm" => u.rds = NoRds
    /\ u.loaded = "dab" => u.dls = NoDls

\* A call that leaves what is heard, and its text, alone.
SameText(t, u) ==
    /\ u.booted = t.booted /\ u.loaded = t.loaded /\ u.chip.at = t.chip.at
    /\ u.chip.service = t.chip.service /\ u.rds = t.rds /\ u.dls = t.dls

\* The DAB image, once loaded, starts without a label.
LEMMA LoadedWithoutLabel ==
    ASSUME NEW texts, NEW labels, NoRds \in texts, NoDls \in labels,
           NEW t \in Radios(texts, labels), NEW r \in EnsureBandLoaded(t, "dab"), r.ok
    PROVE  r.t = t \/ r.t.dls = NoDls
<1> DEFINE tail(v) == Then(SetChipVolume(v, v.muted), LAMBDA w : Enter(w, "dab"))
<1>1. CASE r \in Done(t)
  BY <1>1, DoneIs
<1>2. CASE ~OnBand(t, "dab")
  <2>1. EnsureBandLoaded(t, "dab") = Then(UNION {Boot(x, "dab") : x \in LeaveDab(t, "dab")}, tail)
    BY <1>2 DEF EnsureBandLoaded, OnBand
  <2>2. PICK l \in UNION {Boot(x, "dab") : x \in LeaveDab(t, "dab")} :
               r \in IF l.ok THEN tail(l.t) ELSE {l}
    BY <2>1 DEF Then
  <2>3. PICK x \in LeaveDab(t, "dab") : l \in Boot(x, "dab")
    BY <2>2
  <2>4. x \in Radios(texts, labels) /\ ~(x.booted /\ x.loaded = "dab")
    BY <1>2, <2>3, Leaving DEF OnBand
  <2>5. l.t \in Radios(texts, labels)
    BY <2>3, <2>4, Booting
  <2>6. r \in tail(l.t)
    BY <2>2
  <2>7. PICK k \in SetChipVolume(l.t, l.t.muted) : r \in IF k.ok THEN Enter(k.t, "dab") ELSE {k}
    BY <2>6 DEF Then
  <2>8. k.t \in Radios(texts, labels)
    <3>1. l.t.muted \in BOOLEAN
      BY <2>5 DEF Radios
    <3> QED
      BY <2>5, <2>7, <3>1, SettingChipVolume
  <2> DEFINE d == [k.t EXCEPT !.fmReady = FALSE, !.dls = NoDls, !.service = None]
  <2>9. r \in Done(d)
    BY <2>7 DEF Enter
  <2>10. d.dls = NoDls
    BY <2>8 DEF Radios
  <2> QED
    BY <2>9, <2>10, DoneIs
<1> QED
  BY <1>1, <1>2 DEF EnsureBandLoaded, OnBand

\* A tune that worked leaves no label; one that did not was counted.
LEMMA TunedEnsembleText ==
    ASSUME NEW texts, NEW labels, NoRds \in texts, NoDls \in labels,
           NEW t \in Radios(texts, labels), NEW e \in Ensembles, NEW r \in TuneEnsemble(t, e),
           AsTuner(t) \in Fit
    PROVE  IF r.ok THEN Renewed(r.t) ELSE r.t.failures # t.failures
<1> DEFINE moved(x) == [x EXCEPT !.chip.at = e, !.chip.service = None]
           tuned(x) == [moved(x) EXCEPT !.index = e, !.dls = NoDls, !.service = None, !.played = None]
<1>1. PICK l \in EnsureBandLoaded(t, "dab") :
         r \in IF l.ok THEN Done(tuned(l.t)) \cup Unanswered(l.t, moved(l.t)) ELSE {l}
  BY DEF TuneEnsemble, Then
<1>2. l.t \in Radios(texts, labels) /\ (l.ok => OnBand(l.t, "dab"))
  BY LoadingBand
<1>3. ASSUME l.ok, r \in Done(tuned(l.t)) PROVE Renewed(r.t)
  <2>1. r.t = tuned(l.t)
    BY <1>3, DoneIs
  <2>2. moved(l.t) \in [DOMAIN l.t -> {moved(l.t)[k] : k \in DOMAIN l.t}]
        /\ moved(l.t).booted = l.t.booted /\ moved(l.t).loaded = l.t.loaded
    BY <1>2 DEF Radios
  <2>3. tuned(l.t).booted = l.t.booted /\ tuned(l.t).loaded = l.t.loaded /\ tuned(l.t).dls = NoDls
    BY <1>2 DEF Radios
  <2> QED
    BY <1>2, <1>3, <2>1, <2>3 DEF Renewed, OnBand
<1>4. r.ok => l.ok /\ r \in Done(tuned(l.t))
  <2>1. \A q \in Unanswered(l.t, moved(l.t)) : q.ok = FALSE
    BY DEF Unanswered, Failed, Result
  <2> QED
    BY <1>1, <2>1
<1>5. ~r.ok => r.t.failures # t.failures
  <2>1. Seen(r) \in TuneDab(AsTuner(t), e)
    BY SeenTuneEnsemble
  <2>2. Counted(AsTuner(t), Seen(r))
    BY <2>1, TuningDab
  <2> QED
    BY <2>2, CountedIs
<1> QED
  BY <1>3, <1>4, <1>5

\* A call of FM that failed is counted.
LEMMA FmCounted ==
    ASSUME NEW u \in Fit, NEW q \in FmResults(u)
    PROVE  Counted(u, q)
<1>1. PICK f \in Frequencies : q \in TuneFm(u, f)
  BY DEF FmResults
<1> QED
  BY <1>1, TuningFm

\* A tune that worked leaves no name and no radiotext.
LEMMA TunedFrequencyText ==
    ASSUME NEW texts, NEW labels, NoRds \in texts, NoDls \in labels,
           NEW t \in Radios(texts, labels), NEW f \in Frequencies, NEW r \in TuneFrequency(t, f), r.ok
    PROVE  Renewed(r.t)
<1> DEFINE tune(v) == Then(TuneChipFm(v, f), LAMBDA w : Done([w EXCEPT !.freq = f, !.rds = NoRds]))
<1>1. PICK l \in EnsureBandLoaded(t, "fm") : r \in IF l.ok THEN tune(l.t) ELSE {l}
  <2>1. TuneFrequency(t, f) = Then(EnsureBandLoaded(t, "fm"), tune)
    BY DEF TuneFrequency
  <2> QED
    BY <2>1 DEF Then
<1>2. l.ok /\ l.t \in Radios(texts, labels) /\ OnBand(l.t, "fm")
  <2>1. l.t \in Radios(texts, labels) /\ (l.ok => OnBand(l.t, "fm"))
    BY LoadingBand
  <2> QED
    BY <1>1, <2>1
<1>3. r \in tune(l.t)
  BY <1>1, <1>2
<1>4. PICK k \in TuneChipFm(l.t, f) :
         r \in IF k.ok THEN Done([k.t EXCEPT !.freq = f, !.rds = NoRds]) ELSE {k}
  BY <1>3 DEF Then
<1> DEFINE v == k.t
           w == [v EXCEPT !.freq = f, !.rds = NoRds]
<1>5. k.ok /\ r \in Done(w)
  BY <1>4
<1>6. v = At(l.t, f)
  BY <1>2, <1>5, TuningChip DEF OnBand
<1>7. v \in Radios(texts, labels) /\ v.booted /\ v.loaded = "fm"
  <2>1. v \in Radios(texts, labels)
    BY <1>2, TuningChip DEF OnBand
  <2>2. At(l.t, f).booted = l.t.booted /\ At(l.t, f).loaded = l.t.loaded
    BY <1>2 DEF At, Radios
  <2> QED
    BY <1>2, <1>6, <2>1, <2>2 DEF OnBand
<1>8. r.t = w
  BY <1>5, DoneIs
<1> HIDE DEF v
<1>9. w.booted = v.booted /\ w.loaded = v.loaded /\ w.rds = NoRds
  BY <1>7 DEF Radios
<1> QED
  BY <1>7, <1>8, <1>9 DEF Renewed

\* Nor does a seek, in one command or in steps.
LEMMA SoughtText ==
    ASSUME NEW texts, NEW labels, NoRds \in texts, NoDls \in labels,
           NEW t \in Radios(texts, labels), NEW up \in BOOLEAN, NEW r \in Seek(t, up), r.ok
    PROVE  Renewed(r.t)
<1> DEFINE step(f) == IF up THEN Next100[f] ELSE CHOOSE g \in Frequencies : Next100[g] = f
           found(u, f) == Done([u EXCEPT !.chip.at = f, !.freq = f, !.rds = NoRds])
           stepped(u, f) == TuneFrequency([u EXCEPT !.chip.at = f], step(u.freq))
           rest(u) == (UNION {found(u, f) : f \in Frequencies \ {u.freq}})
                      \cup (UNION {stepped(u, f) : f \in Frequencies \cup {u.chip.at}})
<1>1. PICK l \in EnsureBandLoaded(t, "fm") : r \in IF l.ok THEN rest(l.t) ELSE {l}
  BY DEF Seek, Then
<1> DEFINE u == l.t
<1>2. l.ok /\ u \in Radios(texts, labels) /\ OnBand(u, "fm")
  <2>1. l.t \in Radios(texts, labels) /\ (l.ok => OnBand(l.t, "fm"))
    BY LoadingBand
  <2>2. ~l.ok => r = l
    BY <1>1
  <2> QED
    BY <2>1, <2>2
<1>3. \A f \in Frequencies : step(f) \in Frequencies
  BY ReceiverAssumption
<1>4. \/ \E f \in Frequencies : r \in found(u, f)
      \/ \E f \in Frequencies \cup {u.chip.at} : r \in stepped(u, f)
  <2>1. r \in rest(u)
    BY <1>1, <1>2
  <2> HIDE DEF found, stepped, u
  <2> QED
    BY <2>1
<1>5. u.freq \in Frequencies /\ u.chip.at \in Ensembles \cup Frequencies \cup {None}
  BY <1>2 DEF Radios, Chips
<1>6. step(u.freq) \in Frequencies
  BY <1>3, <1>5
<1> HIDE DEF u, step
<1>7. ASSUME NEW f \in Frequencies \cup {u.chip.at}
      PROVE  At(u, f) \in Radios(texts, labels) /\ OnBand(At(u, f), "fm")
  <2>1. f \in Ensembles \cup Frequencies \cup {None} /\ None \in Services \cup {None}
    BY <1>5
  <2>2. At(u, f) \in Radios(texts, labels)
    BY <1>2, <2>1, Moving DEF OnBand
  <2>3. OnBand(At(u, f), "fm")
    BY <1>2 DEF At, OnBand, Radios
  <2> QED
    BY <2>2, <2>3
<1>8. ASSUME NEW f \in Frequencies,
             r \in Done([u EXCEPT !.chip.at = f, !.freq = f, !.rds = NoRds])
      PROVE  Renewed(r.t)
  <2> DEFINE v == [u EXCEPT !.chip.at = f, !.freq = f, !.rds = NoRds]
             a == At(u, f)
  <2>1. r.t = v
    BY <1>8, DoneIs
  <2>2. a \in Radios(texts, labels) /\ OnBand(a, "fm")
    BY <1>7
  <2>3. v = [a EXCEPT !.freq = f, !.rds = NoRds]
    BY DEF At
  <2> HIDE DEF a, v
  <2>4. v.booted = a.booted /\ v.loaded = a.loaded /\ v.rds = NoRds
    BY <2>2, <2>3 DEF Radios
  <2> QED
    BY <2>1, <2>2, <2>4 DEF Renewed, OnBand
<1>9. ASSUME NEW f \in Frequencies \cup {u.chip.at},
             r \in TuneFrequency([u EXCEPT !.chip.at = f], step(u.freq))
      PROVE  Renewed(r.t)
  <2> DEFINE a == At(u, f)
  <2>1. a \in Radios(texts, labels)
    BY <1>7
  <2>2. r \in TuneFrequency(a, step(u.freq))
    BY <1>9 DEF At
  <2> HIDE DEF a
  <2> QED
    BY <1>6, <2>1, <2>2, TunedFrequencyText
<1> QED
  BY <1>4, <1>8, <1>9

\* Nor does a service that starts leave a label.
LEMMA PlayedText ==
    ASSUME NEW texts, NEW labels, NoRds \in texts, NoDls \in labels,
           NEW t \in Radios(texts, labels), NEW s \in Services, NEW lev, NEW r \in Play(t, s, lev), r.ok
    PROVE  Renewed(r.t)
<1> DEFINE on(u) == IF Receives(u.chip, s, lev) THEN [u EXCEPT !.chip.service = s] ELSE u
           played(u) == [on(u) EXCEPT !.service = s, !.played = s, !.dls = NoDls]
<1>1. PICK l \in EnsureBandLoaded(t, "dab") :
         r \in IF l.ok THEN Done(played(l.t)) \cup Unanswered(l.t, on(l.t)) ELSE {l}
  BY DEF Play, Then
<1>2. l.t \in Radios(texts, labels) /\ (l.ok => OnBand(l.t, "dab"))
  BY LoadingBand
<1>3. \A q \in Unanswered(l.t, on(l.t)) : q.ok = FALSE
  BY DEF Unanswered, Failed, Result
<1>4. l.ok /\ r \in Done(played(l.t))
  BY <1>1, <1>3
<1>5. r.t = played(l.t)
  BY <1>4, DoneIs
<1> DEFINE u == l.t
           v == on(u)
<1>6. v.booted = u.booted /\ v.loaded = u.loaded /\ DOMAIN v = DOMAIN u
  BY <1>2 DEF Radios
<1>7. DOMAIN u = {"booted", "loaded", "fmReady", "index", "freq", "muted", "service",
                  "played", "failures", "chip", "rds", "dls"}
  BY <1>2 DEF Radios
<1> HIDE DEF v, u
<1>8. /\ [v EXCEPT !.service = s, !.played = s, !.dls = NoDls].booted = v.booted
      /\ [v EXCEPT !.service = s, !.played = s, !.dls = NoDls].loaded = v.loaded
      /\ [v EXCEPT !.service = s, !.played = s, !.dls = NoDls].dls = NoDls
  BY <1>6, <1>7
<1>9. r.t = [v EXCEPT !.service = s, !.played = s, !.dls = NoDls]
  BY <1>5 DEF v, u
<1> QED
  BY <1>2, <1>4, <1>6, <1>8, <1>9 DEF Renewed, OnBand, u

\* A list reads, or loads the DAB image without a label, or its failure was counted.
LEMMA ListedText ==
    ASSUME NEW texts, NEW labels, NoRds \in texts, NoDls \in labels,
           NEW t \in Radios(texts, labels), NEW lev, NEW r \in List(t, lev), AsTuner(t) \in Fit
    PROVE  r.t.failures # t.failures \/ Renewed(r.t) \/ r.t = t
<1>1. PICK l \in EnsureBandLoaded(t, "dab") :
         r \in IF l.ok THEN (IF l.t.chip.at # None /\ lev[l.t.chip.at] > 0
                             THEN Done(l.t) \cup Failed(l.t) ELSE {Result(FALSE, l.t)})
               ELSE {l}
  BY DEF List, Then
<1>2. l.t \in Radios(texts, labels) /\ (l.ok => OnBand(l.t, "dab"))
  BY LoadingBand
<1>3. Counted(AsTuner(t), Seen(l))
  <2>1. Seen(l) \in Load(AsTuner(t), "dab")
    BY LoadingBand
  <2> QED
    BY <2>1, Loading
<1>4. CASE ~l.ok
  BY <1>1, <1>3, <1>4, CountedIs
<1>5. CASE l.ok /\ r.t = l.t
  <2>1. l.t = t \/ l.t.dls = NoDls
    BY <1>5, LoadedWithoutLabel
  <2> QED
    BY <1>2, <1>5, <2>1 DEF Renewed, OnBand
<1>6. CASE l.ok /\ r \in Failed(l.t)
  <2>1. r.t = [l.t EXCEPT !.failures = @ + 1]
    BY <1>6 DEF Failed, Result
  <2>2. r.t.failures = l.t.failures + 1 /\ l.t.failures \in Nat /\ t.failures \in Nat
    BY <1>2, <2>1, TunerAssumption DEF Radios
  <2>3. \A u : AsTuner(u).failures = u.failures
    BY DEF AsTuner
  <2>4. t.failures <= l.t.failures
    BY <1>3, <2>3, SeenFields DEF Counted, Lasting
  <2> QED
    BY <2>2, <2>4
<1>7. r.t = l.t \/ r \in Failed(l.t) \/ ~l.ok
  <2>1. r \in Done(l.t) \/ r \in Failed(l.t) \/ r = Result(FALSE, l.t) \/ ~l.ok
    BY <1>1
  <2>2. Result(FALSE, l.t).t = l.t
    BY DEF Result
  <2>3. r \in Done(l.t) => r.t = l.t
    BY DoneIs
  <2> QED
    BY <2>1, <2>2, <2>3
<1> QED
  BY <1>4, <1>5, <1>6, <1>7

\* A status reads the frequency, and no text of another.
LEMMA StatusText ==
    ASSUME NEW texts, NEW labels, NEW t \in Radios(texts, labels), NEW r \in Status(t)
    PROVE  r.t.failures # t.failures \/ SameText(t, r.t)
<1>1. t.failures \in Nat
  BY TunerAssumption DEF Radios
<1>2. CASE r.t = t
  BY <1>2 DEF SameText
<1>3. CASE r \in Failed(t)
  <2>1. r.t = [t EXCEPT !.failures = @ + 1]
    BY <1>3 DEF Failed, Result
  <2>2. r.t.failures = t.failures + 1
    BY <2>1 DEF Radios
  <2> QED
    BY <1>1, <2>2
<1>4. CASE r.t = [t EXCEPT !.freq = t.chip.at]
  <2>1. /\ r.t.booted = t.booted /\ r.t.loaded = t.loaded /\ r.t.chip = t.chip
        /\ r.t.rds = t.rds /\ r.t.dls = t.dls
    BY <1>4 DEF Radios
  <2> QED
    BY <2>1 DEF SameText
<1> DEFINE read == [t EXCEPT !.freq = t.chip.at]
<1>5. r \in Done(t) \/ r \in Failed(t) \/ r = Result(FALSE, t) \/ r \in Done(read)
  BY DEF Status
<1>6. Result(FALSE, t).t = t
  BY DEF Result
<1>7. (r \in Done(t) => r.t = t) /\ (r \in Done(read) => r.t = read)
  BY DoneIs
<1> QED
  BY <1>2, <1>3, <1>4, <1>5, <1>6, <1>7

\* The volume leaves the texts.
LEMMA MutedText ==
    ASSUME NEW texts, NEW labels, NEW t \in Radios(texts, labels), NEW m \in BOOLEAN,
           NEW r \in SetMuted(t, m)
    PROVE  r.t.failures # t.failures \/ SameText(t, r.t)
<1>0. t.failures \in Nat
  BY TunerAssumption DEF Radios
<1> DEFINE v == [t EXCEPT !.chip.muted = m]
<1>1. /\ v.booted = t.booted /\ v.loaded = t.loaded /\ v.chip.at = t.chip.at
      /\ v.chip.service = t.chip.service /\ v.rds = t.rds /\ v.dls = t.dls
      /\ v.failures = t.failures /\ DOMAIN v = DOMAIN t
  BY DEF Radios, Chips
<1>2. PICK k \in SetChipVolume(t, m) :
         r \in IF k.ok THEN Done([k.t EXCEPT !.muted = m]) ELSE {k}
  BY DEF SetMuted, Then
<1>3. k = Result(FALSE, t) \/ k \in Done(v) \/ k \in Unanswered(t, v)
  BY <1>2 DEF SetChipVolume, Command
<1>4. CASE k = Result(FALSE, t)
  BY <1>2, <1>4 DEF Result, SameText
<1>5. CASE k \in Unanswered(t, v)
  <2>1. /\ ~k.ok
        /\ k.t = [t EXCEPT !.failures = @ + 1]
           \/ k.t = [[t EXCEPT !.chip = v.chip] EXCEPT !.failures = @ + 1]
    BY <1>5 DEF Unanswered, Failed, Result
  <2>2. [t EXCEPT !.failures = @ + 1].failures = t.failures + 1
    BY DEF Radios
  <2>3. [[t EXCEPT !.chip = v.chip] EXCEPT !.failures = @ + 1].failures = t.failures + 1
    <3> HIDE DEF v
    <3> QED
      BY DEF Radios
  <2>4. r = k
    BY <1>2, <2>1
  <2>5. k.t.failures = t.failures + 1
    BY <2>1, <2>2, <2>3
  <2> QED
    BY <1>0, <2>4, <2>5
<1>6. CASE k \in Done(v)
  <2>1. k.ok /\ k.t = v
    BY <1>6, DoneIs
  <2>2. r.t = [v EXCEPT !.muted = m]
    BY <1>2, <2>1, DoneIs
  <2> HIDE DEF v
  <2>3. /\ r.t.booted = v.booted /\ r.t.loaded = v.loaded /\ r.t.chip = v.chip
        /\ r.t.rds = v.rds /\ r.t.dls = v.dls
    BY <1>1, <2>2 DEF Radios
  <2> QED
    BY <1>1, <2>3 DEF SameText
<1> QED
  BY <1>3, <1>4, <1>5, <1>6

-----------------------------------------------------------------------------
(* The name.  A part that a station sent in its version w is <<<<s, w>>, i>>.  *)

\* An accumulator of RDS has its fields, and its texts have their two parts.
Accumulator(r) ==
    /\ DOMAIN r = DOMAIN NoRds
    /\ r.candidate = [i \in Parts |-> r.candidate[i]]
    /\ r.confirmed = [i \in Parts |-> r.confirmed[i]]
    /\ r.fill = [i \in Parts |-> r.fill[i]]

\* What may be said of part i of the name of station s, whose other part is j: x
\* holds the candidates, y those confirmed; the station has come to version v and
\* to place k of its carousel, and l groups were lost or misread.  A part whose
\* other part is missing was received last, unless a group was lost.
PartHeld(x, y, i, j, s, v, k, l) ==
    /\ \/ x[i] = NoText
       \/ \E w \in 0..v : x[i] = <<<<s, w>>, i>>
       \/ x[i] = Noise /\ l = 1
    /\ y[i] = NoText \/ (y[i] = x[i] /\ y[i] # Noise)
    /\ x[i] # NoText /\ x[j] = NoText =>
          l = 1 \/ k = j \/ (k = 0 /\ i = 0 /\ x[i] # <<<<s, v>>, i>>)
    /\ y[i] # NoText /\ x[j] = NoText => l = 1 /\ (k = 0 \/ y[i] = <<<<s, v>>, i>>)
    /\ y[i] \notin {NoText, <<<<s, v>>, i>>} /\ x[j] = <<<<s, v>>, j>> => l = 1 /\ i = 1 /\ k = 1

\* Parts that are confirmed are parts of one text.
PartsHeld(x, y, s, v, k, l) ==
    /\ PartHeld(x, y, 0, 1, s, v, k, l) /\ PartHeld(x, y, 1, 0, s, v, k, l)
    /\ y[0] # NoText /\ y[1] # NoText =>
          \E w \in 0..v : y[0] = <<<<s, w>>, 0>> /\ y[1] = <<<<s, w>>, 1>>

\* The PI is that of station s; of a candidate that was misread nothing follows.
PiHeld(r, s, l) ==
    /\ r.pi \in {NoText, Pi[s]}
    /\ r.piCandidate \in {NoText, Pi[s]} \/ (r.piCandidate = Noise /\ l = 1)

\* No text, or one that station s sent until its version v.
TextsOf(s, v) == {Blank} \cup {WholeText(<<s, w>>) : w \in 0..v}

\* A name of station s under way.
NameHeld(r, s, v, k, l) ==
    /\ Accumulator(r) /\ r.radiotext = Blank /\ r.current = FALSE
    /\ PiHeld(r, s, l)
    /\ r.name \in TextsOf(s, v)
    /\ PartsHeld(r.candidate, r.confirmed, s, v, k, l)

\* What a station sends is not what was not received.
LEMMA Distinct ==
    ASSUME NEW s \in Stations
    PROVE  /\ NoText # Noise
           /\ \A w \in Nat, i \in Parts : <<<<s, w>>, i>> # NoText /\ <<<<s, w>>, i>> # Noise
           /\ \A w, q \in Nat, i, j \in Parts : <<<<s, w>>, i>> = <<<<s, q>>, j>> => w = q /\ i = j
<1>1. \A w \in Nat, i \in Parts :
         <<<<s, w>>, i>> \in ((Frequencies \cup Services) \X Nat) \X Parts
  BY DEF Stations
<1> QED
  BY <1>1, ReceptionAssumption

\* A part that is received in its place leaves parts of one text.
LEMMA PartReceived ==
    ASSUME NEW s \in Stations, NEW v \in Nat, NEW k \in {0, 1}, NEW l \in {0, 1}, NEW m \in {0, 1},
           NEW x, NEW y, PartsHeld(x, y, s, v, k, l), m = l \/ l = 0,
           NEW p, NEW q, NEW o, o = 1 - k, p[o] = x[o],
           p[k] = <<<<s, v>>, k>> \/ (p[k] = Noise /\ l = 0 /\ m = 1),
           IF x[k] # p[k]
           THEN /\ q[0] = (IF x[k] # NoText THEN NoText ELSE y[0])
                /\ q[1] = (IF x[k] # NoText THEN NoText ELSE y[1])
           ELSE q[k] = p[k] /\ q[o] = y[o]
    PROVE  PartsHeld(p, q, s, v, o, m)
<1> DEFINE S(w, i) == <<<<s, w>>, i>>
           c == p[k]
<1>1. /\ NoText # Noise
      /\ \A w \in Nat : S(w, 0) # NoText /\ S(w, 0) # Noise /\ S(w, 1) # NoText /\ S(w, 1) # Noise
      /\ \A w, z \in Nat : /\ S(w, 0) = S(z, 0) => w = z
                           /\ S(w, 1) = S(z, 1) => w = z
                           /\ S(w, 0) # S(z, 1)
  BY Distinct DEF Parts
<1>2. v \in 0..v /\ 0..v \subseteq Nat
  OBVIOUS
<1>3. /\ PartHeld(x, y, 0, 1, s, v, k, l) /\ PartHeld(x, y, 1, 0, s, v, k, l)
      /\ y[0] # NoText /\ y[1] # NoText => \E w \in 0..v : y[0] = S(w, 0) /\ y[1] = S(w, 1)
  BY DEF PartsHeld
<1>4. CASE k = 0
  <2>1. /\ c = S(v, 0) \/ (c = Noise /\ l = 0 /\ m = 1)
        /\ p[0] = c /\ p[1] = x[1]
        /\ IF x[0] # c
           THEN /\ q[0] = (IF x[0] # NoText THEN NoText ELSE y[0])
                /\ q[1] = (IF x[0] # NoText THEN NoText ELSE y[1])
           ELSE q[0] = c /\ q[1] = y[1]
    BY <1>4
  <2>2. /\ x[0] = NoText \/ (\E w \in 0..v : x[0] = S(w, 0)) \/ (x[0] = Noise /\ l = 1)
        /\ y[0] = NoText \/ (y[0] = x[0] /\ y[0] # Noise)
        /\ x[0] # NoText /\ x[1] = NoText => l = 1 \/ x[0] # S(v, 0)
        /\ y[0] # NoText /\ x[1] = NoText => l = 1
        /\ ~(y[0] \notin {NoText, S(v, 0)} /\ x[1] = S(v, 1))
    BY <1>3, <1>4 DEF PartHeld
  <2>3. /\ x[1] = NoText \/ (\E w \in 0..v : x[1] = S(w, 1)) \/ (x[1] = Noise /\ l = 1)
        /\ y[1] = NoText \/ (y[1] = x[1] /\ y[1] # Noise)
        /\ y[1] # NoText /\ x[0] = NoText => l = 1
        /\ ~(y[1] \notin {NoText, S(v, 1)} /\ x[0] = S(v, 0))
    BY <1>3, <1>4 DEF PartHeld
  <2>4. y[0] # NoText /\ y[1] # NoText => \E w \in 0..v : y[0] = S(w, 0) /\ y[1] = S(w, 1)
    BY <1>3
  <2> HIDE DEF S
  <2>5. /\ p[0] = NoText \/ (\E w \in 0..v : p[0] = S(w, 0)) \/ (p[0] = Noise /\ m = 1)
        /\ q[0] = NoText \/ (q[0] = p[0] /\ q[0] # Noise)
        /\ q[0] # NoText /\ p[1] = NoText => m = 1 /\ q[0] = S(v, 0)
        /\ ~(q[0] \notin {NoText, S(v, 0)} /\ p[1] = S(v, 1))
    BY <1>1, <1>2, <2>1, <2>2, <2>3, <2>4
  <2>6. /\ p[1] = NoText \/ (\E w \in 0..v : p[1] = S(w, 1)) \/ (p[1] = Noise /\ m = 1)
        /\ q[1] = NoText \/ (q[1] = p[1] /\ q[1] # Noise)
        /\ p[1] # NoText /\ p[0] = NoText => m = 1
        /\ q[1] # NoText /\ p[0] = NoText => m = 1 /\ q[1] = S(v, 1)
        /\ q[1] \notin {NoText, S(v, 1)} /\ p[0] = S(v, 0) => m = 1
    BY <1>1, <1>2, <2>1, <2>2, <2>3, <2>4
  <2>7. q[0] # NoText /\ q[1] # NoText => \E w \in 0..v : q[0] = S(w, 0) /\ q[1] = S(w, 1)
    BY <1>1, <1>2, <2>1, <2>2, <2>3, <2>4
  <2>8. PartHeld(p, q, 0, 1, s, v, o, m)
    BY <1>4, <2>5 DEF PartHeld, S
  <2>9. PartHeld(p, q, 1, 0, s, v, o, m)
    BY <1>4, <2>6 DEF PartHeld, S
  <2> QED
    BY <2>7, <2>8, <2>9 DEF PartsHeld, S
<1>5. CASE k = 1
  <2>1. /\ c = S(v, 1) \/ (c = Noise /\ l = 0 /\ m = 1)
        /\ p[1] = c /\ p[0] = x[0]
        /\ IF x[1] # c
           THEN /\ q[0] = (IF x[1] # NoText THEN NoText ELSE y[0])
                /\ q[1] = (IF x[1] # NoText THEN NoText ELSE y[1])
           ELSE q[1] = c /\ q[0] = y[0]
    BY <1>5
  <2>2. /\ x[0] = NoText \/ (\E w \in 0..v : x[0] = S(w, 0)) \/ (x[0] = Noise /\ l = 1)
        /\ y[0] = NoText \/ (y[0] = x[0] /\ y[0] # Noise)
        /\ y[0] # NoText /\ x[1] = NoText => l = 1 /\ y[0] = S(v, 0)
        /\ ~(y[0] \notin {NoText, S(v, 0)} /\ x[1] = S(v, 1))
    BY <1>3, <1>5 DEF PartHeld
  <2>3. /\ x[1] = NoText \/ (\E w \in 0..v : x[1] = S(w, 1)) \/ (x[1] = Noise /\ l = 1)
        /\ y[1] = NoText \/ (y[1] = x[1] /\ y[1] # Noise)
        /\ x[1] # NoText /\ x[0] = NoText => l = 1
        /\ y[1] # NoText /\ x[0] = NoText => l = 1 /\ y[1] = S(v, 1)
        /\ y[1] \notin {NoText, S(v, 1)} /\ x[0] = S(v, 0) => l = 1
    BY <1>3, <1>5 DEF PartHeld
  <2>4. y[0] # NoText /\ y[1] # NoText => \E w \in 0..v : y[0] = S(w, 0) /\ y[1] = S(w, 1)
    BY <1>3
  <2> HIDE DEF S
  <2>5. /\ p[0] = NoText \/ (\E w \in 0..v : p[0] = S(w, 0)) \/ (p[0] = Noise /\ m = 1)
        /\ q[0] = NoText \/ (q[0] = p[0] /\ q[0] # Noise)
        /\ p[0] # NoText /\ p[1] = NoText => m = 1 \/ p[0] # S(v, 0)
        /\ q[0] # NoText /\ p[1] = NoText => m = 1
        /\ ~(q[0] \notin {NoText, S(v, 0)} /\ p[1] = S(v, 1))
    BY <1>1, <1>2, <2>1, <2>2, <2>3, <2>4
  <2>6. /\ p[1] = NoText \/ (\E w \in 0..v : p[1] = S(w, 1)) \/ (p[1] = Noise /\ m = 1)
        /\ q[1] = NoText \/ (q[1] = p[1] /\ q[1] # Noise)
        /\ q[1] # NoText /\ p[0] = NoText => m = 1
        /\ ~(q[1] \notin {NoText, S(v, 1)} /\ p[0] = S(v, 0))
    BY <1>1, <1>2, <2>1, <2>2, <2>3, <2>4
  <2>7. q[0] # NoText /\ q[1] # NoText => \E w \in 0..v : q[0] = S(w, 0) /\ q[1] = S(w, 1)
    BY <1>1, <1>2, <2>1, <2>2, <2>3, <2>4
  <2>8. PartHeld(p, q, 0, 1, s, v, o, m)
    BY <1>5, <2>5 DEF PartHeld, S
  <2>9. PartHeld(p, q, 1, 0, s, v, o, m)
    BY <1>5, <2>6 DEF PartHeld, S
  <2> QED
    BY <2>7, <2>8, <2>9 DEF PartsHeld, S
<1> QED
  BY <1>4, <1>5

\* A part that is lost, at the first loss, leaves what there was.
LEMMA PartLost ==
    ASSUME NEW s \in Stations, NEW v \in Nat, NEW k \in {0, 1}, NEW x, NEW y,
           PartsHeld(x, y, s, v, k, 0)
    PROVE  PartsHeld(x, y, s, v, 1 - k, 1)
BY DEF PartsHeld, PartHeld

\* A station that goes on begins its carousel.
LEMMA PartsChanged ==
    ASSUME NEW s \in Stations, NEW v \in Nat, NEW k \in {0, 1}, NEW l \in {0, 1}, NEW x, NEW y,
           PartsHeld(x, y, s, v, k, l)
    PROVE  PartsHeld(x, y, s, v + 1, 0, l)
<1> DEFINE S(w, i) == <<<<s, w>>, i>>
<1>1. /\ NoText # Noise
      /\ \A w \in Nat : S(w, 0) # NoText /\ S(w, 0) # Noise /\ S(w, 1) # NoText /\ S(w, 1) # Noise
      /\ \A w, z \in Nat : /\ S(w, 0) = S(z, 0) => w = z
                           /\ S(w, 1) = S(z, 1) => w = z
                           /\ S(w, 0) # S(z, 1)
  BY Distinct DEF Parts
<1>2. /\ 0..v \subseteq 0..(v + 1) /\ v + 1 \in Nat /\ 0..v \subseteq Nat
      /\ \A w \in 0..v : w # v + 1
  OBVIOUS
<1>3. /\ PartHeld(x, y, 0, 1, s, v, k, l) /\ PartHeld(x, y, 1, 0, s, v, k, l)
      /\ y[0] # NoText /\ y[1] # NoText => \E w \in 0..v : y[0] = S(w, 0) /\ y[1] = S(w, 1)
  BY DEF PartsHeld
<1>4. /\ x[0] # S(v + 1, 0) /\ x[1] # S(v + 1, 1)
  <2>1. \/ x[0] = NoText
        \/ \E w \in 0..v : x[0] = S(w, 0)
        \/ x[0] = Noise
    BY <1>3 DEF PartHeld
  <2>2. \/ x[1] = NoText
        \/ \E w \in 0..v : x[1] = S(w, 1)
        \/ x[1] = Noise
    BY <1>3 DEF PartHeld
  <2> HIDE DEF S
  <2> QED
    BY <1>1, <1>2, <2>1, <2>2
<1>5. PartHeld(x, y, 0, 1, s, v + 1, 0, l)
  BY <1>2, <1>3, <1>4 DEF PartHeld
<1>6. PartHeld(x, y, 1, 0, s, v + 1, 0, l)
  BY <1>2, <1>3, <1>4 DEF PartHeld
<1> QED
  BY <1>2, <1>3, <1>5, <1>6 DEF PartsHeld

\* The accumulator of a station that was tuned.
LEMMA NoRdsHolds ==
    ASSUME NEW s \in Stations, NEW v \in Nat, NEW k, NEW l
    PROVE  NameHeld(NoRds, s, v, k, l)
<1>1. /\ DOMAIN NoRds = DOMAIN NoRds /\ NoRds.candidate = Blank /\ NoRds.confirmed = Blank
      /\ NoRds.fill = Blank /\ NoRds.radiotext = Blank /\ NoRds.name = Blank
      /\ NoRds.pi = NoText /\ NoRds.piCandidate = NoText /\ NoRds.current = FALSE
  BY DEF NoRds
<1>2. Blank = [i \in Parts |-> Blank[i]] /\ Blank[0] = NoText /\ Blank[1] = NoText
  BY DEF Blank, Parts
<1>3. Accumulator(NoRds)
  BY <1>1, <1>2 DEF Accumulator
<1>4. PartsHeld(Blank, Blank, s, v, k, l)
  BY <1>2 DEF PartsHeld, PartHeld
<1> QED
  BY <1>1, <1>3, <1>4 DEF NameHeld, PiHeld, TextsOf

\* FeedName, field by field.
LEMMA NameFed ==
    ASSUME NEW r, Accumulator(r), NEW k \in {0, 1}, NEW c, c # NoText
    PROVE  LET q == FeedName(r, k, c)
           IN  /\ Accumulator(q) /\ q.pi = r.pi /\ q.piCandidate = r.piCandidate
               /\ q.radiotext = r.radiotext /\ q.current = r.current
               /\ q.candidate[k] = c /\ q.candidate[1 - k] = r.candidate[1 - k]
               /\ IF r.candidate[k] # c
                  THEN /\ q.confirmed[0] = (IF r.candidate[k] # NoText THEN NoText ELSE r.confirmed[0])
                       /\ q.confirmed[1] = (IF r.candidate[k] # NoText THEN NoText ELSE r.confirmed[1])
                  ELSE q.confirmed[k] = c /\ q.confirmed[1 - k] = r.confirmed[1 - k]
               /\ \/ q.name = r.name
                  \/ q.name = q.confirmed /\ q.confirmed[0] # NoText /\ q.confirmed[1] # NoText
<1> DEFINE q == FeedName(r, k, c)
           fields == {"piCandidate", "pi", "candidate", "confirmed", "name", "flag", "fill",
                      "radiotext", "current", "plusGroup", "tags"}
<1>1. DOMAIN r = fields /\ DOMAIN NoRds = fields
  BY DEF Accumulator, NoRds
<1>2. /\ r.candidate = [i \in Parts |-> r.candidate[i]]
      /\ r.confirmed = [i \in Parts |-> r.confirmed[i]]
      /\ r.fill = [i \in Parts |-> r.fill[i]]
      /\ Parts = {0, 1} /\ Blank = [i \in Parts |-> NoText]
  BY DEF Accumulator, Parts, Blank
<1>3. CASE r.candidate[k] # c
  <2> DEFINE x == [r.candidate EXCEPT ![k] = c]
             y == IF r.candidate[k] # NoText THEN Blank ELSE r.confirmed
  <2>1. q = [r EXCEPT !.candidate = x, !.confirmed = y]
    BY <1>3 DEF FeedName
  <2>2. /\ x = [i \in Parts |-> x[i]] /\ x[k] = c /\ x[1 - k] = r.candidate[1 - k]
    BY <1>2
  <2>3. /\ y = [i \in Parts |-> y[i]]
        /\ y[0] = (IF r.candidate[k] # NoText THEN NoText ELSE r.confirmed[0])
        /\ y[1] = (IF r.candidate[k] # NoText THEN NoText ELSE r.confirmed[1])
    BY <1>2
  <2> HIDE DEF x, y
  <2>4. /\ DOMAIN q = fields /\ q.candidate = x /\ q.confirmed = y /\ q.name = r.name
        /\ q.pi = r.pi /\ q.piCandidate = r.piCandidate /\ q.fill = r.fill
        /\ q.radiotext = r.radiotext /\ q.current = r.current
    BY <1>1, <2>1
  <2> HIDE DEF q
  <2>5. Accumulator(q)
    BY <1>1, <1>2, <2>2, <2>3, <2>4 DEF Accumulator
  <2> QED
    BY <1>3, <2>2, <2>3, <2>4, <2>5 DEF q
<1>4. CASE r.candidate[k] = c
  <2> DEFINE y == [r.confirmed EXCEPT ![k] = c]
             n == IF \A p \in Parts : y[p] # NoText THEN y ELSE r.name
  <2>1. q = [r EXCEPT !.confirmed = y, !.name = n]
    BY <1>4 DEF FeedName
  <2>2. /\ y = [i \in Parts |-> y[i]] /\ y[k] = c /\ y[1 - k] = r.confirmed[1 - k]
    BY <1>2
  <2>3. n = r.name \/ (n = y /\ y[0] # NoText /\ y[1] # NoText)
    BY <1>2
  <2> HIDE DEF y, n
  <2>4. /\ DOMAIN q = fields /\ q.candidate = r.candidate /\ q.confirmed = y /\ q.name = n
        /\ q.pi = r.pi /\ q.piCandidate = r.piCandidate /\ q.fill = r.fill
        /\ q.radiotext = r.radiotext /\ q.current = r.current
    BY <1>1, <2>1
  <2> HIDE DEF q
  <2>5. Accumulator(q)
    BY <1>1, <1>2, <2>2, <2>4 DEF Accumulator
  <2> QED
    BY <1>4, <2>2, <2>3, <2>4, <2>5 DEF q
<1> QED
  BY <1>3, <1>4

\* Block A, field by field.
LEMMA PiApplied ==
    ASSUME NEW r, Accumulator(r), NEW g, Trusted(g)
    PROVE  LET q == ApplyPi(r, g)
           IN  /\ Accumulator(q) /\ q.piCandidate = g.pi
               /\ q.pi = (IF r.piCandidate = g.pi THEN g.pi ELSE r.pi)
               /\ q.candidate = r.candidate /\ q.confirmed = r.confirmed /\ q.name = r.name
               /\ q.flag = r.flag /\ q.fill = r.fill /\ q.radiotext = r.radiotext
               /\ q.current = r.current /\ q.plusGroup = r.plusGroup /\ q.tags = r.tags
<1> DEFINE n == IF r.piCandidate = g.pi THEN g.pi ELSE r.pi
           q == [r EXCEPT !.piCandidate = g.pi, !.pi = n]
<1>1. DOMAIN r = {"piCandidate", "pi", "candidate", "confirmed", "name", "flag", "fill",
                  "radiotext", "current", "plusGroup", "tags"}
  BY DEF Accumulator, NoRds
<1>2. ApplyPi(r, g) = q
  BY DEF ApplyPi
<1> HIDE DEF n
<1>3. /\ DOMAIN q = DOMAIN r /\ q.piCandidate = g.pi /\ q.pi = n
      /\ q.candidate = r.candidate /\ q.confirmed = r.confirmed /\ q.name = r.name
      /\ q.flag = r.flag /\ q.fill = r.fill /\ q.radiotext = r.radiotext
      /\ q.current = r.current /\ q.plusGroup = r.plusGroup /\ q.tags = r.tags
  BY <1>1
<1> HIDE DEF q
<1>4. Accumulator(q)
  BY <1>3 DEF Accumulator
<1> QED
  BY <1>2, <1>3, <1>4 DEF n

\* A group whose program was read, or misread for the first time, keeps the PI.
LEMMA PiKept ==
    ASSUME NEW s \in Stations, Pi[s] # Noise, NEW l \in {0, 1}, NEW m \in {0, 1}, m = l \/ l = 0,
           NEW r, Accumulator(r), PiHeld(r, s, l), NEW g, Trusted(g),
           g.pi = Pi[s] \/ (g.pi = Noise /\ l = 0 /\ m = 1)
    PROVE  PiHeld(ApplyPi(r, g), s, m)
<1>1. NoText # Noise
  BY ReceptionAssumption
<1> QED
  BY <1>1, PiApplied DEF PiHeld

\* A group of the name that is taken as read, when at most one group is not.
LEMMA NameReceived ==
    ASSUME NEW s \in Stations, Pi[s] # Noise, NEW v \in Nat, NEW k \in {0, 1},
           NEW l \in {0, 1}, NEW m \in {0, 1}, m = l \/ l = 0,
           NEW r, NameHeld(r, s, v, k, l), NEW g, Trusted(g), g.type = "name", g.part = k,
           g.pi = Pi[s] \/ (g.pi = Noise /\ l = 0 /\ m = 1),
           g.text = <<<<s, v>>, k>> \/ (g.text = Noise /\ l = 0 /\ m = 1)
    PROVE  NameHeld(ApplyGroup(r, g), s, v, 1 - k, m)
<1> DEFINE u == ApplyPi(r, g)
           q == FeedName(u, k, g.text)
<1>1. ApplyGroup(r, g) = q
  BY DEF ApplyGroup
<1>2. /\ Accumulator(u) /\ u.candidate = r.candidate /\ u.confirmed = r.confirmed
      /\ u.name = r.name /\ u.radiotext = r.radiotext /\ u.current = r.current
  BY PiApplied DEF NameHeld
<1>3. PiHeld(u, s, m)
  BY PiKept DEF NameHeld
<1>4. g.text # NoText
  BY Distinct DEF Parts
<1> HIDE DEF u, q
<1>5. /\ Accumulator(q) /\ q.pi = u.pi /\ q.piCandidate = u.piCandidate
      /\ q.radiotext = u.radiotext /\ q.current = u.current
      /\ q.candidate[k] = g.text /\ q.candidate[1 - k] = u.candidate[1 - k]
      /\ IF u.candidate[k] # g.text
         THEN /\ q.confirmed[0] = (IF u.candidate[k] # NoText THEN NoText ELSE u.confirmed[0])
              /\ q.confirmed[1] = (IF u.candidate[k] # NoText THEN NoText ELSE u.confirmed[1])
         ELSE q.confirmed[k] = g.text /\ q.confirmed[1 - k] = u.confirmed[1 - k]
      /\ \/ q.name = u.name
         \/ q.name = q.confirmed /\ q.confirmed[0] # NoText /\ q.confirmed[1] # NoText
  BY <1>2, <1>4, NameFed DEF q
<1>6. PartsHeld(q.candidate, q.confirmed, s, v, 1 - k, m)
  <2> DEFINE x == r.candidate
             y == r.confirmed
             p == q.candidate
             z == q.confirmed
             o == 1 - k
  <2>1. PartsHeld(x, y, s, v, k, l)
    BY DEF NameHeld
  <2>2. /\ o = 1 - k /\ p[o] = x[o]
        /\ p[k] = <<<<s, v>>, k>> \/ (p[k] = Noise /\ l = 0 /\ m = 1)
        /\ IF x[k] # p[k]
           THEN /\ z[0] = (IF x[k] # NoText THEN NoText ELSE y[0])
                /\ z[1] = (IF x[k] # NoText THEN NoText ELSE y[1])
           ELSE z[k] = p[k] /\ z[o] = y[o]
    BY <1>2, <1>5
  <2> HIDE DEF x, y, p, z, o
  <2>3. PartsHeld(p, z, s, v, o, m)
    BY <2>1, <2>2, PartReceived
  <2> QED
    BY <2>3 DEF p, z, o
<1>7. q.name \in TextsOf(s, v)
  <2>1. CASE q.name = u.name
    BY <1>2, <2>1 DEF NameHeld
  <2>2. CASE q.name = q.confirmed /\ q.confirmed[0] # NoText /\ q.confirmed[1] # NoText
    <3>1. PICK w \in 0..v : q.confirmed[0] = <<<<s, w>>, 0>> /\ q.confirmed[1] = <<<<s, w>>, 1>>
      BY <1>6, <2>2 DEF PartsHeld
    <3>2. q.confirmed = [i \in Parts |-> q.confirmed[i]]
      BY <1>5 DEF Accumulator
    <3>3. q.confirmed = WholeText(<<s, w>>)
      BY <3>1, <3>2 DEF WholeText, Parts
    <3> QED
      BY <2>2, <3>3 DEF TextsOf
  <2> QED
    BY <1>5, <2>1, <2>2
<1> QED
  BY <1>1, <1>2, <1>3, <1>5, <1>6, <1>7 DEF NameHeld, PiHeld

\* A group of the name that is lost, or not trusted, when at most one is.
LEMMA NameLost ==
    ASSUME NEW s \in Stations, NEW v \in Nat, NEW k \in {0, 1}, NEW r, NameHeld(r, s, v, k, 0)
    PROVE  NameHeld(r, s, v, 1 - k, 1)
BY PartLost DEF NameHeld, PiHeld

\* The station goes on to its next name.
LEMMA NameChanged ==
    ASSUME NEW s \in Stations, NEW v \in Nat, NEW k \in {0, 1}, NEW l \in {0, 1},
           NEW r, NameHeld(r, s, v, k, l)
    PROVE  NameHeld(r, s, v + 1, 0, l)
<1>1. PartsHeld(r.candidate, r.confirmed, s, v + 1, 0, l)
  BY PartsChanged DEF NameHeld
<1>2. TextsOf(s, v) \subseteq TextsOf(s, v + 1)
  <2>1. 0..v \subseteq 0..(v + 1)
    OBVIOUS
  <2> QED
    BY <2>1 DEF TextsOf
<1> QED
  BY <1>1, <1>2 DEF NameHeld

-----------------------------------------------------------------------------
(* The radiotext.  The A/B flag of a text is its version, until version 1.    *)

\* A radiotext of station s under way, which has come to version v: its parts are
\* those of the text whose flag was read, and so is the text on show, if current.
RadiotextKept(r, s, v) ==
    /\ Accumulator(r) /\ r.name = Blank
    /\ PiHeld(r, s, 0)
    /\ r.radiotext \in TextsOf(s, v)
    /\ r.fill[0] # NoText => r.flag \in 0..v /\ r.fill[0] = <<<<s, r.flag>>, 0>>
    /\ r.fill[1] # NoText => r.flag \in 0..v /\ r.fill[1] = <<<<s, r.flag>>, 1>>
    /\ r.current => r.flag \in 0..v /\ r.radiotext = WholeText(<<s, r.flag>>)

\* Tags are those of the text whose flag was read.  At place k of the carousel, after
\* l losses, it is the last text or, before its parts were sent, the one before.
TagsHeld(r, s, v, k, l) ==
    /\ r.flag = NoText \/ r.tags \in {NoText, <<s, r.flag>>}
    /\ \/ r.flag \in {NoText, v}
       \/ r.flag = 0 /\ v = 1 /\ (k \in {0, 1} \/ (k = 2 /\ l = 1))

\* The accumulator of a station that was tuned.
LEMMA NoRdsKept ==
    ASSUME NEW s, NEW v, NEW k, NEW l
    PROVE  RadiotextKept(NoRds, s, v) /\ TagsHeld(NoRds, s, v, k, l)
<1>1. /\ DOMAIN NoRds = DOMAIN NoRds /\ NoRds.candidate = Blank /\ NoRds.confirmed = Blank
      /\ NoRds.fill = Blank /\ NoRds.radiotext = Blank /\ NoRds.name = Blank
      /\ NoRds.pi = NoText /\ NoRds.piCandidate = NoText /\ NoRds.current = FALSE
      /\ NoRds.flag = NoText
  BY DEF NoRds
<1>2. Blank = [i \in Parts |-> Blank[i]] /\ Blank[0] = NoText /\ Blank[1] = NoText
  BY DEF Blank, Parts
<1>3. Accumulator(NoRds)
  BY <1>1, <1>2 DEF Accumulator
<1> QED
  BY <1>1, <1>2, <1>3 DEF RadiotextKept, TagsHeld, PiHeld, TextsOf

\* A text that begins: nothing of the one before is left but what is on show.
LEMMA TextBegun ==
    ASSUME NEW r, Accumulator(r), NEW f
    PROVE  LET q == StartRadiotext(r, f)
           IN  /\ Accumulator(q) /\ q.pi = r.pi /\ q.piCandidate = r.piCandidate
               /\ q.name = r.name /\ q.radiotext = r.radiotext
               /\ q.flag = f /\ q.fill = Blank /\ ~q.current /\ q.tags = NoText
<1> DEFINE q == StartRadiotext(r, f)
<1>1. DOMAIN r = {"piCandidate", "pi", "candidate", "confirmed", "name", "flag", "fill",
                  "radiotext", "current", "plusGroup", "tags"}
  BY DEF Accumulator, NoRds
<1>2. /\ DOMAIN q = DOMAIN r /\ q.pi = r.pi /\ q.piCandidate = r.piCandidate
      /\ q.name = r.name /\ q.radiotext = r.radiotext
      /\ q.candidate = r.candidate /\ q.confirmed = r.confirmed
      /\ q.flag = f /\ q.fill = Blank /\ ~q.current /\ q.tags = NoText
  BY <1>1 DEF StartRadiotext
<1>3. Blank = [i \in Parts |-> Blank[i]]
  BY DEF Blank
<1> HIDE DEF q
<1>4. Accumulator(q)
  BY <1>2, <1>3 DEF Accumulator
<1> QED
  BY <1>2, <1>4 DEF q

\* A part of the text whose flag was read, and the text, if it is whole with it.
LEMMA PartFilled ==
    ASSUME NEW s \in Stations, NEW v \in Nat, NEW i \in {0, 1}, NEW r, RadiotextKept(r, s, v),
           r.flag \in 0..v
    PROVE  LET q == Publish([r EXCEPT !.fill[i] = <<<<s, r.flag>>, i>>])
           IN  RadiotextKept(q, s, v) /\ q.flag = r.flag /\ q.tags = r.tags
<1> DEFINE c == <<<<s, r.flag>>, i>>
           x == [r.fill EXCEPT ![i] = c]
           u == [r EXCEPT !.fill = x]
           q == Publish(u)
<1>0. [r EXCEPT !.fill[i] = c] = u
  OBVIOUS
<1>1. DOMAIN r = {"piCandidate", "pi", "candidate", "confirmed", "name", "flag", "fill",
                  "radiotext", "current", "plusGroup", "tags"}
  BY DEF RadiotextKept, Accumulator, NoRds
<1>2. /\ r.fill = [j \in Parts |-> r.fill[j]] /\ Parts = {0, 1}
      /\ r.candidate = [j \in Parts |-> r.candidate[j]]
      /\ r.confirmed = [j \in Parts |-> r.confirmed[j]]
  BY DEF RadiotextKept, Accumulator, Parts
<1>3. /\ x = [j \in Parts |-> x[j]]
      /\ x[0] # NoText => x[0] = <<<<s, r.flag>>, 0>>
      /\ x[1] # NoText => x[1] = <<<<s, r.flag>>, 1>>
  <2>1. x = [j \in Parts |-> x[j]] /\ x[i] = c /\ x[1 - i] = r.fill[1 - i]
    BY <1>2
  <2> HIDE DEF x
  <2>2. /\ r.fill[0] # NoText => r.fill[0] = <<<<s, r.flag>>, 0>>
        /\ r.fill[1] # NoText => r.fill[1] = <<<<s, r.flag>>, 1>>
    BY DEF RadiotextKept
  <2>3. CASE i = 0
    BY <2>1, <2>2, <2>3
  <2>4. CASE i = 1
    BY <2>1, <2>2, <2>4
  <2> QED
    BY <2>1, <2>3, <2>4
<1> HIDE DEF x
<1>4. /\ DOMAIN u = DOMAIN r /\ u.pi = r.pi /\ u.piCandidate = r.piCandidate
      /\ u.name = r.name /\ u.radiotext = r.radiotext /\ u.current = r.current
      /\ u.candidate = r.candidate /\ u.confirmed = r.confirmed
      /\ u.flag = r.flag /\ u.fill = x /\ u.tags = r.tags
  BY <1>1
<1> HIDE DEF u
<1>5. CASE \A p \in Parts : x[p] # NoText
  <2>1. x = WholeText(<<s, r.flag>>)
    BY <1>2, <1>3, <1>5 DEF WholeText
  <2>2. q = [u EXCEPT !.radiotext = x, !.current = TRUE]
    BY <1>4, <1>5 DEF Publish
  <2>3. /\ DOMAIN q = DOMAIN r /\ q.pi = r.pi /\ q.piCandidate = r.piCandidate
        /\ q.name = r.name /\ q.radiotext = x /\ q.current = TRUE
        /\ q.candidate = r.candidate /\ q.confirmed = r.confirmed
        /\ q.flag = r.flag /\ q.fill = x /\ q.tags = r.tags
    BY <1>1, <1>4, <2>2
  <2> HIDE DEF q
  <2>4. Accumulator(q) /\ PiHeld(q, s, 0)
    BY <1>2, <1>3, <2>3 DEF Accumulator, PiHeld, RadiotextKept
  <2>5. x \in TextsOf(s, v)
    BY <2>1 DEF TextsOf
  <2>6. RadiotextKept(q, s, v)
    BY <1>3, <2>1, <2>3, <2>4, <2>5 DEF RadiotextKept
  <2> QED
    BY <1>0, <2>3, <2>6 DEF q
<1>6. CASE ~ \A p \in Parts : x[p] # NoText
  <2>1. q = u
    BY <1>4, <1>6 DEF Publish
  <2>2. Accumulator(u) /\ PiHeld(u, s, 0)
    BY <1>2, <1>3, <1>4 DEF Accumulator, PiHeld, RadiotextKept
  <2>3. RadiotextKept(u, s, v)
    BY <1>3, <1>4, <2>2 DEF RadiotextKept
  <2> QED
    BY <1>0, <1>4, <2>1, <2>3
<1> QED
  BY <1>5, <1>6

\* A group of radiotext, trusted or not, with the flag f.
LEMMA RadiotextApplied ==
    ASSUME NEW s \in Stations, Pi[s] # Noise, NEW v \in Nat, NEW r, RadiotextKept(r, s, v),
           NEW g, g.type = "radiotext",
           Trusted(g) => /\ g.part \in {0, 1} /\ g.flag \in 0..v /\ g.pi = Pi[s]
                         /\ g.text = <<<<s, g.flag>>, g.part>>
    PROVE  LET q == ApplyGroup(r, g)
           IN  /\ RadiotextKept(q, s, v) /\ q.flag = g.flag
               /\ q.tags = (IF r.flag = g.flag THEN r.tags ELSE NoText)
<1> DEFINE u == ApplyPi(r, g)
           b == IF u.flag # g.flag THEN StartRadiotext(u, g.flag) ELSE u
<1>1. ApplyGroup(r, g) = (IF Trusted(g) THEN Publish([b EXCEPT !.fill[g.part] = g.text]) ELSE b)
  BY DEF ApplyGroup, ApplyRadiotext
<1>2. RadiotextKept(u, s, v) /\ u.flag = r.flag /\ u.tags = r.tags
  <2>1. CASE Trusted(g)
    <3>1. PiHeld(u, s, 0)
      BY <2>1, PiKept DEF RadiotextKept
    <3> QED
      BY <2>1, <3>1, PiApplied DEF RadiotextKept
  <2>2. CASE ~Trusted(g)
    BY <2>2 DEF ApplyPi
  <2> QED
    BY <2>1, <2>2
<1> HIDE DEF u
<1>3. /\ RadiotextKept(b, s, v) /\ b.flag = g.flag
      /\ b.tags = (IF r.flag = g.flag THEN r.tags ELSE NoText)
  <2>1. CASE u.flag # g.flag
    <3> DEFINE q == StartRadiotext(u, g.flag)
    <3>0. Accumulator(u)
      BY <1>2 DEF RadiotextKept
    <3>1. /\ Accumulator(q) /\ q.pi = u.pi /\ q.piCandidate = u.piCandidate
          /\ q.name = u.name /\ q.radiotext = u.radiotext
          /\ q.flag = g.flag /\ q.fill = Blank /\ ~q.current /\ q.tags = NoText
      BY <3>0, TextBegun
    <3>2. Blank[0] = NoText /\ Blank[1] = NoText
      BY DEF Blank, Parts
    <3> HIDE DEF q
    <3>3. RadiotextKept(q, s, v)
      BY <1>2, <3>1, <3>2 DEF RadiotextKept, PiHeld
    <3> QED
      BY <1>2, <2>1, <3>1, <3>3 DEF q
  <2>2. CASE u.flag = g.flag
    BY <1>2, <2>2
  <2> QED
    BY <2>1, <2>2
<1> HIDE DEF b
<1>4. CASE Trusted(g)
  <2>1. g.text = <<<<s, b.flag>>, g.part>>
    BY <1>3, <1>4
  <2>2. LET q == Publish([b EXCEPT !.fill[g.part] = <<<<s, b.flag>>, g.part>>])
        IN  RadiotextKept(q, s, v) /\ q.flag = b.flag /\ q.tags = b.tags
    BY <1>3, <1>4, PartFilled
  <2> QED
    BY <1>1, <1>3, <1>4, <2>1, <2>2
<1>5. CASE ~Trusted(g)
  BY <1>1, <1>3, <1>5
<1> QED
  BY <1>4, <1>5

\* A group that announces tags, or has them.
LEMMA TagsApplied ==
    ASSUME NEW s \in Stations, Pi[s] # Noise, NEW v \in Nat, NEW r, RadiotextKept(r, s, v),
           NEW g, g.type \in {"oda", "tags"}, Trusted(g) => g.pi = Pi[s]
    PROVE  LET q == ApplyGroup(r, g)
           IN  /\ RadiotextKept(q, s, v) /\ q.flag = r.flag
               /\ q.tags = r.tags \/ (Trusted(g) /\ g.type = "tags" /\ q.tags = g.text)
<1> DEFINE u == ApplyPi(r, g)
<1>1. RadiotextKept(u, s, v) /\ u.flag = r.flag /\ u.tags = r.tags
  <2>1. CASE Trusted(g)
    <3>1. PiHeld(u, s, 0)
      BY <2>1, PiKept DEF RadiotextKept
    <3> QED
      BY <2>1, <3>1, PiApplied DEF RadiotextKept
  <2>2. CASE ~Trusted(g)
    BY <2>2 DEF ApplyPi
  <2> QED
    BY <2>1, <2>2
<1> HIDE DEF u
<1>2. DOMAIN u = {"piCandidate", "pi", "candidate", "confirmed", "name", "flag", "fill",
                  "radiotext", "current", "plusGroup", "tags"}
  BY <1>1 DEF RadiotextKept, Accumulator, NoRds
<1>3. ASSUME NEW q, \/ \E a : q = [u EXCEPT !.plusGroup = a]
                    \/ \E a : q = [u EXCEPT !.tags = a]
      PROVE  RadiotextKept(q, s, v) /\ q.flag = u.flag
  <2>1. /\ DOMAIN q = DOMAIN u /\ q.pi = u.pi /\ q.piCandidate = u.piCandidate
        /\ q.name = u.name /\ q.radiotext = u.radiotext /\ q.current = u.current
        /\ q.candidate = u.candidate /\ q.confirmed = u.confirmed
        /\ q.flag = u.flag /\ q.fill = u.fill
    BY <1>2, <1>3
  <2> QED
    BY <1>1, <2>1 DEF RadiotextKept, Accumulator, PiHeld
<1>4. CASE g.type = "oda"
  <2> DEFINE a == u.plusGroup \/ Trusted(g)
             q == [u EXCEPT !.plusGroup = a]
  <2>1. ApplyGroup(r, g) = q
    BY <1>4 DEF ApplyGroup, u
  <2> HIDE DEF a
  <2>2. q.tags = u.tags
    BY <1>2
  <2> QED
    BY <1>1, <1>3, <2>1, <2>2
<1>5. CASE g.type = "tags"
  <2>1. ApplyGroup(r, g) = ApplyRtPlus(u, g)
    BY <1>5 DEF ApplyGroup, u
  <2>2. CASE Trusted(g) /\ u.plusGroup
    <3> DEFINE q == [u EXCEPT !.tags = g.text]
    <3>1. q.tags = g.text
      BY <1>2
    <3>2. ApplyGroup(r, g) = q
      BY <2>1, <2>2 DEF ApplyRtPlus
    <3> QED
      BY <1>1, <1>3, <1>5, <2>2, <3>1, <3>2
  <2>3. CASE ~(Trusted(g) /\ u.plusGroup)
    BY <1>1, <2>1, <2>3 DEF ApplyRtPlus
  <2> QED
    BY <2>2, <2>3
<1> QED
  BY <1>4, <1>5

\* The station goes on to its second text.
LEMMA RadiotextChanged ==
    ASSUME NEW s \in Stations, NEW v \in Nat, NEW r, RadiotextKept(r, s, v)
    PROVE  RadiotextKept(r, s, v + 1)
<1>1. 0..v \subseteq 0..(v + 1)
  OBVIOUS
<1> QED
  BY <1>1 DEF RadiotextKept, TextsOf

-----------------------------------------------------------------------------
(* The label.                                                               *)

\* A label of service s under way, which has come to version v and to place k of its
\* carousel: a first part waits for its second, and is of the same label, until
\* three segments in a row were lost.
LabelHeld(d, s, v, k, l) ==
    /\ DOMAIN d = DOMAIN NoDls
    /\ d.text \in {<<>>} \cup {WholeLabel(<<s, w>>) : w \in 0..v}
    /\ \/ d.joined = <<>> /\ d.expected = 0
       \/ /\ d.expected = 2
          /\ \E w \in 0..v : /\ d.joined = << <<<<s, w>>, 0>> >>
                             /\ (k = 1 /\ w = v) \/ (k = 2 /\ l >= 1) \/ (k = 0 /\ l >= 2)

\* The accumulator of a service that was started.
LEMMA NoDlsHeld ==
    ASSUME NEW s, NEW v, NEW k, NEW l
    PROVE  LabelHeld(NoDls, s, v, k, l)
BY DEF LabelHeld, NoDls

\* The fields of an accumulator of labels.
LEMMA LabelFields ==
    ASSUME NEW d, DOMAIN d = DOMAIN NoDls, NEW a, NEW b, NEW c, NEW t, NEW i
    PROVE  /\ LET q == [d EXCEPT !.joined = a, !.expected = b]
              IN  DOMAIN q = DOMAIN NoDls /\ q.joined = a /\ q.expected = b /\ q.text = d.text
           /\ LET q == [d EXCEPT !.joined = a]
              IN  DOMAIN q = DOMAIN NoDls /\ q.joined = a /\ q.expected = d.expected /\ q.text = d.text
           /\ LET q == [d EXCEPT !.joined = a, !.expected = b, !.text = c, !.toggle = t]
              IN  DOMAIN q = DOMAIN NoDls /\ q.joined = a /\ q.expected = b /\ q.text = c
           /\ LET q == [d EXCEPT !.joined = a, !.expected = b, !.tags = i, !.link = t]
              IN  DOMAIN q = DOMAIN NoDls /\ q.joined = a /\ q.expected = b /\ q.text = d.text
<1>1. DOMAIN d = {"joined", "expected", "text", "toggle", "tags", "link"}
      /\ DOMAIN NoDls = {"joined", "expected", "text", "toggle", "tags", "link"}
  BY DEF NoDls
<1> QED
  BY <1>1

\* The first segment of a message starts it.
LEMMA FirstSegment ==
    ASSUME NEW d, DOMAIN d = DOMAIN NoDls, NEW n \in {1, 2}, NEW c
    PROVE  LET q == Join(d, 0, n, c)
           IN  DOMAIN q = DOMAIN NoDls /\ q.joined = <<c>> /\ q.expected = n /\ q.text = d.text
<1> DEFINE b == [d EXCEPT !.joined = <<>>, !.expected = n]
           q == [b EXCEPT !.joined = <<c>>]
<1>1. DOMAIN b = DOMAIN NoDls /\ b.joined = <<>> /\ b.expected = n /\ b.text = d.text
  BY LabelFields
<1>2. Join(d, 0, n, c) = [b EXCEPT !.joined = Append(@, c)]
  <2>1. Len(b.joined) = 0
    BY <1>1
  <2> HIDE DEF b
  <2>2. ~(n # b.expected \/ 0 # Len(b.joined))
    BY <1>1, <2>1
  <2> QED
    BY <2>2 DEF Join, b
<1> HIDE DEF b
<1>3. [b EXCEPT !.joined = Append(@, c)] = q
  <2>1. Append(b.joined, c) = <<c>>
    BY <1>1
  <2> QED
    BY <2>1
<1>4. DOMAIN q = DOMAIN NoDls /\ q.joined = <<c>> /\ q.expected = n /\ q.text = b.text
  BY <1>1, LabelFields
<1> QED
  BY <1>1, <1>2, <1>3, <1>4

\* Two parts make a sequence of two.
LEMMA Appended ==
    ASSUME NEW S, NEW a \in S, NEW b \in S PROVE Append(<<a>>, b) = <<a, b>>
<1> DEFINE s == <<a>>
           t == Append(s, b)
<1>1. s \in Seq(S) 
  OBVIOUS
<1>2. Len(s) = 1 /\ s[1] = a
  OBVIOUS
<1> HIDE DEF s
<1>4. t \in Seq(S) /\ Len(t) = 2
  <2>1. t \in Seq(S)
    BY <1>1
  <2>2. Len(t) = Len(s) + 1
    BY <1>1
  <2> QED
    BY <1>2, <2>1, <2>2
<1>5. t[1] = a
  <2>1. 1 \in 1..Len(s)
    BY <1>2
  <2>2. t[1] = s[1]
    BY <1>1, <2>1
  <2> QED
    BY <1>2, <2>2
<1>6. t[2] = b
  <2>1. 2 = Len(s) + 1
    BY <1>2
  <2> QED
    BY <1>1, <2>1
<1> HIDE DEF t
<1>7. t = [i \in 1..2 |-> t[i]]
  BY <1>4
<1>8. t = <<a, b>>
  BY <1>4, <1>5, <1>6, <1>7
<1> QED
  BY <1>8 DEF s, t

\* A segment that is received.
LEMMA LabelReceived ==
    ASSUME NEW s, NEW v \in Nat, NEW k \in {0, 1, 2}, NEW l \in Nat,
           NEW d, LabelHeld(d, s, v, k, l),
           NEW p, \/ k = 0 /\ p.type = "message" /\ p.part = 0 /\ p.count = 2 /\ p.text = <<<<s, v>>, 0>>
                  \/ k = 1 /\ p.type = "message" /\ p.part = 1 /\ p.count = 2 /\ p.text = <<<<s, v>>, 1>>
                  \/ k = 2 /\ p.type = "tags" /\ p.part = 0 /\ p.count = 1
    PROVE  LabelHeld(ApplyDls(d, p), s, v, (k + 1) % 3, l)
<1>0. DOMAIN d = DOMAIN NoDls /\ v \in 0..v
  BY DEF LabelHeld
<1> DEFINE c == p.text
           u == Join(d, p.part, p.count, c)
           q == ApplyDls(d, p)
<1>1. q = (IF u.expected = 0 \/ Len(u.joined) < u.expected THEN u
           ELSE IF p.type = "tags"
           THEN [u EXCEPT !.joined = <<>>, !.expected = 0, !.tags = p.text, !.link = p.toggle]
           ELSE [u EXCEPT !.joined = <<>>, !.expected = 0, !.text = u.joined, !.toggle = p.toggle])
  BY DEF ApplyDls
<1> HIDE DEF q
<1>2. CASE k = 0
  <2>1. p.part = 0 /\ p.count = 2 /\ c = <<<<s, v>>, 0>>
    BY <1>2
  <2>2. DOMAIN u = DOMAIN NoDls /\ u.joined = <<c>> /\ u.expected = 2 /\ u.text = d.text
    BY <1>0, <2>1, FirstSegment
  <2> HIDE DEF u
  <2>3. Len(u.joined) = 1
    BY <2>2
  <2>4. q = u
    BY <1>1, <2>2, <2>3
  <2>5. (k + 1) % 3 = 1
    BY <1>2
  <2>6. u.joined = << <<<<s, v>>, 0>> >>
    BY <2>1, <2>2
  <2> QED
    BY <1>0, <2>2, <2>4, <2>5, <2>6 DEF LabelHeld, q
<1>3. CASE k = 1
  <2>1. p.part = 1 /\ p.count = 2 /\ c = <<<<s, v>>, 1>> /\ p.type # "tags"
    BY <1>3
  <2>2. u = (IF 2 # d.expected \/ 1 # Len(d.joined)
             THEN [d EXCEPT !.joined = <<>>, !.expected = 0]
             ELSE [d EXCEPT !.joined = Append(@, c)])
    BY <2>1 DEF Join
  <2>3. CASE 2 # d.expected \/ 1 # Len(d.joined)
    <3>1. DOMAIN u = DOMAIN NoDls /\ u.joined = <<>> /\ u.expected = 0 /\ u.text = d.text
      BY <1>0, <2>2, <2>3, LabelFields
    <3> QED
      BY <1>1, <3>1 DEF LabelHeld, q
  <2>4. CASE ~(2 # d.expected \/ 1 # Len(d.joined))
    <3>1. d.joined = << <<<<s, v>>, 0>> >>
      BY <1>3, <2>4 DEF LabelHeld
    <3> DEFINE w == << <<<<s, v>>, 0>>, c >>
    <3>2. Append(d.joined, c) = w
      <4> DEFINE b == <<<<s, v>>, 0>>
                 S == {b, c}
      <4>1. b \in S /\ c \in S
        OBVIOUS
      <4> HIDE DEF S
      <4>2. Append(<<b>>, c) = <<b, c>>
        BY <4>1, Appended
      <4> QED
        BY <3>1, <4>2
    <3>3. u = [d EXCEPT !.joined = w]
      BY <2>2, <2>4, <3>2
    <3>4. w = WholeLabel(<<s, v>>) /\ Len(w) = 2
      BY <2>1 DEF WholeLabel
    <3> HIDE DEF w, u
    <3>5. DOMAIN u = DOMAIN NoDls /\ u.joined = w /\ u.expected = 2 /\ u.text = d.text
      BY <1>0, <2>4, <3>3, LabelFields
    <3>6. q = [u EXCEPT !.joined = <<>>, !.expected = 0, !.text = w, !.toggle = p.toggle]
      <4>1. ~(u.expected = 0 \/ Len(u.joined) < u.expected)
        BY <3>4, <3>5
      <4>2. q = [u EXCEPT !.joined = <<>>, !.expected = 0, !.text = u.joined, !.toggle = p.toggle]
        BY <1>1, <2>1, <4>1
      <4> QED
        BY <3>5, <4>2
    <3>7. DOMAIN q = DOMAIN NoDls /\ q.joined = <<>> /\ q.expected = 0 /\ q.text = w
      BY <3>5, <3>6, LabelFields
    <3> QED
      BY <1>0, <3>4, <3>7 DEF LabelHeld, q
  <2> QED
    BY <2>3, <2>4
<1>4. CASE k = 2
  <2>1. p.part = 0 /\ p.count = 1 /\ p.type = "tags"
    BY <1>4
  <2>2. DOMAIN u = DOMAIN NoDls /\ u.joined = <<c>> /\ u.expected = 1 /\ u.text = d.text
    BY <1>0, <2>1, FirstSegment
  <2> HIDE DEF u
  <2>3. Len(u.joined) = 1
    BY <2>2
  <2>4. q = [u EXCEPT !.joined = <<>>, !.expected = 0, !.tags = p.text, !.link = p.toggle]
    BY <1>1, <2>1, <2>2, <2>3
  <2>5. DOMAIN q = DOMAIN NoDls /\ q.joined = <<>> /\ q.expected = 0 /\ q.text = u.text
    BY <2>2, <2>4, LabelFields
  <2> QED
    BY <2>2, <2>5 DEF LabelHeld, q
<1> QED
  BY <1>2, <1>3, <1>4

\* A segment that is lost, of no more than two.
LEMMA LabelLost ==
    ASSUME NEW s, NEW v \in Nat, NEW k \in {0, 1, 2}, NEW l \in {0, 1},
           NEW d, LabelHeld(d, s, v, k, l)
    PROVE  LabelHeld(d, s, v, (k + 1) % 3, l + 1)
<1>1. CASE k = 0
  BY <1>1 DEF LabelHeld
<1>2. CASE k = 1
  <2>1. (k + 1) % 3 = 2 /\ l + 1 >= 1
    BY <1>2
  <2> QED
    BY <1>2, <2>1 DEF LabelHeld
<1>3. CASE k = 2
  <2>1. (k + 1) % 3 = 0
    BY <1>3
  <2>2. l >= 1 => l + 1 >= 2
    OBVIOUS
  <2> QED
    BY <1>3, <2>1, <2>2 DEF LabelHeld
<1> QED
  BY <1>1, <1>2, <1>3

\* A label is sent to its end before the next.
LEMMA LabelChanged ==
    ASSUME NEW s, NEW v \in Nat, NEW l, NEW d, LabelHeld(d, s, v, 0, l)
    PROVE  LabelHeld(d, s, v + 1, 0, l)
<1>1. 0..v \subseteq 0..(v + 1)
  OBVIOUS
<1>2. d.text \in {<<>>} \cup {WholeLabel(<<s, w>>) : w \in 0..(v + 1)}
  BY <1>1 DEF LabelHeld
<1>3. CASE d.joined = <<>> /\ d.expected = 0
  BY <1>2, <1>3 DEF LabelHeld
<1>4. CASE ~(d.joined = <<>> /\ d.expected = 0)
  <2>1. PICK w \in 0..v : /\ d.joined = << <<<<s, w>>, 0>> >>
                          /\ (0 = 1 /\ w = v) \/ (0 = 2 /\ l >= 1) \/ (0 = 0 /\ l >= 2)
    BY <1>4 DEF LabelHeld
  <2>2. l >= 2 /\ w \in 0..(v + 1)
    BY <1>1, <2>1
  <2> QED
    BY <1>2, <1>4, <2>1, <2>2 DEF LabelHeld
<1> QED
  BY <1>3, <1>4

-----------------------------------------------------------------------------
(* The texts on show, as the stations go on.                                *)

\* The texts in receiver u: none, or those of the station it is tuned to, when the
\* stations have come to the versions ver, the carousel to place k, and l groups
\* were lost; m: a flag was misread.
TextHeld(u, ver, k, l, m) ==
    /\ u.booted
    /\ u.loaded = "fm" =>
          \/ u.rds = NoRds
          \/ kind = "name" /\ NameHeld(u.rds, u.chip.at, ver[u.chip.at], k, l)
          \/ /\ kind = "radiotext" /\ RadiotextKept(u.rds, u.chip.at, ver[u.chip.at])
             /\ ~m /\ MaxLost <= 1 => TagsHeld(u.rds, u.chip.at, ver[u.chip.at], k, l)
    /\ u.loaded = "dab" =>
          \/ u.dls = NoDls
          \/ /\ kind = "label" /\ u.chip.service # None
             /\ LabelHeld(u.dls, u.chip.service, ver[u.chip.service], k, l)

TextInv ==
    /\ lost \in 0..MaxLost
    /\ kind = "name" => pos \in {0, 1}
    /\ kind = "radiotext" => pos \in {0, 1, 2, 3}
    /\ kind = "label" => pos \in {0, 1, 2}
    /\ ~dirty => TextHeld(radio, version, pos, lost, misread)

\* How much may go wrong within the text on the air: one group of a name and two
\* segments of a label are lost or misread, and the flag tells a radiotext from the next.
FewerThanConfirms ==
    /\ MaxLost \in Nat
    /\ "name" \in Kinds => MaxLost <= 1
    /\ "radiotext" \in Kinds => MaxVersion <= 1
    /\ "label" \in Kinds => MaxLost <= 2

\* A tuner that was tuned before is on a frequency or ensemble of its band.
LEMMA FitInitially == ReceptionInit => FitInv
<1> SUFFICES ASSUME ReceptionInit PROVE FitInv
  OBVIOUS
<1>1. RadioInv /\ radio.failures = 0
  BY RadioInitially
<1>2. radio \in Radios({NoRds, radio.rds}, {NoDls, radio.dls})
  BY <1>1 DEF RadioInv
<1>3. /\ radio.booted
      /\ \/ radio.loaded = "fm" /\ radio.chip.at \in Frequencies
         \/ radio.loaded = "dab" /\ radio.chip.at \in Ensembles
      /\ radio.rds = NoRds /\ radio.dls = NoDls
  <2>1. ASSUME NEW f \in Frequencies
        PROVE  /\ OnFrequency(f).booted /\ OnFrequency(f).loaded = "fm" /\ OnFrequency(f).chip.at = f
               /\ OnFrequency(f).rds = NoRds /\ OnFrequency(f).dls = NoDls
    BY DEF OnFrequency, Fresh, IdleChip
  <2>2. ASSUME NEW e \in Ensembles, NEW s
        PROVE  /\ OnService(e, s).booted /\ OnService(e, s).loaded = "dab" /\ OnService(e, s).chip.at = e
               /\ OnService(e, s).rds = NoRds /\ OnService(e, s).dls = NoDls
    BY DEF OnService, Fresh, IdleChip
  <2>3. CASE OnFm
    <3>1. PICK f \in Frequencies : radio = OnFrequency(f)
      BY <2>3 DEF ReceptionInit
    <3> QED
      BY <2>1, <3>1
  <2>4. CASE ~OnFm
    <3>1. radio \in UNION {{OnService(e, s) : s \in Carried[e]} : e \in Ensembles}
      BY <2>4 DEF ReceptionInit
    <3>2. PICK e \in Ensembles : radio \in {OnService(e, s) : s \in Carried[e]}
      BY <3>1
    <3>3. PICK s \in Carried[e] : radio = OnService(e, s)
      BY <3>2
    <3> QED
      BY <2>2, <3>3
  <2> QED
    BY <2>3, <2>4
<1>4. AsTuner(radio) = TunerState(radio.loaded, radio.chip.at, radio.chip.service, radio.index,
                                  radio.played, radio.muted, radio.failures)
  BY <1>2, <1>3, View
<1>5. /\ radio.loaded \in {"dab", "fm"} /\ radio.chip.at \in Ensembles \cup Frequencies \cup {None}
      /\ radio.chip.service \in Services \cup {None} /\ radio.index \in Ensembles
      /\ radio.played \in Services \cup {None} /\ radio.muted \in BOOLEAN
      /\ radio.failures \in 0..MaxFailures
  BY <1>2 DEF Radios, Chips
<1> DEFINE t == AsTuner(radio)
<1>6. t \in TunerStates
  BY <1>4, <1>5 DEF TunerStates, TunerState
<1>7. t.band = radio.loaded /\ t.at = radio.chip.at
  BY <1>4 DEF TunerState
<1> HIDE DEF t
<1>8. t \in Fit
  BY <1>3, <1>6, <1>7 DEF Fit
<1> QED
  BY <1>8 DEF FitInv, t

\* There is no text at first.
LEMMA TextInitially == FewerThanConfirms /\ ReceptionInit => TextInv
<1> SUFFICES ASSUME FewerThanConfirms, ReceptionInit PROVE TextInv
  OBVIOUS
<1>1. radio.booted /\ radio.rds = NoRds /\ radio.dls = NoDls
  <2>1. ASSUME NEW f \in Frequencies
        PROVE  OnFrequency(f).booted /\ OnFrequency(f).rds = NoRds /\ OnFrequency(f).dls = NoDls
    BY DEF OnFrequency, Fresh, IdleChip
  <2>2. ASSUME NEW e \in Ensembles, NEW s
        PROVE  OnService(e, s).booted /\ OnService(e, s).rds = NoRds /\ OnService(e, s).dls = NoDls
    BY DEF OnService, Fresh, IdleChip
  <2>3. CASE OnFm
    <3>1. PICK f \in Frequencies : radio = OnFrequency(f)
      BY <2>3 DEF ReceptionInit
    <3> QED
      BY <2>1, <3>1
  <2>4. CASE ~OnFm
    <3>1. radio \in UNION {{OnService(e, s) : s \in Carried[e]} : e \in Ensembles}
      BY <2>4 DEF ReceptionInit
    <3>2. PICK e \in Ensembles : radio \in {OnService(e, s) : s \in Carried[e]}
      BY <3>1
    <3>3. PICK s \in Carried[e] : radio = OnService(e, s)
      BY <3>2
    <3> QED
      BY <2>2, <3>3
  <2> QED
    BY <2>3, <2>4
<1> QED
  BY <1>1 DEF ReceptionInit, TextInv, TextHeld, FewerThanConfirms

\* What is heard of RDS is the frequency in the chip.
LEMMA HeardFrequency ==
    ASSUME RadioInv, FitInv, OnFm, Heard # None
    PROVE  /\ radio.loaded = "fm" /\ Heard = radio.chip.at /\ Heard \in Frequencies
           /\ Heard \in Stations /\ Pi[Heard] # Noise
<1>1. radio \in Radios({NoRds, radio.rds}, {NoDls, radio.dls})
  BY DEF RadioInv
<1>2. radio.loaded = "fm" /\ Source(radio) = Heard
  BY DEF Heard
<1>3. radio.booted /\ Heard = radio.chip.at
  BY <1>2 DEF Source
<1>4. AsTuner(radio) = TunerState(radio.loaded, radio.chip.at, radio.chip.service, radio.index,
                                  radio.played, radio.muted, radio.failures)
  BY <1>1, <1>3, View
<1>5. AsTuner(radio).band = "fm" /\ AsTuner(radio).at = Heard
  BY <1>2, <1>3, <1>4 DEF TunerState
<1>6. Heard \in Frequencies
  BY <1>5 DEF FitInv, Fit
<1> QED
  BY <1>2, <1>3, <1>6, ReceptionAssumption DEF Stations, Pis

\* What is heard of DAB is the service that the chip plays.
LEMMA HeardLabel ==
    ASSUME RadioInv, kind \in Kinds, ~OnFm, Heard # None
    PROVE  /\ radio.loaded = "dab" /\ Heard = radio.chip.service /\ Heard \in Stations
<1>1. radio.loaded \in {"dab", "fm"} /\ radio.chip \in Chips
  BY DEF RadioInv, Radios
<1>2. radio.loaded = "dab"
  BY <1>1 DEF Heard
<1>3. Heard = radio.chip.service
  BY <1>2 DEF Heard, Source
<1> QED
  BY <1>1, <1>2, <1>3 DEF Chips, Stations

\* A call: the text is renewed, or stays, or the failure is remembered.
LEMMA CallKeeps ==
    ASSUME TextInv, NEW results, NEW tunes \in BOOLEAN, Call(results, tunes),
           \A r \in results :
               IF tunes THEN IF r.ok THEN Renewed(r.t) ELSE r.t.failures # radio.failures
               ELSE r.t.failures # radio.failures \/ Renewed(r.t) \/ SameText(radio, r.t)
    PROVE  TextInv'
<1>1. UNCHANGED <<kind, version, pos, lost>>
  BY DEF Call
<1>2. PICK r \in results :
         /\ radio' = r.t
         /\ dirty' = IF r.ok /\ tunes THEN FALSE ELSE dirty \/ r.t.failures # radio.failures
         /\ misread' = (misread /\ ~(r.ok /\ tunes))
  BY DEF Call
<1>3. IF tunes THEN IF r.ok THEN Renewed(r.t) ELSE r.t.failures # radio.failures
      ELSE r.t.failures # radio.failures \/ Renewed(r.t) \/ SameText(radio, r.t)
  OBVIOUS
<1>4. \/ Renewed(radio')
      \/ dirty'
      \/ (dirty' <=> dirty) /\ (misread' <=> misread) /\ SameText(radio, radio')
  <2>1. CASE r.ok /\ tunes
    BY <1>2, <1>3, <2>1
  <2>2. CASE ~(r.ok /\ tunes) /\ r.t.failures # radio.failures
    BY <1>2, <2>2
  <2>3. CASE ~(r.ok /\ tunes) /\ r.t.failures = radio.failures
    <3>1. ~tunes
      BY <1>3, <2>3
    <3>2. Renewed(r.t) \/ SameText(radio, r.t)
      BY <1>3, <2>3, <3>1
    <3>3. (dirty' <=> dirty) /\ (misread' <=> misread)
      BY <1>2, <2>3
    <3>4. SameText(radio, r.t) => SameText(radio, radio')
      BY <1>2
    <3> QED
      BY <1>2, <3>2, <3>3, <3>4
  <2> QED
    BY <2>1, <2>2, <2>3
<1>5. CASE Renewed(radio')
  BY <1>1, <1>5 DEF TextInv, TextHeld, Renewed
<1>6. CASE dirty'
  BY <1>1, <1>6 DEF TextInv
<1>7. CASE (dirty' <=> dirty) /\ (misread' <=> misread) /\ SameText(radio, radio')
  BY <1>1, <1>7 DEF TextInv, TextHeld, SameText
<1> QED
  BY <1>4, <1>5, <1>6, <1>7

\* No call leaves a text of what was heard before, unless it failed.
LEMMA CallsKeep ==
    ASSUME RadioInv, FitInv, TextInv,
           TunePost \/ SeekPost \/ PlayPost \/ ServicesGet \/ StatusGet \/ SetVolumeOf
    PROVE  TextInv'
<1> DEFINE texts  == {NoRds, radio.rds}
           labels == {NoDls, radio.dls}
<1>0. /\ radio \in Radios(texts, labels) /\ NoRds \in texts /\ NoDls \in labels
      /\ AsTuner(radio) \in Fit
  BY DEF RadioInv, FitInv
<1> HIDE DEF texts, labels
<1>1. ASSUME NEW e \in Ensembles, Call(TuneEnsemble(radio, e), TRUE) PROVE TextInv'
  <2>1. \A r \in TuneEnsemble(radio, e) : IF r.ok THEN Renewed(r.t) ELSE r.t.failures # radio.failures
    BY <1>0, TunedEnsembleText
  <2> QED
    BY <1>1, <2>1, CallKeeps
<1>2. ASSUME NEW f \in Frequencies, Call(TuneFrequency(radio, f), TRUE) PROVE TextInv'
  <2>1. ASSUME NEW r \in TuneFrequency(radio, f)
        PROVE  IF r.ok THEN Renewed(r.t) ELSE r.t.failures # radio.failures
    <3>1. Seen(r) \in FmResults(AsTuner(radio))
      BY <1>0, SeenTuneFrequency
    <3>2. Counted(AsTuner(radio), Seen(r))
      BY <1>0, <3>1, FmCounted
    <3>3. ~r.ok => r.t.failures # radio.failures
      BY <1>0, <3>2, CountedIs
    <3>4. r.ok => Renewed(r.t)
      BY <1>0, TunedFrequencyText
    <3> QED
      BY <3>3, <3>4
  <2> QED
    BY <1>2, <2>1, CallKeeps
<1>3. CASE SeekPost
  <2>1. PICK up \in BOOLEAN : Call(Seek(radio, up), TRUE)
    BY <1>3 DEF SeekPost
  <2>2. ASSUME NEW r \in Seek(radio, up)
        PROVE  IF r.ok THEN Renewed(r.t) ELSE r.t.failures # radio.failures
    <3>1. Seen(r) \in FmResults(AsTuner(radio))
      BY <1>0, SeenSeek
    <3>2. Counted(AsTuner(radio), Seen(r))
      BY <1>0, <3>1, FmCounted
    <3>3. ~r.ok => r.t.failures # radio.failures
      BY <1>0, <3>2, CountedIs
    <3>4. r.ok => Renewed(r.t)
      BY <1>0, SoughtText
    <3> QED
      BY <3>3, <3>4
  <2> QED
    BY <2>1, <2>2, CallKeeps
<1>4. CASE PlayPost
  <2>1. PICK s \in Services : Call(Play(radio, s, Level), TRUE)
    BY <1>4 DEF PlayPost
  <2>2. ASSUME NEW r \in Play(radio, s, Level)
        PROVE  IF r.ok THEN Renewed(r.t) ELSE r.t.failures # radio.failures
    <3>1. Seen(r) \in PlayDab(AsTuner(radio), s, Level)
      BY <1>0, SeenPlay
    <3>2. Counted(AsTuner(radio), Seen(r))
      BY <1>0, <3>1, Playing
    <3>3. ~r.ok => r.t.failures # radio.failures
      BY <1>0, <3>2, CountedIs
    <3>4. r.ok => Renewed(r.t)
      BY <1>0, PlayedText
    <3> QED
      BY <3>3, <3>4
  <2> QED
    BY <2>1, <2>2, CallKeeps
<1>5. CASE ServicesGet
  <2>1. \A r \in List(radio, Level) :
           r.t.failures # radio.failures \/ Renewed(r.t) \/ SameText(radio, r.t)
    BY <1>0, ListedText DEF SameText
  <2>2. Call(List(radio, Level), FALSE)
    BY <1>5 DEF ServicesGet
  <2> QED
    BY <2>1, <2>2, CallKeeps
<1>6. CASE StatusGet
  <2>1. \A r \in Status(radio) : r.t.failures # radio.failures \/ SameText(radio, r.t)
    BY <1>0, StatusText
  <2>2. Call(Status(radio), FALSE)
    BY <1>6 DEF StatusGet
  <2> QED
    BY <2>1, <2>2, CallKeeps
<1>7. CASE SetVolumeOf
  <2>1. PICK m \in BOOLEAN : Call(SetMuted(radio, m), FALSE)
    BY <1>7 DEF SetVolumeOf
  <2>2. \A r \in SetMuted(radio, m) : r.t.failures # radio.failures \/ SameText(radio, r.t)
    BY <1>0, MutedText
  <2> QED
    BY <2>1, <2>2, CallKeeps
<1> QED
  BY <1>1, <1>2, <1>3, <1>4, <1>5, <1>6, <1>7 DEF TunePost

\* A packet changes the text it is of, and leaves the rest of the receiver.
LEMMA Taken ==
    ASSUME RadioInv, kind \in Kinds, NEW p, Take(p)
    PROVE  /\ radio'.booted = radio.booted /\ radio'.loaded = radio.loaded /\ radio'.chip = radio.chip
           /\ IF OnFm THEN radio'.rds = ApplyGroup(radio.rds, p) /\ radio'.dls = radio.dls
              ELSE /\ radio'.rds = radio.rds
                   /\ radio'.dls = IF kind = "label" THEN ApplyDls(radio.dls, p) ELSE radio.dls
<1>0. kind \in {"name", "radiotext", "label", "slide"}
  BY ReceptionAssumption
<1>1. DOMAIN radio = {"booted", "loaded", "fmReady", "index", "freq", "muted", "service",
                      "played", "failures", "chip", "rds", "dls"}
  BY DEF RadioInv, Radios
<1>2. CASE OnFm
  <2> DEFINE a == ApplyGroup(radio.rds, p)
  <2>1. radio' = [radio EXCEPT !.rds = a]
    BY <1>2 DEF Take, OnFm
  <2> HIDE DEF a
  <2>2. /\ radio'.booted = radio.booted /\ radio'.loaded = radio.loaded
        /\ radio'.chip = radio.chip /\ radio'.rds = a /\ radio'.dls = radio.dls
    BY <1>1, <2>1
  <2> QED
    BY <1>2, <2>2 DEF a
<1>3. CASE kind = "label"
  <2> DEFINE a == ApplyDls(radio.dls, p)
  <2>0. ~OnFm
    BY <1>3 DEF OnFm
  <2>1. radio' = [radio EXCEPT !.dls = a]
    BY <1>3, <2>0 DEF Take
  <2> HIDE DEF a
  <2>2. /\ radio'.booted = radio.booted /\ radio'.loaded = radio.loaded
        /\ radio'.chip = radio.chip /\ radio'.dls = a /\ radio'.rds = radio.rds
    BY <1>1, <2>1
  <2> QED
    BY <1>3, <2>0, <2>2 DEF a
<1>4. CASE kind = "slide"
  <2>1. ~OnFm /\ radio' = radio
    BY <1>4 DEF Take, OnFm
  <2> QED
    BY <1>4, <2>1
<1> QED
  BY <1>0, <1>2, <1>3, <1>4 DEF OnFm

\* A station that goes on counts its texts.
LEMMA Changed ==
    ASSUME OnAirInv, Change, Heard \in Stations
    PROVE  version'[Heard] = version[Heard] + 1 /\ version[Heard] \in Nat
           /\ version'[Heard] \in 0..MaxVersion
<1>1. version \in [Stations -> 0..MaxVersion] /\ MaxVersion \in Nat
  BY ReceptionAssumption DEF OnAirInv
<1>2. version' = [version EXCEPT ![Heard] = @ + 1] /\ version[Heard] < MaxVersion
  BY DEF Change
<1> QED
  BY <1>1, <1>2

\* At place k of its carousel, a station sends part k of its name.
LEMMA NamePacket ==
    ASSUME OnAirInv, kind = "name", pos \in {0, 1}, Heard # None
    PROVE  /\ Packet = Group(Heard, "name", pos, <<Sent(Heard), pos>>)
           /\ (pos + 1) % Len(Carousel(Heard)) = 1 - pos
<1> DEFINE s == Heard
           a == Group(s, "name", 0, <<Sent(s), 0>>)
           b == Group(s, "name", 1, <<Sent(s), 1>>)
<1>1. Carousel(s) = <<a, b>>
  BY DEF Carousel
<1> HIDE DEF a, b, s
<1>2. Len(Carousel(s)) = 2 /\ Carousel(s)[1] = a /\ Carousel(s)[2] = b
  BY <1>1
<1>3. CASE pos = 0
  <2>1. (pos % 2) + 1 = 1 /\ (pos + 1) % 2 = 1 - pos
    BY <1>3
  <2> QED
    BY <1>2, <1>3, <2>1 DEF Packet, a, s
<1>4. CASE pos = 1
  <2>1. (pos % 2) + 1 = 2 /\ (pos + 1) % 2 = 1 - pos
    BY <1>4
  <2> QED
    BY <1>2, <1>4, <2>1 DEF Packet, b, s
<1> QED
  BY <1>3, <1>4

\* A group that was read wrong is doubtful, or it is a name with its text or its PI.
LEMMA Corrupting ==
    ASSUME NEW s, NEW type, NEW part, NEW text,
           NEW g \in Corrupted(Group(s, type, part, text))
    PROVE  /\ g.type = type
           /\ \/ ~Trusted(g)
              \/ /\ kind = "name" /\ Trusted(g) /\ g.part = part
                 /\ \/ g.pi = Pi[s] /\ g.text = Noise
                    \/ g.pi = Noise /\ g.text = text
           /\ kind # "name" => ~Trusted(g)
<1> DEFINE c == version[s] % 2
           o == Group(s, type, part, text)
<1>1. o = [type |-> type, pi |-> Pi[s], part |-> part, text |-> text, flag |-> c, read |-> "clean"]
  BY DEF Group
<1>2. /\ DOMAIN o = {"type", "pi", "part", "text", "flag", "read"}
      /\ o.type = type /\ o.pi = Pi[s] /\ o.part = part /\ o.text = text /\ o.read = "clean"
  BY <1>1
<1> HIDE DEF o
<1>3. g \in Corrupted(o)
  BY DEF o
<1> DEFINE D(i) == {[o EXCEPT !.read = "doubtful", !.part = i, !.flag = b, !.text = Noise] : b \in 0..1}
           A == UNION {D(i) : i \in Parts}
           B == {[o EXCEPT !.text = Noise], [o EXCEPT !.pi = Noise]}
<1>7. g \in A \/ (kind = "name" /\ g \in B)
  <2>1. Corrupted(o) = A \cup (IF kind = "name" THEN B ELSE {})
    BY DEF Corrupted
  <2> HIDE DEF A, B
  <2> QED
    BY <1>3, <2>1
<1>4. ASSUME NEW i \in Parts, NEW b \in 0..1,
             g = [o EXCEPT !.read = "doubtful", !.part = i, !.flag = b, !.text = Noise]
      PROVE  g.type = type /\ ~Trusted(g)
  <2>1. g.type = type /\ g.read = "doubtful"
    BY <1>2, <1>4
  <2> QED
    BY <2>1 DEF Trusted
<1>5. CASE kind = "name" /\ g = [o EXCEPT !.text = Noise]
  <2>1. g.type = type /\ g.read = "clean" /\ g.part = part /\ g.pi = Pi[s] /\ g.text = Noise
    BY <1>2, <1>5
  <2> QED
    BY <1>5, <2>1 DEF Trusted
<1>6. CASE kind = "name" /\ g = [o EXCEPT !.pi = Noise]
  <2>1. g.type = type /\ g.read = "clean" /\ g.part = part /\ g.pi = Noise /\ g.text = text
    BY <1>2, <1>6
  <2> QED
    BY <1>6, <2>1 DEF Trusted
<1>8. CASE g \in A
  <2>1. PICK i \in Parts : g \in D(i)
    <3> HIDE DEF D
    <3> QED
      BY <1>8
  <2>2. PICK b \in 0..1 :
           g = [o EXCEPT !.read = "doubtful", !.part = i, !.flag = b, !.text = Noise]
    BY <2>1
  <2>3. g.type = type /\ ~Trusted(g)
    BY <1>4, <2>2
  <2> QED
    BY <2>3
<1>9. CASE kind = "name" /\ g \in B
  BY <1>5, <1>6, <1>9
<1> QED
  BY <1>7, <1>8, <1>9

\* A group of the radiotext, received in its place k of the carousel.
LEMMA RadiotextReceived ==
    ASSUME NEW s \in Stations, Pi[s] # Noise, NEW v \in {0, 1}, NEW k \in {0, 1, 2, 3}, NEW l,
           NEW o, o = (k + 1) % 4,
           NEW r, RadiotextKept(r, s, v), NEW g, Trusted(g), g.pi = Pi[s], g.flag = v,
           \/ k = 0 /\ g.type = "oda"
           \/ k = 1 /\ g.type = "radiotext" /\ g.part = 0 /\ g.text = <<<<s, v>>, 0>>
           \/ k = 2 /\ g.type = "radiotext" /\ g.part = 1 /\ g.text = <<<<s, v>>, 1>>
           \/ k = 3 /\ g.type = "tags" /\ g.text = <<s, v>>
    PROVE  /\ RadiotextKept(ApplyGroup(r, g), s, v)
           /\ TagsHeld(r, s, v, k, l) => TagsHeld(ApplyGroup(r, g), s, v, o, l)
<1> DEFINE q == ApplyGroup(r, g)
<1>1. NoText \notin {0, 1}
  BY ReceptionAssumption
<1>2. CASE k \in {1, 2}
  <2>1. /\ g.part \in {0, 1} /\ g.flag \in 0..v /\ g.text = <<<<s, g.flag>>, g.part>>
        /\ g.type = "radiotext"
    BY <1>2
  <2>2. RadiotextKept(q, s, v) /\ q.flag = v /\ q.tags = (IF r.flag = v THEN r.tags ELSE NoText)
    BY <2>1, RadiotextApplied
  <2> HIDE DEF q
  <2>3. ASSUME TagsHeld(r, s, v, k, l) PROVE TagsHeld(q, s, v, o, l)
    BY <1>1, <2>2, <2>3 DEF TagsHeld
  <2> QED
    BY <2>2, <2>3 DEF q
<1>3. CASE k \in {0, 3}
  <2>1. g.type \in {"oda", "tags"}
    BY <1>3
  <2>2. /\ RadiotextKept(q, s, v) /\ q.flag = r.flag
        /\ q.tags = r.tags \/ (g.type = "tags" /\ q.tags = g.text)
    BY <2>1, TagsApplied
  <2> HIDE DEF q
  <2>3. ASSUME TagsHeld(r, s, v, k, l) PROVE TagsHeld(q, s, v, o, l)
    <3>1. CASE k = 0
      BY <1>1, <2>2, <2>3, <3>1 DEF TagsHeld
    <3>2. CASE k = 3
      <4>1. g.text = <<s, v>>
        BY <3>2
      <4> QED
        BY <1>1, <2>2, <2>3, <3>2, <4>1 DEF TagsHeld
    <3> QED
      BY <1>3, <3>1, <3>2
  <2> QED
    BY <2>2, <2>3 DEF q
<1> QED
  BY <1>2, <1>3

\* Tags of a group that is the first to be lost stay those of the text.
LEMMA TagsLost ==
    ASSUME NEW s, NEW v \in {0, 1}, NEW k \in {0, 1, 2, 3}, NEW r, TagsHeld(r, s, v, k, 0)
    PROVE  TagsHeld(r, s, v, (k + 1) % 4, 1)
<1>1. CASE k = 0
  BY <1>1 DEF TagsHeld
<1>2. CASE k = 1
  BY <1>2 DEF TagsHeld
<1>3. CASE k \in {2, 3}
  BY <1>3 DEF TagsHeld
<1> QED
  BY <1>1, <1>2, <1>3

\* A group of the radiotext that is not trusted: its flag is, all the same.
LEMMA RadiotextDoubted ==
    ASSUME NEW s \in Stations, Pi[s] # Noise, NEW v \in {0, 1}, NEW k \in {0, 1, 2, 3},
           NEW r, RadiotextKept(r, s, v), NEW g, ~Trusted(g),
           \/ k = 0 /\ g.type = "oda"
           \/ k \in {1, 2} /\ g.type = "radiotext"
           \/ k = 3 /\ g.type = "tags"
    PROVE  /\ RadiotextKept(ApplyGroup(r, g), s, v)
           /\ g.flag = v /\ TagsHeld(r, s, v, k, 0) =>
                 TagsHeld(ApplyGroup(r, g), s, v, (k + 1) % 4, 1)
<1> DEFINE q == ApplyGroup(r, g)
<1>1. NoText \notin {0, 1}
  BY ReceptionAssumption
<1>2. CASE g.type = "radiotext"
  <2>1. RadiotextKept(q, s, v) /\ q.flag = g.flag /\ q.tags = (IF r.flag = g.flag THEN r.tags ELSE NoText)
    BY <1>2, RadiotextApplied
  <2> HIDE DEF q
  <2>2. ASSUME g.flag = v, TagsHeld(r, s, v, k, 0) PROVE TagsHeld(q, s, v, (k + 1) % 4, 1)
    BY <1>1, <2>1, <2>2 DEF TagsHeld
  <2> QED
    BY <2>1, <2>2 DEF q
<1>3. CASE g.type \in {"oda", "tags"}
  <2>1. RadiotextKept(q, s, v) /\ q.flag = r.flag /\ q.tags = r.tags
    BY <1>3, TagsApplied
  <2> HIDE DEF q
  <2>2. ASSUME TagsHeld(r, s, v, k, 0) PROVE TagsHeld(q, s, v, (k + 1) % 4, 1)
    <3>1. TagsHeld(r, s, v, (k + 1) % 4, 1)
      BY <2>2, TagsLost
    <3> QED
      BY <2>1, <3>1 DEF TagsHeld
  <2> QED
    BY <2>1, <2>2 DEF q
<1> QED
  BY <1>2, <1>3

\* The tags of the first text stay, until the parts of the second come.
LEMMA TagsChanged ==
    ASSUME NEW s, NEW k, NEW l, NEW r, TagsHeld(r, s, 0, k, l)
    PROVE  TagsHeld(r, s, 1, 0, l)
BY DEF TagsHeld

\* At place k of its carousel, a station sends the announcement of the tags, the two
\* parts of its radiotext, or the tags.
LEMMA RadiotextPacket ==
    ASSUME kind = "radiotext", pos \in {0, 1, 2, 3}
    PROVE  LET s == Heard
               n == Sent(s)
           IN  /\ \/ pos = 0 /\ Packet = Group(s, "oda", 0, n)
                  \/ pos = 1 /\ Packet = Group(s, "radiotext", 0, <<n, 0>>)
                  \/ pos = 2 /\ Packet = Group(s, "radiotext", 1, <<n, 1>>)
                  \/ pos = 3 /\ Packet = Group(s, "tags", 0, n)
               /\ (pos + 1) % Len(Carousel(s)) = (pos + 1) % 4
<1> DEFINE s == Heard
           n == Sent(s)
           a == Group(s, "oda", 0, n)
           b == Group(s, "radiotext", 0, <<n, 0>>)
           c == Group(s, "radiotext", 1, <<n, 1>>)
           d == Group(s, "tags", 0, n)
<1>1. Carousel(s) = <<a, b, c, d>>
  BY DEF Carousel
<1> HIDE DEF a, b, c, d, s
<1>2. /\ Len(Carousel(s)) = 4 /\ Carousel(s)[1] = a /\ Carousel(s)[2] = b
      /\ Carousel(s)[3] = c /\ Carousel(s)[4] = d
  BY <1>1
<1>3. Packet = Carousel(s)[(pos % 4) + 1]
  BY <1>2 DEF Packet, s
<1>4. (pos % 4) + 1 = pos + 1
  OBVIOUS
<1>5. \/ pos = 0 /\ Packet = a
      \/ pos = 1 /\ Packet = b
      \/ pos = 2 /\ Packet = c
      \/ pos = 3 /\ Packet = d
  BY <1>2, <1>3, <1>4
<1> QED
  BY <1>2, <1>5 DEF a, b, c, d, s

\* At place k of its carousel, a service sends a part of its label, or the tags.
LEMMA LabelPacket ==
    ASSUME kind = "label", pos \in {0, 1, 2}
    PROVE  LET s == Heard
               p == Packet
           IN  /\ \/ /\ pos = 0 /\ p.type = "message" /\ p.part = 0 /\ p.count = 2
                     /\ p.text = <<Sent(s), 0>>
                  \/ /\ pos = 1 /\ p.type = "message" /\ p.part = 1 /\ p.count = 2
                     /\ p.text = <<Sent(s), 1>>
                  \/ pos = 2 /\ p.type = "tags" /\ p.part = 0 /\ p.count = 1
               /\ (pos + 1) % Len(Carousel(s)) = (pos + 1) % 3
<1> DEFINE s == Heard
           n == Sent(s)
           a == Segment(s, "message", 0, 2, <<n, 0>>)
           b == Segment(s, "message", 1, 2, <<n, 1>>)
           c == Segment(s, "tags", 0, 1, n)
<1>1. Carousel(s) = <<a, b, c>>
  BY DEF Carousel
<1>2. /\ a.type = "message" /\ a.part = 0 /\ a.count = 2 /\ a.text = <<n, 0>>
      /\ b.type = "message" /\ b.part = 1 /\ b.count = 2 /\ b.text = <<n, 1>>
      /\ c.type = "tags" /\ c.part = 0 /\ c.count = 1
  BY DEF Segment
<1> HIDE DEF a, b, c, s
<1>3. Len(Carousel(s)) = 3 /\ Carousel(s)[1] = a /\ Carousel(s)[2] = b /\ Carousel(s)[3] = c
  BY <1>1
<1>4. Packet = Carousel(s)[(pos % 3) + 1]
  BY <1>3 DEF Packet, s
<1>5. (pos % 3) + 1 = pos + 1
  OBVIOUS
<1>6. (pos = 0 /\ Packet = a) \/ (pos = 1 /\ Packet = b) \/ (pos = 2 /\ Packet = c)
  BY <1>3, <1>4, <1>5
<1> QED
  BY <1>2, <1>3, <1>6 DEF s

\* The name of the frequency on the air stays one it sent, while its groups come, are
\* lost or misread, and it goes on to the next.
LEMMA NameStep ==
    ASSUME OnAirInv, FitInv, TextInv, FewerThanConfirms, kind = "name",
           Receive \/ Lose \/ Corrupt \/ Change
    PROVE  TextInv'
<1> DEFINE s == Heard
           v == version[s]
<1>1. /\ Heard # None /\ OnFm /\ kind' = kind /\ kind \in Kinds /\ RadioInv
      /\ dirty' <=> dirty
  BY DEF OnAirInv, OnFm, Receive, Drain, Lose, Corrupt, Change, Pass
<1>2. /\ radio.loaded = "fm" /\ s = radio.chip.at /\ s \in Stations /\ Pi[s] # Noise
  BY <1>1, HeardFrequency
<1>3. /\ v \in Nat /\ MaxLost \in Nat /\ MaxLost <= 1 /\ lost \in {0, 1} /\ pos \in {0, 1}
      /\ lost \in 0..MaxLost
  <2>1. version \in [Stations -> 0..MaxVersion] /\ MaxVersion \in Nat
    BY ReceptionAssumption DEF OnAirInv
  <2>2. MaxLost \in Nat /\ MaxLost <= 1 /\ lost \in 0..MaxLost /\ pos \in {0, 1}
    BY <1>1 DEF FewerThanConfirms, TextInv
  <2> QED
    BY <1>2, <2>1, <2>2
<1>4. ~dirty => radio.booted /\ NameHeld(radio.rds, s, v, pos, lost)
  <2>1. NameHeld(NoRds, s, v, pos, lost)
    BY <1>2, <1>3, NoRdsHolds
  <2> QED
    BY <1>2, <2>1 DEF TextInv, TextHeld
<1>5. /\ (pos + 1) % Len(Carousel(s)) = 1 - pos
      /\ Packet = Group(s, "name", pos, <<<<s, v>>, pos>>)
  BY <1>1, <1>3, NamePacket DEF Sent
<1>6. /\ Packet.type = "name" /\ Packet.pi = Pi[s] /\ Packet.part = pos
      /\ Packet.text = <<<<s, v>>, pos>> /\ Trusted(Packet)
  BY <1>5 DEF Group, Trusted
<1>7. ASSUME radio'.booted = radio.booted, radio'.loaded = radio.loaded, radio'.chip = radio.chip,
             lost' \in 0..MaxLost, pos' \in {0, 1},
             ~dirty => NameHeld(radio'.rds, s, version'[s], pos', lost')
      PROVE  TextInv'
  <2> HIDE DEF s
  <2>1. ~dirty' => TextHeld(radio, version, pos, lost, misread)'
    BY <1>1, <1>2, <1>4, <1>7 DEF TextHeld
  <2> QED
    BY <1>1, <1>7, <2>1 DEF TextInv
<1>8. ASSUME Take(Packet)
      PROVE  /\ radio'.booted = radio.booted /\ radio'.loaded = radio.loaded /\ radio'.chip = radio.chip
             /\ radio'.rds = ApplyGroup(radio.rds, Packet)
  BY <1>1, <1>8, Taken
<1>9. CASE Receive
  <2>1. pos' = 1 - pos /\ Take(Packet) /\ version' = version /\ lost' = lost
    BY <1>5, <1>9 DEF Receive, Drain, Pass
  <2>2. ~dirty => NameHeld(radio'.rds, s, version'[s], pos', lost')
    <3>1. ~dirty => NameHeld(ApplyGroup(radio.rds, Packet), s, v, 1 - pos, lost)
      <4> HIDE DEF s, v
      <4> QED
        BY <1>2, <1>3, <1>4, <1>6, NameReceived
    <3> QED
      BY <1>8, <2>1, <3>1
  <2> QED
    BY <1>3, <1>7, <1>8, <2>1, <2>2
<1>10. ASSUME Lose \/ Corrupt
       PROVE  /\ pos' = 1 - pos /\ version' = version /\ lost = 0 /\ lost' = 1
              /\ lost' \in 0..MaxLost /\ pos' \in {0, 1}
  <2>1. pos' = 1 - pos /\ version' = version /\ lost < MaxLost /\ lost' = lost + 1
    BY <1>5, <1>10 DEF Lose, Corrupt, Pass
  <2> QED
    BY <1>3, <2>1
<1>11. ~dirty /\ lost = 0 => NameHeld(radio.rds, s, v, 1 - pos, 1)
  <2> HIDE DEF s, v
  <2> QED
    BY <1>2, <1>3, <1>4, NameLost
<1>12. CASE Lose
  <2>1. radio' = radio
    BY <1>12 DEF Lose
  <2> QED
    BY <1>7, <1>10, <1>11, <1>12, <2>1
<1>13. CASE Corrupt
  <2>1. PICK g \in Corrupted(Packet) : Take(g)
    BY <1>13 DEF Corrupt
  <2>2. /\ radio'.booted = radio.booted /\ radio'.loaded = radio.loaded /\ radio'.chip = radio.chip
        /\ radio'.rds = ApplyGroup(radio.rds, g)
    BY <1>1, <2>1, Taken
  <2>3. /\ g.type = "name"
        /\ \/ ~Trusted(g)
           \/ /\ Trusted(g) /\ g.part = pos
              /\ \/ g.pi = Pi[s] /\ g.text = Noise
                 \/ g.pi = Noise /\ g.text = <<<<s, v>>, pos>>
    BY <1>5, <2>1, Corrupting
  <2>4. ~dirty => NameHeld(ApplyGroup(radio.rds, g), s, v, 1 - pos, 1)
    <3> HIDE DEF s, v
    <3>1. CASE ~Trusted(g)
      <4>1. ApplyGroup(radio.rds, g) = radio.rds
        BY <2>3, <3>1 DEF ApplyGroup, ApplyPi
      <4> QED
        BY <1>10, <1>11, <1>13, <4>1
    <3>2. CASE Trusted(g)
      <4>1. lost = 0 /\ 1 \in {0, 1}
        BY <1>10, <1>13
      <4>2. ~dirty => NameHeld(radio.rds, s, v, pos, 0)
        BY <1>4, <4>1
      <4> QED
        BY <1>2, <1>3, <2>3, <3>2, <4>1, <4>2, NameReceived
    <3> QED
      BY <3>1, <3>2
  <2> QED
    BY <1>7, <1>10, <1>13, <2>2, <2>4
<1>14. CASE Change
  <2>1. radio' = radio /\ lost' = lost /\ pos' = 0
    BY <1>14 DEF Change
  <2>2. version'[s] = v + 1
    BY <1>2, <1>14, Changed
  <2>3. ~dirty => NameHeld(radio.rds, s, v + 1, 0, lost)
    <3> HIDE DEF s, v
    <3> QED
      BY <1>2, <1>3, <1>4, NameChanged
  <2> QED
    BY <1>3, <1>7, <2>1, <2>2, <2>3
<1> QED
  BY <1>9, <1>12, <1>13, <1>14

\* The radiotext of the frequency on the air stays one it sent, and its tags those of
\* the text they were sent for, while its groups come, are lost or misread, and it goes
\* on to the next.
LEMMA RadiotextStep ==
    ASSUME OnAirInv, FitInv, TextInv, FewerThanConfirms, kind = "radiotext",
           Receive \/ Lose \/ Corrupt \/ Change
    PROVE  TextInv'
<1> DEFINE s == Heard
           v == version[s]
           few == ~misread /\ MaxLost <= 1
<1>1. /\ Heard # None /\ OnFm /\ kind' = kind /\ kind \in Kinds /\ RadioInv
      /\ dirty' <=> dirty
  BY DEF OnAirInv, OnFm, Receive, Drain, Lose, Corrupt, Change, Pass
<1>2. /\ radio.loaded = "fm" /\ s = radio.chip.at /\ s \in Stations /\ Pi[s] # Noise
  BY <1>1, HeardFrequency
<1>3. /\ v \in {0, 1} /\ MaxLost \in Nat /\ lost \in 0..MaxLost /\ pos \in {0, 1, 2, 3}
      /\ v % 2 = v
  <2>1. version \in [Stations -> 0..MaxVersion] /\ MaxVersion \in Nat /\ MaxVersion <= 1
    BY <1>1, ReceptionAssumption DEF OnAirInv, FewerThanConfirms
  <2>2. MaxLost \in Nat /\ lost \in 0..MaxLost /\ pos \in {0, 1, 2, 3}
    BY DEF FewerThanConfirms, TextInv
  <2>3. v \in 0..MaxVersion
    BY <1>2, <2>1
  <2> HIDE DEF v
  <2>4. v \in {0, 1}
    BY <2>1, <2>3
  <2> QED
    BY <2>2, <2>4
<1>4. ~dirty => /\ radio.booted /\ RadiotextKept(radio.rds, s, v)
                /\ few => TagsHeld(radio.rds, s, v, pos, lost)
  <2>1. RadiotextKept(NoRds, s, v) /\ TagsHeld(NoRds, s, v, pos, lost)
    BY NoRdsKept
  <2> QED
    BY <1>2, <2>1 DEF TextInv, TextHeld
<1>5. /\ \/ pos = 0 /\ Packet = Group(s, "oda", 0, <<s, v>>)
         \/ pos = 1 /\ Packet = Group(s, "radiotext", 0, <<<<s, v>>, 0>>)
         \/ pos = 2 /\ Packet = Group(s, "radiotext", 1, <<<<s, v>>, 1>>)
         \/ pos = 3 /\ Packet = Group(s, "tags", 0, <<s, v>>)
      /\ (pos + 1) % Len(Carousel(s)) = (pos + 1) % 4
  BY <1>3, RadiotextPacket DEF Sent
<1>6. ASSUME NEW type, NEW part, NEW text
      PROVE  LET g == Group(s, type, part, text)
             IN  /\ g.type = type /\ g.pi = Pi[s] /\ g.part = part /\ g.text = text /\ g.flag = v
                 /\ Trusted(g)
  BY <1>3 DEF Group, Trusted
<1>7. ASSUME radio'.booted = radio.booted, radio'.loaded = radio.loaded, radio'.chip = radio.chip,
             lost' \in 0..MaxLost, pos' \in {0, 1, 2, 3},
             ~dirty => /\ RadiotextKept(radio'.rds, s, version'[s])
                       /\ ~misread' /\ MaxLost <= 1 =>
                             TagsHeld(radio'.rds, s, version'[s], pos', lost')
      PROVE  TextInv'
  <2> HIDE DEF s
  <2>1. ~dirty' => TextHeld(radio, version, pos, lost, misread)'
    BY <1>1, <1>2, <1>4, <1>7 DEF TextHeld
  <2> QED
    BY <1>1, <1>7, <2>1 DEF TextInv
<1>8. ASSUME NEW g, Take(g)
      PROVE  /\ radio'.booted = radio.booted /\ radio'.loaded = radio.loaded /\ radio'.chip = radio.chip
             /\ radio'.rds = ApplyGroup(radio.rds, g)
  BY <1>1, <1>8, Taken
<1>9. CASE Receive
  <2>1. /\ pos' = (pos + 1) % 4 /\ Take(Packet) /\ version' = version /\ lost' = lost
        /\ misread' <=> misread
    BY <1>5, <1>9 DEF Receive, Drain, Pass
  <2> DEFINE g == Packet
  <2>2. /\ Trusted(g) /\ g.pi = Pi[s] /\ g.flag = v
        /\ \/ pos = 0 /\ g.type = "oda"
           \/ pos = 1 /\ g.type = "radiotext" /\ g.part = 0 /\ g.text = <<<<s, v>>, 0>>
           \/ pos = 2 /\ g.type = "radiotext" /\ g.part = 1 /\ g.text = <<<<s, v>>, 1>>
           \/ pos = 3 /\ g.type = "tags" /\ g.text = <<s, v>>
    <3>1. CASE pos = 0 /\ Packet = Group(s, "oda", 0, <<s, v>>)
      BY <1>6, <3>1
    <3>2. CASE pos = 1 /\ Packet = Group(s, "radiotext", 0, <<<<s, v>>, 0>>)
      BY <1>6, <3>2
    <3>3. CASE pos = 2 /\ Packet = Group(s, "radiotext", 1, <<<<s, v>>, 1>>)
      BY <1>6, <3>3
    <3>4. CASE pos = 3 /\ Packet = Group(s, "tags", 0, <<s, v>>)
      BY <1>6, <3>4
    <3> HIDE DEF s, v
    <3> QED
      BY <1>5, <3>1, <3>2, <3>3, <3>4
  <2>3. ~dirty => /\ RadiotextKept(ApplyGroup(radio.rds, g), s, v)
                  /\ few => TagsHeld(ApplyGroup(radio.rds, g), s, v, (pos + 1) % 4, lost)
    <3>1. ASSUME ~dirty
          PROVE  /\ RadiotextKept(ApplyGroup(radio.rds, g), s, v)
                 /\ TagsHeld(radio.rds, s, v, pos, lost) =>
                       TagsHeld(ApplyGroup(radio.rds, g), s, v, (pos + 1) % 4, lost)
      <4> DEFINE r == radio.rds
                 o == (pos + 1) % 4
      <4>1. RadiotextKept(r, s, v)
        BY <1>4, <3>1
      <4>2. o = (pos + 1) % 4
        OBVIOUS
      <4> HIDE DEF s, v, g, r, o
      <4>3. /\ RadiotextKept(ApplyGroup(r, g), s, v)
            /\ TagsHeld(r, s, v, pos, lost) => TagsHeld(ApplyGroup(r, g), s, v, o, lost)
        BY <1>2, <1>3, <2>2, <4>1, <4>2, RadiotextReceived
      <4> QED
        BY <4>3 DEF r, o
    <3> HIDE DEF s, v, g, few
    <3> QED
      BY <1>4, <3>1
  <2>4. pos' \in {0, 1, 2, 3}
    BY <1>3, <2>1
  <2>5. radio'.rds = ApplyGroup(radio.rds, g)
    BY <1>8, <2>1
  <2>6. ~dirty => /\ RadiotextKept(radio'.rds, s, version'[s])
                  /\ ~misread' /\ MaxLost <= 1 =>
                        TagsHeld(radio'.rds, s, version'[s], pos', lost')
    BY <2>1, <2>3, <2>5
  <2> QED
    BY <1>3, <1>7, <1>8, <2>1, <2>4, <2>6
<1>10. ASSUME Lose \/ Corrupt
       PROVE  /\ pos' = (pos + 1) % 4 /\ version' = version
              /\ MaxLost <= 1 => lost = 0 /\ lost' = 1
              /\ lost' \in 0..MaxLost /\ pos' \in {0, 1, 2, 3}
  <2>1. pos' = (pos + 1) % 4 /\ version' = version /\ lost < MaxLost /\ lost' = lost + 1
    BY <1>5, <1>10 DEF Lose, Corrupt, Pass
  <2> QED
    BY <1>3, <2>1
<1>11. CASE Lose
  <2>1. radio' = radio /\ (misread' <=> misread)
    BY <1>11 DEF Lose
  <2>2. ~dirty /\ few => TagsHeld(radio.rds, s, v, (pos + 1) % 4, 1)
    <3>1. ~dirty /\ few => TagsHeld(radio.rds, s, v, pos, 0)
      BY <1>4, <1>10, <1>11
    <3> HIDE DEF s, v, few
    <3> QED
      BY <1>3, <3>1, TagsLost
  <2>3. ~dirty => /\ RadiotextKept(radio'.rds, s, version'[s])
                  /\ ~misread' /\ MaxLost <= 1 =>
                        TagsHeld(radio'.rds, s, version'[s], pos', lost')
    BY <1>4, <1>10, <1>11, <2>1, <2>2
  <2> QED
    BY <1>7, <1>10, <1>11, <2>1, <2>3
<1>12. CASE Corrupt
  <2>1. PICK g \in Corrupted(Packet) :
           Take(g) /\ misread' = (misread \/ g.flag # Packet.flag)
    BY <1>12 DEF Corrupt
  <2>2. Packet.flag = v
    <3> HIDE DEF s, v
    <3> QED
      BY <1>5, <1>6
  <2>3. /\ ~Trusted(g)
        /\ \/ pos = 0 /\ g.type = "oda"
           \/ pos \in {1, 2} /\ g.type = "radiotext"
           \/ pos = 3 /\ g.type = "tags"
    <3>1. CASE pos = 0 /\ Packet = Group(s, "oda", 0, <<s, v>>)
      BY <2>1, <3>1, Corrupting
    <3>2. CASE pos = 1 /\ Packet = Group(s, "radiotext", 0, <<<<s, v>>, 0>>)
      BY <2>1, <3>2, Corrupting
    <3>3. CASE pos = 2 /\ Packet = Group(s, "radiotext", 1, <<<<s, v>>, 1>>)
      BY <2>1, <3>3, Corrupting
    <3>4. CASE pos = 3 /\ Packet = Group(s, "tags", 0, <<s, v>>)
      BY <2>1, <3>4, Corrupting
    <3> QED
      BY <1>5, <3>1, <3>2, <3>3, <3>4
  <2>4. ~dirty => /\ RadiotextKept(ApplyGroup(radio.rds, g), s, v)
                  /\ g.flag = v /\ few =>
                        TagsHeld(ApplyGroup(radio.rds, g), s, v, (pos + 1) % 4, 1)
    <3>1. ~dirty => RadiotextKept(radio.rds, s, v) /\ (few => TagsHeld(radio.rds, s, v, pos, 0))
      BY <1>4, <1>10, <1>12
    <3> HIDE DEF s, v, few
    <3> QED
      BY <1>2, <1>3, <2>3, <3>1, RadiotextDoubted
  <2>5. radio'.rds = ApplyGroup(radio.rds, g)
    BY <1>8, <2>1
  <2>6. ~misread' => ~misread /\ g.flag = v
    BY <2>1, <2>2
  <2>7. ~dirty => /\ RadiotextKept(radio'.rds, s, version'[s])
                  /\ ~misread' /\ MaxLost <= 1 =>
                        TagsHeld(radio'.rds, s, version'[s], pos', lost')
    BY <1>10, <1>12, <2>4, <2>5, <2>6
  <2> QED
    BY <1>7, <1>8, <1>10, <1>12, <2>1, <2>7
<1>13. CASE Change
  <2>1. radio' = radio /\ lost' = lost /\ pos' = 0 /\ (misread' <=> misread)
    BY <1>13 DEF Change
  <2>2. version'[s] = v + 1 /\ v = 0
    <3>1. version'[s] = v + 1 /\ version'[s] \in 0..MaxVersion /\ v \in Nat
      BY <1>2, <1>13, Changed
    <3>2. MaxVersion <= 1 /\ MaxVersion \in Nat
      BY <1>1, ReceptionAssumption DEF FewerThanConfirms
    <3> QED
      BY <3>1, <3>2
  <2>3. ~dirty => /\ RadiotextKept(radio.rds, s, v + 1)
                  /\ few => TagsHeld(radio.rds, s, v + 1, 0, lost)
    <3>1. ~dirty => RadiotextKept(radio.rds, s, v + 1)
      <4> HIDE DEF s, v
      <4> QED
        BY <1>2, <1>3, <1>4, RadiotextChanged
    <3>2. ~dirty /\ few => TagsHeld(radio.rds, s, 0, pos, lost)
      BY <1>4, <2>2
    <3>3. ~dirty /\ few => TagsHeld(radio.rds, s, 1, 0, lost)
      <4> HIDE DEF s, few
      <4> QED
        BY <3>2, TagsChanged
    <3>4. v + 1 = 1
      BY <2>2
    <3> QED
      BY <3>1, <3>3, <3>4
  <2> QED
    BY <1>3, <1>7, <2>1, <2>2, <2>3
<1> QED
  BY <1>9, <1>11, <1>12, <1>13

\* The label of the service that plays stays one it sent, while its segments come or
\* are lost, and the service goes on to the next.
LEMMA LabelStep ==
    ASSUME OnAirInv, TextInv, FewerThanConfirms, kind = "label",
           Receive \/ Lose \/ Corrupt \/ Change
    PROVE  TextInv'
<1> DEFINE s == Heard
           v == version[s]
<1>1. /\ Heard # None /\ ~OnFm /\ kind' = kind /\ kind \in Kinds /\ RadioInv
      /\ dirty' <=> dirty
  BY DEF OnAirInv, OnFm, Receive, Drain, Lose, Corrupt, Change, Pass
<1>2. radio.loaded = "dab" /\ s = radio.chip.service /\ s \in Stations
  BY <1>1, HeardLabel
<1>3. /\ v \in Nat /\ MaxLost \in Nat /\ lost \in 0..MaxLost /\ pos \in {0, 1, 2} /\ MaxLost <= 2
  <2>1. version \in [Stations -> 0..MaxVersion] /\ MaxVersion \in Nat
    BY ReceptionAssumption DEF OnAirInv
  <2>2. MaxLost \in Nat /\ MaxLost <= 2 /\ lost \in 0..MaxLost /\ pos \in {0, 1, 2}
    BY <1>1 DEF FewerThanConfirms, TextInv
  <2> QED
    BY <1>2, <2>1, <2>2
<1>4. ~dirty => radio.booted /\ LabelHeld(radio.dls, s, v, pos, lost)
  <2>1. LabelHeld(NoDls, s, v, pos, lost)
    BY NoDlsHeld
  <2> QED
    BY <1>2, <2>1 DEF TextInv, TextHeld
<1>5. /\ \/ /\ pos = 0 /\ Packet.type = "message" /\ Packet.part = 0 /\ Packet.count = 2
            /\ Packet.text = <<<<s, v>>, 0>>
         \/ /\ pos = 1 /\ Packet.type = "message" /\ Packet.part = 1 /\ Packet.count = 2
            /\ Packet.text = <<<<s, v>>, 1>>
         \/ pos = 2 /\ Packet.type = "tags" /\ Packet.part = 0 /\ Packet.count = 1
      /\ (pos + 1) % Len(Carousel(s)) = (pos + 1) % 3
  BY <1>3, LabelPacket DEF Sent
<1>6. ASSUME radio'.booted = radio.booted, radio'.loaded = radio.loaded, radio'.chip = radio.chip,
             lost' \in 0..MaxLost, pos' \in {0, 1, 2},
             ~dirty => LabelHeld(radio'.dls, s, version'[s], pos', lost')
      PROVE  TextInv'
  <2>1. s # None
    BY <1>1
  <2> HIDE DEF s
  <2>2. ~dirty' => TextHeld(radio, version, pos, lost, misread)'
    BY <1>1, <1>2, <1>4, <1>6, <2>1 DEF TextHeld
  <2> QED
    BY <1>1, <1>6, <2>2 DEF TextInv
<1>7. CASE Receive
  <2>1. pos' = (pos + 1) % 3 /\ Take(Packet) /\ version' = version /\ lost' = lost
    BY <1>5, <1>7 DEF Receive, Drain, Pass
  <2>2. /\ radio'.booted = radio.booted /\ radio'.loaded = radio.loaded /\ radio'.chip = radio.chip
        /\ radio'.dls = ApplyDls(radio.dls, Packet)
    BY <1>1, <2>1, Taken
  <2>3. ~dirty => LabelHeld(ApplyDls(radio.dls, Packet), s, v, (pos + 1) % 3, lost)
    <3> DEFINE p == Packet
    <3>1. lost \in Nat
      BY <1>3
    <3> HIDE DEF s, v, p
    <3>2. \/ pos = 0 /\ p.type = "message" /\ p.part = 0 /\ p.count = 2 /\ p.text = <<<<s, v>>, 0>>
          \/ pos = 1 /\ p.type = "message" /\ p.part = 1 /\ p.count = 2 /\ p.text = <<<<s, v>>, 1>>
          \/ pos = 2 /\ p.type = "tags" /\ p.part = 0 /\ p.count = 1
      BY <1>5 DEF p
    <3>3. ~dirty => LabelHeld(ApplyDls(radio.dls, p), s, v, (pos + 1) % 3, lost)
      BY <1>3, <1>4, <3>1, <3>2, LabelReceived
    <3> QED
      BY <3>3 DEF p
  <2>4. pos' \in {0, 1, 2}
    BY <1>3, <2>1
  <2> QED
    BY <1>3, <1>6, <2>1, <2>2, <2>3, <2>4
<1>8. CASE Lose
  <2>1. /\ pos' = (pos + 1) % 3 /\ version' = version /\ lost < MaxLost /\ lost' = lost + 1
        /\ radio' = radio
    BY <1>5, <1>8 DEF Lose, Pass
  <2>2. lost \in {0, 1} /\ lost' \in 0..MaxLost /\ pos' \in {0, 1, 2}
    BY <1>3, <2>1
  <2>3. ~dirty => LabelHeld(radio.dls, s, v, (pos + 1) % 3, lost + 1)
    <3> HIDE DEF s, v
    <3> QED
      BY <1>3, <1>4, <2>2, LabelLost
  <2> QED
    BY <1>6, <2>1, <2>2, <2>3
<1>9. CASE Change
  <2>1. radio' = radio /\ lost' = lost /\ pos' = 0 /\ pos = 0
    BY <1>9 DEF Change
  <2>2. version'[s] = v + 1
    BY <1>2, <1>9, Changed
  <2>3. ~dirty => LabelHeld(radio.dls, s, v + 1, 0, lost)
    <3>1. ~dirty => LabelHeld(radio.dls, s, v, 0, lost)
      BY <1>4, <2>1
    <3> HIDE DEF s, v
    <3> QED
      BY <1>3, <3>1, LabelChanged
  <2> QED
    BY <1>3, <1>6, <2>1, <2>2, <2>3
<1> QED
  BY <1>1, <1>7, <1>8, <1>9 DEF Corrupt

\* A step of the slides leaves the texts.
LEMMA OtherSteps ==
    ASSUME OnAirInv, TextInv, FewerThanConfirms,
           \/ kind = "slide" /\ (Receive \/ Lose \/ Corrupt \/ FlashFails \/ Change \/ Watch)
           \/ UNCHANGED receptionVars
    PROVE  TextInv'
<1>1. CASE UNCHANGED receptionVars
  BY <1>1 DEF receptionVars, TextInv, TextHeld
<1>2. CASE kind = "slide" /\ (Receive \/ Lose \/ Corrupt \/ FlashFails \/ Change \/ Watch)
  <2>1. kind \in Kinds /\ RadioInv /\ ~OnFm
    BY <1>2 DEF OnAirInv, OnFm
  <2>2. kind' = kind /\ (dirty' <=> dirty)
    BY <1>2 DEF Receive, Drain, Lose, Corrupt, FlashFails, Change, Watch
  <2>3. lost' \in 0..MaxLost
    <3>1. MaxLost \in Nat /\ lost \in 0..MaxLost
      BY DEF FewerThanConfirms, TextInv
    <3>2. lost' = lost \/ (lost < MaxLost /\ lost' = lost + 1)
      BY <1>2 DEF Receive, Drain, Lose, Corrupt, FlashFails, Change, Watch
    <3> QED
      BY <3>1, <3>2
  <2>4. /\ radio'.booted = radio.booted /\ radio'.loaded = radio.loaded /\ radio'.chip = radio.chip
        /\ radio'.rds = radio.rds /\ radio'.dls = radio.dls
    <3>1. CASE Receive
      <4>1. Take(Packet)
        BY <3>1 DEF Receive
      <4> QED
        BY <1>2, <2>1, <4>1, Taken
    <3>2. CASE Lose \/ FlashFails \/ Change \/ Watch
      BY <3>2 DEF Lose, FlashFails, Change, Watch
    <3> QED
      BY <1>2, <2>1, <3>1, <3>2 DEF Corrupt
  <2>5. ~dirty => radio.booted /\ (radio.loaded = "fm" => radio.rds = NoRds)
                  /\ (radio.loaded = "dab" => radio.dls = NoDls)
    BY <1>2 DEF TextInv, TextHeld
  <2>6. ~dirty' => TextHeld(radio, version, pos, lost, misread)'
    BY <2>2, <2>4, <2>5 DEF TextHeld
  <2> QED
    BY <1>2, <2>2, <2>3, <2>6 DEF TextInv
<1> QED
  BY <1>1, <1>2

\* No step leaves the texts that were sent.
LEMMA TextStep ==
    ASSUME OnAirInv, FitInv, TextInv, FewerThanConfirms, [ReceptionNext]_receptionVars
    PROVE  FitInv' /\ TextInv'
<1>1. RadioInv /\ kind \in {"name", "radiotext", "label", "slide"} /\ kind \in Kinds
  BY ReceptionAssumption DEF OnAirInv
<1>2. FitInv'
  <2>1. Steps(AsTuner(radio), AsTuner(radio'))
    BY <1>1, RadioSteps
  <2>2. AsTuner(radio)' = AsTuner(radio')
    BY DEF AsTuner
  <2>3. AsTuner(radio') \in Fit
    BY <2>1, StepsFit DEF FitInv
  <2> QED
    BY <2>2, <2>3 DEF FitInv
<1>3. CASE TunePost \/ SeekPost \/ PlayPost \/ ServicesGet \/ StatusGet \/ SetVolumeOf
  BY <1>1, <1>2, <1>3, CallsKeep
<1>4. CASE Receive \/ Lose \/ Corrupt \/ Change
  BY <1>1, <1>2, <1>4, NameStep, RadiotextStep, LabelStep, OtherSteps
<1>5. CASE FlashFails \/ Watch \/ UNCHANGED receptionVars
  BY <1>2, <1>5, OtherSteps DEF FlashFails, Watch
<1> QED
  BY <1>3, <1>4, <1>5 DEF ReceptionNext

\* The texts under way, in all reachable states.
LEMMA TextsSafe == FewerThanConfirms => (ReceptionSpec => [](OnAirInv /\ FitInv /\ TextInv))
<1> SUFFICES ASSUME FewerThanConfirms PROVE ReceptionSpec => [](OnAirInv /\ FitInv /\ TextInv)
  OBVIOUS
<1>1. ReceptionInit => FitInv /\ TextInv
  BY FitInitially, TextInitially
<1>2. OnAirInv /\ FitInv /\ TextInv /\ [ReceptionNext]_receptionVars => FitInv' /\ TextInv'
  BY TextStep
<1> QED
  BY <1>1, <1>2, ReceptionInvariant, PTL DEF ReceptionSpec

\* The text of a frequency or service on show is one it sent.
LEMMA ShownText ==
    ASSUME OnAirInv, FitInv, TextInv, FewerThanConfirms
    PROVE  ShownIsOnAir
<1> SUFFICES ASSUME ~dirty, radio.booted
             PROVE  /\ radio.loaded = "fm" =>
                          /\ radio.rds.pi \in {NoText, Pi[radio.chip.at]}
                          /\ radio.rds.name \in {Blank} \cup {WholeText(n) : n \in Texts(radio.chip.at)}
                          /\ radio.rds.radiotext
                                \in {Blank} \cup {WholeText(n) : n \in Texts(radio.chip.at)}
                    /\ radio.loaded = "dab" =>
                          radio.dls.text \in {<<>>} \cup
                              (IF radio.chip.service = None THEN {}
                               ELSE {WholeLabel(n) : n \in Texts(radio.chip.service)})
  BY DEF ShownIsOnAir
<1>1. TextHeld(radio, version, pos, lost, misread)
  BY DEF TextInv
<1>2. \A s : TextsOf(s, version[s]) = {Blank} \cup {WholeText(n) : n \in Texts(s)}
  BY DEF TextsOf, Texts
<1>3. CASE radio.loaded = "fm"
  <2> DEFINE r == radio.rds
             s == radio.chip.at
             v == version[s]
  <2>1. CASE r = NoRds
    <3>1. r.pi = NoText /\ r.name = Blank /\ r.radiotext = Blank
      BY <2>1 DEF NoRds
    <3> QED
      BY <1>3, <3>1
  <2>2. CASE NameHeld(r, s, v, pos, lost)
    <3>1. r.pi \in {NoText, Pi[s]} /\ r.name \in TextsOf(s, v) /\ r.radiotext = Blank
      BY <2>2 DEF NameHeld, PiHeld
    <3> QED
      BY <1>2, <1>3, <3>1
  <2>3. CASE RadiotextKept(r, s, v)
    <3>1. r.pi \in {NoText, Pi[s]} /\ r.radiotext \in TextsOf(s, v) /\ r.name = Blank
      BY <2>3 DEF RadiotextKept, PiHeld
    <3> QED
      BY <1>2, <1>3, <3>1
  <2> QED
    BY <1>1, <1>3, <2>1, <2>2, <2>3 DEF TextHeld
<1>4. CASE radio.loaded = "dab"
  <2> DEFINE d == radio.dls
             s == radio.chip.service
  <2>1. CASE d = NoDls
    <3>1. d.text = <<>>
      BY <2>1 DEF NoDls
    <3> QED
      BY <1>4, <3>1
  <2>2. CASE s # None /\ LabelHeld(d, s, version[s], pos, lost)
    <3>1. d.text \in {<<>>} \cup {WholeLabel(<<s, w>>) : w \in 0..version[s]}
      BY <2>2 DEF LabelHeld
    <3>2. {WholeLabel(n) : n \in Texts(s)} = {WholeLabel(<<s, w>>) : w \in 0..version[s]}
      BY DEF Texts
    <3> QED
      BY <1>4, <2>2, <3>1, <3>2
  <2> QED
    BY <1>1, <1>4, <2>1, <2>2 DEF TextHeld
<1> QED
  BY <1>3, <1>4

\* The text that the tags on show are of is the radiotext on show.
LEMMA ShownItem ==
    ASSUME OnAirInv, TextInv, MaxLost <= 1
    PROVE  ItemIsOfText
<1> SUFFICES ASSUME ~dirty, ~misread, radio.loaded = "fm", RtPlus(radio.rds) # NoText
             PROVE  radio.rds.radiotext = WholeText(RtPlus(radio.rds))
  BY DEF ItemIsOfText
<1> DEFINE r == radio.rds
           s == radio.chip.at
           v == version[s]
<1>1. r.current /\ RtPlus(r) = r.tags /\ r.tags # NoText
  BY DEF RtPlus
<1>2. r # NoRds /\ ~NameHeld(r, s, v, pos, lost)
  BY <1>1 DEF NoRds, NameHeld
<1>3. RadiotextKept(r, s, v) /\ TagsHeld(r, s, v, pos, lost)
  BY <1>2 DEF TextInv, TextHeld
<1>4. r.flag \in 0..v /\ r.radiotext = WholeText(<<s, r.flag>>)
  BY <1>1, <1>3 DEF RadiotextKept
<1>5. r.flag # NoText
  BY <1>4, ReceptionAssumption
<1>6. r.tags = <<s, r.flag>>
  BY <1>1, <1>3, <1>5 DEF TagsHeld
<1> QED
  BY <1>1, <1>4, <1>6

\* The name, the PI, the radiotext and the label in a status are whole texts of what is
\* on the air (feedName's confirmation, RdsAccumulator's A/B flag, applyDlsSegment's
\* order of segments), for every number of frequencies, services, calls and changes, as
\* long as fewer groups are lost or misread than the accumulators confirm.
THEOREM ShownIsOnAirHolds ==
    ASSUME FewerThanConfirms
    PROVE  ReceptionSpec => []ShownIsOnAir
<1>1. ReceptionSpec => [](OnAirInv /\ FitInv /\ TextInv)
  BY TextsSafe
<1>2. OnAirInv /\ FitInv /\ TextInv => ShownIsOnAir
  BY ShownText
<1> QED
  BY <1>1, <1>2, PTL

\* Title and artist are cut out of the radiotext that their tags were sent for, when
\* startRadiotext drops the tags of the text before and one group is lost or misread.
THEOREM ItemIsOfTextHolds ==
    ASSUME FewerThanConfirms, MaxLost <= 1
    PROVE  ReceptionSpec => []ItemIsOfText
<1>1. ReceptionSpec => [](OnAirInv /\ FitInv /\ TextInv)
  BY TextsSafe
<1>2. OnAirInv /\ FitInv /\ TextInv => ItemIsOfText
  BY ShownItem
<1> QED
  BY <1>1, <1>2, PTL

=============================================================================
