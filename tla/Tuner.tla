------------------------------- MODULE Tuner -------------------------------
(***************************************************************************)
(* The Si4684 receiver with its driver (Si4684Tuner) and the service that  *)
(* everything else tunes through (TunerService), as operators: each gives  *)
(* the set of results a call may have from a state t of the tuner.  The    *)
(* chip holds the firmware image of one band; a call for the other band    *)
(* loads it first, which ends whatever was playing.                        *)
(*                                                                         *)
(* Reception is a level per ensemble and frequency: 0 unlocked, 1 usable   *)
(* but below what a follower moves for, 2 good.                            *)
(***************************************************************************)
EXTENDS Naturals, FiniteSets

CONSTANTS
    Ensembles,   \* DAB ensembles, by their index in the frequency table
    Carried,     \* the services each ensemble carries
    Frequencies, \* FM frequencies with a transmitter
    Pi,          \* the PI each of them sends
    DefaultFm,   \* defaultFmFrequency(), tuned after the FM image is loaded
    None,        \* no service, no PI, no frequency
    MaxFailures  \* bound on chip commands that fail

Services == UNION {Carried[e] : e \in Ensembles}
Pis      == {Pi[f] : f \in Frequencies}
Levels   == 0..2

ASSUME TunerAssumption ==
    /\ Ensembles # {} /\ DefaultFm \in Frequencies
    /\ Ensembles \cap Frequencies = {}
    /\ None \notin Ensembles \cup Frequencies \cup Services \cup Pis
    /\ MaxFailures \in Nat

\* at: the ensemble or frequency tuned, service: the service the chip plays,
\* index: Si4684Tuner::dabIndex_, played: TunerService::lastPlayedServiceId_,
\* muted: Si4684Tuner::volume_ is 0.  A service stands for it and its component.
TunerStates ==
    [band : {"off", "dab", "fm"}, at : Ensembles \cup Frequencies \cup {None},
     service : Services \cup {None}, index : Ensembles,
     played : Services \cup {None}, muted : BOOLEAN, failures : 0..MaxFailures]

Result(ok, t) == [ok |-> ok, t |-> t]
Done(t) == {Result(TRUE, t)}

\* The call fails and leaves t, if the bound allows.
Failed(t) == IF t.failures = MaxFailures THEN {}
             ELSE {Result(FALSE, [t EXCEPT !.failures = @ + 1])}

\* The calls of rest follow those in results that succeeded.
Then(results, rest(_)) ==
    UNION {IF r.ok THEN rest(r.t) ELSE {r} : r \in results}

\* ensureBandLoaded: the image boots, the volume is set, and FM is tuned to a
\* default; a failed boot leaves the chip unusable until the next call, and one
\* that fails after it leaves the new band untuned.
Load(t, band) ==
    LET fresh == [t EXCEPT !.band = band, !.service = None,
                           !.at = IF band = "fm" THEN DefaultFm ELSE None]
        dead  == [t EXCEPT !.band = "off", !.service = None, !.at = None]
        half  == [fresh EXCEPT !.at = None]
    IN  IF t.band = band THEN Done(t)
        ELSE Done(fresh) \cup Failed(fresh) \cup Failed(half) \cup Failed(dead)

\* A tune that times out may have left the old ensemble or frequency all the same.
TuneDab(t, e) ==
    Then(Load(t, "dab"), LAMBDA u :
         Done([u EXCEPT !.at = e, !.index = e, !.service = None, !.played = None])
         \cup Failed(u) \cup Failed([u EXCEPT !.at = e, !.service = None]))

TuneFm(t, f) ==
    Then(Load(t, "fm"), LAMBDA u :
         LET moved == [u EXCEPT !.at = f] IN Done(moved) \cup Failed(u) \cup Failed(moved))

\* The chip starts a service only if it receives the ensemble that carries it.
\* The driver waits for CTS and does not look at the error bit, so a start that
\* the chip refuses is reported, and recorded, as one that worked.
Receives(t, s, level) == t.at \in Ensembles /\ s \in Carried[t.at] /\ level[t.at] > 0

PlayDab(t, s, level) ==
    Then(Load(t, "dab"), LAMBDA u :
         LET on == IF Receives(u, s, level) THEN [u EXCEPT !.service = s] ELSE u
         IN  Done([on EXCEPT !.played = s]) \cup Failed(u) \cup Failed(on))

\* listDabServices, which needs the service list of the ensemble.
ListDab(t, level) ==
    Then(Load(t, "dab"), LAMBDA u :
         IF u.at # None /\ level[u.at] > 0 THEN Done(u) \cup Failed(u)
         ELSE {Result(FALSE, u)})

SetVolume(t, muted) == Done([t EXCEPT !.muted = muted]) \cup Failed(t)

\* refreshStatus, refreshSignal: no answer from a chip that is not booted.
ReadStatus(t) == IF t.band = "off" THEN {Result(FALSE, t)} ELSE Done(t) \cup Failed(t)

\* What a status names as tuned, a frequency on FM whatever the chip receives,
\* and what it says of the signal.
NamedAt(t) == IF t.band = "fm" /\ t.at = None THEN DefaultFm ELSE t.at
LevelOf(t, level) == IF t.at = None THEN 0 ELSE level[t.at]

=============================================================================
