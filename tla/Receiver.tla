------------------------------ MODULE Receiver ------------------------------
(***************************************************************************)
(* The driver of the Si4684 in the detail that Tuner leaves out, as        *)
(* operators on a state t: the chip, the flags of Si4684Driver that say    *)
(* what is loaded in it (booted_, loadedBand_), those of Si4684Tuner       *)
(* (fmBandReady_, dabIndex_, fmFrequency_, volume_, lastDabServiceId_) and *)
(* the text received, which a retune forgets.  Every command may fail, and *)
(* the boot of an image may fail in several places, each of which leaves   *)
(* the chip and the flags differently.                                     *)
(*                                                                         *)
(* TunerService holds its mutex for the whole of a call, so a call is a    *)
(* step.  Tuner gives the commands' outcomes (Result, Done, Failed, Then)  *)
(* and the abstract calls that these are compared with.                    *)
(***************************************************************************)
EXTENDS Tuner, Metadata

CONSTANT Next100   \* the frequency one software seek step up, band wrapped

ASSUME ReceiverAssumption ==
    /\ Next100 \in [Frequencies -> Frequencies]
    /\ \A f \in Frequencies : \E g \in Frequencies : Next100[g] = f

\* The chip: what runs in it, whether all its properties were set, what it
\* receives and plays, and whether its volume is 0.
IdleChip(image, set) ==
    [image |-> image, set |-> set, at |-> None, service |-> None, muted |-> FALSE]

Fresh == [booted |-> FALSE, loaded |-> "dab", fmReady |-> FALSE,
          index |-> CHOOSE e \in Ensembles : TRUE, freq |-> DefaultFm,
          muted |-> FALSE, service |-> None, played |-> None, failures |-> 0,
          chip |-> IdleChip("none", FALSE), rds |-> NoRds, dls |-> NoDls]

\* A command that is not answered may have acted on the chip all the same.
Unanswered(t, acted) == Failed(t) \cup Failed([t EXCEPT !.chip = acted.chip])

Command(t, acted) == Done(acted) \cup Unanswered(t, acted)

\* The reset pin, the patch, the image, and BOOT, after which the driver takes
\* the chip as booted.  Before the reset nothing has changed.
LoadImage(t, band) ==
    Done([t EXCEPT !.booted = TRUE, !.loaded = band, !.chip = IdleChip(band, FALSE)])
    \cup Failed(t) \cup Failed([t EXCEPT !.chip = IdleChip("none", FALSE)])

\* configureAfterBoot: the first property that is refused ends the boot.
Configure(t) ==
    Done([t EXCEPT !.chip.set = TRUE]) \cup Failed([t EXCEPT !.booted = FALSE])

\* Si4684Driver::boot
Boot(t, band) ==
    IF t.booted /\ t.loaded = band THEN Done(t)
    ELSE Then(LoadImage([t EXCEPT !.booted = FALSE], band), Configure)

SetChipVolume(t, muted) ==
    IF t.booted THEN Command(t, [t EXCEPT !.chip.muted = muted])
    ELSE {Result(FALSE, t)}

\* Si4684Driver::tuneFm.  A tune that is not confirmed in time is taken as done.
TuneChipFm(t, f) == Command(t, [t EXCEPT !.chip.at = f])

\* stopDabService on the way to FM, whatever it answers.
LeaveDab(t, band) ==
    LET left == [t EXCEPT !.service = None, !.dls = NoDls]
        stop == [left EXCEPT !.chip.service = None]
    IN  IF t.booted /\ t.loaded = "dab" /\ band = "fm" /\ t.service # None
        THEN {left, stop} ELSE {t}

\* The rest of ensureBandLoaded once the image runs.
Enter(t, band) ==
    LET fm == [t EXCEPT !.rds = NoRds, !.freq = DefaultFm, !.fmReady = FALSE]
    IN  IF band = "fm"
        THEN Then(TuneChipFm(fm, DefaultFm), LAMBDA u : Done([u EXCEPT !.fmReady = TRUE]))
        ELSE Done([t EXCEPT !.fmReady = FALSE, !.dls = NoDls, !.service = None])

\* Mutant of EnsureBandLoaded: trusts the name of the band and not booted_.
MutantEnsureBandLoaded(t, band) ==
    IF t.loaded = band /\ (band = "dab" \/ t.fmReady) THEN Done(t)
    ELSE Then(UNION {Boot(u, band) : u \in LeaveDab(t, band)},
              LAMBDA v : Then(SetChipVolume(v, v.muted), LAMBDA w : Enter(w, band)))

EnsureBandLoaded(t, band) ==
    IF t.booted /\ t.loaded = band /\ (band = "dab" \/ t.fmReady) THEN Done(t)
    ELSE Then(UNION {Boot(u, band) : u \in LeaveDab(t, band)},
              LAMBDA v : Then(SetChipVolume(v, v.muted), LAMBDA w : Enter(w, band)))

-----------------------------------------------------------------------------
(* The calls of TunerService.                                              *)

\* The chip may have left the ensemble when the tune is not confirmed.
TuneEnsemble(t, e) ==
    Then(EnsureBandLoaded(t, "dab"), LAMBDA u :
         LET moved == [u EXCEPT !.chip.at = e, !.chip.service = None]
         IN  Done([moved EXCEPT !.index = e, !.dls = NoDls, !.service = None, !.played = None])
             \cup Unanswered(u, moved))

TuneFrequency(t, f) ==
    Then(EnsureBandLoaded(t, "fm"), LAMBDA u :
         Then(TuneChipFm(u, f), LAMBDA v : Done([v EXCEPT !.freq = f, !.rds = NoRds])))

\* The hardware seek ends at a station; when it fails, or ends where it began,
\* the tuner steps to the next frequency by itself.
Seek(t, up) ==
    LET step(f) == IF up THEN Next100[f] ELSE CHOOSE g \in Frequencies : Next100[g] = f
    IN  Then(EnsureBandLoaded(t, "fm"), LAMBDA u :
             (UNION {Done([u EXCEPT !.chip.at = f, !.freq = f, !.rds = NoRds]) :
                        f \in Frequencies \ {u.freq}})
             \cup (UNION {TuneFrequency([u EXCEPT !.chip.at = f], step(u.freq)) :
                        f \in Frequencies \cup {u.chip.at}}))

\* A start that the chip refuses is answered like one that it accepts.
Play(t, s, level) ==
    Then(EnsureBandLoaded(t, "dab"), LAMBDA u :
         LET on == IF Receives(u.chip, s, level) THEN [u EXCEPT !.chip.service = s] ELSE u
         IN  Done([on EXCEPT !.service = s, !.played = s, !.dls = NoDls]) \cup Unanswered(u, on))

List(t, level) ==
    Then(EnsureBandLoaded(t, "dab"), LAMBDA u :
         IF u.chip.at # None /\ level[u.chip.at] > 0 THEN Done(u) \cup Failed(u)
         ELSE {Result(FALSE, u)})

SetMuted(t, muted) ==
    Then(SetChipVolume(t, muted), LAMBDA u : Done([u EXCEPT !.muted = muted]))

\* readSignal: a valid READFREQ is adopted, and the text of the one before stays.
Status(t) ==
    LET read == [t EXCEPT !.freq = t.chip.at]
    IN  IF ~t.booted THEN {Result(FALSE, t)}
        ELSE Done(t) \cup Failed(t)
             \cup (IF t.loaded = "fm" /\ t.chip.at \in Frequencies THEN Done(read) ELSE {})

-----------------------------------------------------------------------------
\* Where pollBroadcastData takes its packets from: None while there are none.
Source(t) ==
    IF ~t.booted THEN None
    ELSE IF t.loaded = "fm" THEN (IF t.fmReady THEN t.chip.at ELSE None)
    ELSE IF t.service = None THEN None ELSE t.chip.service

\* The state of Tuner that a state of the driver stands for: the band is the
\* image that really runs, and a chip with a property missing is not ready.
AsTuner(t) ==
    [band |-> IF t.booted /\ t.chip.set THEN t.chip.image ELSE "off",
     at |-> IF t.booted THEN t.chip.at ELSE None,
     service |-> IF t.booted THEN t.chip.service ELSE None,
     index |-> t.index, played |-> t.played, muted |-> t.muted, failures |-> t.failures]

=============================================================================
