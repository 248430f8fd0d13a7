----------------------------- MODULE Reception -----------------------------
(***************************************************************************)
(* The receiver while a station is on: the calls that tune it (Receiver),  *)
(* made by any task, and between them the task that drains what the chip   *)
(* has received (afFollowTask, dab_slideshow::poll) into the texts         *)
(* (Metadata) and the slides (Slideshow) that the interface shows.         *)
(*                                                                         *)
(* A station sends its packets in a carousel, over and over, and now and   *)
(* then changes what it sends.  Packets may be lost or corrupted; a retune *)
(* empties what the chip has queued.  A poll drains up to kPacketsPerPoll  *)
(* packets under the mutex; here each is a step.                           *)
(***************************************************************************)
EXTENDS Receiver, Slideshow

CONSTANTS
    Kinds,       \* what is on the air: some of "name", "radiotext", "label", "slide"
    Level,       \* the level at which each ensemble and frequency is received
    Sizes,       \* Sizes[v + 1]: the segments of the slide of version v
    MaxVersion,  \* bound on what a station sends before it stays the same
    MaxLost,     \* bound on packets that are lost or corrupted
    MaxUsed      \* bound on calls, changes, losses and failed writes together

ASSUME ReceptionAssumption ==
    /\ Kinds \subseteq {"name", "radiotext", "label", "slide"}
    /\ MaxVersion \in Nat
    /\ Sizes \in [1..MaxVersion + 1 -> Nat \ {0}]
    /\ Unset \notin Services
    /\ \A c \in {Empty, Spoilt} : c \notin (Services \X Nat) \X Nat
    /\ NoText # Noise /\ NoText \notin Nat /\ Noise \notin Pis
    /\ \A c \in {NoText, Noise} : c \notin ((Frequencies \cup Services) \X Nat) \X Parts

VARIABLES
    kind,      \* what the stations send
    radio,     \* the receiver
    slides,    \* the assembler and the store of slides
    version,   \* version of what each station sends
    pos,       \* place in the carousel
    watching,  \* slides are taken: someone watches, no sweep, no web radio
    lost, used,
    dirty,     \* a command failed after the last tune that worked
    misread    \* the flag of a radiotext group was read wrong since then

receptionVars == <<kind, radio, slides, version, pos, watching, lost, used, dirty, misread>>

Stations == Frequencies \cup Services
OnFm == kind \in {"name", "radiotext"}

\* The station whose packets are drained, and the text or object it sends.
Heard == IF (radio.loaded = "fm") = OnFm THEN Source(radio) ELSE None
Sent(s) == <<s, version[s]>>
SizeOf(s) == Sizes[version[s] + 1]

Group(s, type, part, text) ==
    [type |-> type, pi |-> Pi[s], part |-> part, text |-> text,
     flag |-> version[s] % 2, read |-> "clean"]

Segment(s, type, part, count, text) ==
    [type |-> type, part |-> part, count |-> count, text |-> text,
     toggle |-> version[s] % 2 = 1]

DataGroup(s, type, part) ==
    [service |-> s, type |-> type, id |-> version[s], object |-> Sent(s), size |-> SizeOf(s),
     part |-> part, last |-> part = SizeOf(s) - 1]

Carousel(s) ==
    LET n == Sent(s)
    IN  CASE kind = "name" -> <<Group(s, "name", 0, <<n, 0>>), Group(s, "name", 1, <<n, 1>>)>>
          [] kind = "radiotext" ->
                <<Group(s, "oda", 0, n), Group(s, "radiotext", 0, <<n, 0>>),
                  Group(s, "radiotext", 1, <<n, 1>>), Group(s, "tags", 0, n)>>
          [] kind = "label" -> <<Segment(s, "message", 0, 2, <<n, 0>>),
                                 Segment(s, "message", 1, 2, <<n, 1>>),
                                 Segment(s, "tags", 0, 1, n)>>
          [] kind = "slide" -> [i \in 1..SizeOf(s) + 1 |->
                                 IF i = 1 THEN DataGroup(s, "header", 0)
                                 ELSE DataGroup(s, "body", i - 2)]

Packet == Carousel(Heard)[(pos % Len(Carousel(Heard))) + 1]

-----------------------------------------------------------------------------
\* A station was tuned before: the boot, the tune and the start all worked.
OnFrequency(f) ==
    [Fresh EXCEPT !.booted = TRUE, !.loaded = "fm", !.fmReady = TRUE, !.freq = f,
                  !.chip = [IdleChip("fm", TRUE) EXCEPT !.at = f]]

OnService(e, s) ==
    [Fresh EXCEPT !.booted = TRUE, !.index = e, !.service = s, !.played = s,
                  !.chip = [IdleChip("dab", TRUE) EXCEPT !.at = e, !.service = s]]

ReceptionInit ==
    /\ kind \in Kinds
    /\ radio \in IF OnFm THEN {OnFrequency(f) : f \in Frequencies}
             ELSE UNION {{OnService(e, s) : s \in Carried[e]} : e \in Ensembles}
    /\ slides = NoSlide
    /\ version = [s \in Stations |-> 0]
    /\ pos = 0
    /\ watching = TRUE
    /\ lost = 0 /\ used = 0
    /\ dirty = FALSE /\ misread = FALSE

Use == used < MaxUsed /\ used' = used + 1

\* A call of TunerService; tunes: it chooses what is heard.
Call(results, tunes) ==
    /\ Use
    /\ \E r \in results :
          /\ radio' = r.t
          /\ dirty' = IF r.ok /\ tunes THEN FALSE ELSE dirty \/ r.t.failures # radio.failures
          /\ misread' = (misread /\ ~(r.ok /\ tunes))
    /\ UNCHANGED <<kind, slides, version, pos, watching, lost>>

TunePost == \/ \E e \in Ensembles : Call(TuneEnsemble(radio, e), TRUE)
            \/ \E f \in Frequencies : Call(TuneFrequency(radio, f), TRUE)

SeekPost == \E up \in BOOLEAN : Call(Seek(radio, up), TRUE)

PlayPost == \E s \in Services : Call(Play(radio, s, Level), TRUE)

ServicesGet == Call(List(radio, Level), FALSE)

StatusGet == Call(Status(radio), FALSE)

\* The spectrum sweep mutes, and puts the volume back.
SetVolumeOf == \E muted \in BOOLEAN : Call(SetMuted(radio, muted), FALSE)

-----------------------------------------------------------------------------
(* The drain.                                                              *)

Take(p) ==
    CASE OnFm -> radio' = [radio EXCEPT !.rds = ApplyGroup(@, p)] /\ UNCHANGED slides
      [] kind = "label" -> radio' = [radio EXCEPT !.dls = ApplyDls(@, p)] /\ UNCHANGED slides
      [] kind = "slide" -> /\ UNCHANGED radio
                           /\ slides' = IF watching THEN ApplyMot(slides, p) ELSE slides

Pass == Heard # None /\ pos' = (pos + 1) % Len(Carousel(Heard))

Drain == Pass /\ UNCHANGED used

Receive ==
    /\ Drain
    /\ Take(Packet)
    /\ UNCHANGED <<kind, version, watching, lost, dirty, misread>>

Lose ==
    /\ lost < MaxLost /\ Use /\ lost' = lost + 1 /\ Pass
    /\ UNCHANGED <<kind, radio, slides, version, watching, dirty, misread>>

\* A group that the demodulator corrected, wrongly: it is marked as doubtful,
\* or, for a name, passes as clean.
Corrupted(g) ==
    (UNION {{[g EXCEPT !.read = "doubtful", !.part = i, !.flag = b, !.text = Noise] :
                b \in 0..1} : i \in Parts})
    \cup (IF kind = "name" THEN {[g EXCEPT !.text = Noise], [g EXCEPT !.pi = Noise]} ELSE {})

Corrupt ==
    /\ OnFm
    /\ lost < MaxLost /\ Use /\ lost' = lost + 1 /\ Pass
    /\ \E g \in Corrupted(Packet) :
          Take(g) /\ misread' = (misread \/ g.flag # Packet.flag)
    /\ UNCHANGED <<kind, version, watching, dirty>>

\* esp_partition_erase_range or esp_partition_write fails.
FlashFails ==
    /\ kind = "slide" /\ watching
    /\ Use /\ Pass
    /\ slides' \in ApplyMotFails(slides, Packet)
    /\ UNCHANGED <<kind, radio, version, watching, lost, dirty, misread>>

\* The station goes on to its next text or slide; a label is sent to its end.
Change ==
    /\ Heard # None
    /\ kind = "label" => pos = 0
    /\ version[Heard] < MaxVersion /\ Use
    /\ version' = [version EXCEPT ![Heard] = @ + 1]
    /\ pos' = 0
    /\ UNCHANGED <<kind, radio, slides, watching, lost, dirty, misread>>

\* The five minutes of interest end, a sweep or the web radio begins, or is over.
Watch ==
    /\ kind = "slide" /\ Use
    /\ watching' = ~watching
    /\ UNCHANGED <<kind, radio, slides, version, pos, lost, dirty, misread>>

ReceptionNext ==
    \/ TunePost \/ SeekPost \/ PlayPost \/ ServicesGet \/ StatusGet \/ SetVolumeOf
    \/ Receive \/ Lose \/ Corrupt \/ FlashFails \/ Change \/ Watch

\* afFollowTask polls every kDabDataPeriod; a Drain is a Receive, as every
\* other step is counted in used.
ReceptionSpec == ReceptionInit /\ [][ReceptionNext]_receptionVars /\ WF_pos(Drain)

-----------------------------------------------------------------------------
(* Properties.                                                             *)

Texts(s) == {<<s, v>> : v \in 0..version[s]}

\* The name, the PI and the radiotext in a status are whole texts of the
\* frequency that is tuned, and the label one of the service that plays,
\* although a group was lost or corrupted, and the station was changed in the
\* middle of a text; unless a command failed and nothing was tuned since.
ShownIsOnAir ==
    ~dirty /\ radio.booted =>
        /\ radio.loaded = "fm" =>
              /\ radio.rds.pi \in {NoText, Pi[radio.chip.at]}
              /\ radio.rds.name \in {Blank} \cup {WholeText(n) : n \in Texts(radio.chip.at)}
              /\ radio.rds.radiotext \in {Blank} \cup {WholeText(n) : n \in Texts(radio.chip.at)}
        /\ radio.loaded = "dab" =>
              radio.dls.text \in {<<>>} \cup
                  (IF radio.chip.service = None THEN {}
                   ELSE {WholeLabel(n) : n \in Texts(radio.chip.service)})

\* Title and artist are cut out of the radiotext that the tags were sent for,
\* although a group was lost or not to be trusted (startRadiotext drops the tags
\* of the text before); unless a command failed, or a flag was misread.
ItemIsOfText ==
    ~dirty /\ ~misread /\ radio.loaded = "fm" /\ RtPlus(radio.rds) # NoText =>
        radio.rds.radiotext = WholeText(RtPlus(radio.rds))

\* What GET /api/tuner/slide reads is one object, whole and in its order, that
\* the service sent: segments come in any order, are lost and repeated, writes
\* fail, services change, and the next slide is being written meanwhile.
SlideIsWhole ==
    slides.picture # Unset =>
        \E v \in 0..version[slides.service] :
            /\ slides.picture = Sizes[v + 1]
            /\ Reading(slides) = [u \in 0..Sizes[v + 1] - 1 |-> << <<slides.service, v>>, u>>]

\* Seen from outside, a call does what Tuner says it may do, whatever the
\* driver did to load the band, and however far it came before a failure: what
\* booted_, loadedBand_ and fmBandReady_ say of the chip stays true of it.
Calls == INSTANCE TunerCalls WITH tuner <- AsTuner(radio), Reach <- Level

ActsAsTuner == Calls!Spec

\* In the end the interface shows what is on the air, when something is
\* received and, for a slide, someone watches.
UpToDate ==
    LET n == Sent(Heard)
    IN  CASE kind = "name" -> radio.rds.name = WholeText(n) /\ radio.rds.pi = Pi[Heard]
          [] kind = "radiotext" -> radio.rds.radiotext = WholeText(n) /\ RtPlus(radio.rds) = n
          [] kind = "label" -> radio.dls.text = WholeLabel(n) /\ radio.dls.tags = n
                               /\ radio.dls.link = radio.dls.toggle
          [] kind = "slide" -> slides.picture = SizeOf(Heard) /\ slides.service = Heard
                               /\ Reading(slides)[0] = <<n, 0>>

CatchesUp == <>[](Heard = None \/ ~watching \/ UpToDate)

=============================================================================
