------------------------------ MODULE Presets -------------------------------
(***************************************************************************)
(* The audio presets: recall, save, delete and the default of each input,  *)
(* kept in NVS and, as far as its slots go, in the EEPROM (PresetService,  *)
(* AudioPresetBank, AudioPresetCodec, NvsAudioPresetStore,                 *)
(* EepromAudioPresetStore, the image of Eeprom24aa, the preset handlers of *)
(* SetupWebServer).                                                        *)
(*                                                                         *)
(* httpd serves requests, the player switches the input and is muted until *)
(* the default preset of the new input is applied; a mutex separates them. *)
(* The EEPROM is written page by page, NVS in one piece; the power may go  *)
(* at any time.                                                            *)
(***************************************************************************)
EXTENDS Naturals

CONSTANTS
    Slots,     \* the user slots
    BackedUp,  \* those the EEPROM has a page for, as they are written
    Factory,   \* the id of the factory preset
    Sounds,    \* equaliser and enhancements
    FactorySound,
    Coarse,    \* what the encoding of a page leaves of each
    None,      \* no preset, no id
    Torn,      \* a page whose checksum is wrong
    MaxUsed    \* bound on requests, switches and failures together

Pages == {"header"} \cup BackedUp
Ids == Slots \cup {Factory}
Inputs == {"radio", "stream"}
Headers == [default : [Inputs -> Ids \cup {None}], last : Ids \cup {None}]

\* What the presets need of the constants.
PresetsAssumption ==
    /\ BackedUp \subseteq Slots /\ Factory \notin Slots /\ FactorySound \in Sounds
    /\ "header" \notin Slots /\ None \notin Ids \cup Sounds /\ Torn \notin Ids \cup Sounds
    /\ Torn # None /\ {None, Torn} \cap Headers = {}
    /\ Coarse \in [Sounds -> Sounds] /\ \A s \in Sounds : Coarse[Coarse[s]] = Coarse[s]
    /\ MaxUsed \in Nat

VARIABLES
    bank,     \* PresetService::bank_
    nvsBank,  \* what is in NVS: no bank or one
    image,    \* the pages of the EEPROM
    sound,    \* AudioService: the sound that plays and is persisted
    input,    \* the input that plays
    loaded,   \* load() has run since the reset
    holder,   \* who has the mutex
    step,     \* where httpd is in its request
    current,  \* the image writePresetImage has read
    player,   \* the player: "idle", "muted" or "apply"
    answered, \* history: the bank of the last request, if it was answered well
    behind,   \* history: no whole backup of this bank is known
    used

presetVars == <<bank, nvsBank, image, sound, input, loaded, holder, step, current,
                player, answered, behind>>

Use == used < MaxUsed /\ used' = used + 1
Perhaps(fails) == IF fails THEN Use ELSE UNCHANGED used

EmptyBank == [user |-> [s \in Slots |-> None], default |-> [i \in Inputs |-> None],
              last |-> None]
Blank == [p \in Pages |-> None]

\* AudioPresetBank::find.
Find(id) ==
    IF id = None THEN {} ELSE IF id = Factory THEN {FactorySound} ELSE {bank.user[id]} \ {None}

\* encodePresetEepromImage: a page is a coarse copy of its slot.
Encoded(b) ==
    [p \in Pages |->
        IF p = "header" THEN [default |-> b.default, last |-> b.last]
        ELSE IF b.user[p] = None THEN None ELSE Coarse[b.user[p]]]

\* decodePresetEepromImage: without a header there is no bank, a page that is
\* blank or torn is an empty slot, and the ids are taken as they are.
Decoded(im) ==
    IF im["header"] \in {None, Torn} THEN {}
    ELSE {[user |-> [s \in Slots |-> IF s \in BackedUp /\ im[s] # Torn THEN im[s] ELSE None],
           default |-> im["header"].default, last |-> im["header"].last]}

Init ==
    /\ bank = EmptyBank /\ nvsBank = {} /\ image = Blank
    /\ sound = FactorySound /\ input = "radio" /\ loaded = FALSE
    /\ holder = "nobody" /\ step = "idle" /\ current = Blank /\ player = "idle"
    /\ answered = {EmptyBank} /\ behind = TRUE
    /\ used = 0

-----------------------------------------------------------------------------
\* Mutant: the backup is preferred.
MutantLoad ==
    /\ ~loaded /\ loaded' = TRUE
    /\ \E fails \in {"nothing", "read", "copy"} :
          LET stored == IF fails = "read" THEN {} ELSE nvsBank
              backup == Decoded(image)
          IN  /\ Perhaps(fails # "nothing")
              /\ bank' \in IF backup # {} THEN backup
                           ELSE IF stored # {} THEN stored ELSE {EmptyBank}
              /\ nvsBank' = IF stored = {} /\ backup # {} /\ fails # "copy"
                            THEN backup ELSE nvsBank
              /\ answered' = IF fails = "nothing" THEN answered ELSE {}
              /\ behind' = IF stored # {} THEN behind \/ answered = {} ELSE backup = {}
    /\ UNCHANGED <<image, sound, input, holder, step, current, player>>

\* PresetService::load, before any other task knows of the service.  NVS that
\* cannot be read is as good as empty; a backup is copied back to it.
Load ==
    /\ ~loaded /\ loaded' = TRUE
    /\ \E fails \in {"nothing", "read", "copy"} :
          LET stored == IF fails = "read" THEN {} ELSE nvsBank
              backup == Decoded(image)
          IN  /\ Perhaps(fails # "nothing")
              /\ bank' \in IF stored # {} THEN stored
                           ELSE IF backup # {} THEN backup ELSE {EmptyBank}
              /\ nvsBank' = IF stored = {} /\ backup # {} /\ fails # "copy"
                            THEN backup ELSE nvsBank
              /\ answered' = IF fails = "nothing" THEN answered ELSE {}
              /\ behind' = IF stored # {} THEN behind \/ answered = {} ELSE backup = {}
    /\ UNCHANGED <<image, sound, input, holder, step, current, player>>

\* A request takes the mutex, changes the bank and goes on to "to".
Request(to) ==
    /\ loaded /\ holder = "nobody" /\ step = "idle" /\ Use
    /\ holder' = "http" /\ step' = to
    /\ UNCHANGED <<nvsBank, image, input, loaded, current, player, answered>>

\* PresetService::apply.  A DSP that fails leaves everything as it was, a
\* profile that cannot be saved only the new sound, as ChangeSound does.
Apply ==
    \E id \in Ids : \E s \in Find(id) :
       /\ Request("save")
       /\ sound' = s
       /\ bank' = [bank EXCEPT !.last = id]
       /\ behind' = TRUE

\* presetsSaveHandler.
SaveCurrent ==
    \E slot \in Slots :
       /\ Request("read")
       /\ bank' = [bank EXCEPT !.user[slot] = sound, !.last = slot]
       /\ UNCHANGED <<sound, behind>>

\* presetsDeleteHandler: what refers to the slot goes with it.
Erase ==
    \E slot \in Slots :
       /\ Request("read")
       /\ bank' = [user |-> [bank.user EXCEPT ![slot] = None],
                   default |-> [i \in Inputs |-> IF bank.default[i] = slot THEN None
                                                 ELSE bank.default[i]],
                   last |-> IF bank.last = slot THEN None ELSE bank.last]
       /\ UNCHANGED <<sound, behind>>

\* presetsDefaultsHandler: both ids must be found.
SetDefaults ==
    \E d \in [Inputs -> Ids \cup {None}] :
       /\ \A i \in Inputs : d[i] # None => Find(d[i]) # {}
       /\ Request("read")
       /\ bank' = [bank EXCEPT !.default = d]
       /\ UNCHANGED <<sound, behind>>

-----------------------------------------------------------------------------
\* persist(true): the backup first, as far as it goes.
Goes(to) ==
    /\ step' = to
    /\ UNCHANGED <<bank, nvsBank, sound, input, loaded, holder, player, answered>>

\* readPresetImage; without it nothing is written.
ReadImage ==
    /\ step = "read"
    /\ \E fails \in BOOLEAN :
          /\ Perhaps(fails)
          /\ Goes(IF fails THEN "save" ELSE "write")
          /\ behind' = (behind \/ fails)
    /\ current' = image
    /\ UNCHANGED image

Differing == {p \in Pages : Encoded(bank)[p] # current[p]}
\* The header comes first.
NextPages == IF "header" \in Differing THEN {"header"} ELSE Differing

\* Mutant: a write that fails is taken for done.
MutantWritePage ==
    /\ step = "write"
    /\ \/ /\ Differing = {} /\ Goes("save")
          /\ behind' = FALSE
          /\ UNCHANGED <<image, current, used>>
       \/ \E p \in NextPages :
             /\ image' = [image EXCEPT ![p] = Encoded(bank)[p]]
             /\ current' = [current EXCEPT ![p] = Encoded(bank)[p]]
             /\ Goes("write") /\ UNCHANGED <<behind, used>>
       \/ \E p \in NextPages :
             /\ Use /\ image' \in {image, [image EXCEPT ![p] = Torn]}
             /\ current' = [current EXCEPT ![p] = Encoded(bank)[p]]
             /\ Goes("write") /\ UNCHANGED behind

\* One page of writePresetImage; a failed write ends it and may have begun.
WritePage ==
    /\ step = "write"
    /\ \/ /\ Differing = {} /\ Goes("save")
          /\ behind' = FALSE
          /\ UNCHANGED <<image, current, used>>
       \/ \E p \in NextPages :
             /\ image' = [image EXCEPT ![p] = Encoded(bank)[p]]
             /\ current' = [current EXCEPT ![p] = Encoded(bank)[p]]
             /\ Goes("write") /\ UNCHANGED <<behind, used>>
       \/ \E p \in NextPages :
             /\ Use /\ image' \in {image, [image EXCEPT ![p] = Torn]}
             /\ Goes("save") /\ behind' = TRUE
             /\ UNCHANGED current

\* NvsAudioPresetStore::saveBank, and the mutex is released.  A commit that
\* fails may come after the blob is written.
SaveNvs ==
    /\ step = "save"
    /\ \E fails \in BOOLEAN :
          /\ Perhaps(fails)
          /\ nvsBank' \in {{bank}} \cup IF fails THEN {nvsBank} ELSE {}
          /\ answered' = IF fails THEN {} ELSE {bank}
    /\ holder' = "nobody" /\ step' = "idle"
    /\ UNCHANGED <<bank, image, sound, input, loaded, current, player, behind>>

\* The listener moves a slider: the sound is the profile's, and is saved there.
ChangeSound ==
    /\ step = "idle" /\ loaded /\ Use
    /\ sound' \in Sounds
    /\ UNCHANGED <<bank, nvsBank, image, input, loaded, holder, step, current, player,
                   answered, behind>>

-----------------------------------------------------------------------------
\* switchInput: faded out, the source selected, then the listener called.
Switch ==
    /\ player = "idle" /\ loaded /\ Use
    /\ player' = "muted"
    /\ input' = CHOOSE i \in Inputs : i # input
    /\ UNCHANGED <<bank, nvsBank, image, sound, loaded, holder, step, current,
                   answered, behind>>

TakeMutex ==
    /\ player = "muted" /\ holder = "nobody"
    /\ holder' = "player" /\ player' = "apply"
    /\ UNCHANGED <<bank, nvsBank, image, sound, input, loaded, step, current,
                   answered, behind, used>>

\* Mutant: the early return without a preset keeps the mutex.
MutantOnSourceSelected ==
    /\ player = "apply"
    /\ LET found == Find(bank.default[input])
       IN  /\ sound' \in IF found = {} THEN {sound} ELSE found
           /\ holder' = IF found = {} THEN holder ELSE "nobody"
    /\ player' = "idle"
    /\ UNCHANGED <<bank, nvsBank, image, input, loaded, step, current, answered, behind, used>>

\* onSourceSelected, up to the fade in.
OnSourceSelected ==
    /\ player = "apply"
    /\ LET found == Find(bank.default[input])
       IN  \E fails \in BOOLEAN :
              /\ Perhaps(fails)
              /\ sound' \in IF found = {} \/ fails THEN {sound} ELSE found
    /\ holder' = "nobody" /\ player' = "idle"
    /\ UNCHANGED <<bank, nvsBank, image, input, loaded, step, current, answered, behind>>

-----------------------------------------------------------------------------
\* Power goes; a page that is being written may be torn.
PowerLost ==
    /\ image' \in {image} \cup IF step = "write" THEN {[image EXCEPT ![p] = Torn] : p \in NextPages}
                               ELSE {}
    /\ behind' = (behind \/ step \in {"read", "write"})
    /\ answered' = IF step = "idle" THEN answered ELSE {}
    /\ bank' = EmptyBank /\ loaded' = FALSE
    /\ holder' = "nobody" /\ step' = "idle" /\ current' = Blank /\ player' = "idle"
    /\ UNCHANGED <<nvsBank, sound, input>>

\* NVS is erased or re-flashed while the power is off.
EraseNvs ==
    /\ ~loaded
    /\ nvsBank' = {} /\ answered' = {}
    /\ UNCHANGED <<bank, image, sound, input, loaded, holder, step, current, player,
                   behind>>

Http == Apply \/ SaveCurrent \/ Erase \/ SetDefaults \/ ChangeSound
Saving == ReadImage \/ WritePage \/ SaveNvs
Player == TakeMutex \/ OnSourceSelected
PresetStep == Load \/ Saving \/ Switch \/ Player

Next == Http \/ PresetStep \/ ((PowerLost \/ EraseNvs) /\ UNCHANGED used)
Spec == Init /\ [][Next]_<<presetVars, used>>

-----------------------------------------------------------------------------
Banks == [user : [Slots -> Sounds \cup {None}], default : [Inputs -> Ids \cup {None}],
          last : Ids \cup {None}]
Image(im) ==
    /\ im \in [Pages -> {None, Torn} \cup Headers \cup Sounds]
    /\ im["header"] \in {None, Torn} \cup Headers
    /\ \A p \in BackedUp : im[p] \in {None, Torn} \cup Sounds
TypeOK ==
    /\ bank \in Banks
    /\ nvsBank \in SUBSET Banks /\ answered \in SUBSET Banks
    /\ Image(image) /\ Image(current)
    /\ sound \in Sounds /\ input \in Inputs
    /\ holder \in {"nobody", "http", "player"}
    /\ step \in {"idle", "read", "write", "save"} /\ player \in {"idle", "muted", "apply"}
    /\ loaded \in BOOLEAN /\ behind \in BOOLEAN

\* A change that was answered well survives: whatever fails, and however often
\* the power goes, the bank is that of the last such request, until NVS is
\* erased or cannot be read.
AnsweredSurvives ==
    loaded /\ step = "idle" /\ answered # {} => answered = {bank}

\* What a restart without NVS restores.
Restorable(b) ==
    [b EXCEPT !.user = [s \in Slots |-> IF s \notin BackedUp \/ b.user[s] = None THEN None
                                       ELSE Coarse[b.user[s]]]]

\* A backup that was written to its end is the bank, as far as it goes,
\* whatever earlier ones left in the pages: cut, torn or never written.
BackupIsWhole ==
    loaded /\ step = "idle" /\ ~behind => Decoded(image) = {Restorable(bank)}

\* A switch of input, which is muted until it has the mutex, ends.
SwitchEnds == player = "muted" ~> player = "idle"
=============================================================================
