--------------------------- MODULE SettingsProofs ---------------------------
(***************************************************************************)
(* What the flash and the EEPROM keep, for every number of stations, slots *)
(* and sounds, and any number of requests, failures and power cycles: the  *)
(* presets first, then the stations, then both side by side.               *)
(***************************************************************************)
EXTENDS Settings, SequenceTheorems, TLAPS

-----------------------------------------------------------------------------
(* Images of the EEPROM. *)

\* The image restores the bank, as far as its pages go.
Agrees(im, b) == Pr!Decoded(im) = {Pr!Restorable(b)}

\* A page holds nothing finer than its encoding.
CoarsePages(im) == \A p \in BackedUp : im[p] \in Sounds => Coarse[im[p]] = im[p]

LEMMA EncodedImage ==
    ASSUME NEW b \in Pr!Banks
    PROVE  /\ Pr!Image(Pr!Encoded(b)) /\ CoarsePages(Pr!Encoded(b))
           /\ Agrees(Pr!Encoded(b), b)
<1> DEFINE im == Pr!Encoded(b)
<1> USE SettingsAssumption DEF Pr!PresetsAssumption, Pr!Banks
<1>1. /\ im["header"] = [default |-> b.default, last |-> b.last]
      /\ \A p \in BackedUp : im[p] = IF b.user[p] = None THEN None ELSE Coarse[b.user[p]]
  BY DEF Pr!Encoded, Pr!Pages
<1>2. im["header"] \in Pr!Headers /\ im["header"] \notin {None, Torn}
  BY <1>1 DEF Pr!Headers
<1>3. \A p \in BackedUp : im[p] \in {None} \cup Sounds /\ im[p] # Torn
  BY <1>1
<1>4. Pr!Image(im)
  BY <1>2, <1>3 DEF Pr!Image, Pr!Encoded, Pr!Pages
<1>5. CoarsePages(im)
  BY <1>1 DEF CoarsePages
<1>6. [s \in Slots |-> IF s \in BackedUp /\ im[s] # Torn THEN im[s] ELSE None]
      = [s \in Slots |-> IF s \notin BackedUp \/ b.user[s] = None THEN None
                         ELSE Coarse[b.user[s]]]
  BY <1>1, <1>3
<1>7. Agrees(im, b)
  BY <1>1, <1>2, <1>6 DEF Agrees, Pr!Decoded, Pr!Restorable
<1> QED
  BY <1>4, <1>5, <1>7

\* What is decoded is a bank, and writing it again would change nothing.
LEMMA DecodedBank ==
    ASSUME NEW im, Pr!Image(im), CoarsePages(im), NEW b \in Pr!Decoded(im)
    PROVE  b \in Pr!Banks /\ Agrees(im, b)
<1> USE SettingsAssumption DEF Pr!PresetsAssumption, Pr!Image
<1>1. /\ im["header"] \in Pr!Headers
      /\ Pr!Decoded(im) = {b}
      /\ b = [user |-> [s \in Slots |-> IF s \in BackedUp /\ im[s] # Torn THEN im[s] ELSE None],
              default |-> im["header"].default, last |-> im["header"].last]
  BY DEF Pr!Decoded
<1>2. b \in Pr!Banks
  BY <1>1 DEF Pr!Banks, Pr!Headers
<1>3. b.user = [s \in Slots |-> IF s \notin BackedUp \/ b.user[s] = None THEN None
                                ELSE Coarse[b.user[s]]]
  BY <1>1 DEF CoarsePages
<1>4. Pr!Restorable(b) = b
  BY <1>1, <1>3 DEF Pr!Restorable
<1> QED
  BY <1>1, <1>2, <1>4 DEF Agrees

LEMMA EmptyBankIsBank == Pr!EmptyBank \in Pr!Banks
BY DEF Pr!EmptyBank, Pr!Banks

LEMMA BlankImage ==
    Pr!Image(Pr!Blank) /\ CoarsePages(Pr!Blank) /\ Pr!Decoded(Pr!Blank) = {}
BY SettingsAssumption
   DEF Pr!PresetsAssumption, Pr!Image, Pr!Blank, Pr!Pages, Pr!Decoded, CoarsePages

-----------------------------------------------------------------------------
(* The presets. *)

\* Until a request ends, NVS is what the last one left, if that is known;
\* before the first it is empty.
NvsIsAnswer ==
    answered # {} =>
        /\ \A a, b \in answered : a = b
        /\ step = "idle" => \/ nvsBank = answered
                           \/ /\ nvsBank = {} /\ answered = {Pr!EmptyBank}
                              /\ image = Pr!Blank

PresetInv ==
    /\ Pr!TypeOK
    /\ CoarsePages(image)
    /\ loaded \/ step = "idle"
    /\ step = "write" => current = image
    /\ step = "save" /\ ~behind => Agrees(image, bank)
    /\ NvsIsAnswer
    /\ ~loaded /\ ~behind /\ answered # {} => \A b \in nvsBank : Agrees(image, b)
    /\ Pr!AnsweredSurvives
    /\ Pr!BackupIsWhole

\* A radio out of the box.
LEMMA PresetInit == Pr!Init => PresetInv
<1> SUFFICES ASSUME Pr!Init PROVE PresetInv
  OBVIOUS
<1> USE DEF Pr!Init
<1>1. Pr!TypeOK
  BY EmptyBankIsBank, BlankImage, SettingsAssumption
     DEF Pr!TypeOK, Pr!PresetsAssumption, Pr!Inputs
<1>2. CoarsePages(image) /\ NvsIsAnswer
  BY BlankImage DEF NvsIsAnswer
<1> QED
  BY <1>1, <1>2 DEF PresetInv, Pr!AnsweredSurvives, Pr!BackupIsWhole

\* A start takes the bank of NVS, or else the one the EEPROM restores.
LEMMA LoadStep == ASSUME PresetInv, Pr!Load PROVE PresetInv'
<1>1. PICK fails \in {"nothing", "read", "copy"} :
         LET stored == IF fails = "read" THEN {} ELSE nvsBank
             backup == Pr!Decoded(image)
         IN  /\ bank' \in IF stored # {} THEN stored
                           ELSE IF backup # {} THEN backup ELSE {Pr!EmptyBank}
             /\ nvsBank' = IF stored = {} /\ backup # {} /\ fails # "copy"
                           THEN backup ELSE nvsBank
             /\ answered' = IF fails = "nothing" THEN answered ELSE {}
             /\ behind' = IF stored # {} THEN behind \/ answered = {} ELSE backup = {}
  BY DEF Pr!Load
<1> DEFINE stored == IF fails = "read" THEN {} ELSE nvsBank
           backup == Pr!Decoded(image)
<1>2. /\ ~loaded /\ loaded' = TRUE /\ step = "idle"
      /\ UNCHANGED <<image, sound, input, holder, step, current, player>>
  BY DEF Pr!Load, PresetInv
<1>3. /\ Pr!Image(image) /\ CoarsePages(image)
      /\ nvsBank \in SUBSET Pr!Banks /\ answered \in SUBSET Pr!Banks /\ behind \in BOOLEAN
  BY DEF PresetInv, Pr!TypeOK
<1>4. \A b \in backup : b \in Pr!Banks /\ Agrees(image, b)
  BY <1>3, DecodedBank
<1>5. Pr!TypeOK'
  <2>1. bank' \in Pr!Banks
    BY <1>1, <1>3, <1>4, EmptyBankIsBank
  <2>2. nvsBank' \in SUBSET Pr!Banks /\ answered' \in SUBSET Pr!Banks /\ behind' \in BOOLEAN
    BY <1>1, <1>3, <1>4
  <2> QED
    BY <1>2, <2>1, <2>2 DEF PresetInv, Pr!TypeOK, Pr!Image
<1>6. CASE fails # "nothing"
  <2>1. answered' = {}
    BY <1>1, <1>6
  <2>2. ~behind' => Agrees(image, bank')
    BY <1>1, <1>2, <1>4 DEF PresetInv
  <2>3. Pr!BackupIsWhole'
    BY <1>2, <2>2 DEF Pr!BackupIsWhole, Agrees, Pr!Decoded, Pr!Restorable
  <2> QED
    BY <1>2, <1>5, <2>1, <2>3
       DEF PresetInv, NvsIsAnswer, Pr!AnsweredSurvives, CoarsePages
<1>7. CASE fails = "nothing"
  <2>1. stored = nvsBank /\ answered' = answered
    BY <1>1, <1>7
  <2>2. ~behind' => Agrees(image, bank')
    BY <1>1, <1>2, <1>4, <2>1 DEF PresetInv
  <2>3. Pr!BackupIsWhole'
    BY <1>2, <2>2 DEF Pr!BackupIsWhole, Agrees, Pr!Decoded, Pr!Restorable
  <2>4. answered # {} => answered = {bank'} /\ (nvsBank' = answered \/ nvsBank' = {})
    BY <1>1, <1>2, <2>1, BlankImage DEF PresetInv, NvsIsAnswer
  <2>5. NvsIsAnswer' /\ Pr!AnsweredSurvives'
    BY <1>1, <1>2, <2>1, <2>4, BlankImage
       DEF PresetInv, NvsIsAnswer, Pr!AnsweredSurvives, Pr!EmptyBank, Pr!Blank
  <2> QED
    BY <1>2, <1>5, <2>3, <2>5 DEF PresetInv, CoarsePages
<1> QED
  BY <1>6, <1>7

\* A request changes the bank in RAM; what NVS and the EEPROM say of it is
\* owed from then on.
LEMMA RequestStep ==
    ASSUME PresetInv, NEW to \in {"save", "read"}, Pr!Request(to),
           bank' \in Pr!Banks, sound' \in Sounds, behind' \in BOOLEAN,
           to = "save" => behind'
    PROVE  PresetInv'
<1>1. /\ loaded /\ loaded' /\ step' = to /\ holder' = "http" /\ step = "idle"
      /\ UNCHANGED <<nvsBank, image, input, current, player, answered>>
  BY DEF Pr!Request, PresetInv, Pr!TypeOK
<1>2. Pr!TypeOK'
  BY <1>1 DEF PresetInv, Pr!TypeOK, Pr!Image
<1> QED
  BY <1>1, <1>2
     DEF PresetInv, NvsIsAnswer, CoarsePages, Pr!AnsweredSurvives, Pr!BackupIsWhole

LEMMA FoundIsSound ==
    ASSUME PresetInv, NEW id \in Pr!Ids \cup {None}, NEW s \in Pr!Find(id) PROVE s \in Sounds
BY SettingsAssumption
   DEF PresetInv, Pr!TypeOK, Pr!Find, Pr!PresetsAssumption, Pr!Ids, Pr!Banks

LEMMA HttpStep == ASSUME PresetInv, Pr!Http PROVE PresetInv'
<1>1. bank \in Pr!Banks /\ sound \in Sounds /\ behind \in BOOLEAN
  BY DEF PresetInv, Pr!TypeOK
<1>2. CASE Pr!Apply
  <2>1. PICK id \in Pr!Ids : \E s \in Pr!Find(id) :
           /\ Pr!Request("save") /\ sound' = s
           /\ bank' = [bank EXCEPT !.last = id] /\ behind' = TRUE
    BY <1>2 DEF Pr!Apply
  <2>2. sound' \in Sounds
    BY <2>1, FoundIsSound
  <2>3. bank' \in Pr!Banks
    BY <1>1, <2>1 DEF Pr!Banks
  <2> QED
    BY <2>1, <2>2, <2>3, RequestStep
<1>3. CASE Pr!SaveCurrent
  <2>1. PICK slot \in Slots :
           /\ Pr!Request("read")
           /\ bank' = [bank EXCEPT !.user[slot] = sound, !.last = slot]
           /\ UNCHANGED <<sound, behind>>
    BY <1>3 DEF Pr!SaveCurrent
  <2>2. bank' \in Pr!Banks
    BY <1>1, <2>1 DEF Pr!Banks, Pr!Ids
  <2> QED
    BY <1>1, <2>1, <2>2, RequestStep
<1>4. CASE Pr!Erase
  <2>1. PICK slot \in Slots :
           /\ Pr!Request("read")
           /\ bank' = [user |-> [bank.user EXCEPT ![slot] = None],
                       default |-> [i \in Pr!Inputs |-> IF bank.default[i] = slot THEN None
                                                        ELSE bank.default[i]],
                       last |-> IF bank.last = slot THEN None ELSE bank.last]
           /\ UNCHANGED <<sound, behind>>
    BY <1>4 DEF Pr!Erase
  <2>2. bank' \in Pr!Banks
    BY <1>1, <2>1 DEF Pr!Banks
  <2> QED
    BY <1>1, <2>1, <2>2, RequestStep
<1>5. CASE Pr!SetDefaults
  <2>1. PICK d \in [Pr!Inputs -> Pr!Ids \cup {None}] :
           /\ Pr!Request("read") /\ bank' = [bank EXCEPT !.default = d]
           /\ UNCHANGED <<sound, behind>>
    BY <1>5 DEF Pr!SetDefaults
  <2>2. bank' \in Pr!Banks
    BY <1>1, <2>1 DEF Pr!Banks
  <2> QED
    BY <1>1, <2>1, <2>2, RequestStep
<1>6. CASE Pr!ChangeSound
  BY <1>6 DEF Pr!ChangeSound, PresetInv, Pr!TypeOK, Pr!Image, NvsIsAnswer, CoarsePages,
              Pr!AnsweredSurvives, Pr!BackupIsWhole, Agrees, Pr!Decoded, Pr!Restorable
<1> QED
  BY <1>2, <1>3, <1>4, <1>5, <1>6 DEF Pr!Http

\* The backup: the old image is read, its pages are brought up to date.
LEMMA ReadImageStep == ASSUME PresetInv, Pr!ReadImage PROVE PresetInv'
<1>1. /\ step = "read" /\ loaded /\ current' = image
      /\ UNCHANGED <<bank, nvsBank, image, sound, input, loaded, holder, player, answered>>
      /\ \/ step' = "write" /\ behind' \in BOOLEAN
         \/ step' = "save" /\ behind' = TRUE
  BY DEF Pr!ReadImage, Pr!Goes, PresetInv, Pr!TypeOK
<1>2. Pr!TypeOK'
  BY <1>1 DEF PresetInv, Pr!TypeOK, Pr!Image
<1> QED
  BY <1>1, <1>2
     DEF PresetInv, NvsIsAnswer, CoarsePages, Pr!AnsweredSurvives, Pr!BackupIsWhole

LEMMA WritePageStep == ASSUME PresetInv, Pr!WritePage PROVE PresetInv'
<1> DEFINE wanted == Pr!Encoded(bank)
<1>1. /\ step = "write" /\ loaded /\ current = image
      /\ Pr!Image(image) /\ CoarsePages(image) /\ bank \in Pr!Banks
  BY DEF Pr!WritePage, PresetInv, Pr!TypeOK
<1>2. Pr!Image(wanted) /\ CoarsePages(wanted) /\ Agrees(wanted, bank)
  BY <1>1, EncodedImage
<1>3. Pr!NextPages \subseteq Pr!Pages
  BY DEF Pr!NextPages, Pr!Differing
<1>4. UNCHANGED <<bank, nvsBank, sound, input, loaded, holder, player, answered>>
  BY DEF Pr!WritePage, Pr!Goes
<1>5. ASSUME NEW p \in Pr!NextPages, NEW x \in {Torn, wanted[p]}
      PROVE  LET im == [image EXCEPT ![p] = x] IN Pr!Image(im) /\ CoarsePages(im)
  BY <1>1, <1>2, <1>3, SettingsAssumption
     DEF Pr!Image, CoarsePages, Pr!Pages, Pr!PresetsAssumption
<1>6. CASE Pr!Differing = {} /\ Pr!Goes("save") /\ behind' = FALSE /\ UNCHANGED <<image, current>>
  <2>1. image = wanted
    BY <1>1, <1>2, <1>6 DEF Pr!Differing, Pr!Image, Pr!Encoded
  <2>2. Agrees(image, bank)
    BY <1>2, <2>1
  <2>3. Agrees(image, bank)'
    BY <1>4, <1>6, <2>2 DEF Agrees, Pr!Decoded, Pr!Restorable
  <2>4. step' = "save"
    BY <1>6 DEF Pr!Goes
  <2>5. Pr!TypeOK'
    BY <1>4, <1>6, <2>4 DEF PresetInv, Pr!TypeOK, Pr!Image
  <2> QED
    BY <1>1, <1>4, <1>6, <2>3, <2>4, <2>5
       DEF PresetInv, NvsIsAnswer, CoarsePages, Pr!AnsweredSurvives, Pr!BackupIsWhole
<1>7. CASE \E p \in Pr!NextPages :
             /\ image' = [image EXCEPT ![p] = wanted[p]]
             /\ current' = [current EXCEPT ![p] = wanted[p]]
             /\ Pr!Goes("write") /\ behind' = behind
  <2>1. Pr!Image(image)' /\ CoarsePages(image)' /\ current' = image' /\ step' = "write"
    BY <1>1, <1>5, <1>7 DEF Pr!Goes, Pr!Image, CoarsePages
  <2>2. Pr!TypeOK'
    BY <1>4, <1>7, <2>1 DEF PresetInv, Pr!TypeOK, Pr!Image
  <2> QED
    BY <1>1, <1>4, <1>7, <2>1, <2>2
       DEF PresetInv, NvsIsAnswer, CoarsePages, Pr!AnsweredSurvives, Pr!BackupIsWhole
<1>8. CASE \E p \in Pr!NextPages :
             /\ image' \in {image, [image EXCEPT ![p] = Torn]}
             /\ Pr!Goes("save") /\ behind' = TRUE /\ current' = current
  <2>0. PICK p \in Pr!NextPages : image' = image \/ image' = [image EXCEPT ![p] = Torn]
    BY <1>8
  <2>1. Pr!Image(image)' /\ CoarsePages(image)'
    <3>1. CASE image' = image
      BY <1>1, <3>1 DEF Pr!Image, CoarsePages
    <3>2. CASE image' = [image EXCEPT ![p] = Torn]
      BY <1>1, <1>5, <3>2 DEF Pr!Image, CoarsePages
    <3> QED
      BY <2>0, <3>1, <3>2
  <2>3. step' = "save"
    BY <1>8 DEF Pr!Goes
  <2>2. Pr!TypeOK'
    BY <1>4, <1>8, <2>1, <2>3 DEF PresetInv, Pr!TypeOK, Pr!Image
  <2> QED
    BY <1>1, <1>4, <1>8, <2>1, <2>2, <2>3
       DEF PresetInv, NvsIsAnswer, CoarsePages, Pr!AnsweredSurvives, Pr!BackupIsWhole
<1> QED
  BY <1>6, <1>7, <1>8 DEF Pr!WritePage

LEMMA SaveNvsStep == ASSUME PresetInv, Pr!SaveNvs PROVE PresetInv'
<1>1. PICK fails \in BOOLEAN :
         /\ nvsBank' \in {{bank}} \cup IF fails THEN {nvsBank} ELSE {}
         /\ answered' = IF fails THEN {} ELSE {bank}
  BY DEF Pr!SaveNvs
<1>2. /\ step = "save" /\ step' = "idle" /\ holder' = "nobody" /\ loaded
      /\ UNCHANGED <<bank, image, sound, input, loaded, current, player, behind>>
  BY DEF Pr!SaveNvs, PresetInv
<1>3. Pr!TypeOK'
  BY <1>1, <1>2 DEF PresetInv, Pr!TypeOK, Pr!Image
<1>4. Pr!BackupIsWhole'
  BY <1>2 DEF PresetInv, Pr!BackupIsWhole, Agrees, Pr!Decoded, Pr!Restorable
<1> QED
  BY <1>1, <1>2, <1>3, <1>4 DEF PresetInv, NvsIsAnswer, CoarsePages, Pr!AnsweredSurvives

\* A switch of input, its turn with the mutex, and the preset it applies.
LEMMA PlayerStep == ASSUME PresetInv, Pr!Switch \/ Pr!Player PROVE PresetInv'
<1>1. UNCHANGED <<bank, nvsBank, image, loaded, step, current, answered, behind>>
  BY DEF Pr!Switch, Pr!Player, Pr!TakeMutex, Pr!OnSourceSelected
<1>2. Pr!TypeOK'
  <2>1. CASE Pr!Switch
    <3>1. input' \in Pr!Inputs
      BY <2>1 DEF Pr!Switch, Pr!Inputs, PresetInv, Pr!TypeOK
    <3> QED
      BY <1>1, <2>1, <3>1 DEF Pr!Switch, PresetInv, Pr!TypeOK, Pr!Image
  <2>2. CASE Pr!TakeMutex
    BY <1>1, <2>2 DEF Pr!TakeMutex, PresetInv, Pr!TypeOK, Pr!Image
  <2>3. CASE Pr!OnSourceSelected
    <3>1. bank.default[input] \in Pr!Ids \cup {None}
      BY DEF PresetInv, Pr!TypeOK, Pr!Banks
    <3>2. sound' \in Sounds
      BY <2>3, <3>1, FoundIsSound DEF Pr!OnSourceSelected, PresetInv, Pr!TypeOK
    <3> QED
      BY <1>1, <2>3, <3>2 DEF Pr!OnSourceSelected, PresetInv, Pr!TypeOK, Pr!Image
  <2> QED
    BY <2>1, <2>2, <2>3 DEF Pr!Player
<1> QED
  BY <1>1, <1>2
     DEF PresetInv, NvsIsAnswer, CoarsePages, Pr!AnsweredSurvives, Pr!BackupIsWhole,
         Agrees, Pr!Decoded, Pr!Restorable

\* A power cut may tear the page being written, and makes the answer to a
\* request that is under way unknown.
LEMMA PresetPowerLost == ASSUME PresetInv, Pr!PowerLost PROVE PresetInv'
<1>1. /\ bank' = Pr!EmptyBank /\ loaded' = FALSE /\ holder' = "nobody" /\ step' = "idle"
      /\ current' = Pr!Blank /\ player' = "idle"
      /\ behind' = (behind \/ step \in {"read", "write"})
      /\ answered' = IF step = "idle" THEN answered ELSE {}
      /\ UNCHANGED <<nvsBank, sound, input>>
  BY DEF Pr!PowerLost
<1>2. step # "write" => image' = image
  BY DEF Pr!PowerLost
<1>3. Pr!Image(image) /\ CoarsePages(image)
  BY DEF PresetInv, Pr!TypeOK
<1>4. Pr!Image(image)' /\ CoarsePages(image)'
  <2>1. CASE image' = image
    BY <1>3, <2>1 DEF Pr!Image, CoarsePages
  <2>2. CASE image' # image
    <3>1. PICK p \in Pr!Pages : image' = [image EXCEPT ![p] = Torn]
      BY <2>2 DEF Pr!PowerLost, Pr!NextPages, Pr!Differing
    <3> QED
      BY <1>3, <3>1, SettingsAssumption
         DEF Pr!Image, CoarsePages, Pr!Pages, Pr!PresetsAssumption
  <2> QED
    BY <2>1, <2>2
<1>5. Pr!TypeOK'
  BY <1>1, <1>4, EmptyBankIsBank, BlankImage DEF PresetInv, Pr!TypeOK, Pr!Image
<1>6. NvsIsAnswer'
  BY <1>1, <1>2 DEF PresetInv, NvsIsAnswer, Pr!EmptyBank, Pr!Blank
<1>7. ~behind' /\ answered' # {} => \A b \in nvsBank' : Agrees(image', b)
  <2>1. SUFFICES ASSUME ~behind', answered' # {}, NEW b \in nvsBank'
                 PROVE  Agrees(image', b)
    OBVIOUS
  <2>2. step = "idle" /\ ~behind /\ answered # {} /\ image' = image /\ b \in nvsBank
    BY <1>1, <1>2, <2>1 DEF PresetInv
  <2>3. CASE ~loaded
    BY <2>2, <2>3 DEF PresetInv, Pr!TypeOK
  <2>4. CASE loaded
    <3>1. answered = {bank} /\ Agrees(image, bank)
      BY <2>2, <2>4 DEF PresetInv, Pr!AnsweredSurvives, Pr!BackupIsWhole, Agrees
    <3>2. b = bank
      BY <2>2, <3>1 DEF PresetInv, NvsIsAnswer
    <3> QED
      BY <2>2, <3>1, <3>2
  <2> QED
    BY <2>3, <2>4 DEF PresetInv, Pr!TypeOK
<1>8. (\A b \in nvsBank : Agrees(image, b))' <=> \A b \in nvsBank' : Agrees(image', b)
  BY DEF Agrees, Pr!Decoded, Pr!Restorable
<1> QED
  BY <1>1, <1>4, <1>5, <1>6, <1>7, <1>8
     DEF PresetInv, Pr!AnsweredSurvives, Pr!BackupIsWhole

LEMMA PresetEraseNvs == ASSUME PresetInv, Pr!EraseNvs PROVE PresetInv'
<1>1. Pr!TypeOK'
  BY DEF Pr!EraseNvs, PresetInv, Pr!TypeOK, Pr!Image
<1> QED
  BY <1>1 DEF Pr!EraseNvs, PresetInv, NvsIsAnswer, CoarsePages, Pr!AnsweredSurvives,
              Pr!BackupIsWhole

LEMMA PresetStutter == ASSUME PresetInv, UNCHANGED presets PROVE PresetInv'
<1>1. Pr!TypeOK'
  BY DEF presets, PresetInv, Pr!TypeOK, Pr!Image
<1> QED
  BY <1>1 DEF presets, PresetInv, NvsIsAnswer, CoarsePages, Pr!AnsweredSurvives,
              Pr!BackupIsWhole, Agrees, Pr!Decoded, Pr!Restorable

LEMMA PresetStepKeeps == ASSUME PresetInv, Pr!PresetStep PROVE PresetInv'
BY LoadStep, ReadImageStep, WritePageStep, SaveNvsStep, PlayerStep
   DEF Pr!PresetStep, Pr!Saving

-----------------------------------------------------------------------------
(* Lists of stations. *)

Elements(s) == {s[i] : i \in DOMAIN s}

\* What concatenation and cutting keep.
LEMMA ConcatElements ==
    ASSUME NEW S, NEW a \in Seq(S), NEW b \in Seq(S)
    PROVE  /\ a \o b \in Seq(S) /\ Len(a \o b) = Len(a) + Len(b)
           /\ Elements(a \o b) \subseteq Elements(a) \cup Elements(b)
           /\ \A k \in 1..Len(a) : (a \o b)[k] = a[k]
<1>1. Len(a) \in Nat /\ Len(b) \in Nat /\ DOMAIN a = 1..Len(a) /\ DOMAIN b = 1..Len(b)
  BY LenProperties
<1>2. /\ a \o b \in Seq(S) /\ Len(a \o b) = Len(a) + Len(b)
      /\ \A i \in 1 .. Len(a) + Len(b) :
            (a \o b)[i] = IF i <= Len(a) THEN a[i] ELSE b[i - Len(a)]
  BY ConcatProperties
<1>3. DOMAIN (a \o b) = 1 .. Len(a) + Len(b)
  BY <1>2, LenProperties
<1>4. ASSUME NEW i \in 1 .. Len(a) + Len(b) PROVE (a \o b)[i] \in Elements(a) \cup Elements(b)
  <2>1. CASE i <= Len(a)
    BY <1>1, <1>2, <2>1 DEF Elements
  <2>2. CASE i > Len(a)
    <3>1. (a \o b)[i] = b[i - Len(a)] /\ i - Len(a) \in 1..Len(b)
      BY <1>1, <1>2, <2>2
    <3> QED
      BY <1>1, <3>1 DEF Elements
  <2> QED
    BY <1>1, <2>1, <2>2
<1>5. Elements(a \o b) \subseteq Elements(a) \cup Elements(b)
  BY <1>3, <1>4 DEF Elements
<1>6. \A k \in 1..Len(a) : (a \o b)[k] = a[k]
  BY <1>1, <1>2
<1> QED
  BY <1>2, <1>5, <1>6

LEMMA PartOf ==
    ASSUME NEW S, NEW s \in Seq(S), NEW m \in 1..Len(s)+1, NEW n \in 0..Len(s), m <= n + 1
    PROVE  /\ SubSeq(s, m, n) \in Seq(S) /\ Len(SubSeq(s, m, n)) = n - m + 1
           /\ Elements(SubSeq(s, m, n)) \subseteq Elements(s)
           /\ \A k \in 1..n-m+1 : SubSeq(s, m, n)[k] = s[m + k - 1]
<1>1. Len(s) \in Nat /\ DOMAIN s = 1..Len(s) /\ m \in Int /\ n \in Int
  BY LenProperties
<1>2. \A i \in m..n : s[i] \in S /\ i \in DOMAIN s
  BY <1>1
<1>3. /\ SubSeq(s, m, n) \in Seq(S)
      /\ Len(SubSeq(s, m, n)) = IF m <= n THEN n-m+1 ELSE 0
      /\ \A i \in 1 .. n-m+1 : SubSeq(s, m, n)[i] = s[m+i-1]
  BY <1>1, <1>2, SubSeqProperties
<1>4. Len(SubSeq(s, m, n)) = n - m + 1 /\ DOMAIN SubSeq(s, m, n) = 1..n-m+1
  BY <1>1, <1>3, LenProperties
<1>5. \A i \in 1..n-m+1 : m+i-1 \in DOMAIN s
  BY <1>1
<1>6. Elements(SubSeq(s, m, n)) \subseteq Elements(s)
  BY <1>3, <1>4, <1>5 DEF Elements
<1> QED
  BY <1>3, <1>4, <1>6

LEMMA WithoutOne ==
    ASSUME NEW S, NEW s \in Seq(S), NEW i \in 1..Len(s)
    PROVE  /\ St!Without(s, i) \in Seq(S) /\ Len(St!Without(s, i)) = Len(s) - 1
           /\ Elements(St!Without(s, i)) \subseteq Elements(s)
           /\ \A k \in 1..i-1 : St!Without(s, i)[k] = s[k]
<1> DEFINE a == SubSeq(s, 1, i - 1)
           b == SubSeq(s, i + 1, Len(s))
<1>1. /\ i \in Nat /\ Len(s) \in Nat /\ i <= Len(s) /\ 1 <= i
      /\ 1 \in 1..Len(s)+1 /\ i - 1 \in 0..Len(s) /\ i + 1 \in 1..Len(s)+1
      /\ Len(s) \in 0..Len(s) /\ 1 <= i - 1 + 1 /\ i + 1 <= Len(s) + 1
  BY LenProperties
<1>2. /\ a \in Seq(S) /\ Len(a) = i - 1 - 1 + 1 /\ Elements(a) \subseteq Elements(s)
      /\ \A k \in 1..i-1-1+1 : a[k] = s[1 + k - 1]
  BY <1>1, PartOf
<1>3. b \in Seq(S) /\ Len(b) = Len(s) - (i + 1) + 1 /\ Elements(b) \subseteq Elements(s)
  BY <1>1, PartOf
<1>4. St!Without(s, i) = a \o b
  BY DEF St!Without
<1> HIDE DEF a, b
<1>5. Len(a) = i - 1 /\ Len(b) = Len(s) - i /\ \A k \in 1..i-1 : a[k] = s[k]
  BY <1>1, <1>2, <1>3
<1>6. /\ a \o b \in Seq(S) /\ Len(a \o b) = Len(a) + Len(b)
      /\ Elements(a \o b) \subseteq Elements(a) \cup Elements(b)
      /\ \A k \in 1..Len(a) : (a \o b)[k] = a[k]
  BY <1>2, <1>3, ConcatElements
<1>7. Len(a \o b) = Len(s) - 1 /\ \A k \in 1..i-1 : (a \o b)[k] = s[k]
  BY <1>1, <1>5, <1>6
<1> QED
  BY <1>2, <1>3, <1>4, <1>6, <1>7

LEMMA InsertedOne ==
    ASSUME NEW S, NEW s \in Seq(S), NEW i \in 1..Len(s)+1, NEW x \in S
    PROVE  /\ St!Inserted(s, i, x) \in Seq(S) /\ Len(St!Inserted(s, i, x)) = Len(s) + 1
           /\ Elements(St!Inserted(s, i, x)) \subseteq Elements(s) \cup {x}
<1> DEFINE a == SubSeq(s, 1, i - 1)
           b == SubSeq(s, i, Len(s))
<1>1. /\ i \in Nat /\ Len(s) \in Nat /\ i <= Len(s) + 1 /\ 1 <= i
      /\ 1 \in 1..Len(s)+1 /\ i - 1 \in 0..Len(s)
      /\ Len(s) \in 0..Len(s) /\ 1 <= i - 1 + 1
  BY LenProperties
<1>2. a \in Seq(S) /\ Len(a) = i - 1 - 1 + 1 /\ Elements(a) \subseteq Elements(s)
  BY <1>1, PartOf
<1>3. b \in Seq(S) /\ Len(b) = Len(s) - i + 1 /\ Elements(b) \subseteq Elements(s)
  BY <1>1, PartOf
<1>4. <<x>> \in Seq(S) /\ Len(<<x>>) = 1 /\ Elements(<<x>>) = {x}
  BY DEF Elements
<1>5. St!Inserted(s, i, x) = (a \o <<x>>) \o b
  BY DEF St!Inserted
<1> HIDE DEF a, b
<1> DEFINE ax == a \o <<x>>
<1>6. /\ ax \in Seq(S) /\ Len(ax) = Len(a) + Len(<<x>>)
      /\ Elements(ax) \subseteq Elements(a) \cup Elements(<<x>>)
  BY <1>2, <1>4, ConcatElements
<1>7. St!Inserted(s, i, x) = ax \o b
  BY <1>5
<1> HIDE DEF ax
<1>8. /\ ax \o b \in Seq(S) /\ Len(ax \o b) = Len(ax) + Len(b)
      /\ Elements(ax \o b) \subseteq Elements(ax) \cup Elements(b)
  BY <1>3, <1>6, ConcatElements
<1>9. Len(ax \o b) = Len(s) + 1
  BY <1>1, <1>2, <1>3, <1>4, <1>6, <1>8
<1> QED
  BY <1>2, <1>3, <1>4, <1>6, <1>7, <1>8, <1>9

LEMMA MovedOne ==
    ASSUME NEW S, NEW s \in Seq(S), NEW from \in 1..Len(s), NEW to \in 1..Len(s)
    PROVE  /\ St!Moved(s, from, to) \in Seq(S) /\ Len(St!Moved(s, from, to)) = Len(s)
           /\ Elements(St!Moved(s, from, to)) \subseteq Elements(s)
<1> DEFINE w == St!Without(s, from)
<1>1. w \in Seq(S) /\ Len(w) = Len(s) - 1 /\ Elements(w) \subseteq Elements(s)
  BY WithoutOne
<1>2. s[from] \in S /\ s[from] \in Elements(s)
  BY DEF Elements
<1>3. to \in 1..Len(w)+1
  BY <1>1
<1> HIDE DEF w
<1>4. /\ St!Inserted(w, to, s[from]) \in Seq(S)
      /\ Len(St!Inserted(w, to, s[from])) = Len(w) + 1
      /\ Elements(St!Inserted(w, to, s[from])) \subseteq Elements(w) \cup {s[from]}
  BY <1>1, <1>2, <1>3, InsertedOne
<1>5. St!Moved(s, from, to) = St!Inserted(w, to, s[from])
  BY DEF St!Moved, w
<1> QED
  BY <1>1, <1>2, <1>4, <1>5

-----------------------------------------------------------------------------
(* The stations. *)

\* Only the start recalls before httpd and the alarm clock run, and nothing
\* disturbs it: it plays what NVS names.
RecallsOK ==
    /\ phase = "off" => edit = St!NoEdit /\ recall = [t \in St!Recallers |-> St!NoRecall]
    /\ phase # "loading" => recall["main"] = St!NoRecall
    /\ phase = "loading" =>
          /\ edit = St!NoEdit
          /\ recall["http"] = St!NoRecall /\ recall["alarm"] = St!NoRecall
          /\ recall["main"].pc \in {"tune", "play", "record"} /\ ~recall["main"].touched
          /\ recall["main"].index = nvsLast /\ recall["main"].what \in AllStations
          /\ recall["main"].pc \in {"play", "record"} => radio.at = Block[recall["main"].what]
          /\ recall["main"].pc = "record" => radio.plays = recall["main"].what
          /\ chosen # None /\ ~shifted => recall["main"].what = chosen
    /\ restored => phase = "up" /\ recall = [t \in St!Recallers |-> St!NoRecall]

\* The index in NVS names the station of the last recall there, and in RAM as
\* long as nothing but the end of the list has been edited.
Names(s) == nvsLast \in DOMAIN s /\ s[nvsLast] = chosen

IndexOK ==
    chosen # None /\ ~shifted =>
        /\ Names(nvsList)
        /\ phase # "off" => Names(list)
        /\ edit.op = "add" => nvsLast \in 1..Len(list)-1
        /\ edit.op \in {"none", "add"}

\* What a failed save goes back to is in NVS.
SavesOK ==
    /\ edit.op = "none" => edit = St!NoEdit
    /\ edit.op = "add" => /\ Len(list) \in 1..Len(list)
                         /\ Elements(St!Without(list, Len(list))) \subseteq Elements(nvsList)
    /\ edit.op \in {"remove", "move"} => Elements(list) \subseteq Elements(nvsList)
    /\ edit.op = "move" => edit.from \in 1..Len(list) /\ edit.to \in 1..Len(list)
    /\ phase # "off" /\ edit = St!NoEdit => Elements(list) \subseteq Elements(nvsList)

StationInv == St!TypeOK /\ RecallsOK /\ IndexOK /\ SavesOK /\ St!LastReturns

LEMMA AtRest ==
    /\ <<>> \in Seq(AllStations) /\ Len(<<>>) <= MaxStations
    /\ St!NoEdit \in [op : {"none", "add", "remove", "move"}, from : 0..MaxStations,
                      to : 0..MaxStations]
    /\ [t \in St!Recallers |-> St!NoRecall] \in
          [St!Recallers -> [pc : {"idle", "tune", "play", "record"}, index : 0..MaxStations,
                            what : AllStations \cup {None}, touched : BOOLEAN]]
    /\ [at |-> None, plays |-> None] \in [at : {Block[s] : s \in AllStations} \cup {None},
                                          plays : AllStations \cup {None}]
<1>1. MaxStations \in Nat /\ 0 \in 0..MaxStations
  BY SettingsAssumption DEF St!StationsAssumption
<1>2. St!NoRecall \in [pc : {"idle", "tune", "play", "record"}, index : 0..MaxStations,
                       what : AllStations \cup {None}, touched : BOOLEAN]
  BY <1>1 DEF St!NoRecall
<1> QED
  BY <1>1, <1>2 DEF St!NoEdit

LEMMA StationInit == St!Init => StationInv
<1> SUFFICES ASSUME St!Init PROVE StationInv
  OBVIOUS
<1> USE SettingsAssumption DEF St!Init, St!StationsAssumption
<1>1. St!TypeOK
  BY AtRest DEF St!TypeOK
<1>2. RecallsOK /\ IndexOK /\ SavesOK
  BY DEF RecallsOK, IndexOK, SavesOK, St!NoEdit, St!NoRecall, St!Recallers, Elements
<1> QED
  BY <1>1, <1>2 DEF StationInv, St!LastReturns

LEMMA StationStutter == ASSUME StationInv, UNCHANGED stations PROVE StationInv'
<1>1. St!TypeOK' /\ RecallsOK' /\ St!LastReturns'
  BY DEF stations, StationInv, St!TypeOK, RecallsOK, St!LastReturns
<1>2. IndexOK'
  BY DEF stations, StationInv, IndexOK, Names
<1>3. SavesOK'
  BY DEF stations, StationInv, SavesOK
<1> QED
  BY <1>1, <1>2, <1>3 DEF StationInv

LEMMA StationPowerLost == ASSUME StationInv, St!PowerLost PROVE StationInv'
<1> USE DEF St!PowerLost, St!flash
<1>1. St!TypeOK'
  BY AtRest DEF StationInv, St!TypeOK
<1>2. RecallsOK'
  BY DEF RecallsOK, St!Recallers
<1>3. IndexOK' /\ SavesOK'
  BY DEF StationInv, IndexOK, SavesOK, Names, Elements, St!NoEdit
<1> QED
  BY <1>1, <1>2, <1>3 DEF StationInv, St!LastReturns

LEMMA StationEraseNvs == ASSUME StationInv, St!EraseNvs PROVE StationInv'
<1> USE DEF St!EraseNvs
<1>1. St!TypeOK'
  BY SettingsAssumption DEF StationInv, St!TypeOK, St!StationsAssumption
<1>2. RecallsOK' /\ ~restored'
  BY DEF StationInv, RecallsOK
<1>3. IndexOK' /\ SavesOK'
  BY <1>2 DEF StationInv, RecallsOK, IndexOK, SavesOK, Names, Elements, St!NoEdit
<1> QED
  BY <1>1, <1>2, <1>3 DEF StationInv, St!LastReturns

\* A start: the list, and the recall if there is an index.
LEMMA StationLoad == ASSUME StationInv, St!Load PROVE StationInv'
<1>1. PICK unread \in {"nothing", "list", "index"} :
         /\ list' = IF unread = "list" THEN <<>> ELSE nvsList
         /\ shifted' = (shifted \/ unread = "list")
         /\ \/ /\ unread = "nothing" /\ nvsLast \in DOMAIN nvsList
               /\ recall' = [recall EXCEPT !["main"] =
                     [pc |-> "tune", index |-> nvsLast, what |-> nvsList[nvsLast],
                      touched |-> FALSE]]
               /\ phase' = "loading" /\ nvsLast' = nvsLast /\ restored' = restored
            \/ /\ ~(unread = "nothing" /\ nvsLast \in DOMAIN nvsList)
               /\ phase' = "up" /\ restored' = (unread = "nothing")
               /\ nvsLast' = IF unread = "nothing" THEN None ELSE nvsLast
               /\ recall' = recall
  BY DEF St!Load
<1>2. /\ phase = "off" /\ UNCHANGED <<nvsList, edit, radio, chosen>>
      /\ edit = St!NoEdit /\ recall = [t \in St!Recallers |-> St!NoRecall] /\ ~restored
  BY DEF St!Load, StationInv, RecallsOK
<1>3. /\ nvsList \in Seq(AllStations) /\ Len(nvsList) <= MaxStations
      /\ DOMAIN nvsList = 1..Len(nvsList) /\ \A i \in DOMAIN nvsList : nvsList[i] \in AllStations
      /\ Len(nvsList) \in Nat /\ MaxStations \in Nat
  BY SettingsAssumption DEF StationInv, St!TypeOK, St!StationsAssumption
<1>4. list' \in Seq(AllStations) /\ Len(list') <= MaxStations
  BY <1>1, <1>3
<1>5. SavesOK'
  BY <1>1, <1>2, <1>3 DEF SavesOK, Elements, St!NoEdit
<1>6. CASE unread = "nothing" /\ nvsLast \in DOMAIN nvsList
  <2>1. /\ nvsLast \in 0..MaxStations /\ nvsList[nvsLast] \in AllStations
        /\ recall' = [recall EXCEPT !["main"] =
               [pc |-> "tune", index |-> nvsLast, what |-> nvsList[nvsLast], touched |-> FALSE]]
        /\ phase' = "loading" /\ nvsLast' = nvsLast /\ restored' = restored
        /\ shifted' = shifted /\ list' = nvsList
    BY <1>1, <1>3, <1>6 DEF StationInv, St!TypeOK
  <2>2. St!TypeOK'
    BY <1>2, <1>4, <2>1 DEF StationInv, St!TypeOK, St!Recallers
  <2>3. RecallsOK'
    BY <1>2, <2>1 DEF StationInv, RecallsOK, IndexOK, Names, St!Recallers
  <2>4. IndexOK'
    BY <1>2, <2>1 DEF StationInv, IndexOK, Names, St!NoEdit
  <2> QED
    BY <1>2, <1>5, <2>1, <2>2, <2>3, <2>4 DEF StationInv, St!LastReturns
<1>7. CASE ~(unread = "nothing" /\ nvsLast \in DOMAIN nvsList)
  <2>1. /\ phase' = "up" /\ restored' = (unread = "nothing") /\ recall' = recall
        /\ nvsLast' = IF unread = "nothing" THEN None ELSE nvsLast
    BY <1>1, <1>7
  <2>2. St!TypeOK'
    BY <1>1, <1>2, <1>4, <2>1 DEF StationInv, St!TypeOK
  <2>3. RecallsOK'
    BY <1>2, <2>1 DEF RecallsOK, St!Recallers
  <2>4. chosen' # None /\ ~shifted' =>
           /\ Names(nvsList) /\ unread = "index" /\ ~restored'
           /\ list' = nvsList /\ nvsLast' = nvsLast
    BY <1>1, <1>2, <1>7, <2>1 DEF StationInv, IndexOK, Names
  <2>5. IndexOK' /\ St!LastReturns'
    BY <1>2, <2>4 DEF IndexOK, Names, St!NoEdit, St!LastReturns
  <2> QED
    BY <1>5, <2>2, <2>3, <2>5 DEF StationInv
<1> QED
  BY <1>6, <1>7

Recalls == [pc : {"idle", "tune", "play", "record"}, index : 0..MaxStations,
            what : AllStations \cup {None}, touched : BOOLEAN]

\* An edit changes what recalls under way refer to, not where they are.
LEMMA BecomesType ==
    ASSUME StationInv, NEW s, St!ListBecomes(s)
    PROVE  /\ list' = s /\ recall' \in [St!Recallers -> Recalls]
           /\ phase # "loading" => recall'["main"] = St!NoRecall
<1>1. recall \in [St!Recallers -> Recalls]
  BY DEF StationInv, St!TypeOK, Recalls
<1>2. ASSUME NEW t \in St!Recallers
      PROVE (IF recall[t].pc \in {"tune", "play"} THEN [recall[t] EXCEPT !.touched = TRUE]
             ELSE recall[t]) \in Recalls
  <2>1. recall[t] \in Recalls
    BY <1>1
  <2>2. [recall[t] EXCEPT !.touched = TRUE] \in Recalls
    BY <2>1 DEF Recalls
  <2> QED
    BY <2>1, <2>2
<1>3. recall' \in [St!Recallers -> Recalls]
  BY <1>2 DEF St!ListBecomes
<1>4. phase # "loading" => recall'["main"] = St!NoRecall
  BY DEF St!ListBecomes, StationInv, RecallsOK, St!Recallers, St!NoRecall
<1> QED
  BY <1>3, <1>4 DEF St!ListBecomes

\* An edit httpd begins: the save that follows may fail.
LEMMA BeganStep ==
    ASSUME StationInv, NEW op \in {"add", "remove", "move"}, NEW from \in 0..MaxStations,
           NEW to \in 0..MaxStations, St!Began(op, from, to),
           NEW s \in Seq(AllStations), Len(s) <= MaxStations, St!ListBecomes(s),
           op = "add" => /\ Len(s) \in 1..Len(s)
                         /\ Elements(St!Without(s, Len(s))) \subseteq Elements(nvsList)
                         /\ Len(s) = Len(list) + 1 /\ \A k \in 1..Len(list) : s[k] = list[k],
           op # "add" => Elements(s) \subseteq Elements(nvsList),
           op = "move" => from \in 1..Len(s) /\ to \in 1..Len(s)
    PROVE  StationInv'
<1>1. /\ phase = "up" /\ edit = St!NoEdit
      /\ edit' = [op |-> op, from |-> from, to |-> to]
      /\ shifted' = (shifted \/ op # "add") /\ restored' = FALSE
      /\ UNCHANGED <<nvsList, nvsLast, phase, radio, chosen>>
  BY DEF St!Began, St!HttpFree, St!flash
<1>2. list' = s /\ recall' \in [St!Recallers -> Recalls] /\ recall'["main"] = St!NoRecall
  BY <1>1, BecomesType
<1>3. edit'.op = op /\ edit'.from = from /\ edit'.to = to /\ edit' # St!NoEdit
  BY <1>1 DEF St!NoEdit
<1>4. St!TypeOK'
  BY <1>1, <1>2 DEF StationInv, St!TypeOK, Recalls
<1>5. RecallsOK'
  BY <1>1, <1>2 DEF RecallsOK
<1>6. SavesOK'
  BY <1>1, <1>2, <1>3 DEF SavesOK
<1>7. IndexOK'
  <2>1. SUFFICES ASSUME chosen # None, ~shifted, op = "add"
                 PROVE  Names(nvsList)' /\ Names(list)' /\ nvsLast \in 1..Len(s)-1
    BY <1>1, <1>2, <1>3 DEF IndexOK
  <2>2. Names(nvsList) /\ Names(list) /\ DOMAIN list = 1..Len(list) /\ Len(list) \in Nat
    BY <1>1, <2>1 DEF StationInv, IndexOK, St!TypeOK
  <2>3. nvsLast \in 1..Len(list) /\ s[nvsLast] = list[nvsLast] /\ nvsLast \in DOMAIN s
        /\ Len(s) - 1 = Len(list)
    BY <2>1, <2>2 DEF Names
  <2> QED
    BY <1>1, <1>2, <2>2, <2>3 DEF Names
<1> QED
  BY <1>1, <1>4, <1>5, <1>6, <1>7 DEF StationInv, St!LastReturns

LEMMA StationHttpEdit == ASSUME StationInv, St!Add \/ St!Remove \/ St!Reorder PROVE StationInv'
<1>1. /\ list \in Seq(AllStations) /\ Len(list) <= MaxStations /\ Len(list) \in Nat
      /\ MaxStations \in Nat /\ DOMAIN list = 1..Len(list) /\ 0 \in 0..MaxStations
      /\ \A i \in DOMAIN list : i \in 0..MaxStations
  BY SettingsAssumption DEF StationInv, St!TypeOK, St!StationsAssumption
<1>2. Elements(list) \subseteq Elements(nvsList)
  BY DEF St!Add, St!Remove, St!Reorder, St!Began, St!HttpFree, StationInv, SavesOK
<1>3. CASE St!Add
  <2>1. PICK x \in AllStations : /\ St!Began("add", Len(list) + 1, 0)
                                /\ St!ListBecomes(Append(list, x))
                                /\ Len(list) < MaxStations
    BY <1>3 DEF St!Add, St!Addable
  <2> DEFINE s == Append(list, x)
  <2>2. /\ s \in Seq(AllStations) /\ Len(s) = Len(list) + 1 /\ Len(s) <= MaxStations
        /\ \A k \in 1..Len(list) : s[k] = list[k]
        /\ Len(s) \in 1..Len(s) /\ Len(list) + 1 \in 0..MaxStations
    BY <1>1, <2>1
  <2> HIDE DEF s
  <2>3. /\ St!Without(s, Len(s)) \in Seq(AllStations)
        /\ Len(St!Without(s, Len(s))) = Len(s) - 1
        /\ \A k \in 1..Len(s)-1 : St!Without(s, Len(s))[k] = s[k]
    BY <2>2, WithoutOne
  <2>4. Elements(St!Without(s, Len(s))) \subseteq Elements(list)
    BY <1>1, <2>2, <2>3 DEF Elements
  <2>5. St!ListBecomes(s)
    BY <2>1 DEF s
  <2> QED
    BY <1>1, <1>2, <2>1, <2>2, <2>4, <2>5, BeganStep
<1>4. CASE St!Remove
  <2>1. PICK i \in DOMAIN list : St!Began("remove", i, 0) /\ St!ListBecomes(St!Without(list, i))
    BY <1>4 DEF St!Remove
  <2>2. /\ St!Without(list, i) \in Seq(AllStations) /\ Len(St!Without(list, i)) = Len(list) - 1
        /\ Elements(St!Without(list, i)) \subseteq Elements(list)
    BY <1>1, WithoutOne
  <2>3. Len(St!Without(list, i)) <= MaxStations
    BY <1>1, <2>2
  <2>4. i \in 0..MaxStations
    BY <1>1
  <2> QED
    BY <1>1, <1>2, <2>1, <2>2, <2>3, <2>4, BeganStep
<1>5. CASE St!Reorder
  <2>1. PICK i, j \in DOMAIN list : St!Began("move", i, j) /\ St!ListBecomes(St!Moved(list, i, j))
    BY <1>5 DEF St!Reorder
  <2>2. /\ St!Moved(list, i, j) \in Seq(AllStations) /\ Len(St!Moved(list, i, j)) = Len(list)
        /\ Elements(St!Moved(list, i, j)) \subseteq Elements(list)
    BY <1>1, MovedOne
  <2>3. i \in 0..MaxStations /\ j \in 0..MaxStations
        /\ i \in 1..Len(St!Moved(list, i, j)) /\ j \in 1..Len(St!Moved(list, i, j))
        /\ Len(St!Moved(list, i, j)) <= MaxStations
    BY <1>1, <2>2
  <2> QED
    BY <1>2, <2>1, <2>2, <2>3, BeganStep
<1> QED
  BY <1>3, <1>4, <1>5

\* The save of an edit; a failure takes the edit back, or leaves a removal.
LEMMA RolledBackList ==
    ASSUME StationInv, edit # St!NoEdit
    PROVE  /\ St!RolledBack \in Seq(AllStations) /\ Len(St!RolledBack) <= MaxStations
           /\ Elements(St!RolledBack) \subseteq Elements(list)
           /\ Elements(St!RolledBack) \subseteq Elements(nvsList)
           /\ edit.op = "add" => /\ DOMAIN St!RolledBack = 1..Len(list)-1
                                /\ \A k \in 1..Len(list)-1 : St!RolledBack[k] = list[k]
<1>1. /\ list \in Seq(AllStations) /\ Len(list) <= MaxStations /\ Len(list) \in Nat
      /\ MaxStations \in Nat /\ edit.op \in {"add", "remove", "move"}
  BY SettingsAssumption DEF StationInv, SavesOK, St!TypeOK, St!StationsAssumption
<1>2. CASE edit.op = "add"
  <2>1. /\ Len(list) \in 1..Len(list) /\ St!RolledBack = St!Without(list, Len(list))
        /\ Elements(St!Without(list, Len(list))) \subseteq Elements(nvsList)
    BY <1>2 DEF StationInv, SavesOK, St!RolledBack
  <2>2. /\ St!Without(list, Len(list)) \in Seq(AllStations)
        /\ Len(St!Without(list, Len(list))) = Len(list) - 1
        /\ Elements(St!Without(list, Len(list))) \subseteq Elements(list)
        /\ \A k \in 1..Len(list)-1 : St!Without(list, Len(list))[k] = list[k]
    BY <1>1, <2>1, WithoutOne
  <2>3. Len(list) - 1 <= MaxStations /\ DOMAIN St!Without(list, Len(list)) = 1..Len(list)-1
    BY <1>1, <2>2
  <2> QED
    BY <2>1, <2>2, <2>3
<1>3. CASE edit.op = "remove"
  BY <1>1, <1>3 DEF StationInv, SavesOK, St!RolledBack
<1>4. CASE edit.op = "move"
  <2>1. /\ edit.from \in 1..Len(list) /\ edit.to \in 1..Len(list)
        /\ St!RolledBack = St!Moved(list, edit.to, edit.from)
        /\ Elements(list) \subseteq Elements(nvsList)
    BY <1>4 DEF StationInv, SavesOK, St!RolledBack
  <2>2. /\ St!Moved(list, edit.to, edit.from) \in Seq(AllStations)
        /\ Len(St!Moved(list, edit.to, edit.from)) = Len(list)
        /\ Elements(St!Moved(list, edit.to, edit.from)) \subseteq Elements(list)
    BY <1>1, <2>1, MovedOne
  <2> QED
    BY <1>1, <1>4, <2>1, <2>2
<1> QED
  BY <1>1, <1>2, <1>3, <1>4

LEMMA StationPersist == ASSUME StationInv, St!Persist PROVE StationInv'
<1>1. /\ edit # St!NoEdit /\ edit' = St!NoEdit /\ phase = "up"
      /\ UNCHANGED <<nvsLast, phase, radio, chosen, shifted, restored>>
  BY DEF St!Persist, St!history, StationInv, RecallsOK, St!TypeOK
<1>2. edit'.op = "none"
  BY <1>1 DEF St!NoEdit
<1>3. St!NoEdit \in [op : {"none", "add", "remove", "move"}, from : 0..MaxStations,
                     to : 0..MaxStations]
  BY AtRest
<1>4. CASE nvsList' = list /\ list' = list /\ recall' = recall
  <2>1. St!TypeOK'
    BY <1>1, <1>3, <1>4 DEF StationInv, St!TypeOK
  <2>2. RecallsOK' /\ St!LastReturns'
    BY <1>1, <1>4 DEF StationInv, RecallsOK, St!LastReturns
  <2>3. IndexOK' /\ SavesOK'
    BY <1>1, <1>2, <1>4 DEF StationInv, IndexOK, SavesOK, Names
  <2> QED
    BY <2>1, <2>2, <2>3 DEF StationInv
<1>5. CASE nvsList' \in {nvsList, list} /\ St!ListBecomes(St!RolledBack)
  <2>1. /\ list' = St!RolledBack /\ recall' \in [St!Recallers -> Recalls]
        /\ recall'["main"] = St!NoRecall
    BY <1>1, <1>5, BecomesType
  <2>2. /\ St!RolledBack \in Seq(AllStations) /\ Len(St!RolledBack) <= MaxStations
        /\ Elements(St!RolledBack) \subseteq Elements(list)
        /\ Elements(St!RolledBack) \subseteq Elements(nvsList)
        /\ edit.op = "add" => /\ DOMAIN St!RolledBack = 1..Len(list)-1
                             /\ \A k \in 1..Len(list)-1 : St!RolledBack[k] = list[k]
    BY <1>1, RolledBackList
  <2>3. St!TypeOK'
    BY <1>1, <1>3, <1>5, <2>1, <2>2 DEF StationInv, St!TypeOK, Recalls
  <2>4. restored => recall' = recall
    <3>1. SUFFICES ASSUME restored PROVE recall' = recall
      OBVIOUS
    <3>2. recall = [t \in St!Recallers |-> St!NoRecall]
      BY <3>1 DEF StationInv, RecallsOK
    <3> QED
      BY <1>5, <3>2 DEF St!ListBecomes, St!NoRecall
  <2>5. RecallsOK'
    BY <1>1, <2>1, <2>4 DEF StationInv, RecallsOK
  <2>6. SavesOK'
    BY <1>1, <1>2, <1>5, <2>1, <2>2 DEF SavesOK
  <2>7. IndexOK'
    <3>1. SUFFICES ASSUME chosen # None, ~shifted PROVE Names(nvsList)' /\ Names(list)'
      BY <1>1, <1>2 DEF IndexOK
    <3>2. Names(nvsList) /\ Names(list) /\ edit.op = "add" /\ nvsLast \in 1..Len(list)-1
      BY <1>1, <3>1 DEF StationInv, IndexOK, SavesOK
    <3> QED
      BY <1>1, <1>5, <2>1, <2>2, <3>2 DEF Names
  <2> QED
    BY <1>1, <2>3, <2>5, <2>6, <2>7 DEF StationInv, St!LastReturns
<1> QED
  BY <1>4, <1>5 DEF St!Persist

LEMMA StationAsk ==
    ASSUME StationInv, NEW t \in St!Recallers, St!Ask(t) PROVE StationInv'
<1>1. PICK i \in DOMAIN list :
         recall' = [recall EXCEPT ![t] = [pc |-> "tune", index |-> i, what |-> list[i],
                                          touched |-> FALSE]]
  BY DEF St!Ask
<1>2. /\ phase = "up" /\ t # "main" /\ restored' = FALSE
      /\ UNCHANGED <<list, nvsList, nvsLast, phase, edit, radio, chosen, shifted>>
  BY DEF St!Ask, St!flash
<1>3. i \in 0..MaxStations /\ list[i] \in AllStations
  BY SettingsAssumption DEF StationInv, St!TypeOK, St!StationsAssumption
<1>4. St!TypeOK'
  BY <1>1, <1>2, <1>3 DEF StationInv, St!TypeOK
<1>5. RecallsOK'
  BY <1>1, <1>2 DEF StationInv, RecallsOK, St!TypeOK, St!Recallers
<1>6. IndexOK' /\ SavesOK'
  BY <1>2 DEF StationInv, IndexOK, SavesOK, Names
<1> QED
  BY <1>2, <1>4, <1>5, <1>6 DEF StationInv, St!LastReturns

\* Where a recall under way can be.
LEMMA Recalling ==
    ASSUME StationInv, NEW t \in St!Recallers, recall[t].pc # "idle"
    PROVE  /\ ~restored /\ recall[t] \in Recalls
           /\ phase = IF t = "main" THEN "loading" ELSE "up"
<1>1. recall \in [St!Recallers -> Recalls] /\ phase \in {"off", "loading", "up"}
  BY DEF StationInv, St!TypeOK, Recalls
<1>2. recall[t] # St!NoRecall
  BY DEF St!NoRecall
<1>3. ~restored /\ phase # "off"
  BY <1>2 DEF StationInv, RecallsOK
<1> QED
  BY <1>1, <1>2, <1>3 DEF StationInv, RecallsOK, St!Recallers

\* A step of a recall that touches neither the list nor the index.
LEMMA RecallStep ==
    ASSUME StationInv, NEW t \in St!Recallers, recall[t].pc # "idle",
           NEW r \in Recalls, recall' = [recall EXCEPT ![t] = r],
           radio' \in [at : {Block[s] : s \in AllStations} \cup {None},
                      plays : AllStations \cup {None}],
           UNCHANGED <<list, nvsList, edit, chosen, shifted, nvsLast>>,
           \/ /\ UNCHANGED <<phase, restored>> /\ r.pc # "idle"
              /\ r.index = recall[t].index /\ r.what = recall[t].what
              /\ r.touched = recall[t].touched
              /\ t = "main" =>
                    /\ r.pc \in {"play", "record"} => radio'.at = Block[r.what]
                    /\ r.pc = "record" => radio'.plays = r.what
           \/ r = St!NoRecall /\ St!Starts(t, FALSE)
    PROVE  StationInv'
<1>1. ~restored /\ phase = (IF t = "main" THEN "loading" ELSE "up")
  BY Recalling
<1>2. recall \in [St!Recallers -> Recalls]
  BY DEF StationInv, St!TypeOK, Recalls
<1>3. recall' \in [St!Recallers -> Recalls]
  BY <1>2
<1>4. restored' = FALSE /\ phase' \in {"loading", "up"}
  BY <1>1 DEF St!Starts, StationInv, St!TypeOK
<1>5. St!TypeOK'
  BY <1>3, <1>4 DEF StationInv, St!TypeOK, Recalls
<1>6. RecallsOK'
  <2>1. CASE t = "main" /\ r # St!NoRecall
    <3>1. phase = "loading" /\ phase' = "loading" /\ recall'["main"] = r
          /\ recall'["http"] = recall["http"] /\ recall'["alarm"] = recall["alarm"]
          /\ r.pc \in {"tune", "play", "record"}
      BY <1>1, <1>2, <2>1 DEF St!Recallers, Recalls
    <3> QED
      BY <1>4, <2>1, <3>1 DEF StationInv, RecallsOK
  <2>2. CASE t = "main" /\ r = St!NoRecall
    <3>1. phase' = "up" /\ recall'["main"] = St!NoRecall
      BY <1>1, <1>2, <2>2 DEF St!Starts, St!Recallers, St!NoRecall
    <3> QED
      BY <1>4, <3>1 DEF RecallsOK
  <2>3. CASE t # "main"
    <3>1. phase = "up" /\ phase' = "up" /\ recall'["main"] = recall["main"]
      BY <1>1, <1>2, <2>3 DEF St!Starts, St!Recallers
    <3> QED
      BY <1>4, <3>1 DEF StationInv, RecallsOK
  <2> QED
    BY <2>1, <2>2, <2>3
<1>7. IndexOK'
  BY <1>1, <1>4 DEF StationInv, IndexOK, Names
<1>8. SavesOK'
  BY <1>1, <1>4 DEF StationInv, SavesOK
<1> QED
  BY <1>4, <1>5, <1>6, <1>7, <1>8 DEF StationInv, St!LastReturns

LEMMA StationTune ==
    ASSUME StationInv, NEW t \in St!Recallers, St!Tune(t) PROVE StationInv'
<1>1. PICK fails \in BOOLEAN, s \in AllStations :
         /\ s = recall[t].what
         /\ radio' = IF fails THEN radio ELSE [at |-> Block[s], plays |-> None]
         /\ recall' = [recall EXCEPT ![t] = IF fails THEN St!NoRecall
                                            ELSE [@ EXCEPT !.pc = "play"]]
         /\ IF fails THEN St!Starts(t, FALSE) ELSE UNCHANGED <<phase, restored>>
  BY DEF St!Tune
<1>2. /\ recall[t].pc = "tune"
      /\ UNCHANGED <<list, nvsList, nvsLast, edit, chosen, shifted>>
  BY DEF St!Tune, St!flash
<1>3. recall[t] \in Recalls /\ recall \in [St!Recallers -> Recalls]
  BY DEF StationInv, St!TypeOK, Recalls
<1>4. radio' \in [at : {Block[x] : x \in AllStations} \cup {None}, plays : AllStations \cup {None}]
  BY <1>1 DEF StationInv, St!TypeOK
<1> DEFINE r == IF fails THEN St!NoRecall ELSE [recall[t] EXCEPT !.pc = "play"]
<1>5. r \in Recalls
  BY <1>3, SettingsAssumption DEF Recalls, St!NoRecall, St!StationsAssumption
<1>6. recall' = [recall EXCEPT ![t] = r]
  BY <1>1
<1>7. CASE fails
  BY <1>1, <1>2, <1>4, <1>5, <1>6, <1>7, RecallStep
<1>8. CASE ~fails
  <2>1. /\ r.pc = "play" /\ r.index = recall[t].index /\ r.what = recall[t].what
        /\ r.touched = recall[t].touched /\ radio'.at = Block[r.what]
    BY <1>1, <1>3, <1>8 DEF Recalls
  <2>2. UNCHANGED <<phase, restored>>
    BY <1>1, <1>8
  <2> HIDE DEF r
  <2> QED
    BY <1>2, <1>4, <1>5, <1>6, <2>1, <2>2, RecallStep
<1> QED
  BY <1>7, <1>8

LEMMA StationPlay ==
    ASSUME StationInv, NEW t \in St!Recallers, St!Play(t) PROVE StationInv'
<1>1. PICK fails \in BOOLEAN, s \in St!Referred(t) :
         LET plays == ~fails /\ Block[s] = radio.at
         IN  /\ radio' = IF plays THEN [radio EXCEPT !.plays = s] ELSE radio
             /\ recall' = [recall EXCEPT ![t] = IF plays THEN [@ EXCEPT !.pc = "record"]
                                                ELSE St!NoRecall]
             /\ IF plays THEN UNCHANGED <<phase, restored>> ELSE St!Starts(t, FALSE)
  BY DEF St!Play
<1>2. /\ recall[t].pc = "play"
      /\ UNCHANGED <<list, nvsList, nvsLast, edit, chosen, shifted>>
  BY DEF St!Play, St!flash
<1>3. recall[t] \in Recalls /\ recall \in [St!Recallers -> Recalls]
  BY DEF StationInv, St!TypeOK, Recalls
<1> DEFINE plays == ~fails /\ Block[s] = radio.at
           r == IF plays THEN [recall[t] EXCEPT !.pc = "record"] ELSE St!NoRecall
<1>4. s \in AllStations \cup {None}
  BY <1>3 DEF St!Referred, Recalls
<1>5. radio' \in [at : {Block[x] : x \in AllStations} \cup {None}, plays : AllStations \cup {None}]
  BY <1>1, <1>4 DEF StationInv, St!TypeOK
<1>6. r \in Recalls
  BY <1>3, SettingsAssumption DEF Recalls, St!NoRecall, St!StationsAssumption
<1>7. recall' = [recall EXCEPT ![t] = r]
  BY <1>1
<1>8. CASE ~plays
  BY <1>1, <1>2, <1>5, <1>6, <1>7, <1>8, RecallStep
<1>9. CASE plays
  <2>1. /\ r.pc = "record" /\ r.index = recall[t].index /\ r.what = recall[t].what
        /\ r.touched = recall[t].touched
    BY <1>3, <1>9 DEF Recalls
  <2>2. UNCHANGED <<phase, restored>>
    BY <1>1, <1>9
  <2>3. t = "main" => radio'.at = Block[r.what] /\ radio'.plays = r.what
    <3>1. SUFFICES ASSUME t = "main" PROVE radio'.at = Block[r.what] /\ radio'.plays = r.what
      OBVIOUS
    <3>2. phase = "loading"
      BY <1>2, <3>1, Recalling
    <3>3. s = recall[t].what /\ radio.at = Block[recall[t].what]
      BY <1>2, <3>1, <3>2 DEF StationInv, RecallsOK, St!Referred
    <3>4. radio' = [radio EXCEPT !.plays = s]
      BY <1>1, <1>9
    <3> QED
      BY <2>1, <3>3, <3>4 DEF StationInv, St!TypeOK
  <2> HIDE DEF r
  <2> QED
    BY <1>2, <1>5, <1>6, <1>7, <2>1, <2>2, <2>3, RecallStep
<1> QED
  BY <1>8, <1>9

LEMMA StationRecord ==
    ASSUME StationInv, NEW t \in St!Recallers, St!Record(t) PROVE StationInv'
<1>1. PICK fails \in BOOLEAN :
         /\ nvsLast' \in {recall[t].index} \cup IF fails THEN {nvsLast} ELSE {}
         /\ St!Remembers(t, fails) /\ St!Starts(t, ~fails)
  BY DEF St!Record
<1>2. /\ recall[t].pc = "record" /\ recall' = [recall EXCEPT ![t] = St!NoRecall]
      /\ UNCHANGED <<list, nvsList, edit, radio>>
  BY DEF St!Record
<1>3. ~restored /\ phase = (IF t = "main" THEN "loading" ELSE "up") /\ recall[t] \in Recalls
  BY <1>2, Recalling
<1>4. phase' = "up" /\ restored' = (t = "main" /\ ~fails)
  BY <1>1, <1>3 DEF St!Starts
<1>5. recall \in [St!Recallers -> Recalls] /\ St!NoRecall \in Recalls
  BY SettingsAssumption DEF StationInv, St!TypeOK, Recalls, St!NoRecall, St!StationsAssumption
<1>6. recall' \in [St!Recallers -> Recalls] /\ recall'[t] = St!NoRecall
      /\ \A u \in St!Recallers \ {t} : recall'[u] = recall[u]
  BY <1>2, <1>5
<1>7. SavesOK'
  <2>1. phase # "off" /\ edit = St!NoEdit => Elements(list) \subseteq Elements(nvsList)
    BY <1>3 DEF StationInv, SavesOK
  <2> QED
    BY <1>2, <1>3, <2>1 DEF StationInv, SavesOK
<1>8. CASE t = "main"
  <2>1. /\ edit = St!NoEdit /\ nvsLast' = nvsLast /\ UNCHANGED <<chosen, shifted>>
        /\ recall["http"] = St!NoRecall /\ recall["alarm"] = St!NoRecall
        /\ radio.at = Block[recall[t].what] /\ radio.plays = recall[t].what
        /\ chosen # None /\ ~shifted => recall[t].what = chosen
    BY <1>1, <1>2, <1>3, <1>8 DEF StationInv, RecallsOK, St!Remembers
  <2>2. recall' = [u \in St!Recallers |-> St!NoRecall]
    BY <1>6, <1>8, <2>1 DEF St!Recallers
  <2>3. St!TypeOK'
    BY <1>2, <1>4, <1>6, <2>1 DEF StationInv, St!TypeOK, Recalls
  <2>4. RecallsOK'
    BY <1>4, <2>2 DEF RecallsOK, St!Recallers
  <2>5. IndexOK'
    BY <1>2, <1>3, <1>4, <2>1 DEF StationInv, IndexOK, Names
  <2>6. St!LastReturns'
    <3>1. radio = [at |-> radio.at, plays |-> radio.plays]
      BY DEF StationInv, St!TypeOK
    <3> QED
      BY <1>2, <2>1, <3>1 DEF St!LastReturns
  <2> QED
    BY <1>7, <2>3, <2>4, <2>5, <2>6 DEF StationInv
<1>9. CASE t # "main"
  <2>1. /\ chosen' = (IF fails THEN None ELSE recall[t].what)
        /\ shifted' = (IF fails THEN shifted ELSE ~St!StillAt(recall[t]))
    BY <1>1, <1>9 DEF St!Remembers
  <2>2. nvsLast' \in 0..MaxStations \cup {None}
    BY <1>1, <1>3 DEF StationInv, St!TypeOK, Recalls
  <2>3. St!TypeOK'
    BY <1>2, <1>3, <1>4, <1>6, <2>1, <2>2 DEF StationInv, St!TypeOK, Recalls, St!StillAt
  <2>4. RecallsOK'
    BY <1>3, <1>4, <1>6, <1>9 DEF StationInv, RecallsOK, St!Recallers
  <2>5. IndexOK'
    <3>1. SUFFICES ASSUME chosen' # None, ~shifted'
                   PROVE  Names(nvsList)' /\ Names(list)' /\ edit' = St!NoEdit
      BY DEF IndexOK, St!NoEdit
    <3>2. ~fails /\ nvsLast' = recall[t].index /\ chosen' = recall[t].what
      BY <1>1, <2>1, <3>1
    <3>3. St!StillAt(recall[t])
      BY <2>1, <3>1, <3>2
    <3> QED
      BY <1>2, <3>2, <3>3 DEF St!StillAt, Names
  <2> QED
    BY <1>4, <1>7, <1>9, <2>3, <2>4, <2>5 DEF StationInv, St!LastReturns
<1> QED
  BY <1>8, <1>9

LEMMA StationStepKeeps == ASSUME StationInv, St!Http \/ St!StationStep PROVE StationInv'
<1>1. "http" \in St!Recallers /\ "alarm" \in St!Recallers
  BY DEF St!Recallers
<1>2. CASE St!Http
  BY <1>1, <1>2, StationHttpEdit, StationAsk DEF St!Http
<1>3. CASE St!StationStep
  BY <1>1, <1>3, StationLoad, StationPersist, StationAsk, StationTune, StationPlay, StationRecord
     DEF St!StationStep
<1> QED
  BY <1>2, <1>3

-----------------------------------------------------------------------------
(* Both side by side. *)

IInv == StationInv /\ PresetInv /\ used \in 0..MaxUsed

LEMMA InitHolds == Init => IInv
BY StationInit, PresetInit, SettingsAssumption
   DEF Init, IInv, St!Init, St!StationsAssumption

\* Every step uses up at most one of the bound.
LEMMA Bounded == ASSUME IInv, [Next]_vars PROVE used' \in 0..MaxUsed
<1> DEFINE Bound == used' = used \/ (used < MaxUsed /\ used' = used + 1)
<1>1. Bound
  <2> USE DEF St!Use, St!Perhaps, Pr!Use, Pr!Perhaps
  <2>1. CASE StationRequest
    BY <2>1 DEF StationRequest, St!Http, St!Add, St!Remove, St!Reorder, St!Began, St!Ask
  <2>2. CASE PresetRequest
    BY <2>2 DEF PresetRequest, Pr!Http, Pr!Apply, Pr!SaveCurrent, Pr!Erase, Pr!SetDefaults,
                Pr!ChangeSound, Pr!Request
  <2>3. CASE St!StationStep
    BY <2>3 DEF St!StationStep, St!Load, St!Persist, St!Ask, St!Tune, St!Play, St!Record
  <2>4. CASE Pr!PresetStep
    BY <2>4 DEF Pr!PresetStep, Pr!Load, Pr!Saving, Pr!ReadImage, Pr!WritePage, Pr!SaveNvs,
                Pr!Switch, Pr!Player, Pr!TakeMutex, Pr!OnSourceSelected
  <2>5. CASE PowerLost \/ EraseNvs \/ UNCHANGED vars
    BY <2>5 DEF PowerLost, EraseNvs, vars
  <2> QED
    BY <2>1, <2>2, <2>3, <2>4, <2>5 DEF Next, Progress
<1> QED
  BY <1>1, SettingsAssumption DEF IInv, St!StationsAssumption

LEMMA NextKeeps == ASSUME IInv, [Next]_vars PROVE IInv'
<1>1. StationInv /\ PresetInv /\ used' \in 0..MaxUsed
  BY Bounded DEF IInv
<1>2. CASE StationRequest
  BY <1>1, <1>2, StationStepKeeps, PresetStutter DEF StationRequest, IInv
<1>3. CASE PresetRequest
  BY <1>1, <1>3, HttpStep, StationStutter DEF PresetRequest, IInv
<1>4. CASE Progress
  BY <1>1, <1>4, StationStepKeeps, PresetStepKeeps, StationStutter, PresetStutter
     DEF Progress, IInv
<1>5. CASE PowerLost
  BY <1>1, <1>5, StationPowerLost, PresetPowerLost DEF PowerLost, IInv
<1>6. CASE EraseNvs
  BY <1>1, <1>6, StationEraseNvs, PresetEraseNvs DEF EraseNvs, IInv
<1>7. CASE UNCHANGED vars
  BY <1>1, <1>7, StationStutter, PresetStutter DEF vars, IInv
<1> QED
  BY <1>2, <1>3, <1>4, <1>5, <1>6, <1>7 DEF Next

THEOREM Inductive == Spec => []IInv
<1>1. Init => IInv
  BY InitHolds
<1>2. IInv /\ [Next]_vars => IInv'
  BY NextKeeps
<1> QED
  BY <1>1, <1>2, PTL DEF Spec

\* Every variable keeps its type.
THEOREM TypeCorrect == Spec => []TypeOK
<1>1. IInv => TypeOK
  BY DEF IInv, StationInv, PresetInv, TypeOK
<1> QED
  BY <1>1, Inductive, PTL

\* What the list of stations shows once httpd has answered is in NVS.
THEOREM ShownIsSavedHolds == Spec => []ShownIsSaved
<1>1. IInv => ShownIsSaved
  BY DEF IInv, StationInv, SavesOK, Elements, ShownIsSaved, St!ShownIsSaved, St!Listed, St!Saved
<1> QED
  BY <1>1, Inductive, PTL

\* A start that meets no failure plays the station of the last recall.
THEOREM LastReturnsHolds == Spec => []LastReturns
<1>1. IInv => LastReturns
  BY DEF IInv, StationInv, LastReturns
<1> QED
  BY <1>1, Inductive, PTL

\* A change of the presets that was answered well survives.
THEOREM AnsweredSurvivesHolds == Spec => []AnsweredSurvives
<1>1. IInv => AnsweredSurvives
  BY DEF IInv, PresetInv, AnsweredSurvives
<1> QED
  BY <1>1, Inductive, PTL

\* A backup that was written to its end restores the bank.
THEOREM BackupIsWholeHolds == Spec => []BackupIsWhole
<1>1. IInv => BackupIsWhole
  BY DEF IInv, PresetInv, BackupIsWhole
<1> QED
  BY <1>1, Inductive, PTL
=============================================================================
