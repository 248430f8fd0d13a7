------------------------------ MODULE Settings ------------------------------
(***************************************************************************)
(* What the radio remembers between starts: the stations with the last one *)
(* recalled, and the audio presets.  Both are served by httpd, one request *)
(* at a time, and both lose their RAM when the power goes, which it may do *)
(* at any time and any number of times; one bound on requests and failures *)
(* covers both.                                                            *)
(***************************************************************************)
EXTENDS Naturals, Sequences

CONSTANTS
    AllStations, Block, MaxStations,
    Slots, BackedUp, Factory, Sounds, FactorySound, Coarse, Torn,
    None, MaxUsed

VARIABLES
    list, nvsList, nvsLast, phase, edit, recall, radio, chosen, shifted, restored,
    bank, nvsBank, image, sound, input, loaded, holder, step, current, player,
    answered, behind,
    used

St == INSTANCE Stations
Pr == INSTANCE Presets

ASSUME SettingsAssumption == St!StationsAssumption /\ Pr!PresetsAssumption

stations == <<list, nvsList, nvsLast, phase, edit, recall, radio, chosen, shifted, restored>>
presets  == <<bank, nvsBank, image, sound, input, loaded, holder, step, current, player,
              answered, behind>>
vars == <<stations, presets, used>>

Init == St!Init /\ Pr!Init

\* One request at a time.
HttpIdle == edit = St!NoEdit /\ recall["http"] = St!NoRecall /\ step = "idle"

StationRequest == HttpIdle /\ St!Http /\ UNCHANGED presets
PresetRequest  == HttpIdle /\ Pr!Http /\ UNCHANGED stations

\* hardware_bootstrap loads the presets, then app_main the stations.
Progress ==
    \/ loaded /\ St!StationStep /\ UNCHANGED presets
    \/ Pr!PresetStep /\ UNCHANGED stations

PowerLost == St!PowerLost /\ Pr!PowerLost /\ UNCHANGED used
EraseNvs  == St!EraseNvs /\ Pr!EraseNvs /\ UNCHANGED used

Next == StationRequest \/ PresetRequest \/ Progress \/ PowerLost \/ EraseNvs

\* Whoever has the mutex of the presets goes on, and a free one is taken.
Spec == Init /\ [][Next]_vars /\ WF_vars((Pr!Saving \/ Pr!Player) /\ UNCHANGED stations)

-----------------------------------------------------------------------------
TypeOK == St!TypeOK /\ Pr!TypeOK /\ used \in 0..MaxUsed

\* What each part promises holds beside the other.
ShownIsSaved == St!ShownIsSaved
LastReturns == St!LastReturns
AnsweredSurvives == Pr!AnsweredSurvives
BackupIsWhole == Pr!BackupIsWhole
SwitchEnds == Pr!SwitchEnds
LastStationReturns == St!LastStationReturns
=============================================================================
