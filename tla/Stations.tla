------------------------------ MODULE Stations ------------------------------
(***************************************************************************)
(* The list of stations, its recall and what a restart brings back         *)
(* (StationService, StationList, IntegrationService, the station handlers  *)
(* of SetupWebServer, and the part of NvsSecureStore they use).            *)
(*                                                                         *)
(* Nothing locks the list.  httpd edits it and recalls from it, the alarm  *)
(* task recalls from it, and a recall of a DAB station keeps a reference   *)
(* into the vector from one locked call of TunerService to the next.  All  *)
(* stations are DAB services; indices count from 1.                        *)
(***************************************************************************)
EXTENDS Naturals, Sequences

CONSTANTS
    AllStations,   \* tune targets
    Block,         \* the ensemble of each
    MaxStations,   \* StationList::kMaxStations
    None,          \* no station, no index
    MaxUsed        \* bound on requests and failures together

\* What the stations need of the constants.
StationsAssumption ==
    /\ None \notin AllStations /\ MaxStations \in Nat /\ MaxUsed \in Nat
    /\ DOMAIN Block = AllStations /\ None \notin {Block[s] : s \in AllStations}

VARIABLES
    list,     \* StationService::list_
    nvsList,  \* the string in NVS, as what it parses to; <<>> if there is none
    nvsLast,  \* the last_preset index, or None
    phase,    \* "off", "loading" or "up"
    edit,     \* the edit httpd is in: what, and where from and to
    recall,   \* the recall of each task: where it is, the index, the station
    radio,    \* the ensemble tuned and the service that plays
    chosen,   \* history: the station of the last recall that was recorded
    shifted,  \* history: since then the list was edited but for its end, or lost
    restored, \* history: the start finished its recall, nothing else since
    used

stationVars == <<list, nvsList, nvsLast, phase, edit, recall, radio, chosen, shifted,
                 restored>>
flash == <<nvsList, nvsLast>>
history == <<chosen, shifted, restored>>

Recallers == {"main", "http", "alarm"}
NoEdit == [op |-> "none", from |-> 0, to |-> 0]
NoRecall == [pc |-> "idle", index |-> 0, what |-> None, touched |-> FALSE]

Use == used < MaxUsed /\ used' = used + 1
Perhaps(fails) == IF fails THEN Use ELSE UNCHANGED used

Listed == {list[i] : i \in DOMAIN list}
Saved  == {nvsList[i] : i \in DOMAIN nvsList}

Without(s, i) == SubSeq(s, 1, i - 1) \o SubSeq(s, i + 1, Len(s))
Inserted(s, i, x) == SubSeq(s, 1, i - 1) \o <<x>> \o SubSeq(s, i, Len(s))
\* StationList::move: taken out, then put at "to" of what is left.
Moved(s, from, to) == Inserted(Without(s, from), to, s[from])

Init ==
    /\ list = <<>> /\ nvsList = <<>> /\ nvsLast = None /\ phase = "off"
    /\ edit = NoEdit /\ recall = [t \in Recallers |-> NoRecall]
    /\ radio = [at |-> None, plays |-> None]
    /\ chosen = None /\ shifted = FALSE /\ restored = FALSE
    /\ used = 0

-----------------------------------------------------------------------------
\* IntegrationService::startup up to its recall.  A list that cannot be read
\* leaves the empty one in RAM; an index that is too large is cleared.
Load ==
    /\ phase = "off"
    /\ \E unread \in {"nothing", "list", "index"} :
          /\ Perhaps(unread # "nothing")
          /\ list' = IF unread = "list" THEN <<>> ELSE nvsList
          /\ \/ /\ unread = "nothing" /\ nvsLast \in DOMAIN nvsList
                /\ recall' = [recall EXCEPT !["main"] =
                      [pc |-> "tune", index |-> nvsLast, what |-> nvsList[nvsLast],
                       touched |-> FALSE]]
                /\ phase' = "loading"
                /\ UNCHANGED <<nvsLast, restored>>
             \/ /\ ~(unread = "nothing" /\ nvsLast \in DOMAIN nvsList)
                /\ phase' = "up"
                /\ restored' = (unread = "nothing")
                /\ nvsLast' = IF unread = "nothing" THEN None ELSE nvsLast
                /\ UNCHANGED recall
          /\ shifted' = (shifted \/ unread = "list")
    /\ UNCHANGED <<nvsList, edit, radio, chosen>>

HttpFree == phase = "up" /\ edit = NoEdit /\ recall["http"] = NoRecall

\* The vector changes under every recall that holds a reference into it.
ListBecomes(s) ==
    /\ list' = s
    /\ recall' = [t \in Recallers |->
                    IF recall[t].pc \in {"tune", "play"} THEN [recall[t] EXCEPT !.touched = TRUE]
                    ELSE recall[t]]

Began(op, from, to) ==
    /\ HttpFree /\ Use
    /\ edit' = [op |-> op, from |-> from, to |-> to]
    /\ shifted' = (shifted \/ op # "add")
    /\ restored' = FALSE
    /\ UNCHANGED <<flash, phase, radio, chosen>>

\* StationList::add refuses one too many and a second of the same tune target
\* (and a preset slot that is taken, likewise without a change).
Addable == IF Len(list) < MaxStations THEN AllStations \ Listed ELSE {}

\* stationsPostHandler.
Add ==
    \E s \in Addable :
       /\ Began("add", Len(list) + 1, 0)
       /\ ListBecomes(Append(list, s))

\* stationsRemovePostHandler.
Remove ==
    \E i \in DOMAIN list :
       /\ Began("remove", i, 0)
       /\ ListBecomes(Without(list, i))

\* stationsReorderPostHandler.
Reorder ==
    \E i, j \in DOMAIN list :
       /\ Began("move", i, j)
       /\ ListBecomes(Moved(list, i, j))

\* Mutant: a save that fails leaves what was added.
MutantRolledBack ==
    CASE edit.op = "add"  -> list
      [] edit.op = "move" -> Moved(list, edit.to, edit.from)
      [] OTHER            -> list

\* What the list goes back to when the save fails: add takes the last off,
\* reorder moves back, removeAt keeps what it did.
RolledBack ==
    CASE edit.op = "add"  -> Without(list, Len(list))
      [] edit.op = "move" -> Moved(list, edit.to, edit.from)
      [] OTHER            -> list

\* StationService::persist.  NVS replaces the string whole or not at all; a
\* commit that fails may come after the string is written.
Persist ==
    /\ edit # NoEdit
    /\ \/ nvsList' = list /\ list' = list /\ UNCHANGED <<recall, used>>
       \/ /\ Use
          /\ nvsList' \in {nvsList, list}
          /\ ListBecomes(RolledBack)
    /\ edit' = NoEdit
    /\ UNCHANGED <<nvsLast, phase, radio, history>>

-----------------------------------------------------------------------------
\* recallPreset: from httpd (stationsTunePostHandler) or from the alarm task,
\* whose rows keep indices.
Ask(t) ==
    /\ phase = "up" /\ recall[t] = NoRecall /\ t # "main"
    /\ t = "http" => HttpFree
    /\ Use
    /\ \E i \in DOMAIN list :
          recall' = [recall EXCEPT ![t] = [pc |-> "tune", index |-> i, what |-> list[i],
                                           touched |-> FALSE]]
    /\ restored' = FALSE
    /\ UNCHANGED <<list, flash, phase, edit, radio, chosen, shifted>>

\* The recall of the start is over, with or without success.
Starts(t, ok) ==
    /\ phase' = IF t = "main" THEN "up" ELSE phase
    /\ restored' = IF t = "main" THEN ok ELSE FALSE

\* tuneDab, which locks the tuner; its index is read when it is called.
Tune(t) ==
    /\ recall[t].pc = "tune"
    /\ \E fails \in BOOLEAN, s \in AllStations :
          /\ s = recall[t].what
          /\ Perhaps(fails)
          /\ radio' = IF fails THEN radio ELSE [at |-> Block[s], plays |-> None]
          /\ recall' = [recall EXCEPT ![t] = IF fails THEN NoRecall
                                             ELSE [@ EXCEPT !.pc = "play"]]
          /\ IF fails THEN Starts(t, FALSE) ELSE UNCHANGED <<phase, restored>>
    /\ UNCHANGED <<list, flash, edit, chosen, shifted>>

\* What is read through the reference: the station, or after an edit whatever
\* is in its place or in memory no longer the vector's.
Referred(t) == IF recall[t].touched THEN AllStations ELSE {recall[t].what}

\* playDabService; a service of another ensemble does not start.
Play(t) ==
    /\ recall[t].pc = "play"
    /\ \E fails \in BOOLEAN, s \in Referred(t) :
          /\ Perhaps(fails)
          /\ LET plays == ~fails /\ Block[s] = radio.at
             IN  /\ radio' = IF plays THEN [radio EXCEPT !.plays = s] ELSE radio
                 /\ recall' = [recall EXCEPT ![t] = IF plays THEN [@ EXCEPT !.pc = "record"]
                                                    ELSE NoRecall]
                 /\ IF plays THEN UNCHANGED <<phase, restored>> ELSE Starts(t, FALSE)
    /\ UNCHANGED <<list, flash, edit, chosen, shifted>>

\* The index means the station, in the list and in NVS: after a removal that
\* was not saved it need not.
StillAt(r) ==
    /\ edit = NoEdit
    /\ \A s \in {list, nvsList} : r.index \in DOMAIN s /\ s[r.index] = r.what

\* What a recall leaves to a restart: nothing sure when the save fails.  The
\* recall of the start records what was there.
Remembers(t, fails) ==
    IF t = "main" THEN UNCHANGED <<chosen, shifted>>
    ELSE /\ chosen' = IF fails THEN None ELSE recall[t].what
         /\ shifted' = (IF fails THEN shifted ELSE ~StillAt(recall[t]))

\* Mutant: the index is not recorded.
MutantRecord(t) ==
    /\ recall[t].pc = "record"
    /\ recall' = [recall EXCEPT ![t] = NoRecall]
    /\ \E fails \in BOOLEAN :
          /\ Perhaps(fails)
          /\ nvsLast' = nvsLast
          /\ Remembers(t, fails)
          /\ Starts(t, ~fails)
    /\ UNCHANGED <<list, nvsList, edit, radio>>

\* applyStoredAudioProfile and persistLastPreset: either may fail, the second
\* after it has written.
Record(t) ==
    /\ recall[t].pc = "record"
    /\ recall' = [recall EXCEPT ![t] = NoRecall]
    /\ \E fails \in BOOLEAN :
          /\ Perhaps(fails)
          /\ nvsLast' \in {recall[t].index} \cup IF fails THEN {nvsLast} ELSE {}
          /\ Remembers(t, fails)
          /\ Starts(t, ~fails)
    /\ UNCHANGED <<list, nvsList, edit, radio>>

-----------------------------------------------------------------------------
\* Power goes: RAM is lost, an edit is not yet or already in NVS.
PowerLost ==
    /\ list' = <<>> /\ phase' = "off"
    /\ edit' = NoEdit /\ recall' = [t \in Recallers |-> NoRecall]
    /\ radio' = [at |-> None, plays |-> None]
    /\ restored' = FALSE
    /\ UNCHANGED <<flash, chosen, shifted>>

\* NVS is erased or re-flashed while the power is off.
EraseNvs ==
    /\ phase = "off"
    /\ nvsList' = <<>> /\ nvsLast' = None /\ chosen' = None
    /\ UNCHANGED <<list, phase, edit, recall, radio, shifted, restored>>

Http == Add \/ Remove \/ Reorder \/ Ask("http")
StationStep ==
    \/ Load \/ Persist \/ Ask("alarm")
    \/ \E t \in Recallers : Tune(t) \/ Play(t) \/ Record(t)

Next == Http \/ StationStep \/ ((PowerLost \/ EraseNvs) /\ UNCHANGED used)
Spec == Init /\ [][Next]_<<stationVars, used>>

-----------------------------------------------------------------------------
TypeOK ==
    /\ list \in Seq(AllStations) /\ Len(list) <= MaxStations
    /\ nvsList \in Seq(AllStations) /\ Len(nvsList) <= MaxStations
    /\ nvsLast \in 0..MaxStations \cup {None}
    /\ phase \in {"off", "loading", "up"}
    /\ edit \in [op : {"none", "add", "remove", "move"}, from : 0..MaxStations,
                 to : 0..MaxStations]
    /\ recall \in [Recallers -> [pc : {"idle", "tune", "play", "record"},
                                 index : 0..MaxStations, what : AllStations \cup {None},
                                 touched : BOOLEAN]]
    /\ radio \in [at : {Block[s] : s \in AllStations} \cup {None},
                 plays : AllStations \cup {None}]
    /\ chosen \in AllStations \cup {None} /\ shifted \in BOOLEAN /\ restored \in BOOLEAN

\* What the list shows once httpd has answered is still there after a restart:
\* a failed save never leaves a station, or an order, that is only in RAM.
\* A removal that was not saved may come back, which is the one difference.
ShownIsSaved ==
    phase # "off" /\ edit = NoEdit => Listed \subseteq Saved

\* A start that meets no failure plays the station of the last recall, however
\* many failed starts and saves lie between, unless stations before it were
\* removed or moved since, or the list could not be read: NVS keeps its index.
LastReturns ==
    restored /\ chosen # None /\ ~shifted => radio = [at |-> Block[chosen], plays |-> chosen]

\* What startup promises: the station of the last recall plays again.
LastStationReturns ==
    restored /\ chosen # None => radio.plays = chosen
=============================================================================
