-------------------------- MODULE AudioOutputProofs --------------------------
(***************************************************************************)
(* For every set of tasks, inputs and levels: the input a stream has taken *)
(* is remembered by that stream alone, the user's input comes back however *)
(* the calls overlap, and the DSP shows the profile when they do not.      *)
(***************************************************************************)
EXTENDS AudioOutput, TLAPS

Streaming == {"claim", "claimed", "streaming", "restore", "forget", "release"}
Switching == {"enter", "fadeDown?", "fadeDown", "mux", "selected", "fadeUp?", "fadeUp",
              "level?", "level"}

\* What the call of a task can look like.  A stream is in AudioService only
\* to switch the input for itself; what a user asks carries a level of his.
Fits(t, j) ==
    /\ j.op \in {"profile", "reapply", "volume"} => j.lvl \in Levels
    /\ j.pc = "adoptLevel" => j.op = "volume"
    /\ j.pc \in {"source", "master", "rest"} => j.op \in {"profile", "reapply"}
    /\ j.pc \in Switching \ {"level"} => j.op \in {"profile", "claim", "restore"}
    /\ j.op = "reapply" => ~j.switch
    /\ t \in Users => j.op \notin {"claim", "restore"} /\ j.pc \notin Streaming
    /\ t \in Streams => \/ j.pc = "idle" \/ j.pc \in Streaming
                        \/ j.pc \in Switching /\ j.op \in {"claim", "restore"}

CallsFit == \A t \in Tasks : Fits(t, job[t])

\* Who plays holds the sink, and so does an upload.
SinkHeld ==
    /\ \A t \in Streams : job[t].pc # "idle" => sink = t
    /\ \A t \in Users : job[t].pc = "uploading" => sink = t

IInv == TypeOK /\ CallsFit /\ SinkHeld /\ PreviousBelongsToHolder

LEMMA NoCallFits == NoCall \in Jobs /\ \A t \in Tasks : Fits(t, NoCall)
<1>1. NoCall \in Jobs
  BY AudioOutputAssumption DEF NoCall, Jobs, PCs, Ops, UserCalls, Gains, Powers
<1> QED
  BY <1>1 DEF NoCall, Fits, Streaming, Switching

\* A call that has returned, or one that keeps no locals.
LEMMA IdleFits ==
    ASSUME NEW t \in Tasks, NEW pc \in {"idle", "streaming", "release"}, pc = "idle" \/ t \in Streams
    PROVE  /\ [NoCall EXCEPT !.pc = pc] \in Jobs /\ Fits(t, [NoCall EXCEPT !.pc = pc])
           /\ [NoCall EXCEPT !.pc = pc].pc = pc
<1> DEFINE j == [NoCall EXCEPT !.pc = pc]
<1>1. NoCall \in Jobs /\ NoCall.op = "none" /\ ~NoCall.switch
  BY NoCallFits DEF NoCall
<1>2. j \in Jobs /\ j.pc = pc /\ j.op = "none" /\ ~j.switch
  BY <1>1 DEF Jobs, PCs
<1> HIDE DEF j
<1>3. t \in Streams => t \notin Users
  BY AudioOutputAssumption
<1>4. Fits(t, j)
  BY <1>2, <1>3 DEF Fits, Streaming, Switching
<1> QED
  BY <1>2, <1>4 DEF j

LEMMA InitHolds == Init => IInv
<1> SUFFICES ASSUME Init PROVE IInv
  OBVIOUS
<1>1. PICK p \in Profiles :
        /\ profile = p /\ saved = p /\ chosen = p.source /\ dsp = p
        /\ power = "on" /\ previous = None /\ sink = None /\ failures = 0
        /\ sure = Cells /\ overlap = "no"
        /\ job = [t \in Tasks |-> NoCall]
  BY DEF Init
<1>2. p.source \in Sources /\ p \in [source : Sources, master : Gains]
  BY DEF Profiles, Gains
<1>3. TypeOK
  BY <1>1, <1>2, NoCallFits, AudioOutputAssumption DEF TypeOK, Powers
<1>4. CallsFit
  BY <1>1, NoCallFits DEF CallsFit
<1>5. SinkHeld /\ PreviousBelongsToHolder
  BY <1>1 DEF SinkHeld, PreviousBelongsToHolder, NoCall, Tasks
<1> QED
  BY <1>3, <1>4, <1>5 DEF IInv

\* The call of t becomes j.
Becomes(t, j) == /\ j \in Jobs /\ Fits(t, j)
                 /\ job' = [job EXCEPT ![t] = j]

\* The types of everything but the calls.
DataOK ==
    /\ profile \in Profiles /\ saved \in Profiles /\ power \in Powers
    /\ dsp \in [source : Sources, master : Gains]
    /\ previous \in Sources \cup {None} /\ sink \in Tasks \cup {None}
    /\ failures \in 0..MaxFailures
    /\ sure \subseteq Cells /\ chosen \in Sources
    /\ overlap \in {"no", "calls", "profiles"}

\* A step that leaves the sink and the input to go back to alone: the call of
\* t goes on, and if t is a stream it goes on as one.
LEMMA GoesOn ==
    ASSUME IInv, NEW t \in Tasks, DataOK', UNCHANGED routeVars,
           NEW j \in Jobs, Becomes(t, j),
           j.pc = "uploading" => job[t].pc = "uploading",
           t \in Streams => /\ job[t].pc # "idle" /\ j.pc \notin {"idle", "claim", "release"}
    PROVE  IInv'
<1>1. job \in [Tasks -> Jobs] /\ UNCHANGED <<previous, sink>>
  BY DEF IInv, TypeOK, routeVars
<1>2. job' \in [Tasks -> Jobs] /\ job'[t] = j /\ \A u \in Tasks \ {t} : job'[u] = job[u]
  BY <1>1 DEF Becomes
<1>3. TypeOK'
  BY <1>2 DEF TypeOK, DataOK
<1>4. CallsFit'
  BY <1>2 DEF IInv, CallsFit, Becomes, Fits
<1>5. SinkHeld'
  BY <1>1, <1>2, AudioOutputAssumption DEF IInv, SinkHeld, Tasks
<1>6. PreviousBelongsToHolder'
  BY <1>1, <1>2 DEF IInv, PreviousBelongsToHolder, Tasks
<1> QED
  BY <1>3, <1>4, <1>5, <1>6 DEF IInv

\* What a cell takes.
Values(cell) == IF cell = "source" THEN Sources ELSE Gains

\* One DSP write, with either outcome.
LEMMA WriteStep ==
    ASSUME IInv, NEW t \in Tasks, NEW cell \in Cells, NEW value \in Values(cell),
           NEW ok, NEW bad, NEW dirty, Write(t, cell, value, ok, bad, dirty)
    PROVE  /\ dsp' \in [source : Sources, master : Gains] /\ sure' \subseteq Cells
           /\ failures' \in 0..MaxFailures
           /\ \/ Goto(t, ok)
              \/ Goto(t, bad)
<1>1. /\ dsp \in [source : Sources, master : Gains] /\ sure \subseteq Cells
      /\ failures \in 0..MaxFailures /\ MaxFailures \in Nat
  BY AudioOutputAssumption DEF IInv, TypeOK
<1>2. [dsp EXCEPT ![cell] = value] \in [source : Sources, master : Gains]
  BY <1>1 DEF Cells, Values
<1> QED
  BY <1>1, <1>2 DEF Write

\* The steps inside AudioService.
LEMMA ServiceFacts ==
    ASSUME IInv, NEW t \in Tasks
    PROVE  /\ job[t] \in Jobs /\ Fits(t, job[t]) /\ DataOK
           /\ \A l \in Gains : Master(l) \in Gains
           /\ t \in Users \/ t \in Streams
<1>1. job[t] \in Jobs /\ Fits(t, job[t]) /\ DataOK
  BY DEF IInv, TypeOK, CallsFit, DataOK
<1>2. \A l \in Gains : Master(l) \in Gains
  BY DEF Master, Gains
<1> QED
  BY <1>1, <1>2 DEF Tasks

ServicePCs == Switching \cup {"source", "master", "rest", "adoptLevel", "powerWrite", "persist"}

\* Where the call of t may go on.
Onward(t, pc) ==
    \/ t \in Users /\ pc \in {"idle", "persist"}
    \/ t \in Streams /\ pc \in {"claimed", "forget"}
    \/ pc \in Switching \ {"level"} /\ job[t].op \in {"profile", "claim", "restore"}
    \/ pc \in {"source", "master", "rest"} /\ t \in Users /\ job[t].op \in {"profile", "reapply"}
    \/ pc = "adoptLevel" /\ t \in Users /\ job[t].op = "volume"

\* A step to pc that changes nothing else of the call.
LEMMA GotoStep ==
    ASSUME IInv, NEW t \in Tasks, job[t].pc \in ServicePCs, DataOK', UNCHANGED routeVars,
           NEW pc, Onward(t, pc), Goto(t, pc)
    PROVE  IInv'
<1> DEFINE j == IF pc \in {"idle", "streaming", "release"}
                THEN [NoCall EXCEPT !.pc = pc] ELSE [job[t] EXCEPT !.pc = pc]
<1> USE DEF Onward
<1>1. job[t] \in Jobs /\ Fits(t, job[t]) /\ pc \in PCs
  BY ServiceFacts DEF Switching, PCs
<1>2. j \in Jobs /\ j.pc = pc
  BY <1>1, NoCallFits DEF Jobs
<1>3. Fits(t, j)
  <2>1. CASE pc = "idle"
    BY <2>1, AudioOutputAssumption DEF Fits, NoCall, Streaming, Switching
  <2>2. CASE pc # "idle"
    <3>1. pc \notin {"streaming", "release"} /\ (t \in Users => t \notin Streams)
      BY <2>2, AudioOutputAssumption DEF Switching
    <3>2. /\ j.op = job[t].op /\ j.lvl = job[t].lvl /\ j.switch = job[t].switch /\ j.pc = pc
      BY <1>1, <2>2, <3>1 DEF Jobs
    <3>3. t \in Streams => job[t].op \in {"claim", "restore"}
      BY <1>1 DEF Fits, ServicePCs, Streaming, Switching
    <3>4. t \in Users => job[t].op \notin {"claim", "restore"}
      BY <1>1 DEF Fits
    <3>5. pc \in Streaming => t \in Streams
      BY <2>2, <3>1 DEF Streaming, Switching
    <3>6. t \in Streams => pc \in Streaming \/ pc \in Switching
      BY <2>2, <3>1, <3>3 DEF Streaming, Switching
    <3>7. /\ pc = "adoptLevel" => job[t].op = "volume"
          /\ pc \in {"source", "master", "rest"} => job[t].op \in {"profile", "reapply"}
          /\ pc \in Switching \ {"level"} => job[t].op \in {"profile", "claim", "restore"}
      BY <2>2 DEF Switching
    <3> HIDE DEF j
    <3> QED
      BY <1>1, <3>1, <3>2, <3>3, <3>4, <3>5, <3>6, <3>7 DEF Fits
  <2> QED
    BY <2>1, <2>2
<1>4. Becomes(t, j)
  BY <1>2, <1>3 DEF Becomes, Goto
<1>5. t \in Streams => job[t].pc # "idle" /\ pc \notin {"idle", "claim", "release"}
  BY AudioOutputAssumption DEF ServicePCs, Switching
<1>6. pc # "uploading"
  BY DEF Switching
<1> HIDE DEF j
<1> QED
  BY <1>2, <1>4, <1>5, <1>6, GoesOn

\* A DSP write and where it leads.
LEMMA WriteKeeps ==
    ASSUME IInv, NEW t \in Tasks, job[t].pc \in ServicePCs,
           NEW cell \in Cells, NEW value \in Values(cell), NEW ok, NEW bad, NEW dirty,
           Write(t, cell, value, ok, bad, dirty), Onward(t, ok), Onward(t, bad),
           power' \in Powers, UNCHANGED <<profile, saved, chosen, routeVars, overlap>>
    PROVE  IInv'
<1>1. /\ dsp' \in [source : Sources, master : Gains] /\ sure' \subseteq Cells
      /\ failures' \in 0..MaxFailures
      /\ \/ Goto(t, ok)
         \/ Goto(t, bad)
  BY WriteStep
<1>2. DataOK' /\ UNCHANGED routeVars
  BY <1>1, ServiceFacts DEF DataOK, routeVars
<1>3. CASE Goto(t, ok)
  BY <1>2, <1>3, GotoStep
<1>4. CASE Goto(t, bad)
  BY <1>2, <1>4, GotoStep
<1> QED
  BY <1>1, <1>3, <1>4

\* What follows a switch is the stream's for a stream and the user's for a user.
LEMMA ReturnKnown ==
    ASSUME IInv, NEW t \in Tasks, job[t].pc \in ServicePCs
    PROVE  /\ t \in Streams => Return(t) \in {"claimed", "forget"}
           /\ t \in Users => Return(t) \in {"persist", "idle"}
           /\ Return(t) \in PCs /\ Onward(t, Return(t))
<1>1. t \in Streams => job[t].op \in {"claim", "restore"}
  BY ServiceFacts DEF Fits, ServicePCs, Streaming, Switching
<1>2. t \in Users => job[t].op \notin {"claim", "restore"}
  BY ServiceFacts DEF Fits
<1> QED
  BY <1>1, <1>2 DEF Return, PCs, Tasks, Onward

LEMMA ServiceKeeps == ASSUME IInv, NEW t \in Tasks, ServiceStep(t) PROVE IInv'
<1>1. /\ job[t] \in Jobs /\ Fits(t, job[t]) /\ DataOK
      /\ \A l \in Gains : Master(l) \in Gains
      /\ t \in Users \/ t \in Streams
  BY ServiceFacts
<1>2. job[t].pc \in ServicePCs
  BY DEF ServiceStep, Enter, FadeDownTest, FadeStep, SelectMux, Selected, ApplySource,
         ApplyMaster, ApplyRest, FadeUpTest, LevelTest, WriteLevel, AdoptLevel, PowerWrite,
         Persist, At, ServicePCs, Switching
<1>3. /\ t \in Streams => job[t].op \in {"claim", "restore"} /\ job[t].pc \in Switching
      /\ t \in Users => job[t].op \notin {"claim", "restore"}
      /\ (t \in Streams) = (t \notin Users)
  BY <1>1, <1>2, AudioOutputAssumption DEF Fits, ServicePCs, Streaming, Switching
<1>4. /\ t \in Streams => Return(t) \in {"claimed", "forget"}
      /\ t \in Users => Return(t) \in {"persist", "idle"}
      /\ Return(t) \in PCs /\ Onward(t, Return(t))
  BY <1>2, ReturnKnown
<1>5. CASE Enter(t)
  <2> DEFINE sw == job[t].src # profile.source
             pc == IF sw THEN "fadeDown?" ELSE IF Selecting(t) THEN "mux" ELSE "source"
             j == [job[t] EXCEPT !.switch = sw, !.val = Master(job[t].lvl), !.pc = pc]
  <2>1. job[t].op \in {"profile", "claim", "restore"} /\ job[t].pc = "enter"
    BY <1>1, <1>5 DEF Fits, Enter, At, Switching
  <2>2. j \in Jobs
    BY <1>1 DEF Jobs, PCs
  <2>3. j.op = job[t].op /\ j.lvl = job[t].lvl /\ j.pc = pc
    BY <1>1 DEF Jobs
  <2>4. /\ pc = "source" => job[t].op = "profile"
        /\ pc \in {"fadeDown?", "mux", "source"}
    BY <2>1 DEF Selecting
  <2> HIDE DEF pc
  <2>5. Fits(t, j)
    <3> HIDE DEF j
    <3> QED
      BY <1>1, <1>3, <2>1, <2>3, <2>4 DEF Fits, Switching, Streaming
  <2>6. Becomes(t, j)
    BY <1>5, <2>2, <2>5 DEF Enter, Becomes, pc
  <2>7. DataOK' /\ UNCHANGED routeVars
    BY <1>1, <1>5 DEF Enter, DataOK, serviceVars, routeVars
  <2> HIDE DEF j
  <2> QED
    BY <2>1, <2>2, <2>3, <2>4, <2>6, <2>7, GoesOn
<1>6. CASE FadeDownTest(t)
  <2> DEFINE pc == IF power = "standby" THEN AfterDown(t) ELSE "fadeDown"
             j == [job[t] EXCEPT !.val = Mute, !.pc = pc]
  <2>1. job[t].op \in {"profile", "claim", "restore"} /\ job[t].pc = "fadeDown?"
    BY <1>1, <1>6 DEF Fits, FadeDownTest, At, Switching
  <2>2. j \in Jobs
    BY <1>1 DEF Jobs, PCs, Gains, AfterDown
  <2>3. j.op = job[t].op /\ j.lvl = job[t].lvl /\ j.pc = pc
    BY <1>1 DEF Jobs
  <2>4. /\ pc = "source" => job[t].op = "profile"
        /\ pc \in {"fadeDown", "mux", "source"}
    BY <2>1 DEF AfterDown, Selecting
  <2> HIDE DEF pc
  <2>5. Fits(t, j)
    <3> HIDE DEF j
    <3> QED
      BY <1>1, <1>3, <2>1, <2>3, <2>4 DEF Fits, Switching, Streaming
  <2>6. Becomes(t, j)
    BY <1>6, <2>2, <2>5 DEF FadeDownTest, Becomes, pc
  <2>7. DataOK' /\ UNCHANGED routeVars
    BY <1>1, <1>6 DEF FadeDownTest, DataOK, serviceVars, routeVars
  <2> HIDE DEF j
  <2> QED
    BY <2>1, <2>2, <2>3, <2>4, <2>6, <2>7, GoesOn
<1>7. CASE FadeStep(t)
  <2>1. PICK next \in {"fadeDown", AfterDown(t), "fadeUp", "level?"} :
           Write(t, "master", Faded, next, next, {"master"})
    BY <1>7 DEF FadeStep
  <2>2. /\ job[t].op \in {"profile", "claim", "restore"}
        /\ UNCHANGED <<profile, power, saved, chosen, routeVars, overlap>>
    BY <1>1, <1>7 DEF Fits, FadeStep, At, Switching, serviceVars
  <2>3. Onward(t, next)
    BY <1>1, <1>3, <2>1, <2>2 DEF AfterDown, Selecting, Switching, Onward
  <2>4. Faded \in Values("master") /\ "master" \in Cells /\ power' \in Powers
    BY <1>1, <2>2 DEF Gains, Cells, Values, DataOK
  <2> QED
    BY <1>2, <2>1, <2>2, <2>3, <2>4, WriteKeeps
<1>8. CASE SelectMux(t)
  <2> DEFINE bad == IF job[t].switch THEN "fadeUp?" ELSE Return(t)
  <2>1. /\ Write(t, "source", job[t].src, "selected", bad, {"source"})
        /\ job[t].op \in {"profile", "claim", "restore"}
        /\ UNCHANGED <<profile, power, saved, chosen, routeVars, overlap>>
    BY <1>1, <1>8 DEF Fits, SelectMux, At, Switching, serviceVars
  <2>2. job[t].src \in Values("source") /\ "source" \in Cells /\ power' \in Powers
    BY <1>1, <2>1 DEF Jobs, Cells, Values, DataOK
  <2>3. Onward(t, "selected") /\ Onward(t, "fadeUp?")
    BY <2>1 DEF Onward, Switching
  <2>4. Onward(t, bad)
    BY <1>4, <2>3
  <2> HIDE DEF bad
  <2> QED
    BY <1>2, <2>1, <2>2, <2>3, <2>4, WriteKeeps
<1>9. CASE Selected(t)
  <2> DEFINE pc == IF job[t].switch THEN "fadeUp?" ELSE Return(t)
             j == [job[t] EXCEPT !.ok = TRUE, !.pc = pc]
  <2>1. /\ job[t].op \in {"profile", "claim", "restore"} /\ job[t].pc = "selected"
        /\ job' = [job EXCEPT ![t] = j]
        /\ profile' = IF job[t].switch THEN [profile EXCEPT !.source = job[t].src] ELSE profile
        /\ UNCHANGED <<power, saved, chosen, dsp, previous, sink, failures, sure, overlap>>
    BY <1>1, <1>9 DEF Fits, Selected, At, Switching, routeVars
  <2>2. j \in Jobs /\ j.op = job[t].op /\ j.lvl = job[t].lvl /\ j.switch = job[t].switch
        /\ j.pc = pc
    BY <1>1, <1>4 DEF Jobs, PCs
  <2>3. /\ pc = "fadeUp?" \/ (t \in Streams /\ pc \in {"claimed", "forget"})
                        \/ (t \in Users /\ pc \in {"persist", "idle"})
    BY <1>1, <1>4
  <2> HIDE DEF pc, j
  <2>4. Fits(t, j)
    BY <1>1, <1>3, <2>1, <2>2, <2>3 DEF Fits, Switching, Streaming
  <2>5. DataOK' /\ UNCHANGED routeVars
    BY <1>1, <2>1 DEF DataOK, routeVars, Profiles, Jobs
  <2>6. Becomes(t, j) /\ j.pc # "uploading"
    BY <2>1, <2>2, <2>3, <2>4 DEF Becomes
  <2>7. t \in Streams => j.pc \notin {"idle", "claim", "release"}
    BY <1>3, <2>2, <2>3
  <2> QED
    BY <2>1, <2>2, <2>5, <2>6, <2>7, GoesOn
<1>10. CASE ApplySource(t)
  <2>1. /\ Write(t, "source", job[t].src, "master", Failed(t), {"source"})
        /\ job[t].op \in {"profile", "reapply"} /\ t \in Users
        /\ UNCHANGED <<profile, power, saved, chosen, routeVars, overlap>>
    BY <1>1, <1>3, <1>10 DEF Fits, ApplySource, At, Switching, serviceVars
  <2>2. job[t].src \in Values("source") /\ "source" \in Cells /\ power' \in Powers
    BY <1>1, <2>1 DEF Jobs, Cells, Values, DataOK
  <2>3. Onward(t, "master") /\ Onward(t, Failed(t))
    BY <1>1, <2>1 DEF Onward, Switching, Failed, Fits
  <2> QED
    BY <1>2, <2>1, <2>2, <2>3, WriteKeeps
<1>11. CASE ApplyMaster(t)
  <2>1. /\ Write(t, "master", job[t].val, "rest", Failed(t), Cells)
        /\ job[t].op \in {"profile", "reapply"} /\ t \in Users
        /\ UNCHANGED <<profile, power, saved, chosen, routeVars, overlap>>
    BY <1>1, <1>3, <1>11 DEF Fits, ApplyMaster, At, Switching, serviceVars
  <2>2. job[t].val \in Values("master") /\ "master" \in Cells /\ power' \in Powers
    BY <1>1, <2>1 DEF Jobs, Cells, Values, DataOK
  <2>3. Onward(t, "rest") /\ Onward(t, Failed(t))
    BY <1>1, <2>1 DEF Onward, Switching, Failed, Fits
  <2> QED
    BY <1>2, <2>1, <2>2, <2>3, WriteKeeps
<1>12. CASE ApplyRest(t)
  <2>1. /\ job[t].op \in {"profile", "reapply"} /\ t \in Users
        /\ job[t].src \in Sources /\ job[t].lvl \in Levels
        /\ UNCHANGED <<power, saved, dsp, previous, sink, overlap>>
    BY <1>1, <1>3, <1>12 DEF Fits, Jobs, ApplyRest, At, Switching, routeVars
  <2>2. /\ profile' \in Profiles /\ chosen' \in Sources
    BY <1>1, <1>12, <2>1 DEF ApplyRest, Profiles, DataOK
  <2>3. failures' \in 0..MaxFailures /\ sure' \subseteq Cells
    <3>1. failures \in 0..MaxFailures /\ MaxFailures \in Nat /\ sure \subseteq Cells
      BY <1>1, AudioOutputAssumption DEF DataOK
    <3>2. \/ failures' = failures /\ sure' = sure
          \/ failures < MaxFailures /\ failures' = failures + 1 /\ sure' = {}
      BY <1>12 DEF ApplyRest
    <3> QED
      BY <3>1, <3>2
  <2>4. DataOK' /\ UNCHANGED routeVars
    BY <1>1, <2>1, <2>2, <2>3 DEF DataOK, routeVars
  <2>5. CASE \E pc \in {"idle", "persist", Failed(t)} : Goto(t, pc)
    <3>1. PICK pc \in {"idle", "persist", Failed(t)} : Goto(t, pc)
      BY <2>5
    <3>2. Onward(t, pc)
      BY <1>1, <2>1, <3>1 DEF Onward, Switching, Failed, Fits
    <3> QED
      BY <1>2, <2>4, <3>1, <3>2, GotoStep
  <2>6. CASE job[t].switch /\ job' = [job EXCEPT ![t].ok = TRUE, ![t].pc = "fadeUp?"]
    <3> DEFINE j == [job[t] EXCEPT !.ok = TRUE, !.pc = "fadeUp?"]
    <3>1. j \in Jobs /\ j.op = job[t].op /\ j.lvl = job[t].lvl /\ j.switch = job[t].switch
          /\ j.pc = "fadeUp?"
      BY <1>1 DEF Jobs, PCs
    <3>2. job' = [job EXCEPT ![t] = j]
      BY <2>6
    <3> HIDE DEF j
    <3>3. job[t].op = "profile"
      BY <1>1, <2>1, <2>6 DEF Fits
    <3>4. Fits(t, j)
      BY <1>1, <1>3, <2>1, <3>1, <3>3 DEF Fits, Switching, Streaming
    <3>5. Becomes(t, j)
      BY <3>1, <3>2, <3>4 DEF Becomes
    <3> QED
      BY <1>3, <2>1, <2>4, <3>1, <3>5, GoesOn
  <2> QED
    BY <1>12, <2>5, <2>6 DEF ApplyRest
<1>13. CASE FadeUpTest(t)
  <2> DEFINE pc == IF power = "standby" THEN Return(t) ELSE "fadeUp"
  <2>1. Goto(t, pc) /\ job[t].op \in {"profile", "claim", "restore"}
    BY <1>1, <1>13 DEF FadeUpTest, Fits, At, Switching
  <2>2. Onward(t, pc)
    BY <1>4, <2>1 DEF Onward, Switching
  <2>3. DataOK' /\ UNCHANGED routeVars
    BY <1>1, <1>13 DEF FadeUpTest, DataOK, serviceVars, routeVars
  <2> HIDE DEF pc
  <2> QED
    BY <1>2, <2>1, <2>2, <2>3, GotoStep
<1>14. CASE LevelTest(t)
  <2> DEFINE j == [job[t] EXCEPT !.val = Master(profile.master), !.pc = "level"]
  <2>1. job[t].op \in {"profile", "claim", "restore"} /\ Master(profile.master) \in Gains
    BY <1>1, <1>14 DEF LevelTest, Fits, At, Switching, DataOK, Profiles, Gains
  <2>2. j \in Jobs /\ j.op = job[t].op /\ j.lvl = job[t].lvl /\ j.switch = job[t].switch
        /\ j.pc = "level"
    BY <1>1, <2>1 DEF Jobs, PCs
  <2>3. job' = [job EXCEPT ![t] = j]
    BY <1>14 DEF LevelTest
  <2> HIDE DEF j
  <2>4. Fits(t, j)
    BY <1>1, <1>3, <2>1, <2>2 DEF Fits, Switching, Streaming
  <2>5. Becomes(t, j)
    BY <2>2, <2>3, <2>4 DEF Becomes
  <2>6. DataOK' /\ UNCHANGED routeVars
    BY <1>1, <1>14 DEF LevelTest, DataOK, serviceVars, routeVars
  <2>7. t \in Streams => job[t].pc # "idle"
    BY <1>3 DEF Switching
  <2> QED
    BY <2>2, <2>5, <2>6, <2>7, GoesOn
<1>15. CASE WriteLevel(t)
  <2>1. UNCHANGED <<profile, power, saved, chosen, routeVars, overlap>>
    BY <1>15 DEF WriteLevel, serviceVars
  <2>2. job[t].val \in Values("master") /\ "master" \in Cells /\ power' \in Powers
    BY <1>1, <2>1 DEF Jobs, Cells, Values, DataOK
  <2>3. CASE job[t].op = "volume"
    <3>1. t \in Users /\ Onward(t, "adoptLevel") /\ Onward(t, "idle")
      BY <1>1, <1>3, <2>3 DEF Onward
    <3>2. Write(t, "master", job[t].val, "adoptLevel", "idle", {"master"})
      BY <1>15, <2>3 DEF WriteLevel
    <3> QED
      BY <1>2, <2>1, <2>2, <3>1, <3>2, WriteKeeps
  <2>4. CASE job[t].op # "volume"
    <3>1. Write(t, "master", job[t].val, Return(t), Return(t), {"master"})
      BY <1>15, <2>4 DEF WriteLevel
    <3> QED
      BY <1>2, <1>4, <2>1, <2>2, <3>1, WriteKeeps
  <2> QED
    BY <2>3, <2>4
<1>16. CASE AdoptLevel(t)
  <2>1. job[t].op = "volume" /\ t \in Users /\ job[t].lvl \in Levels /\ Goto(t, "idle")
    BY <1>1, <1>3, <1>16 DEF AdoptLevel, At, Fits, Switching
  <2>2. profile' \in Profiles
    BY <1>1, <1>16, <2>1 DEF AdoptLevel, DataOK, Profiles
  <2>3. DataOK' /\ UNCHANGED routeVars
    BY <1>1, <1>16, <2>2 DEF AdoptLevel, DataOK, routeVars
  <2>4. Onward(t, "idle")
    BY <2>1 DEF Onward
  <2> QED
    BY <1>2, <2>1, <2>3, <2>4, GotoStep
<1>17. CASE PowerWrite(t)
  <2>1. /\ Write(t, "master", job[t].val, "idle", "idle", {"master"})
        /\ t \in Users /\ power' \in Powers
        /\ UNCHANGED <<profile, saved, chosen, routeVars, overlap>>
    BY <1>1, <1>3, <1>17 DEF PowerWrite, At, Switching, Jobs, DataOK
  <2>2. job[t].val \in Values("master") /\ "master" \in Cells /\ Onward(t, "idle")
    BY <1>1, <2>1 DEF Jobs, Cells, Values, Onward
  <2> QED
    BY <1>2, <2>1, <2>2, WriteKeeps
<1>18. CASE Persist(t)
  <2>1. Goto(t, "idle") /\ saved' \in Profiles
    BY <1>1, <1>18 DEF Persist, DataOK
  <2>2. failures' \in 0..MaxFailures
    <3>1. failures \in 0..MaxFailures /\ MaxFailures \in Nat
      BY <1>1, AudioOutputAssumption DEF DataOK
    <3>2. failures' = failures \/ (failures < MaxFailures /\ failures' = failures + 1)
      BY <1>18 DEF Persist
    <3> QED
      BY <3>1, <3>2
  <2>3. DataOK' /\ UNCHANGED routeVars
    BY <1>1, <1>18, <2>1, <2>2 DEF Persist, DataOK, routeVars
  <2>4. Onward(t, "idle")
    BY <1>3, <1>18 DEF Persist, At, Onward, Switching
  <2> QED
    BY <1>2, <2>1, <2>3, <2>4, GotoStep
<1> QED
  BY <1>5, <1>6, <1>7, <1>8, <1>9, <1>10, <1>11, <1>12, <1>13, <1>14, <1>15, <1>16, <1>17,
     <1>18 DEF ServiceStep

\* Who enters AudioService meets the others there.
LEMMA EntersType ==
    ASSUME IInv, NEW t, NEW op, Enters(t, op)
    PROVE  overlap' \in {"no", "calls", "profiles"}
BY DEF IInv, TypeOK, Enters

\* A user's call that leaves the sink alone.
LEMMA CallKeeps ==
    ASSUME IInv, NEW t \in Users, NEW j \in Jobs,
           job' = [job EXCEPT ![t] = j], NEW op, Enters(t, op),
           /\ j.op \in {"profile", "reapply", "volume"} => j.lvl \in Levels
           /\ \/ j.op = "profile" /\ j.pc = "enter"
              \/ j.op = "reapply" /\ j.pc = "source" /\ ~j.switch
              \/ j.op = "volume" /\ j.pc = "level"
              \/ j.op = "power" /\ j.pc = "powerWrite"
              \/ j.op = "save" /\ j.pc = "persist",
           power' \in Powers,
           UNCHANGED <<profile, saved, chosen, dsp, routeVars, failures, sure>>
    PROVE  IInv'
<1>1. t \in Tasks /\ t \notin Streams
  BY AudioOutputAssumption DEF Tasks
<1>2. Fits(t, j)
  BY <1>1 DEF Fits, Switching, Streaming
<1>3. Becomes(t, j) /\ j.pc # "uploading"
  BY <1>2 DEF Becomes
<1>4. overlap' \in {"no", "calls", "profiles"}
  BY EntersType
<1>5. DataOK' /\ UNCHANGED routeVars
  BY <1>4 DEF IInv, TypeOK, DataOK, routeVars
<1> QED
  BY <1>1, <1>3, <1>5, GoesOn

LEMMA UserKeeps == ASSUME IInv, NEW t \in Users, UserCall(t) PROVE IInv'
<1>1. /\ job[t] \in Jobs /\ DataOK /\ \A l \in Gains : Master(l) \in Gains
      /\ t \in Tasks /\ t \notin Streams
      /\ job \in [Tasks -> Jobs]
  BY ServiceFacts, AudioOutputAssumption DEF Tasks, IInv, TypeOK
<1>2. ASSUME NEW p \in Profiles, ApplyProfile(t, p) PROVE IInv'
  <2> DEFINE j == [job[t] EXCEPT !.op = "profile", !.src = p.source, !.lvl = p.master,
                                 !.ok = FALSE, !.pc = "enter"]
  <2>1. /\ j \in Jobs /\ j.op = "profile" /\ j.pc = "enter" /\ j.lvl \in Levels
        /\ job' = [job EXCEPT ![t] = j]
    BY <1>1, <1>2 DEF ApplyProfile, Jobs, PCs, Ops, UserCalls, Gains, Profiles
  <2>2. /\ Enters(t, "profile") /\ power' \in Powers
        /\ UNCHANGED <<profile, saved, chosen, dsp, routeVars, failures, sure>>
    BY <1>1, <1>2 DEF ApplyProfile, serviceVars, DataOK
  <2> HIDE DEF j
  <2> QED
    BY <2>1, <2>2, CallKeeps
<1>3. ASSUME Reapply(t) PROVE IInv'
  <2> DEFINE j == [job[t] EXCEPT !.op = "reapply", !.src = profile.source,
                                 !.lvl = profile.master, !.switch = FALSE,
                                 !.val = Master(profile.master), !.pc = "source"]
  <2>1. profile.source \in Sources /\ profile.master \in Levels
        /\ profile.master \in Gains /\ Master(profile.master) \in Gains
    BY <1>1 DEF DataOK, Profiles, Gains
  <2>2. /\ j \in Jobs /\ j.op = "reapply" /\ j.pc = "source" /\ j.lvl \in Levels /\ ~j.switch
        /\ job' = [job EXCEPT ![t] = j]
    BY <1>1, <1>3, <2>1 DEF Reapply, Jobs, PCs, Ops, UserCalls
  <2>3. /\ Enters(t, "reapply") /\ power' \in Powers
        /\ UNCHANGED <<profile, saved, chosen, dsp, routeVars, failures, sure>>
    BY <1>1, <1>3 DEF Reapply, serviceVars, DataOK
  <2> HIDE DEF j
  <2> QED
    BY <2>2, <2>3, CallKeeps
<1>4. ASSUME NEW l \in Levels, SetMasterVolume(t, l) PROVE IInv'
  <2> DEFINE j == [job[t] EXCEPT !.op = "volume", !.lvl = l, !.val = Master(l), !.pc = "level"]
  <2>1. l \in Gains /\ Master(l) \in Gains
    BY <1>1 DEF Gains
  <2>2. /\ j \in Jobs /\ j.op = "volume" /\ j.pc = "level" /\ j.lvl \in Levels
        /\ job' = [job EXCEPT ![t] = j]
    BY <1>1, <1>4, <2>1 DEF SetMasterVolume, Jobs, PCs, Ops, UserCalls
  <2>3. /\ Enters(t, "volume") /\ power' \in Powers
        /\ UNCHANGED <<profile, saved, chosen, dsp, routeVars, failures, sure>>
    BY <1>1, <1>4 DEF SetMasterVolume, serviceVars, DataOK
  <2> HIDE DEF j
  <2> QED
    BY <2>2, <2>3, CallKeeps
<1>5. ASSUME NEW s \in Powers, SetPowerState(t, s) PROVE IInv'
  <2> DEFINE v == IF s = "standby" THEN Mute ELSE profile.master
             j == [job[t] EXCEPT !.op = "power", !.prev = power, !.val = v,
                                 !.pc = "powerWrite"]
  <2>1. v \in Gains /\ power \in Powers
    BY <1>1 DEF DataOK, Profiles, Gains
  <2>2. /\ j \in Jobs /\ j.op = "power" /\ j.pc = "powerWrite"
        /\ job' = [job EXCEPT ![t] = j]
    BY <1>1, <1>5, <2>1 DEF SetPowerState, Jobs, PCs, Ops, UserCalls
  <2>3. /\ Enters(t, "power") /\ power' \in Powers
        /\ UNCHANGED <<profile, saved, chosen, dsp, routeVars, failures, sure>>
    BY <1>5 DEF SetPowerState
  <2> HIDE DEF j
  <2> QED
    BY <2>2, <2>3, CallKeeps
<1>6. ASSUME SaveProfile(t) PROVE IInv'
  <2> DEFINE j == [job[t] EXCEPT !.op = "save", !.pc = "persist"]
  <2>1. /\ j \in Jobs /\ j.op = "save" /\ j.pc = "persist"
        /\ job' = [job EXCEPT ![t] = j]
    BY <1>1, <1>6 DEF SaveProfile, Jobs, PCs, Ops, UserCalls
  <2>2. /\ Enters(t, "save") /\ power' \in Powers
        /\ UNCHANGED <<profile, saved, chosen, dsp, routeVars, failures, sure>>
    BY <1>1, <1>6 DEF SaveProfile, serviceVars, DataOK
  <2> HIDE DEF j
  <2> QED
    BY <2>1, <2>2, CallKeeps
<1>7. ASSUME Upload(t) PROVE IInv'
  <2> DEFINE j == [job[t] EXCEPT !.op = "upload", !.pc = "uploading"]
  <2>1. j \in Jobs /\ j.op = "upload" /\ j.pc = "uploading"
    BY <1>1 DEF Jobs, PCs, Ops, UserCalls
  <2>2. /\ job' = [job EXCEPT ![t] = j] /\ sink = None /\ sink' = t
        /\ UNCHANGED <<profile, power, saved, chosen, dsp, previous, failures, sure, overlap>>
    BY <1>7 DEF Upload, serviceVars
  <2> HIDE DEF j
  <2>3. job' \in [Tasks -> Jobs] /\ job'[t] = j /\ \A u \in Tasks \ {t} : job'[u] = job[u]
    BY <1>1, <2>1, <2>2
  <2>4. Fits(t, j)
    BY <1>1, <2>1 DEF Fits, Switching, Streaming
  <2>5. previous = None
    BY <2>2, AudioOutputAssumption DEF IInv, PreviousBelongsToHolder, Tasks
  <2>6. TypeOK' /\ CallsFit'
    BY <1>1, <2>2, <2>3, <2>4 DEF IInv, TypeOK, CallsFit, Fits
  <2>7. SinkHeld' /\ PreviousBelongsToHolder'
    BY <1>1, <2>2, <2>3, <2>5, AudioOutputAssumption
    DEF IInv, SinkHeld, PreviousBelongsToHolder, Tasks
  <2> QED
    BY <2>6, <2>7 DEF IInv
<1>8. ASSUME UploadEnds(t) PROVE IInv'
  <2> DEFINE j == [NoCall EXCEPT !.pc = "idle"]
  <2>1. j \in Jobs /\ Fits(t, j) /\ j.pc = "idle"
    BY <1>1, IdleFits
  <2>2. /\ job' = [job EXCEPT ![t] = j] /\ sink' = None /\ job[t].pc = "uploading"
        /\ UNCHANGED <<profile, power, saved, chosen, dsp, previous, failures, sure, overlap>>
    BY <1>8 DEF UploadEnds, Goto, At, serviceVars
  <2> HIDE DEF j
  <2>3. job' \in [Tasks -> Jobs] /\ job'[t] = j /\ \A u \in Tasks \ {t} : job'[u] = job[u]
    BY <1>1, <2>1, <2>2
  <2>4. sink = t /\ previous = None
    BY <1>1, <2>2 DEF IInv, SinkHeld, PreviousBelongsToHolder
  <2>5. TypeOK' /\ CallsFit'
    BY <1>1, <2>1, <2>2, <2>3 DEF IInv, TypeOK, CallsFit, Fits
  <2>6. SinkHeld' /\ PreviousBelongsToHolder'
    BY <1>1, <2>1, <2>2, <2>3, <2>4, AudioOutputAssumption
    DEF IInv, SinkHeld, PreviousBelongsToHolder, Tasks
  <2> QED
    BY <2>5, <2>6 DEF IInv
<1> QED
  BY <1>2, <1>3, <1>4, <1>5, <1>6, <1>7, <1>8 DEF UserCall

\* A step of the stream that has, or takes, the sink.
LEMMA StreamGoes ==
    ASSUME IInv, NEW t \in Streams, NEW j \in Jobs, Fits(t, j),
           job' = [job EXCEPT ![t] = j], j.pc \notin {"idle", "uploading"},
           sink \in {t, None}, sink' = t, previous' \in Sources \cup {None},
           previous' # None => j.pc \notin {"claim", "release"},
           overlap' \in {"no", "calls", "profiles"},
           UNCHANGED <<profile, power, saved, chosen, dsp, failures, sure>>
    PROVE  IInv'
<1>1. t \in Tasks /\ t \notin Users /\ None \notin Tasks /\ job \in [Tasks -> Jobs]
  BY AudioOutputAssumption DEF Tasks, IInv, TypeOK
<1>2. job' \in [Tasks -> Jobs] /\ job'[t] = j /\ \A u \in Tasks \ {t} : job'[u] = job[u]
  BY <1>1
<1>3. TypeOK'
  BY <1>1, <1>2 DEF IInv, TypeOK
<1>4. CallsFit'
  BY <1>2 DEF IInv, CallsFit, Fits
<1>5. SinkHeld'
  BY <1>1, <1>2 DEF IInv, SinkHeld, Tasks
<1>6. PreviousBelongsToHolder'
  BY <1>1, <1>2 DEF PreviousBelongsToHolder
<1> QED
  BY <1>3, <1>4, <1>5, <1>6 DEF IInv

LEMMA StreamKeeps == ASSUME IInv, NEW t \in Streams, StreamStep(t) PROVE IInv'
<1>1. /\ job[t] \in Jobs /\ Fits(t, job[t]) /\ DataOK /\ job \in [Tasks -> Jobs]
      /\ t \in Tasks /\ t \notin Users /\ None \notin Streams /\ Esp32 \in Sources
      /\ job[t].pc # "idle" => sink = t
  BY ServiceFacts, AudioOutputAssumption DEF Tasks, IInv, TypeOK, SinkHeld
<1>2. /\ \A u \in Streams : job[u].pc \in {"idle", "claim", "release"} /\ sink = u => previous = None
      /\ sink = None => previous = None
  BY <1>1 DEF IInv, PreviousBelongsToHolder
<1>3. overlap \in {"no", "calls", "profiles"} /\ previous \in Sources \cup {None}
  BY <1>1 DEF DataOK
<1>4. ASSUME NEW pc \in {"streaming", "release"}, Goto(t, pc)
      PROVE  \E j \in Jobs : Fits(t, j) /\ job' = [job EXCEPT ![t] = j] /\ j.pc = pc
  BY <1>1, <1>4, IdleFits DEF Goto
<1>5. ASSUME NEW pc \in {"claim", "restore", "forget"}, Goto(t, pc)
      PROVE  \E j \in Jobs : Fits(t, j) /\ job' = [job EXCEPT ![t] = j] /\ j.pc = pc
  <2> DEFINE j == [job[t] EXCEPT !.pc = pc]
  <2>1. /\ j \in Jobs /\ j.pc = pc /\ j.op = job[t].op /\ j.lvl = job[t].lvl
        /\ j.switch = job[t].switch /\ job' = [job EXCEPT ![t] = j]
    BY <1>1, <1>5 DEF Jobs, PCs, Goto
  <2> HIDE DEF j
  <2>2. Fits(t, j)
    BY <1>1, <2>1 DEF Fits, Switching, Streaming
  <2> QED
    BY <2>1, <2>2
<1>6. CASE Acquire(t)
  <2>1. sink = None /\ sink' = t /\ Goto(t, "claim") /\ previous' = previous
        /\ UNCHANGED <<profile, power, saved, chosen, dsp, failures, sure, overlap>>
    BY <1>6 DEF Acquire, serviceVars
  <2>2. PICK j \in Jobs : Fits(t, j) /\ job' = [job EXCEPT ![t] = j] /\ j.pc = "claim"
    BY <1>5, <2>1
  <2> QED
    BY <1>2, <1>3, <2>1, <2>2, StreamGoes
<1>7. CASE RingFails(t)
  <2>1. /\ job[t].pc = "claim" /\ Goto(t, "release")
        /\ UNCHANGED <<profile, power, saved, chosen, dsp, previous, sink, failures, sure, overlap>>
    BY <1>7 DEF RingFails, At, serviceVars, routeVars
  <2>2. PICK j \in Jobs : Fits(t, j) /\ job' = [job EXCEPT ![t] = j] /\ j.pc = "release"
    BY <1>4, <2>1
  <2> QED
    BY <1>1, <1>2, <1>3, <2>1, <2>2, StreamGoes
<1>8. CASE Claim(t)
  <2>1. /\ job[t].pc = "claim"
        /\ UNCHANGED <<profile, power, saved, chosen, dsp, previous, sink, failures, sure>>
    BY <1>8 DEF Claim, At, serviceVars, routeVars
  <2>2. CASE profile.source = Esp32
    <3>1. Goto(t, "streaming") /\ UNCHANGED overlap
      BY <1>8, <2>2 DEF Claim
    <3>2. PICK j \in Jobs : Fits(t, j) /\ job' = [job EXCEPT ![t] = j] /\ j.pc = "streaming"
      BY <1>4, <3>1
    <3> QED
      BY <1>1, <1>3, <2>1, <3>1, <3>2, StreamGoes
  <2>3. CASE profile.source # Esp32
    <3> DEFINE j == [job[t] EXCEPT !.op = "claim", !.src = Esp32, !.cur = profile.source,
                                   !.ok = FALSE, !.pc = "enter"]
    <3>1. job' = [job EXCEPT ![t] = j] /\ Enters(t, "claim")
      BY <1>8, <2>3 DEF Claim
    <3>2. j \in Jobs /\ j.op = "claim" /\ j.pc = "enter"
      BY <1>1 DEF Jobs, PCs, Ops, DataOK, Profiles
    <3> HIDE DEF j
    <3>3. Fits(t, j)
      BY <1>1, <3>2 DEF Fits, Switching, Streaming
    <3>4. overlap' \in {"no", "calls", "profiles"}
      BY <3>1, EntersType
    <3> QED
      BY <1>1, <1>3, <2>1, <3>1, <3>2, <3>3, <3>4, StreamGoes
  <2> QED
    BY <2>2, <2>3
<1>9. CASE Claimed(t)
  <2>1. /\ job[t].pc = "claimed" /\ Goto(t, "streaming")
        /\ previous' = IF job[t].ok THEN job[t].cur ELSE previous
        /\ UNCHANGED <<profile, power, saved, chosen, dsp, sink, failures, sure, overlap>>
    BY <1>9 DEF Claimed, At, serviceVars
  <2>2. PICK j \in Jobs : Fits(t, j) /\ job' = [job EXCEPT ![t] = j] /\ j.pc = "streaming"
    BY <1>4, <2>1
  <2>3. previous' \in Sources \cup {None}
    BY <1>1, <1>3, <2>1 DEF Jobs
  <2> QED
    BY <1>1, <1>3, <2>1, <2>2, <2>3, StreamGoes
<1>10. CASE StreamEnds(t)
  <2>1. /\ job[t].pc = "streaming" /\ Goto(t, "restore")
        /\ UNCHANGED <<profile, power, saved, chosen, dsp, previous, sink, failures, sure, overlap>>
    BY <1>10 DEF StreamEnds, At, serviceVars, routeVars
  <2>2. PICK j \in Jobs : Fits(t, j) /\ job' = [job EXCEPT ![t] = j] /\ j.pc = "restore"
    BY <1>5, <2>1
  <2> QED
    BY <1>1, <1>3, <2>1, <2>2, StreamGoes
<1>11. CASE Restore(t)
  <2>1. /\ job[t].pc = "restore"
        /\ UNCHANGED <<profile, power, saved, chosen, dsp, previous, sink, failures, sure>>
    BY <1>11 DEF Restore, At, serviceVars, routeVars
  <2>2. CASE previous = None
    <3>1. Goto(t, "release") /\ UNCHANGED overlap
      BY <1>11, <2>2 DEF Restore
    <3>2. PICK j \in Jobs : Fits(t, j) /\ job' = [job EXCEPT ![t] = j] /\ j.pc = "release"
      BY <1>4, <3>1
    <3> QED
      BY <1>1, <1>3, <2>1, <2>2, <3>1, <3>2, StreamGoes
  <2>3. CASE previous # None /\ profile.source # Esp32
    <3>1. Goto(t, "forget") /\ UNCHANGED overlap
      BY <1>11, <2>3 DEF Restore
    <3>2. PICK j \in Jobs : Fits(t, j) /\ job' = [job EXCEPT ![t] = j] /\ j.pc = "forget"
      BY <1>5, <3>1
    <3> QED
      BY <1>1, <1>3, <2>1, <3>1, <3>2, StreamGoes
  <2>4. CASE previous # None /\ profile.source = Esp32
    <3> DEFINE j == [job[t] EXCEPT !.op = "restore", !.src = previous, !.ok = FALSE,
                                   !.pc = "enter"]
    <3>1. job' = [job EXCEPT ![t] = j] /\ Enters(t, "restore")
      BY <1>11, <2>4 DEF Restore
    <3>2. j \in Jobs /\ j.op = "restore" /\ j.pc = "enter"
      BY <1>1, <1>3, <2>4 DEF Jobs, PCs, Ops
    <3> HIDE DEF j
    <3>3. Fits(t, j)
      BY <1>1, <3>2 DEF Fits, Switching, Streaming
    <3>4. overlap' \in {"no", "calls", "profiles"}
      BY <3>1, EntersType
    <3> QED
      BY <1>1, <1>3, <2>1, <3>1, <3>2, <3>3, <3>4, StreamGoes
  <2> QED
    BY <2>2, <2>3, <2>4
<1>12. CASE Forget(t)
  <2>1. /\ job[t].pc = "forget" /\ Goto(t, "release") /\ previous' = None
        /\ UNCHANGED <<profile, power, saved, chosen, dsp, sink, failures, sure, overlap>>
    BY <1>12 DEF Forget, At, serviceVars
  <2>2. PICK j \in Jobs : Fits(t, j) /\ job' = [job EXCEPT ![t] = j] /\ j.pc = "release"
    BY <1>4, <2>1
  <2> QED
    BY <1>1, <1>3, <2>1, <2>2, StreamGoes
<1>13. CASE Release(t)
  <2> DEFINE j == [NoCall EXCEPT !.pc = "idle"]
  <2>1. j \in Jobs /\ Fits(t, j) /\ j.pc = "idle"
    BY <1>1, IdleFits
  <2>2. /\ job' = [job EXCEPT ![t] = j] /\ sink' = None /\ job[t].pc = "release"
        /\ UNCHANGED <<profile, power, saved, chosen, dsp, previous, failures, sure, overlap>>
    BY <1>13 DEF Release, Goto, At, serviceVars
  <2> HIDE DEF j
  <2>3. job' \in [Tasks -> Jobs] /\ job'[t] = j /\ \A u \in Tasks \ {t} : job'[u] = job[u]
    BY <1>1, <2>1, <2>2
  <2>4. sink = t /\ previous = None
    BY <1>1, <1>2, <2>2
  <2>5. TypeOK' /\ CallsFit'
    BY <1>1, <2>1, <2>2, <2>3 DEF IInv, TypeOK, CallsFit, Fits
  <2>6. SinkHeld' /\ PreviousBelongsToHolder'
    BY <1>1, <2>1, <2>2, <2>3, <2>4, AudioOutputAssumption
    DEF IInv, SinkHeld, PreviousBelongsToHolder, Tasks
  <2> QED
    BY <2>5, <2>6 DEF IInv
<1> QED
  BY <1>6, <1>7, <1>8, <1>9, <1>10, <1>11, <1>12, <1>13 DEF StreamStep

(* Nothing a task does, in any order with the others, breaks the invariant. *)
THEOREM Inductive == Spec => []IInv
<1>1. IInv /\ [Next]_vars => IInv'
  <2> SUFFICES ASSUME IInv, [Next]_vars PROVE IInv'
    OBVIOUS
  <2>1. CASE UNCHANGED vars
    BY <2>1 DEF vars, IInv, TypeOK, CallsFit, Fits, SinkHeld, PreviousBelongsToHolder
  <2>2. CASE Next
    BY <2>2, UserKeeps, ServiceKeeps, StreamKeeps DEF Next
  <2> QED
    BY <2>1, <2>2
<1> QED
  BY <1>1, InitHolds, PTL DEF Spec

(* Every variable keeps its type: no call is left with an operation, a     *)
(* source or a level AudioService does not know.                           *)
THEOREM TypeCorrect == Spec => []TypeOK
<1>1. IInv => TypeOK
  BY DEF IInv
<1> QED
  BY <1>1, Inductive, PTL

(* The input to go back to belongs to the stream that holds the sink: a    *)
(* stream that ends never undoes what another has switched.                *)
THEOREM PreviousBelongsToHolderHolds == Spec => []PreviousBelongsToHolder
<1>1. IInv => PreviousBelongsToHolder
  BY DEF IInv
<1> QED
  BY <1>1, Inductive, PTL

-----------------------------------------------------------------------------
(* The input the user chose, across overlapping calls. *)

\* A switch before and after the input is selected.
Before == {"enter", "fadeDown?", "fadeDown", "mux", "selected"}
After  == {"fadeUp?", "fadeUp", "level?", "level"}

\* A call that changes the profile has AudioService to itself.
ProfileAlone ==
    overlap # "profiles" =>
       \A t, u \in Tasks : t # u /\ ~Quiet(t) /\ ~Quiet(u) => job[t].op # "profile"

\* The switch of a stream: from the source it noted to the ESP32 input, or
\* from the ESP32 input to the source remembered.
SwitchFits(j) ==
    /\ j.op = "claim" => j.src = Esp32 /\ j.cur # Esp32 /\ j.pc \in Before \cup After \cup {"claimed"}
    /\ j.op = "restore" => /\ j.src = previous /\ previous # None
                           /\ j.pc \in Before \cup After \cup {"forget"}
    /\ j.pc = "claimed" => j.op = "claim"
    /\ overlap # "profiles" /\ j.op \in {"claim", "restore"} /\ j.pc \in Before =>
          /\ ~j.ok /\ profile.source = (IF j.op = "claim" THEN j.cur ELSE Esp32)
          /\ j.pc # "enter" => j.switch
    /\ failures = 0 /\ overlap # "profiles" /\ j.op \in {"claim", "restore"} /\ j.pc \notin Before
          => j.ok

\* The stream with this call brings the user's choice back.
Returns(j) ==
    \/ j.op = "claim" /\ j.ok /\ j.cur = chosen
    \/ j.pc \in {"streaming", "restore"} /\ previous = chosen
    \/ j.op = "restore" /\ ~j.ok /\ previous = chosen

SourceKept ==
    failures = 0 /\ overlap # "profiles" /\ chosen # Esp32 =>
       \/ profile.source = chosen
       \/ profile.source = Esp32 /\ \E t \in Streams : Returns(job[t])

SourceInv ==
    /\ ProfileAlone /\ SourceKept
    /\ previous # Esp32
    /\ \A t \in Users : job[t].pc \notin {"mux", "selected"}
    /\ \A t \in Streams : SwitchFits(job[t])

\* The call of t has changed, no other.
Turn(t) == \A u \in Tasks \ {t} : job'[u] = job[u]

\* A jump keeps the locals, or drops them all.
LEMMA GotoFields ==
    ASSUME IInv, NEW t \in Tasks, NEW pc \in PCs, Goto(t, pc)
    PROVE  /\ Turn(t) /\ job'[t] \in Jobs /\ job'[t].pc = pc
           /\ pc \in {"idle", "streaming", "release"} =>
                 /\ job'[t].op = "none"
           /\ pc \notin {"idle", "streaming", "release"} =>
                 /\ job'[t].op = job[t].op /\ job'[t].src = job[t].src
                 /\ job'[t].lvl = job[t].lvl /\ job'[t].val = job[t].val
                 /\ job'[t].prev = job[t].prev /\ job'[t].cur = job[t].cur
                 /\ job'[t].switch = job[t].switch /\ job'[t].ok = job[t].ok
<1>1. job \in [Tasks -> Jobs] /\ job[t] \in Jobs
  BY DEF IInv, TypeOK
<1>2. NoCall \in Jobs /\ NoCall.op = "none"
  BY NoCallFits DEF NoCall
<1>3. [NoCall EXCEPT !.pc = pc] \in Jobs /\ [NoCall EXCEPT !.pc = pc].pc = pc
      /\ [NoCall EXCEPT !.pc = pc].op = "none"
  BY <1>2 DEF Jobs
<1>4. CASE pc \in {"idle", "streaming", "release"}
  <2>1. job' = [job EXCEPT ![t] = [NoCall EXCEPT !.pc = pc]]
    BY <1>4 DEF Goto
  <2> QED
    BY <1>1, <1>3, <1>4, <2>1 DEF Turn
<1>5. CASE pc \notin {"idle", "streaming", "release"}
  <2>1. job' = [job EXCEPT ![t] = [job[t] EXCEPT !.pc = pc]]
    BY <1>5 DEF Goto
  <2>2. job'[t] = [job[t] EXCEPT !.pc = pc] /\ Turn(t)
    BY <1>1, <2>1 DEF Turn
  <2> QED
    BY <1>1, <1>5, <2>2 DEF Jobs
<1> QED
  BY <1>4, <1>5

QuietPCs == {"idle", "uploading", "claim", "claimed", "streaming", "restore", "forget", "release"}

\* A call goes on, ends or enters.
LEMMA AloneKept ==
    ASSUME IInv, ProfileAlone, NEW t \in Tasks, Turn(t),
           \/ /\ overlap' = overlap
              /\ \/ job'[t].pc \in QuietPCs
                 \/ ~Quiet(t) /\ (job'[t].op = "profile" => job[t].op = "profile")
           \/ Enters(t, job'[t].op)
    PROVE  ProfileAlone'
<1>1. \A u \in Tasks : Quiet(u)' = (job'[u].pc \in QuietPCs) /\ Quiet(u) = (job[u].pc \in QuietPCs)
  BY DEF Quiet, QuietPCs
<1>2. \A u \in Tasks \ {t} : job'[u] = job[u]
  BY DEF Turn
<1>3. CASE overlap' = overlap /\ job'[t].pc \in QuietPCs
  BY <1>1, <1>2, <1>3 DEF ProfileAlone
<1>4. CASE overlap' = overlap /\ ~Quiet(t) /\ (job'[t].op = "profile" => job[t].op = "profile")
  BY <1>1, <1>2, <1>4 DEF ProfileAlone
<1>5. CASE Enters(t, job'[t].op)
  <2> SUFFICES ASSUME overlap' # "profiles", NEW u \in Tasks, NEW v \in Tasks, u # v,
                      ~Quiet(u)', ~Quiet(v)'
               PROVE  job'[u].op # "profile"
    BY DEF ProfileAlone
  <2> DEFINE inside == {w \in Tasks \ {t} : ~Quiet(w)}
  <2>1. overlap' = IF inside = {} \/ overlap = "profiles" THEN overlap
                   ELSE IF job'[t].op = "profile" \/ \E w \in inside : job[w].op = "profile"
                        THEN "profiles" ELSE "calls"
    BY <1>5 DEF Enters
  <2>2. overlap # "profiles"
    BY <2>1
  <2>3. u # t => u \in inside
    BY <1>1, <1>2
  <2>4. v # t => v \in inside
    BY <1>1, <1>2
  <2>5. inside # {} => job'[t].op # "profile" /\ \A w \in inside : job[w].op # "profile"
    BY <2>1, <2>2
  <2> HIDE DEF inside
  <2> QED
    BY <1>2, <2>3, <2>4, <2>5
<1> QED
  BY <1>3, <1>4, <1>5

\* One stream at a time has left "idle", and it holds the sink.
LEMMA OnlyHolder ==
    ASSUME IInv, SourceInv, NEW t \in Streams, job[t].pc # "idle" \/ sink = None
    PROVE  /\ \A u \in Streams \ {t} : job[u].pc = "idle" /\ job[u].op \notin {"claim", "restore"}
           /\ \A u \in Streams \ {t} : ~Returns(job[u])
<1>1. \A u \in Streams \ {t} : job[u].pc = "idle"
  BY AudioOutputAssumption DEF IInv, SinkHeld, Tasks
<1>2. \A u \in Streams \ {t} : job[u].op \notin {"claim", "restore"}
  BY <1>1 DEF SourceInv, SwitchFits, Before, After
<1> QED
  BY <1>1, <1>2 DEF Returns

\* A step of t that leaves the source of the profile, the choice of the user
\* and the source to go back to alone.
LEMMA SourceFrame ==
    ASSUME IInv, SourceInv, NEW t \in Tasks, Turn(t),
           UNCHANGED <<previous, chosen>>, profile'.source = profile.source,
           failures' = 0 => failures = 0, overlap' # "profiles" => overlap # "profiles",
           ProfileAlone',
           t \in Users => job'[t].pc \notin {"mux", "selected"},
           t \in Streams => /\ SwitchFits(job[t])'
                            /\ Returns(job[t]) => Returns(job[t])' \/ profile.source = chosen
    PROVE  SourceInv'
<1>1. \A u \in Tasks \ {t} : job'[u] = job[u]
  BY DEF Turn
<1>2. \A u \in Users : job'[u].pc \notin {"mux", "selected"}
  BY <1>1 DEF SourceInv, Tasks
<1>3. \A u \in Streams : SwitchFits(job[u])'
  <2> SUFFICES ASSUME NEW u \in Streams, u # t PROVE SwitchFits(job[u])'
    OBVIOUS
  <2>1. SwitchFits(job[u]) /\ job'[u] = job[u]
    BY <1>1 DEF SourceInv, Tasks
  <2> QED
    BY <2>1 DEF SwitchFits
<1>4. SourceKept'
  <2>1. \A u \in Streams \ {t} : Returns(job[u]) => Returns(job[u])'
    BY <1>1 DEF Returns, Tasks
  <2>2. t \in Streams /\ Returns(job[t]) => Returns(job[t])' \/ profile.source = chosen
    OBVIOUS
  <2> QED
    BY <2>1, <2>2 DEF SourceInv, SourceKept
<1> QED
  BY <1>2, <1>3, <1>4 DEF SourceInv

\* A step inside AudioService that keeps what the call is about.
LEMMA InsideFrame ==
    ASSUME IInv, SourceInv, NEW t \in Tasks, ~Quiet(t), Turn(t),
           job[t].pc \in ServicePCs, job'[t] \in Jobs,
           UNCHANGED <<previous, chosen, overlap>>, profile'.source = profile.source,
           failures' = 0 => failures = 0,
           \/ job'[t].pc = "idle"
           \/ /\ job'[t].op = job[t].op /\ job'[t].src = job[t].src
              /\ job'[t].cur = job[t].cur /\ job'[t].ok = job[t].ok,
           t \in Users => job'[t].pc \notin {"mux", "selected"},
           t \in Streams =>
              /\ job'[t].pc # "idle"
              /\ \/ /\ job[t].pc \in Before /\ job'[t].pc \in Before \ {"enter"}
                    /\ job'[t].switch = job[t].switch \/ job[t].pc = "enter"
                    /\ job[t].pc = "enter" /\ job[t].src # profile.source => job'[t].switch
                 \/ /\ job[t].pc \in Before => failures' # 0
                    /\ job'[t].pc \in After \cup {Return(t)}
    PROVE  SourceInv'
<1>1. /\ job[t] \in Jobs /\ Fits(t, job[t])
      /\ t \in Streams => job[t].op \in {"claim", "restore"} /\ SwitchFits(job[t])
  BY ServiceFacts DEF SourceInv, Fits, ServicePCs, Streaming, Switching
<1>2. ProfileAlone'
  <2>1. job'[t].pc = "idle" \/ job'[t].op = job[t].op
    OBVIOUS
  <2> QED
    BY <2>1, AloneKept DEF SourceInv, QuietPCs
<1>3. ASSUME t \in Streams PROVE SwitchFits(job[t])' /\ (Returns(job[t]) => Returns(job[t])')
  <2>1. /\ job'[t].op = job[t].op /\ job'[t].src = job[t].src
        /\ job'[t].cur = job[t].cur /\ job'[t].ok = job[t].ok
        /\ job[t].op \in {"claim", "restore"} /\ SwitchFits(job[t])
    BY <1>1, <1>3
  <2>2. Returns(job[t]) => Returns(job[t])'
    BY <2>1, <1>3 DEF Returns, ServicePCs, Switching
  <2>3. CASE job[t].pc \in Before /\ job'[t].pc \in Before \ {"enter"}
    <3>1. job[t].pc = "enter" /\ job[t].src # profile.source => job'[t].switch
      BY <1>3, <2>3 DEF Before, After, Return
    <3>2. job[t].pc # "enter" => job'[t].switch = job[t].switch
      BY <1>3, <2>3 DEF Before, After, Return
    <3>3. previous # Esp32
      BY DEF SourceInv
    <3>4. /\ previous' = previous /\ overlap' = overlap /\ profile'.source = profile.source
          /\ job[t].op = "claim" => job[t].src = Esp32 /\ job[t].cur # Esp32
          /\ job[t].op = "restore" => job[t].src = previous
          /\ job[t].op \in {"claim", "restore"}
      BY <2>1 DEF SwitchFits
    <3>5. ASSUME overlap # "profiles"
          PROVE  /\ ~job[t].ok
                 /\ profile.source = (IF job[t].op = "claim" THEN job[t].cur ELSE Esp32)
                 /\ job[t].pc # "enter" => job[t].switch
      BY <2>1, <2>3, <3>5 DEF SwitchFits
    <3>6. ASSUME overlap # "profiles" PROVE job'[t].switch
      <4>1. profile.source = (IF job[t].op = "claim" THEN job[t].cur ELSE Esp32)
        BY <3>5, <3>6
      <4>2. job[t].src # profile.source
        BY <3>3, <3>4, <4>1
      <4> QED
        BY <3>1, <3>2, <3>5, <3>6, <4>2
    <3> HIDE DEF Before, After
    <3>7. /\ job'[t].pc \in Before /\ job'[t].pc # "claimed"
          /\ job[t].op = "claim" => job'[t].src = Esp32 /\ job'[t].cur # Esp32
          /\ job[t].op = "restore" => job'[t].src = previous /\ previous # None
      BY <2>1, <2>3 DEF SwitchFits, Before
    <3> QED
      BY <2>1, <2>2, <2>3, <3>4, <3>5, <3>6, <3>7 DEF SwitchFits
  <2>4. CASE /\ job[t].pc \in Before => failures' # 0
             /\ job'[t].pc \in After \cup {Return(t)}
    <3>1. job'[t].pc \in After \/ job'[t].pc = IF job[t].op = "claim" THEN "claimed" ELSE "forget"
      BY <2>1, <2>4 DEF Return
    <3>2. job'[t].pc \notin Before
      BY <3>1 DEF Before, After
    <3>3. failures' = 0 /\ overlap # "profiles" => job'[t].ok
      BY <2>1, <2>4 DEF SwitchFits
    <3>4. /\ job'[t].pc = "claimed" => job[t].op = "claim"
          /\ job[t].op = "claim" => job'[t].pc \in After \cup {"claimed"}
          /\ job[t].op = "restore" => job'[t].pc \in After \cup {"forget"}
      BY <2>1, <3>1 DEF After
    <3>5. /\ job[t].op = "claim" => job'[t].src = Esp32 /\ job'[t].cur # Esp32
          /\ job[t].op = "restore" => job'[t].src = previous /\ previous # None
      BY <2>1 DEF SwitchFits
    <3> QED
      BY <2>1, <2>2, <3>2, <3>3, <3>4, <3>5 DEF SwitchFits
  <2> QED
    BY <1>3, <2>2, <2>3, <2>4
<1> QED
  BY <1>2, <1>3, SourceFrame

LEMMA GotoInside ==
    ASSUME IInv, SourceInv, NEW t \in Tasks, job[t].pc \in ServicePCs,
           NEW pc, Onward(t, pc), Goto(t, pc),
           UNCHANGED <<previous, chosen, overlap>>, profile'.source = profile.source,
           failures' = 0 => failures = 0,
           t \in Users => pc \notin {"mux", "selected"},
           t \in Streams =>
              \/ job[t].pc \in Before \ {"enter"} /\ pc \in Before \ {"enter"}
              \/ /\ job[t].pc \in Before => failures' # 0
                 /\ pc \in After \cup {Return(t)}
    PROVE  SourceInv'
<1>1. pc \in PCs /\ pc \notin {"streaming", "release"}
  BY DEF Onward, Switching, PCs
<1>2. ~Quiet(t)
  BY DEF Quiet, ServicePCs, Switching
<1>3. /\ Turn(t) /\ job'[t] \in Jobs /\ job'[t].pc = pc
      /\ pc # "idle" =>
            /\ job'[t].op = job[t].op /\ job'[t].src = job[t].src
            /\ job'[t].cur = job[t].cur /\ job'[t].ok = job[t].ok
            /\ job'[t].switch = job[t].switch
  BY <1>1, GotoFields
<1>4. t \in Streams => pc # "idle"
  <2>1. t \in Streams => Return(t) \in {"claimed", "forget"}
    BY ReturnKnown
  <2> QED
    BY <2>1 DEF Before, After
<1>5. t \in Streams => /\ job'[t].switch = job[t].switch
                       /\ job[t].pc = "enter" => pc \in After \cup {Return(t)} /\ failures' # 0
  BY <1>3, <1>4 DEF Before
<1> QED
  BY <1>2, <1>3, <1>4, <1>5, InsideFrame

\* A DSP write that leaves the profile and the routing alone.
LEMMA WriteInside ==
    ASSUME IInv, SourceInv, NEW t \in Tasks, job[t].pc \in ServicePCs,
           NEW cell, NEW value, NEW ok, NEW bad, NEW dirty,
           Write(t, cell, value, ok, bad, dirty), Onward(t, ok), Onward(t, bad),
           UNCHANGED <<previous, chosen, overlap, profile>>,
           t \in Users => ok \notin {"mux", "selected"} /\ bad \notin {"mux", "selected"},
           t \in Streams =>
              \/ job[t].pc \in Before \ {"enter"} /\ {ok, bad} \subseteq Before \ {"enter"}
              \/ /\ job[t].pc \in Before \ {"enter"} /\ ok \in Before \ {"enter"}
                 /\ bad \in After \cup {Return(t)}
              \/ job[t].pc \notin Before /\ {ok, bad} \subseteq After \cup {Return(t)}
    PROVE  SourceInv'
<1>1. failures \in Nat
  BY AudioOutputAssumption DEF IInv, TypeOK
<1>2. \/ Goto(t, ok) /\ failures' = failures
      \/ Goto(t, bad) /\ failures' # 0
  BY <1>1 DEF Write
<1>3. CASE Goto(t, ok) /\ failures' = failures
  BY <1>3, GotoInside
<1>4. CASE Goto(t, bad) /\ failures' # 0
  BY <1>4, GotoInside
<1> QED
  BY <1>2, <1>3, <1>4

LEMMA ServiceSource == ASSUME IInv, SourceInv, NEW t \in Tasks, ServiceStep(t) PROVE SourceInv'
<1>1. /\ job[t] \in Jobs /\ Fits(t, job[t]) /\ DataOK /\ job \in [Tasks -> Jobs]
      /\ t \in Users \/ t \in Streams
      /\ failures \in Nat
  BY ServiceFacts, AudioOutputAssumption DEF DataOK, IInv, TypeOK
<1>2. job[t].pc \in ServicePCs
  BY DEF ServiceStep, Enter, FadeDownTest, FadeStep, SelectMux, Selected, ApplySource,
         ApplyMaster, ApplyRest, FadeUpTest, LevelTest, WriteLevel, AdoptLevel, PowerWrite,
         Persist, At, ServicePCs, Switching
<1>3. /\ t \in Streams => job[t].op \in {"claim", "restore"} /\ job[t].pc \in Switching
      /\ t \in Users => job[t].op \notin {"claim", "restore"}
      /\ (t \in Streams) = (t \notin Users)
      /\ ~Quiet(t)
  BY <1>1, <1>2, AudioOutputAssumption DEF Fits, ServicePCs, Streaming, Switching, Quiet
<1>4. /\ t \in Streams => Return(t) \in {"claimed", "forget"}
      /\ t \in Users => Return(t) \in {"persist", "idle"}
      /\ Onward(t, Return(t))
  BY <1>2, ReturnKnown
<1>5. t \in Users => ~Selecting(t)
  BY <1>3 DEF Selecting
<1>6. CASE Enter(t)
  <2> DEFINE sw == job[t].src # profile.source
             pc == IF sw THEN "fadeDown?" ELSE IF Selecting(t) THEN "mux" ELSE "source"
  <2>1. /\ job' = [job EXCEPT ![t] = [job[t] EXCEPT !.switch = sw, !.val = Master(job[t].lvl),
                                                    !.pc = pc]]
        /\ UNCHANGED <<previous, chosen, overlap, profile, failures>> /\ job[t].pc = "enter"
    BY <1>6 DEF Enter, At, serviceVars, routeVars
  <2>2. Master(job[t].lvl) \in Gains
    BY <1>1, ServiceFacts DEF Jobs
  <2>3. /\ Turn(t) /\ job'[t] \in Jobs /\ job'[t].pc = pc /\ job'[t].switch = sw
        /\ job'[t].op = job[t].op /\ job'[t].src = job[t].src
        /\ job'[t].cur = job[t].cur /\ job'[t].ok = job[t].ok
    BY <1>1, <2>1, <2>2 DEF Turn, Jobs, PCs
  <2>4. /\ pc \in {"fadeDown?", "mux", "source"}
        /\ t \in Users => pc \notin {"mux", "selected"}
        /\ t \in Streams => pc \in {"fadeDown?", "mux"}
    BY <1>3, <1>5 DEF Selecting
  <2>5. job[t].src # profile.source => job'[t].switch
    BY <2>3
  <2> HIDE DEF pc, sw
  <2>6. t \in Streams => job[t].pc \in Before /\ job'[t].pc \in Before \ {"enter"}
    BY <2>1, <2>3, <2>4 DEF Before
  <2> QED
    BY <1>2, <1>3, <2>1, <2>3, <2>4, <2>5, <2>6, InsideFrame
<1>7. CASE FadeDownTest(t)
  <2> DEFINE pc == IF power = "standby" THEN AfterDown(t) ELSE "fadeDown"
  <2>1. /\ job' = [job EXCEPT ![t] = [job[t] EXCEPT !.val = Mute, !.pc = pc]]
        /\ UNCHANGED <<previous, chosen, overlap, profile, failures>> /\ job[t].pc = "fadeDown?"
    BY <1>7 DEF FadeDownTest, At, serviceVars, routeVars
  <2>2. pc \in {"fadeDown", "mux", "source"} /\ Mute \in Gains
    BY DEF AfterDown, Gains
  <2>3. /\ Turn(t) /\ job'[t] \in Jobs /\ job'[t].pc = pc /\ job'[t].switch = job[t].switch
        /\ job'[t].op = job[t].op /\ job'[t].src = job[t].src
        /\ job'[t].cur = job[t].cur /\ job'[t].ok = job[t].ok
    BY <1>1, <2>1, <2>2 DEF Turn, Jobs, PCs
  <2>4. /\ t \in Users => pc \notin {"mux", "selected"}
        /\ t \in Streams => pc \in {"fadeDown", "mux"}
    BY <1>3, <1>5 DEF Selecting, AfterDown
  <2> HIDE DEF pc
  <2>5. t \in Streams => job[t].pc \in Before /\ job'[t].pc \in Before \ {"enter"}
    BY <2>1, <2>3, <2>4 DEF Before
  <2> QED
    BY <1>2, <1>3, <2>1, <2>2, <2>3, <2>4, <2>5, InsideFrame
<1>8. CASE FadeStep(t)
  <2>1. \/ /\ job[t].pc = "fadeDown"
           /\ \E next \in {"fadeDown", AfterDown(t)} : Write(t, "master", Faded, next, next, {"master"})
        \/ /\ job[t].pc = "fadeUp"
           /\ \E next \in {"fadeUp", "level?"} : Write(t, "master", Faded, next, next, {"master"})
    BY <1>8 DEF FadeStep, At
  <2>2. /\ UNCHANGED <<previous, chosen, overlap, profile>>
        /\ job[t].op \in {"profile", "claim", "restore"}
    BY <1>1, <1>8 DEF FadeStep, At, serviceVars, routeVars, Fits, Switching
  <2>3. CASE job[t].pc = "fadeDown"
    <3>1. PICK next \in {"fadeDown", AfterDown(t)} : Write(t, "master", Faded, next, next, {"master"})
      BY <2>1, <2>3
    <3>2. /\ t \in Users => next \in {"fadeDown", "source"}
          /\ t \in Streams => next \in {"fadeDown", "mux"}
      BY <1>3, <1>5, <3>1 DEF AfterDown, Selecting
    <3>3. Onward(t, next)
      BY <1>1, <1>3, <2>2, <3>2 DEF Onward, Switching
    <3>4. t \in Streams => job[t].pc \in Before \ {"enter"} /\ {next} \subseteq Before \ {"enter"}
      BY <2>3, <3>2 DEF Before
    <3> QED
      BY <1>2, <2>2, <3>1, <3>2, <3>3, <3>4, WriteInside
  <2>4. CASE job[t].pc = "fadeUp"
    <3>1. PICK next \in {"fadeUp", "level?"} : Write(t, "master", Faded, next, next, {"master"})
      BY <2>1, <2>4
    <3>2. Onward(t, next)
      BY <2>2 DEF Onward, Switching
    <3>3. job[t].pc \notin Before /\ next \in After
      BY <2>4 DEF Before, After
    <3> QED
      BY <1>2, <2>2, <3>1, <3>2, <3>3, WriteInside
  <2> QED
    BY <2>1, <2>3, <2>4
<1>9. CASE SelectMux(t)
  <2> DEFINE bad == IF job[t].switch THEN "fadeUp?" ELSE Return(t)
  <2>1. /\ Write(t, "source", job[t].src, "selected", bad, {"source"})
        /\ job[t].op \in {"profile", "claim", "restore"} /\ job[t].pc = "mux"
        /\ UNCHANGED <<previous, chosen, overlap, profile>>
    BY <1>1, <1>9 DEF Fits, SelectMux, At, Switching, serviceVars, routeVars
  <2>2. t \in Streams
    BY <1>1, <2>1 DEF SourceInv
  <2>3. Onward(t, "selected") /\ Onward(t, bad)
    BY <1>4, <2>1 DEF Onward, Switching
  <2>4. bad \in After \cup {Return(t)} /\ "selected" \in Before \ {"enter"}
        /\ job[t].pc \in Before \ {"enter"}
    BY <2>1 DEF After, Before
  <2> HIDE DEF bad
  <2> QED
    BY <1>2, <1>3, <2>1, <2>2, <2>3, <2>4, WriteInside
<1>10. CASE Selected(t)
  <2> DEFINE pc == IF job[t].switch THEN "fadeUp?" ELSE Return(t)
  <2>1. /\ job[t].op \in {"claim", "restore"} /\ job[t].pc = "selected" /\ t \in Streams
        /\ job' = [job EXCEPT ![t] = [job[t] EXCEPT !.ok = TRUE, !.pc = pc]]
        /\ profile' = IF job[t].switch THEN [profile EXCEPT !.source = job[t].src] ELSE profile
        /\ UNCHANGED <<previous, chosen, overlap, failures, sink>>
        /\ SwitchFits(job[t])
    BY <1>1, <1>3, <1>10 DEF Selected, At, SourceInv, routeVars
  <2>2. pc \in {"fadeUp?", Return(t)} /\ pc \in PCs
        /\ Return(t) = IF job[t].op = "claim" THEN "claimed" ELSE "forget"
    BY <1>4, <2>1 DEF PCs, Return
  <2>3. /\ Turn(t) /\ job'[t] \in Jobs /\ job'[t].pc = pc /\ job'[t].ok
        /\ job'[t].op = job[t].op /\ job'[t].src = job[t].src
        /\ job'[t].cur = job[t].cur
    BY <1>1, <2>1, <2>2 DEF Turn, Jobs
  <2>4. job[t].switch => profile'.source = job[t].src
    BY <1>1, <2>1 DEF DataOK, Profiles
  <2> HIDE DEF pc
  <2>5. SwitchFits(job[t])'
    <3>1. /\ job'[t].pc \notin Before
          /\ job[t].op = "claim" => job'[t].pc \in After \cup {"claimed"}
          /\ job[t].op = "restore" => job'[t].pc \in After \cup {"forget"}
          /\ job'[t].pc = "claimed" => job[t].op = "claim"
      BY <2>1, <2>2, <2>3 DEF Before, After
    <3>2. /\ job[t].op = "claim" => job'[t].src = Esp32 /\ job'[t].cur # Esp32
          /\ job[t].op = "restore" => job'[t].src = previous' /\ previous' # None
      BY <2>1, <2>3 DEF SwitchFits
    <3> QED
      BY <2>1, <2>3, <3>1, <3>2 DEF SwitchFits
  <2>6. ProfileAlone'
    BY <1>3, <2>1, <2>3, AloneKept DEF SourceInv
  <2>7. SourceKept'
    <3> SUFFICES ASSUME failures = 0, overlap # "profiles", chosen # Esp32
                 PROVE  \/ profile'.source = chosen
                        \/ profile'.source = Esp32 /\ \E u \in Streams : Returns(job[u])'
      BY <2>1 DEF SourceKept, Returns
    <3>1. /\ profile'.source = job[t].src
          /\ profile.source = (IF job[t].op = "claim" THEN job[t].cur ELSE Esp32)
          /\ ~job[t].ok
      BY <2>1, <2>4 DEF SwitchFits, Before
    <3>2. \/ profile.source = chosen
          \/ profile.source = Esp32 /\ Returns(job[t])
      BY <2>1, OnlyHolder DEF SourceInv, SourceKept
    <3>3. CASE job[t].op = "claim"
      <4>1. profile.source # Esp32 /\ profile'.source = Esp32
        BY <2>1, <3>1, <3>3 DEF SwitchFits
      <4>2. job'[t].op = "claim" /\ job'[t].ok /\ job'[t].cur = chosen'
        BY <2>1, <2>3, <3>1, <3>2, <3>3, <4>1
      <4> QED
        BY <2>1, <4>1, <4>2 DEF Returns
    <3>4. CASE job[t].op = "restore"
      <4>1. previous = chosen
        BY <2>1, <3>1, <3>2, <3>4 DEF Returns
      <4> QED
        BY <2>1, <3>1, <3>4, <4>1 DEF SwitchFits
    <3> QED
      BY <2>1, <3>3, <3>4
  <2>8. /\ \A u \in Streams : SwitchFits(job[u])'
        /\ \A u \in Users : job'[u].pc \notin {"mux", "selected"}
    <3>1. \A u \in Streams \ {t} : job[u].pc = "idle" /\ job[u].op \notin {"claim", "restore"}
      BY <2>1, OnlyHolder
    <3>2. \A u \in Streams \ {t} : SwitchFits(job[u])'
      BY <2>3, <3>1 DEF Turn, Tasks, SwitchFits
    <3>3. \A u \in Users : job'[u] = job[u]
      BY <1>3, <2>1, <2>3 DEF Turn, Tasks
    <3> QED
      BY <2>5, <3>2, <3>3 DEF SourceInv
  <2> QED
    BY <2>1, <2>6, <2>7, <2>8 DEF SourceInv
<1>11. CASE ApplySource(t)
  <2>1. /\ Write(t, "source", job[t].src, "master", Failed(t), {"source"})
        /\ job[t].op \in {"profile", "reapply"} /\ t \in Users
        /\ UNCHANGED <<previous, chosen, overlap, profile>>
    BY <1>1, <1>3, <1>11 DEF Fits, ApplySource, At, Switching, serviceVars, routeVars
  <2>2. Onward(t, "master") /\ Onward(t, Failed(t)) /\ Failed(t) \notin {"mux", "selected"}
    BY <1>1, <2>1 DEF Onward, Switching, Failed, Fits
  <2> QED
    BY <1>2, <1>3, <2>1, <2>2, WriteInside
<1>12. CASE ApplyMaster(t)
  <2>1. /\ Write(t, "master", job[t].val, "rest", Failed(t), Cells)
        /\ job[t].op \in {"profile", "reapply"} /\ t \in Users
        /\ UNCHANGED <<previous, chosen, overlap, profile>>
    BY <1>1, <1>3, <1>12 DEF Fits, ApplyMaster, At, Switching, serviceVars, routeVars
  <2>2. Onward(t, "rest") /\ Onward(t, Failed(t)) /\ Failed(t) \notin {"mux", "selected"}
    BY <1>1, <2>1 DEF Onward, Switching, Failed, Fits
  <2> QED
    BY <1>2, <1>3, <2>1, <2>2, WriteInside
<1>13. CASE ApplyRest(t)
  <2>1. /\ job[t].op \in {"profile", "reapply"} /\ t \in Users /\ job[t].pc = "rest"
        /\ UNCHANGED <<previous, overlap, sink>>
        /\ job[t].op = "reapply" => ~job[t].switch
    BY <1>1, <1>3, <1>13 DEF Fits, ApplyRest, At, Switching, routeVars
  <2>2. \/ /\ IF job[t].op = "reapply" THEN UNCHANGED <<profile, chosen>>
              ELSE profile' = [source |-> job[t].src, master |-> job[t].lvl] /\ chosen' = job[t].src
           /\ failures' = failures
        \/ UNCHANGED <<profile, chosen>> /\ failures' # 0
    BY <1>1, <1>13 DEF ApplyRest
  <2>3. \/ \E pc \in {"idle", "persist", Failed(t)} : Goto(t, pc)
        \/ job' = [job EXCEPT ![t] = [job[t] EXCEPT !.ok = TRUE, !.pc = "fadeUp?"]]
    BY <1>13 DEF ApplyRest
  <2>4. /\ Turn(t) /\ job'[t].pc \in {"idle", "persist", "fadeUp?"}
        /\ job'[t].pc = "idle" \/ job'[t].op = job[t].op
    <3>1. CASE \E pc \in {"idle", "persist", Failed(t)} : Goto(t, pc)
      <4>1. PICK pc \in {"idle", "persist", "fadeUp?"} : Goto(t, pc)
        BY <3>1 DEF Failed
      <4> QED
        BY <4>1, GotoFields DEF PCs
    <3>2. CASE job' = [job EXCEPT ![t] = [job[t] EXCEPT !.ok = TRUE, !.pc = "fadeUp?"]]
      BY <1>1, <3>2 DEF Turn, Jobs
    <3> QED
      BY <2>3, <3>1, <3>2
  <2>5. ProfileAlone'
    BY <1>3, <2>1, <2>4, AloneKept DEF SourceInv, QuietPCs
  <2>6. CASE UNCHANGED <<profile, chosen>>
    BY <1>3, <2>1, <2>2, <2>4, <2>5, <2>6, SourceFrame
  <2>7. CASE /\ job[t].op = "profile" /\ failures' = failures
             /\ profile' = [source |-> job[t].src, master |-> job[t].lvl] /\ chosen' = job[t].src
    <3>1. SourceKept'
      BY <2>7 DEF SourceKept
    <3>2. \A u \in Streams : job'[u] = job[u]
      BY <1>3, <2>1, <2>4 DEF Turn, Tasks
    <3>3. overlap # "profiles" => \A u \in Streams : job[u].pc \notin Before
      <4>1. \A u \in Streams : u \in Tasks /\ u # t
        BY <1>3, <2>1 DEF Tasks
      <4>2. overlap # "profiles" => \A u \in Streams : Quiet(u)
        BY <1>3, <2>7, <4>1 DEF SourceInv, ProfileAlone
      <4> QED
        BY <4>2 DEF Quiet, Before
    <3>4. \A u \in Streams : SwitchFits(job[u])'
      BY <2>1, <2>7, <3>2, <3>3 DEF SourceInv, SwitchFits
    <3>5. \A u \in Users : job'[u].pc \notin {"mux", "selected"}
      BY <2>4 DEF SourceInv, Turn, Tasks
    <3> QED
      BY <2>1, <2>5, <3>1, <3>4, <3>5 DEF SourceInv
  <2> QED
    BY <2>1, <2>2, <2>6, <2>7
<1>14. CASE FadeUpTest(t)
  <2> DEFINE pc == IF power = "standby" THEN Return(t) ELSE "fadeUp"
  <2>1. /\ Goto(t, pc) /\ job[t].op \in {"profile", "claim", "restore"} /\ job[t].pc = "fadeUp?"
        /\ UNCHANGED <<previous, chosen, overlap, profile, failures>>
    BY <1>1, <1>14 DEF FadeUpTest, Fits, At, Switching, serviceVars, routeVars
  <2>2. Onward(t, pc) /\ pc \in After \cup {Return(t)} /\ job[t].pc \notin Before
    BY <1>4, <2>1 DEF Onward, Switching, After, Before
  <2>3. t \in Users => pc \notin {"mux", "selected"}
    BY <1>4
  <2> HIDE DEF pc
  <2> QED
    BY <1>2, <2>1, <2>2, <2>3, GotoInside
<1>15. CASE LevelTest(t)
  <2>1. /\ job' = [job EXCEPT ![t] = [job[t] EXCEPT !.val = Master(profile.master), !.pc = "level"]]
        /\ UNCHANGED <<previous, chosen, overlap, profile, failures>> /\ job[t].pc = "level?"
        /\ Master(profile.master) \in Gains
    BY <1>1, <1>15, ServiceFacts DEF LevelTest, At, serviceVars, routeVars, DataOK, Profiles, Gains
  <2>2. /\ Turn(t) /\ job'[t] \in Jobs /\ job'[t].pc = "level"
        /\ job'[t].op = job[t].op /\ job'[t].src = job[t].src
        /\ job'[t].cur = job[t].cur /\ job'[t].ok = job[t].ok
    BY <1>1, <2>1 DEF Turn, Jobs, PCs
  <2>3. job[t].pc \notin Before /\ job'[t].pc \in After
    BY <2>1, <2>2 DEF Before, After
  <2> QED
    BY <1>2, <1>3, <2>1, <2>2, <2>3, InsideFrame
<1>16. CASE WriteLevel(t)
  <2>1. /\ UNCHANGED <<previous, chosen, overlap, profile>> /\ job[t].pc = "level"
    BY <1>16 DEF WriteLevel, At, serviceVars, routeVars
  <2>2. CASE job[t].op = "volume"
    <3>1. t \in Users /\ Onward(t, "adoptLevel") /\ Onward(t, "idle")
      BY <1>1, <1>3, <2>2 DEF Onward
    <3>2. Write(t, "master", job[t].val, "adoptLevel", "idle", {"master"})
      BY <1>16, <2>2 DEF WriteLevel
    <3> QED
      BY <1>2, <1>3, <2>1, <3>1, <3>2, WriteInside
  <2>3. CASE job[t].op # "volume"
    <3>1. Write(t, "master", job[t].val, Return(t), Return(t), {"master"})
      BY <1>16, <2>3 DEF WriteLevel
    <3>2. /\ t \in Users => Return(t) \notin {"mux", "selected"}
          /\ job[t].pc \notin Before
      BY <1>4, <2>1 DEF Before
    <3> QED
      BY <1>2, <1>4, <2>1, <3>1, <3>2, WriteInside
  <2> QED
    BY <2>2, <2>3
<1>17. CASE AdoptLevel(t)
  <2>1. /\ Goto(t, "idle") /\ UNCHANGED <<previous, chosen, overlap, failures>> /\ t \in Users
        /\ profile'.source = profile.source
    BY <1>1, <1>3, <1>17 DEF AdoptLevel, At, Switching, routeVars, DataOK, Profiles
  <2>2. Onward(t, "idle")
    BY <2>1 DEF Onward
  <2> QED
    BY <1>2, <1>3, <2>1, <2>2, GotoInside
<1>18. CASE PowerWrite(t)
  <2>1. /\ Write(t, "master", job[t].val, "idle", "idle", {"master"}) /\ t \in Users
        /\ UNCHANGED <<previous, chosen, overlap, profile>>
    BY <1>1, <1>3, <1>18 DEF PowerWrite, At, Switching, routeVars
  <2>2. Onward(t, "idle")
    BY <2>1 DEF Onward
  <2> QED
    BY <1>2, <1>3, <2>1, <2>2, WriteInside
<1>19. CASE Persist(t)
  <2>1. /\ Goto(t, "idle") /\ UNCHANGED <<previous, chosen, overlap, profile>> /\ t \in Users
    BY <1>3, <1>19 DEF Persist, At, Switching, routeVars
  <2>3. failures' = 0 => failures = 0
    BY <1>1, <1>19 DEF Persist
  <2>2. Onward(t, "idle")
    BY <2>1 DEF Onward
  <2> QED
    BY <1>2, <1>3, <2>1, <2>2, <2>3, GotoInside
<1> QED
  BY <1>6, <1>7, <1>8, <1>9, <1>10, <1>11, <1>12, <1>13, <1>14, <1>15, <1>16, <1>17,
     <1>18, <1>19 DEF ServiceStep

\* Who enters AudioService does not undo what has overlapped.
LEMMA EntersGrows ==
    ASSUME NEW t, NEW op, Enters(t, op)
    PROVE  /\ overlap' # "profiles" => overlap # "profiles"
           /\ overlap' = "no" => overlap = "no" /\ \A u \in Tasks \ {t} : Quiet(u)
BY DEF Enters

LEMMA UserSource == ASSUME IInv, SourceInv, NEW t \in Users, UserCall(t) PROVE SourceInv'
<1>1. /\ job[t] \in Jobs /\ job \in [Tasks -> Jobs] /\ t \in Tasks /\ t \notin Streams
  BY AudioOutputAssumption DEF Tasks, IInv, TypeOK
<1>2. ASSUME NEW pc \in {"enter", "source", "level", "powerWrite", "persist"}, Turn(t),
             job'[t].pc = pc, Enters(t, job'[t].op),
             UNCHANGED <<profile, previous, chosen, failures>>
      PROVE  SourceInv'
  <2>1. ProfileAlone' /\ (overlap' # "profiles" => overlap # "profiles")
    BY <1>1, <1>2, AloneKept, EntersGrows DEF SourceInv
  <2> QED
    BY <1>1, <1>2, <2>1, SourceFrame
<1>3. ASSUME NEW p \in Profiles, ApplyProfile(t, p) PROVE SourceInv'
  <2>1. Turn(t) /\ job'[t].pc = "enter" /\ job'[t].op = "profile"
    BY <1>1, <1>3 DEF ApplyProfile, Jobs, Turn
  <2> QED
    BY <1>2, <1>3, <2>1 DEF ApplyProfile, serviceVars, routeVars
<1>4. ASSUME Reapply(t) PROVE SourceInv'
  <2>1. Turn(t) /\ job'[t].pc = "source" /\ job'[t].op = "reapply"
    BY <1>1, <1>4 DEF Reapply, Jobs, Turn
  <2> QED
    BY <1>2, <1>4, <2>1 DEF Reapply, serviceVars, routeVars
<1>5. ASSUME NEW l \in Levels, SetMasterVolume(t, l) PROVE SourceInv'
  <2>1. Turn(t) /\ job'[t].pc = "level" /\ job'[t].op = "volume"
    BY <1>1, <1>5 DEF SetMasterVolume, Jobs, Turn
  <2> QED
    BY <1>2, <1>5, <2>1 DEF SetMasterVolume, serviceVars, routeVars
<1>6. ASSUME NEW s \in Powers, SetPowerState(t, s) PROVE SourceInv'
  <2>1. Turn(t) /\ job'[t].pc = "powerWrite" /\ job'[t].op = "power"
    BY <1>1, <1>6 DEF SetPowerState, Jobs, Turn
  <2> QED
    BY <1>2, <1>6, <2>1 DEF SetPowerState, routeVars
<1>7. ASSUME SaveProfile(t) PROVE SourceInv'
  <2>1. Turn(t) /\ job'[t].pc = "persist" /\ job'[t].op = "save"
    BY <1>1, <1>7 DEF SaveProfile, Jobs, Turn
  <2> QED
    BY <1>2, <1>7, <2>1 DEF SaveProfile, serviceVars, routeVars
<1>8. ASSUME Upload(t) \/ UploadEnds(t) PROVE SourceInv'
  <2>1. Turn(t) /\ job'[t].pc \in {"uploading", "idle"}
    <3>1. CASE Upload(t)
      BY <1>1, <3>1 DEF Upload, Turn, Jobs
    <3>2. CASE UploadEnds(t)
      BY <1>1, <3>2, GotoFields DEF UploadEnds, PCs
    <3> QED
      BY <1>8, <3>1, <3>2
  <2>2. UNCHANGED <<profile, previous, chosen, failures, overlap>>
    BY <1>8 DEF Upload, UploadEnds, serviceVars
  <2>3. ProfileAlone'
    BY <1>1, <2>1, <2>2, AloneKept DEF SourceInv, QuietPCs
  <2> QED
    BY <1>1, <2>1, <2>2, <2>3, SourceFrame
<1> QED
  BY <1>3, <1>4, <1>5, <1>6, <1>7, <1>8 DEF UserCall

LEMMA StreamSource == ASSUME IInv, SourceInv, NEW t \in Streams, StreamStep(t) PROVE SourceInv'
<1>1. /\ job[t] \in Jobs /\ job \in [Tasks -> Jobs] /\ t \in Tasks /\ t \notin Users
      /\ None \notin Sources /\ chosen \in Sources /\ Esp32 \in Sources
      /\ SwitchFits(job[t]) /\ previous # Esp32 /\ profile.source \in Sources
  BY AudioOutputAssumption DEF Tasks, IInv, TypeOK, SourceInv, Profiles
\* A step between two states outside AudioService.
<1>2. ASSUME NEW pc \in {"claim", "streaming", "restore", "forget", "release", "idle"}, Goto(t, pc),
             UNCHANGED <<profile, chosen, failures, previous, overlap>>,
             job[t].op \notin {"claim", "restore"} \/ pc \in {"streaming", "release", "idle"},
             Returns(job[t]) => \/ profile.source = chosen
                                \/ pc \in {"streaming", "restore"} /\ previous = chosen
      PROVE  SourceInv'
  <2>1. /\ Turn(t) /\ job'[t].pc = pc /\ pc \in PCs
        /\ job'[t].op \notin {"claim", "restore"}
    BY <1>1, <1>2, GotoFields DEF PCs
  <2>2. ProfileAlone'
    BY <1>1, <1>2, <2>1, AloneKept DEF SourceInv, QuietPCs
  <2>3. SwitchFits(job[t])'
    BY <2>1 DEF SwitchFits
  <2>4. Returns(job[t]) => Returns(job[t])' \/ profile.source = chosen
    BY <1>2, <2>1 DEF Returns
  <2> QED
    BY <1>1, <1>2, <2>1, <2>2, <2>3, <2>4, SourceFrame
\* A switch begins.
<1>3. ASSUME NEW op \in {"claim", "restore"}, Enters(t, op), Turn(t),
             job'[t].pc = "enter", job'[t].op = op, ~job'[t].ok,
             op = "claim" => /\ profile.source # Esp32 /\ job'[t].src = Esp32
                             /\ job'[t].cur = profile.source /\ ~Returns(job[t]),
             op = "restore" => /\ profile.source = Esp32 /\ job'[t].src = previous
                               /\ previous # None /\ job[t].op \notin {"claim", "restore"},
             UNCHANGED <<profile, chosen, failures, previous>>
      PROVE  SourceInv'
  <2>1. ProfileAlone' /\ (overlap' # "profiles" => overlap # "profiles")
    BY <1>1, <1>3, AloneKept, EntersGrows DEF SourceInv
  <2>2. SwitchFits(job[t])'
    BY <1>3 DEF SwitchFits, Before
  <2>3. Returns(job[t]) => Returns(job[t])'
    BY <1>3 DEF Returns
  <2> QED
    BY <1>1, <1>3, <2>1, <2>2, <2>3, SourceFrame
<1>4. CASE Acquire(t)
  <2>1. /\ job[t].pc = "idle" /\ Goto(t, "claim")
        /\ UNCHANGED <<profile, chosen, failures, previous, overlap>>
    BY <1>4 DEF Acquire, At, serviceVars
  <2>2. job[t].op \notin {"claim", "restore"} /\ ~Returns(job[t])
    BY <1>1, <2>1 DEF SwitchFits, Returns, Before, After
  <2> QED
    BY <1>2, <2>1, <2>2
<1>5. CASE RingFails(t)
  <2>1. /\ job[t].pc = "claim" /\ Goto(t, "release")
        /\ UNCHANGED <<profile, chosen, failures, previous, overlap>>
    BY <1>5 DEF RingFails, At, serviceVars, routeVars
  <2>2. ~Returns(job[t])
    BY <1>1, <2>1 DEF SwitchFits, Returns, Before, After
  <2> QED
    BY <1>2, <2>1, <2>2
<1>6. CASE Claim(t)
  <2>1. /\ job[t].pc = "claim" /\ UNCHANGED <<profile, chosen, failures, previous>>
    BY <1>6 DEF Claim, At, serviceVars, routeVars
  <2>2. job[t].op \notin {"claim", "restore"} /\ ~Returns(job[t])
    BY <1>1, <2>1 DEF SwitchFits, Returns, Before, After
  <2>3. CASE Goto(t, "streaming") /\ UNCHANGED overlap
    BY <1>2, <2>1, <2>2, <2>3
  <2>4. CASE /\ profile.source # Esp32 /\ Enters(t, "claim")
             /\ job' = [job EXCEPT ![t].op = "claim", ![t].src = Esp32,
                                   ![t].cur = profile.source, ![t].ok = FALSE,
                                   ![t].pc = "enter"]
    <3>1. /\ Turn(t) /\ job'[t].pc = "enter" /\ job'[t].op = "claim" /\ ~job'[t].ok
          /\ job'[t].src = Esp32 /\ job'[t].cur = profile.source
      BY <1>1, <2>4 DEF Turn, Jobs
    <3> QED
      BY <1>3, <2>1, <2>2, <2>4, <3>1
  <2> QED
    BY <1>6, <2>3, <2>4 DEF Claim
<1>7. CASE Claimed(t)
  <2>1. /\ job[t].pc = "claimed" /\ Goto(t, "streaming")
        /\ previous' = IF job[t].ok THEN job[t].cur ELSE previous
        /\ UNCHANGED <<profile, chosen, failures, overlap>>
    BY <1>7 DEF Claimed, At, serviceVars
  <2>2. /\ Turn(t) /\ job'[t].pc = "streaming" /\ job'[t].op = "none"
    BY <1>1, <2>1, GotoFields DEF PCs
  <2>3. /\ job[t].op = "claim" /\ job[t].cur # Esp32
        /\ failures = 0 /\ overlap # "profiles" => job[t].ok
    BY <1>1, <2>1 DEF SwitchFits, Before
  <2>4. previous' # Esp32 /\ SwitchFits(job[t])'
    BY <1>1, <2>1, <2>2, <2>3 DEF SwitchFits
  <2>5. \A u \in Streams \ {t} : job'[u] = job[u] /\ job[u].pc = "idle"
                                 /\ job[u].op \notin {"claim", "restore"}
    BY <2>1, <2>2, OnlyHolder DEF Turn, Tasks
  <2>6. /\ \A u \in Streams : SwitchFits(job[u])'
        /\ \A u \in Users : job'[u].pc \notin {"mux", "selected"}
    BY <1>1, <2>2, <2>4, <2>5 DEF SwitchFits, SourceInv, Turn, Tasks
  <2>7. SourceKept'
    <3>1. ASSUME failures = 0, overlap # "profiles", chosen # Esp32, profile.source = Esp32
          PROVE  Returns(job[t])'
      <4>1. Returns(job[t]) /\ job[t].ok
        BY <1>1, <2>1, <2>3, <3>1, OnlyHolder DEF SourceInv, SourceKept
      <4> QED
        BY <2>1, <2>2, <2>3, <4>1 DEF Returns
    <3> QED
      BY <2>1, <3>1 DEF SourceInv, SourceKept
  <2>8. ProfileAlone'
    BY <1>1, <2>1, <2>2, AloneKept DEF SourceInv, QuietPCs
  <2> QED
    BY <2>4, <2>6, <2>7, <2>8 DEF SourceInv
<1>8. CASE StreamEnds(t)
  <2>1. /\ job[t].pc = "streaming" /\ Goto(t, "restore")
        /\ UNCHANGED <<profile, chosen, failures, previous, overlap>>
    BY <1>8 DEF StreamEnds, At, serviceVars, routeVars
  <2>2. job[t].op \notin {"claim", "restore"} /\ (Returns(job[t]) => previous = chosen)
    BY <1>1, <2>1 DEF SwitchFits, Returns, Before, After
  <2> QED
    BY <1>2, <2>1, <2>2
<1>9. CASE Restore(t)
  <2>1. /\ job[t].pc = "restore" /\ UNCHANGED <<profile, chosen, failures, previous>>
    BY <1>9 DEF Restore, At, serviceVars, routeVars
  <2>2. job[t].op \notin {"claim", "restore"} /\ (Returns(job[t]) => previous = chosen)
    BY <1>1, <2>1 DEF SwitchFits, Returns, Before, After
  <2>3. CASE previous = None /\ Goto(t, "release") /\ UNCHANGED overlap
    BY <1>1, <1>2, <2>1, <2>2, <2>3
  <2>4. CASE profile.source # Esp32 /\ Goto(t, "forget") /\ UNCHANGED overlap
    <3>1. /\ Turn(t) /\ job'[t].pc = "forget" /\ job'[t].op = job[t].op
      BY <1>1, <2>4, GotoFields DEF PCs
    <3>2. ProfileAlone'
      BY <1>1, <2>4, <3>1, AloneKept DEF SourceInv, QuietPCs
    <3>3. SwitchFits(job[t])'
      BY <2>2, <3>1 DEF SwitchFits
    <3>4. SourceKept'
      BY <2>1, <2>4 DEF SourceInv, SourceKept
    <3>5. /\ \A u \in Streams : SwitchFits(job[u])'
          /\ \A u \in Users : job'[u].pc \notin {"mux", "selected"}
      <4>1. \A u \in Streams \ {t} : job'[u] = job[u] /\ job[u].pc = "idle"
                                     /\ job[u].op \notin {"claim", "restore"}
        BY <2>1, <3>1, OnlyHolder DEF Turn, Tasks
      <4> QED
        BY <1>1, <3>1, <3>3, <4>1 DEF SwitchFits, SourceInv, Turn, Tasks
    <3> QED
      BY <1>1, <2>1, <3>2, <3>4, <3>5 DEF SourceInv
  <2>5. CASE /\ previous # None /\ profile.source = Esp32 /\ Enters(t, "restore")
             /\ job' = [job EXCEPT ![t].op = "restore", ![t].src = previous,
                                   ![t].ok = FALSE, ![t].pc = "enter"]
    <3>1. /\ Turn(t) /\ job'[t].pc = "enter" /\ job'[t].op = "restore" /\ ~job'[t].ok
          /\ job'[t].src = previous
      BY <1>1, <2>5 DEF Turn, Jobs
    <3> QED
      BY <1>3, <2>1, <2>2, <2>5, <3>1
  <2> QED
    BY <1>9, <2>3, <2>4, <2>5 DEF Restore
<1>10. CASE Forget(t)
  <2>1. /\ job[t].pc = "forget" /\ Goto(t, "release") /\ previous' = None
        /\ UNCHANGED <<profile, chosen, failures, overlap>>
    BY <1>10 DEF Forget, At, serviceVars
  <2>2. /\ Turn(t) /\ job'[t].pc = "release" /\ job'[t].op = "none"
    BY <1>1, <2>1, GotoFields DEF PCs
  <2>3. SwitchFits(job[t])' /\ previous' # Esp32
    BY <1>1, <2>1, <2>2 DEF SwitchFits
  <2>4. \A u \in Streams \ {t} : job'[u] = job[u] /\ job[u].pc = "idle"
                                 /\ job[u].op \notin {"claim", "restore"}
    BY <2>1, <2>2, OnlyHolder DEF Turn, Tasks
  <2>5. /\ \A u \in Streams : SwitchFits(job[u])'
        /\ \A u \in Users : job'[u].pc \notin {"mux", "selected"}
    BY <1>1, <2>2, <2>3, <2>4 DEF SwitchFits, SourceInv, Turn, Tasks
  <2>6. SourceKept'
    <3>1. failures = 0 /\ overlap # "profiles" => ~Returns(job[t])
      BY <1>1, <2>1 DEF SwitchFits, Returns, Before, After
    <3>2. failures = 0 /\ overlap # "profiles" /\ chosen # Esp32 => profile.source = chosen
      BY <2>1, <3>1, OnlyHolder DEF SourceInv, SourceKept
    <3> QED
      BY <2>1, <3>2 DEF SourceKept
  <2>7. ProfileAlone'
    BY <1>1, <2>1, <2>2, AloneKept DEF SourceInv, QuietPCs
  <2> QED
    BY <2>3, <2>5, <2>6, <2>7 DEF SourceInv
<1>11. CASE Release(t)
  <2>1. /\ job[t].pc = "release" /\ Goto(t, "idle")
        /\ UNCHANGED <<profile, chosen, failures, previous, overlap>>
    BY <1>11 DEF Release, At, serviceVars
  <2>2. ~Returns(job[t])
    BY <1>1, <2>1 DEF SwitchFits, Returns, Before, After
  <2> QED
    BY <1>2, <2>1, <2>2
<1> QED
  BY <1>4, <1>5, <1>6, <1>7, <1>8, <1>9, <1>10, <1>11 DEF StreamStep

(* Once the sink is free and nothing failed, the input is the one the user *)
(* chose last, however streams, volume changes and standby have overlapped.*)
THEOREM SourceRestoredHolds == Spec => []SourceRestored
<1>1. Init => SourceInv
  <2> SUFFICES ASSUME Init PROVE SourceInv
    OBVIOUS
  <2>1. /\ profile.source = chosen /\ previous = None
        /\ \A t \in Tasks : job[t].pc = "idle" /\ job[t].op = "none"
    BY DEF Init, NoCall
  <2>2. None # Esp32
    BY AudioOutputAssumption
  <2> QED
    BY <2>1, <2>2 DEF SourceInv, ProfileAlone, SourceKept, SwitchFits, Quiet, Tasks
<1>2. IInv /\ SourceInv /\ [Next]_vars => SourceInv'
  <2> SUFFICES ASSUME IInv, SourceInv, [Next]_vars PROVE SourceInv'
    OBVIOUS
  <2>1. CASE UNCHANGED vars
    BY <2>1 DEF vars, SourceInv, ProfileAlone, SourceKept, SwitchFits, Returns, Quiet
  <2>2. CASE Next
    BY <2>2, UserSource, ServiceSource, StreamSource DEF Next
  <2> QED
    BY <2>1, <2>2
<1>3. IInv /\ SourceInv => SourceRestored
  <2> SUFFICES ASSUME IInv, SourceInv, sink = None, NEW t \in Streams
               PROVE  ~Returns(job[t])
    BY DEF SourceInv, SourceKept, SourceRestored
  <2>1. job[t].pc = "idle"
    BY AudioOutputAssumption DEF IInv, SinkHeld, Tasks
  <2> QED
    BY <2>1 DEF SourceInv, SwitchFits, Returns, Before, After
<1> QED
  BY <1>1, <1>2, <1>3, Inductive, PTL DEF Spec

-----------------------------------------------------------------------------
(* The DSP and the profile, over calls that do not overlap. *)

SourceAgrees == "source" \in sure => dsp.source = profile.source
MasterAgrees == "master" \in sure => dsp.master = Master(profile.master)

\* A fade has left the master gain somewhere below the level, and the call
\* will bring it back.
Dimmed(j) == j.switch /\ power = "on"

\* What the call under way has done to the cells so far.
InCall(j) ==
    /\ j.pc \in {"enter", "fadeDown?", "persist"} => SourceAgrees /\ MasterAgrees
    /\ j.pc = "fadeDown?" => j.switch
    /\ j.pc = "fadeDown" => SourceAgrees /\ Dimmed(j)
    /\ j.pc = "mux" => SourceAgrees
    /\ j.pc \in {"mux", "selected"} => /\ MasterAgrees \/ Dimmed(j)
                                       /\ j.switch \/ j.src = profile.source
    /\ j.pc = "selected" => dsp.source = j.src
    /\ j.pc = "source" => SourceAgrees
    /\ j.pc \in {"source", "master"} => MasterAgrees \/ Dimmed(j)
    /\ j.pc \in {"source", "master", "rest"} => j.val = Master(j.lvl) \/ Dimmed(j)
    /\ j.pc \in {"master", "rest"} => dsp.source = j.src
    /\ j.pc = "rest" => dsp.master = j.val
    /\ j.op = "reapply" => j.src = profile.source /\ j.lvl = profile.master
    /\ j.pc = "fadeUp?" => SourceAgrees /\ (MasterAgrees \/ power = "on")
    /\ j.pc \in {"fadeUp", "level?"} => SourceAgrees /\ power = "on"
    /\ j.pc = "level" => /\ SourceAgrees
                         /\ IF j.op = "volume" THEN j.val = Master(j.lvl) /\ MasterAgrees
                            ELSE j.val = Master(profile.master)
    /\ j.pc = "adoptLevel" => SourceAgrees /\ dsp.master = Master(j.lvl)
    /\ j.pc = "powerWrite" => SourceAgrees /\ j.val = Master(profile.master)

DspInv ==
    overlap = "no" =>
       /\ \A t, u \in Tasks : t # u => Quiet(t) \/ Quiet(u)
       /\ Rest => SourceAgrees /\ MasterAgrees
       /\ \A t \in Tasks : ~Quiet(t) => InCall(job[t])

\* A step inside AudioService.
LEMMA DspInside ==
    ASSUME DspInv, NEW t \in Tasks, ~Quiet(t), Turn(t), UNCHANGED overlap,
           overlap = "no" /\ InCall(job[t]) =>
              IF job'[t].pc \in QuietPCs THEN SourceAgrees' /\ MasterAgrees' ELSE InCall(job[t])'
    PROVE  DspInv'
<1> SUFFICES ASSUME overlap = "no" PROVE DspInv'
  BY DEF DspInv
<1>1. /\ \A u \in Tasks \ {t} : Quiet(u) /\ job'[u] = job[u]
      /\ InCall(job[t])
  BY DEF DspInv, Turn
<1>2. \A u \in Tasks : Quiet(u)' = (job'[u].pc \in QuietPCs) /\ Quiet(u) = (job[u].pc \in QuietPCs)
  BY DEF Quiet, QuietPCs
<1>3. \A u \in Tasks \ {t} : Quiet(u)'
  BY <1>1, <1>2
<1>4. IF Quiet(t)' THEN SourceAgrees' /\ MasterAgrees' ELSE InCall(job[t])'
  BY <1>1, <1>2
<1>5. Rest' => Quiet(t)'
  BY DEF Rest
<1> QED
  BY <1>3, <1>4, <1>5 DEF DspInv

\* A step outside.
LEMMA DspOutside ==
    ASSUME DspInv, NEW t \in Tasks, Quiet(t), Turn(t), job'[t].pc \in QuietPCs,
           UNCHANGED <<overlap, profile, power, dsp, sure>>
    PROVE  DspInv'
<1>1. \A u \in Tasks : Quiet(u)' = (job'[u].pc \in QuietPCs) /\ Quiet(u) = (job[u].pc \in QuietPCs)
  BY DEF Quiet, QuietPCs
<1>2. \A u \in Tasks : Quiet(u)' = Quiet(u) /\ (~Quiet(u) => job'[u] = job[u])
  BY <1>1 DEF Turn
<1>3. Rest' = Rest /\ SourceAgrees' = SourceAgrees /\ MasterAgrees' = MasterAgrees
  BY <1>2 DEF Rest, SourceAgrees, MasterAgrees, Master
<1>4. \A u \in Tasks : ~Quiet(u) /\ InCall(job[u]) => InCall(job[u])'
  BY <1>2, <1>3 DEF InCall, Dimmed, Master
<1> QED
  BY <1>2, <1>3, <1>4 DEF DspInv

\* A call begins.
LEMMA DspEnters ==
    ASSUME DspInv, NEW t \in Tasks, Quiet(t), Turn(t), NEW op, Enters(t, op),
           SourceAgrees /\ MasterAgrees => InCall(job[t])', job'[t].pc \notin QuietPCs
    PROVE  DspInv'
<1> SUFFICES ASSUME overlap' = "no" PROVE DspInv'
  BY DEF DspInv
<1>1. overlap = "no" /\ \A u \in Tasks \ {t} : Quiet(u)
  BY EntersGrows
<1>2. Rest
  BY <1>1 DEF Rest
<1>3. InCall(job[t])'
  BY <1>1, <1>2 DEF DspInv
<1>4. \A u \in Tasks \ {t} : Quiet(u)'
  BY <1>1 DEF Turn, Quiet
<1>5. ~Quiet(t)'
  BY DEF Quiet, QuietPCs
<1> QED
  BY <1>3, <1>4, <1>5 DEF DspInv, Rest

\* What a write does to the other cell, to its own, and to the call.
LEMMA MasterWrite ==
    ASSUME IInv, NEW t \in Tasks, NEW v \in Gains, NEW ok, NEW bad, NEW dirty \in SUBSET Cells,
           "master" \in dirty, Write(t, "master", v, ok, bad, dirty)
    PROVE  /\ dsp'.source = dsp.source /\ ("source" \in sure' => "source" \in sure \ {c \in dirty : failures' # failures})
           /\ \/ Goto(t, ok) /\ dsp'.master = v /\ failures' = failures
              \/ Goto(t, bad) /\ "master" \notin sure' /\ failures' # failures
<1>1. dsp \in [source : Sources, master : Gains] /\ failures \in Nat
  BY AudioOutputAssumption DEF IInv, TypeOK
<1>2. [dsp EXCEPT !["master"] = v].source = dsp.source /\ [dsp EXCEPT !["master"] = v].master = v
  BY <1>1
<1> QED
  BY <1>1, <1>2 DEF Write, Cells

LEMMA SourceWrite ==
    ASSUME IInv, NEW t \in Tasks, NEW v \in Sources, NEW ok, NEW bad,
           Write(t, "source", v, ok, bad, {"source"})
    PROVE  /\ dsp'.master = dsp.master /\ ("master" \in sure' => "master" \in sure)
           /\ \/ Goto(t, ok) /\ dsp'.source = v
              \/ Goto(t, bad) /\ "source" \notin sure'
<1>1. dsp \in [source : Sources, master : Gains]
  BY DEF IInv, TypeOK
<1>2. [dsp EXCEPT !["source"] = v].source = v /\ [dsp EXCEPT !["source"] = v].master = dsp.master
  BY <1>1
<1> QED
  BY <1>1, <1>2 DEF Write, Cells

\* What a step inside AudioService jumps to keeps the locals it has.
LEMMA Jump ==
    ASSUME IInv, NEW t \in Tasks, NEW pc \in PCs, Goto(t, pc)
    PROVE  /\ Turn(t) /\ job'[t].pc = pc
           /\ pc \notin QuietPCs =>
                 /\ job'[t].op = job[t].op /\ job'[t].src = job[t].src
                 /\ job'[t].lvl = job[t].lvl /\ job'[t].val = job[t].val
                 /\ job'[t].switch = job[t].switch
BY GotoFields DEF QuietPCs

LEMMA ServiceDsp == ASSUME IInv, DspInv, NEW t \in Tasks, ServiceStep(t) PROVE DspInv'
<1>1. /\ job[t] \in Jobs /\ Fits(t, job[t]) /\ DataOK /\ job \in [Tasks -> Jobs]
      /\ t \in Users \/ t \in Streams
  BY ServiceFacts DEF IInv, TypeOK
<1>2. job[t].pc \in ServicePCs
  BY DEF ServiceStep, Enter, FadeDownTest, FadeStep, SelectMux, Selected, ApplySource,
         ApplyMaster, ApplyRest, FadeUpTest, LevelTest, WriteLevel, AdoptLevel, PowerWrite,
         Persist, At, ServicePCs, Switching
<1>3. ~Quiet(t)
  BY <1>2 DEF ServicePCs, Switching, Quiet
\* What a call returns to: the end of it, or the save of the profile.
<1>4. Return(t) \in {"claimed", "forget", "persist", "idle"}
  BY DEF Return
<1>5. ASSUME NEW pc \in {"claimed", "forget", "persist", "idle"}, Goto(t, pc), UNCHANGED overlap,
             overlap = "no" /\ InCall(job[t]) => SourceAgrees' /\ MasterAgrees',
             job[t].op # "reapply" \/ pc = "idle"
      PROVE  DspInv'
  <2>1. /\ Turn(t) /\ job'[t].pc = pc
        /\ pc = "persist" => job'[t].op = job[t].op
    BY <1>5, Jump DEF PCs, QuietPCs
  <2>2. SourceAgrees' /\ MasterAgrees' =>
           IF job'[t].pc \in QuietPCs THEN SourceAgrees' /\ MasterAgrees' ELSE InCall(job[t])'
    BY <1>5, <2>1 DEF InCall, QuietPCs
  <2> QED
    BY <1>3, <1>5, <2>1, <2>2, DspInside
<1>6. job[t].op = "reapply" => ~job[t].switch /\ Return(t) = "idle"
  BY <1>1 DEF Fits, Return
<1>7. CASE Enter(t)
  <2> DEFINE sw == job[t].src # profile.source
             pc == IF sw THEN "fadeDown?" ELSE IF Selecting(t) THEN "mux" ELSE "source"
  <2>1. /\ job' = [job EXCEPT ![t] = [job[t] EXCEPT !.switch = sw, !.val = Master(job[t].lvl),
                                                    !.pc = pc]]
        /\ UNCHANGED <<profile, power, dsp, sure, overlap>> /\ job[t].pc = "enter"
    BY <1>7 DEF Enter, At, serviceVars, routeVars
  <2>2. job[t].op # "reapply"
    BY <1>1, <2>1 DEF Fits, Switching
  <2>3. /\ Turn(t) /\ job'[t].pc = pc
        /\ job'[t].op = job[t].op /\ job'[t].src = job[t].src /\ job'[t].lvl = job[t].lvl
    BY <1>1, <2>1 DEF Turn, Jobs
  <2>4. job'[t].val = Master(job[t].lvl) /\ (job[t].src # profile.source => job'[t].switch)
    BY <1>1, <2>1 DEF Jobs
  <2>5. /\ pc \in {"fadeDown?", "mux", "source"}
        /\ pc = "fadeDown?" <=> job[t].src # profile.source
    OBVIOUS
  <2> HIDE DEF pc, sw
  <2>6. SourceAgrees /\ MasterAgrees => InCall(job[t])'
    <3>1. SourceAgrees /\ MasterAgrees => SourceAgrees' /\ MasterAgrees'
      BY <2>1 DEF SourceAgrees, MasterAgrees, Master
    <3>2. job'[t].val = Master(job[t].lvl)'
      BY <2>1, <2>3, <2>4 DEF Master
    <3>3. pc # "fadeDown?" => job'[t].src = profile'.source
      BY <2>1, <2>3, <2>5
    <3>4. pc = "fadeDown?" => job'[t].switch
      BY <2>4, <2>5
    <3> QED
      BY <2>2, <2>3, <2>5, <3>1, <3>2, <3>3, <3>4 DEF InCall
  <2>7. InCall(job[t]) => SourceAgrees /\ MasterAgrees
    BY <2>1 DEF InCall
  <2>8. job'[t].pc \notin QuietPCs
    BY <2>3, <2>5 DEF QuietPCs
  <2> QED
    BY <1>3, <2>1, <2>3, <2>6, <2>7, <2>8, DspInside
<1>8. CASE FadeDownTest(t)
  <2> DEFINE pc == IF power = "standby" THEN AfterDown(t) ELSE "fadeDown"
  <2>1. /\ job' = [job EXCEPT ![t] = [job[t] EXCEPT !.val = Mute, !.pc = pc]]
        /\ UNCHANGED <<profile, power, dsp, sure, overlap>> /\ job[t].pc = "fadeDown?"
        /\ power \in Powers
    BY <1>1, <1>8 DEF FadeDownTest, At, serviceVars, routeVars, DataOK
  <2>2. job[t].op # "reapply"
    BY <1>1, <2>1 DEF Fits, Switching
  <2>3. /\ Turn(t) /\ job'[t].pc = pc /\ job'[t].val = Mute
        /\ job'[t].op = job[t].op /\ job'[t].src = job[t].src /\ job'[t].lvl = job[t].lvl
        /\ job'[t].switch = job[t].switch
    BY <1>1, <2>1 DEF Turn, Jobs
  <2>4. /\ pc \in {"fadeDown", "mux", "source"}
        /\ pc = "fadeDown" <=> power = "on"
        /\ power \in {"on", "standby"}
    BY <2>1 DEF AfterDown, Powers
  <2> HIDE DEF pc
  <2>5. InCall(job[t]) => InCall(job[t])'
    <3>1. InCall(job[t]) => SourceAgrees' /\ MasterAgrees' /\ job'[t].switch
      BY <2>1, <2>3 DEF InCall, SourceAgrees, MasterAgrees, Master
    <3>2. power # "on" => job'[t].val = Master(job[t].lvl)'
      BY <2>1, <2>3, <2>4 DEF Master
    <3>3. power = "on" /\ job'[t].switch => Dimmed(job[t])'
      BY <2>1 DEF Dimmed
    <3> QED
      BY <2>1, <2>2, <2>3, <2>4, <3>1, <3>2, <3>3 DEF InCall
  <2>6. job'[t].pc \notin QuietPCs
    BY <2>3, <2>4 DEF QuietPCs
  <2> QED
    BY <1>3, <2>1, <2>3, <2>5, <2>6, DspInside
\* A write that fails in a fade or leads on in one.
<1>9. CASE FadeStep(t)
  <2>1. /\ UNCHANGED <<profile, power, overlap>> /\ Faded \in Gains
        /\ {"master"} \in SUBSET Cells /\ job[t].op # "reapply" /\ power \in Powers
    BY <1>1, <1>9 DEF FadeStep, At, serviceVars, Gains, Cells, Fits, Switching, DataOK
  <2>2. CASE job[t].pc = "fadeDown"
    <3>1. PICK next \in {"fadeDown", "mux", "source"} : Write(t, "master", Faded, next, next, {"master"})
      BY <1>9, <2>2 DEF FadeStep, At, AfterDown
    <3>2. /\ Goto(t, next) /\ dsp'.source = dsp.source /\ ("source" \in sure' => "source" \in sure)
      BY <2>1, <3>1, MasterWrite
    <3>3. /\ Turn(t) /\ job'[t].pc = next /\ job'[t].pc \notin QuietPCs
          /\ job'[t].op = job[t].op /\ job'[t].switch = job[t].switch
      BY <3>2, Jump DEF PCs, QuietPCs
    <3>4. InCall(job[t]) => SourceAgrees' /\ Dimmed(job[t])'
      BY <2>1, <2>2, <3>2, <3>3 DEF InCall, SourceAgrees, Dimmed
    <3>5. SourceAgrees' /\ Dimmed(job[t])' => InCall(job[t])'
      <4>1. Dimmed(job[t])' => job'[t].switch
        BY DEF Dimmed
      <4> QED
        BY <2>1, <3>1, <3>3, <4>1 DEF InCall
    <3> QED
      BY <1>3, <2>1, <3>3, <3>4, <3>5, DspInside
  <2>3. CASE job[t].pc = "fadeUp"
    <3>1. PICK next \in {"fadeUp", "level?"} : Write(t, "master", Faded, next, next, {"master"})
      BY <1>9, <2>3 DEF FadeStep, At
    <3>2. /\ Goto(t, next) /\ dsp'.source = dsp.source /\ ("source" \in sure' => "source" \in sure)
      BY <2>1, <3>1, MasterWrite
    <3>3. /\ Turn(t) /\ job'[t].pc = next /\ job'[t].pc \notin QuietPCs
          /\ job'[t].op = job[t].op
      BY <3>2, Jump DEF PCs, QuietPCs
    <3>4. InCall(job[t]) => SourceAgrees' /\ power' = "on"
      BY <2>1, <2>3, <3>2 DEF InCall, SourceAgrees
    <3>5. SourceAgrees' /\ power' = "on" => InCall(job[t])'
      BY <2>1, <3>1, <3>3 DEF InCall
    <3> QED
      BY <1>3, <2>1, <3>3, <3>4, <3>5, DspInside
  <2> QED
    BY <1>9, <2>2, <2>3 DEF FadeStep, At
<1>10. CASE SelectMux(t)
  <2> DEFINE bad == IF job[t].switch THEN "fadeUp?" ELSE Return(t)
  <2>1. /\ Write(t, "source", job[t].src, "selected", bad, {"source"})
        /\ job[t].op # "reapply" /\ job[t].pc = "mux" /\ job[t].src \in Sources
        /\ UNCHANGED <<profile, power, overlap>>
    BY <1>1, <1>10 DEF Fits, SelectMux, At, Switching, serviceVars, Jobs
  <2>2. bad \in PCs /\ "selected" \in PCs
    BY <1>4 DEF PCs
  <2> HIDE DEF bad
  <2>3. /\ dsp'.master = dsp.master /\ ("master" \in sure' => "master" \in sure)
        /\ \/ Goto(t, "selected") /\ dsp'.source = job[t].src
           \/ Goto(t, bad) /\ "source" \notin sure'
    BY <2>1, SourceWrite
  <2>4. MasterAgrees => MasterAgrees'
    BY <2>1, <2>3 DEF MasterAgrees, Master
  <2>5. CASE Goto(t, "selected") /\ dsp'.source = job[t].src
    <3>1. /\ Turn(t) /\ job'[t].pc = "selected" /\ job'[t].pc \notin QuietPCs
          /\ job'[t].op = job[t].op /\ job'[t].src = job[t].src /\ job'[t].switch = job[t].switch
      BY <2>2, <2>5, Jump DEF QuietPCs
    <3>2. InCall(job[t]) => /\ MasterAgrees' \/ Dimmed(job[t])'
                            /\ job'[t].switch \/ job'[t].src = profile'.source
      BY <2>1, <2>4, <3>1 DEF InCall, Dimmed
    <3>3. InCall(job[t]) => InCall(job[t])'
      BY <2>1, <2>5, <3>1, <3>2 DEF InCall
    <3> QED
      BY <1>3, <2>1, <3>1, <3>3, DspInside
  <2>6. CASE Goto(t, bad) /\ "source" \notin sure'
    <3>1. SourceAgrees'
      BY <2>6 DEF SourceAgrees
    <3>2. CASE job[t].switch
      <4>1. /\ Turn(t) /\ job'[t].pc = "fadeUp?" /\ job'[t].pc \notin QuietPCs /\ job'[t].op = job[t].op
        BY <2>2, <2>6, <3>2, Jump DEF QuietPCs, bad
      <4>2. InCall(job[t]) => MasterAgrees' \/ power' = "on"
        BY <2>1, <2>4 DEF InCall, Dimmed
      <4>3. InCall(job[t]) => InCall(job[t])'
        BY <2>1, <3>1, <4>1, <4>2 DEF InCall
      <4> QED
        BY <1>3, <2>1, <4>1, <4>3, DspInside
    <3>3. CASE ~job[t].switch
      <4>1. Goto(t, Return(t))
        BY <2>6, <3>3 DEF bad
      <4>2. InCall(job[t]) => MasterAgrees'
        BY <2>1, <2>4, <3>3 DEF InCall, Dimmed
      <4> QED
        BY <1>4, <1>5, <2>1, <3>1, <4>1, <4>2
    <3> QED
      BY <3>2, <3>3
  <2> QED
    BY <2>3, <2>5, <2>6
<1>11. CASE Selected(t)
  <2> DEFINE pc == IF job[t].switch THEN "fadeUp?" ELSE Return(t)
  <2>1. /\ job[t].op # "reapply" /\ job[t].pc = "selected"
        /\ job' = [job EXCEPT ![t] = [job[t] EXCEPT !.ok = TRUE, !.pc = pc]]
        /\ profile' = IF job[t].switch THEN [profile EXCEPT !.source = job[t].src] ELSE profile
        /\ UNCHANGED <<power, dsp, sure, overlap>>
    BY <1>1, <1>11 DEF Selected, At, Fits, Switching
  <2>2. Turn(t) /\ job'[t].pc = pc /\ job'[t].op = job[t].op
    BY <1>1, <2>1 DEF Turn, Jobs
  <2>3. profile'.master = profile.master /\ (job[t].switch => profile'.source = job[t].src)
        /\ (~job[t].switch => profile' = profile)
    BY <1>1, <2>1 DEF DataOK, Profiles
  <2>4. InCall(job[t]) => SourceAgrees'
    BY <2>1, <2>3 DEF InCall, SourceAgrees
  <2>5. InCall(job[t]) => MasterAgrees' \/ (job[t].switch /\ power' = "on")
    BY <2>1, <2>3 DEF InCall, MasterAgrees, Dimmed, Master
  <2>6. job[t].switch => pc = "fadeUp?"
    OBVIOUS
  <2>7. ~job[t].switch => pc \in {"claimed", "forget", "persist", "idle"}
    BY <1>4
  <2> HIDE DEF pc
  <2>8. InCall(job[t]) => IF job'[t].pc \in QuietPCs THEN SourceAgrees' /\ MasterAgrees'
                          ELSE InCall(job[t])'
    <3>1. CASE job[t].switch
      BY <2>1, <2>2, <2>4, <2>5, <2>6, <3>1 DEF InCall, QuietPCs
    <3>2. CASE ~job[t].switch
      BY <2>1, <2>2, <2>4, <2>5, <2>7, <3>2 DEF InCall, QuietPCs
    <3> QED
      BY <3>1, <3>2
  <2> QED
    BY <1>3, <2>1, <2>2, <2>8, DspInside
<1>12. CASE ApplySource(t)
  <2>1. /\ Write(t, "source", job[t].src, "master", Failed(t), {"source"})
        /\ job[t].pc = "source" /\ job[t].src \in Sources
        /\ UNCHANGED <<profile, power, overlap>>
    BY <1>1, <1>12 DEF ApplySource, At, serviceVars, Jobs
  <2>2. /\ dsp'.master = dsp.master /\ ("master" \in sure' => "master" \in sure)
        /\ \/ Goto(t, "master") /\ dsp'.source = job[t].src
           \/ Goto(t, Failed(t)) /\ "source" \notin sure'
    BY <2>1, SourceWrite
  <2>3. MasterAgrees => MasterAgrees'
    BY <2>1, <2>2 DEF MasterAgrees, Master
  <2>4. CASE Goto(t, "master") /\ dsp'.source = job[t].src
    <3>1. /\ Turn(t) /\ job'[t].pc = "master" /\ job'[t].pc \notin QuietPCs
          /\ job'[t].op = job[t].op /\ job'[t].src = job[t].src /\ job'[t].switch = job[t].switch
          /\ job'[t].lvl = job[t].lvl /\ job'[t].val = job[t].val
      BY <2>4, Jump DEF QuietPCs, PCs
    <3>2. /\ Dimmed(job[t]) => Dimmed(job[t])'
          /\ job[t].val = Master(job[t].lvl) => job'[t].val = Master(job[t].lvl)'
      BY <2>1, <3>1 DEF Dimmed, Master
    <3>3. InCall(job[t]) => InCall(job[t])'
      BY <2>1, <2>3, <2>4, <3>1, <3>2 DEF InCall
    <3> QED
      BY <1>3, <2>1, <3>1, <3>3, DspInside
  <2>5. CASE Goto(t, Failed(t)) /\ "source" \notin sure'
    <3>1. SourceAgrees' /\ (InCall(job[t]) => MasterAgrees' \/ Dimmed(job[t]))
      BY <2>1, <2>3, <2>5 DEF SourceAgrees, InCall
    <3>2. CASE job[t].switch
      <4>1. /\ Turn(t) /\ job'[t].pc = "fadeUp?" /\ job'[t].pc \notin QuietPCs /\ job'[t].op = job[t].op
        BY <2>5, <3>2, Jump DEF QuietPCs, PCs, Failed
      <4>2. job'[t].op # "reapply"
        BY <1>6, <3>2, <4>1
      <4>3. InCall(job[t]) => InCall(job[t])'
        BY <2>1, <3>1, <4>1, <4>2 DEF InCall, Dimmed
      <4> QED
        BY <1>3, <2>1, <4>1, <4>3, DspInside
    <3>3. CASE ~job[t].switch
      <4>1. Goto(t, "idle") /\ (InCall(job[t]) => MasterAgrees')
        BY <2>5, <3>1, <3>3 DEF Failed, Dimmed
      <4> QED
        BY <1>5, <2>1, <3>1, <4>1
    <3> QED
      BY <3>2, <3>3
  <2> QED
    BY <2>2, <2>4, <2>5
<1>13. CASE ApplyMaster(t)
  <2>1. /\ Write(t, "master", job[t].val, "rest", Failed(t), Cells)
        /\ job[t].pc = "master" /\ job[t].val \in Gains /\ "master" \in Cells /\ "source" \in Cells
        /\ UNCHANGED <<profile, power, overlap>>
    BY <1>1, <1>13 DEF ApplyMaster, At, serviceVars, Jobs, Cells
  <2>2. /\ dsp'.source = dsp.source
        /\ "source" \in sure' => "source" \in sure \ {c \in Cells : failures' # failures}
        /\ \/ Goto(t, "rest") /\ dsp'.master = job[t].val
           \/ Goto(t, Failed(t)) /\ "master" \notin sure' /\ failures' # failures
    BY <2>1, MasterWrite
  <2>3. CASE Goto(t, "rest") /\ dsp'.master = job[t].val
    <3>1. /\ Turn(t) /\ job'[t].pc = "rest" /\ job'[t].pc \notin QuietPCs
          /\ job'[t].op = job[t].op /\ job'[t].src = job[t].src /\ job'[t].switch = job[t].switch
          /\ job'[t].lvl = job[t].lvl /\ job'[t].val = job[t].val
      BY <2>3, Jump DEF QuietPCs, PCs
    <3>2. /\ Dimmed(job[t]) => Dimmed(job[t])'
          /\ job[t].val = Master(job[t].lvl) => job'[t].val = Master(job[t].lvl)'
      BY <2>1, <3>1 DEF Dimmed, Master
    <3>3. InCall(job[t]) => InCall(job[t])'
      BY <2>1, <2>2, <2>3, <3>1, <3>2 DEF InCall
    <3> QED
      BY <1>3, <2>1, <3>1, <3>3, DspInside
  <2>4. CASE Goto(t, Failed(t)) /\ "master" \notin sure' /\ failures' # failures
    <3>1. SourceAgrees' /\ MasterAgrees'
      BY <2>1, <2>2, <2>4 DEF SourceAgrees, MasterAgrees
    <3>2. CASE job[t].switch
      <4>1. /\ Turn(t) /\ job'[t].pc = "fadeUp?" /\ job'[t].pc \notin QuietPCs /\ job'[t].op = job[t].op
        BY <2>4, <3>2, Jump DEF QuietPCs, PCs, Failed
      <4>2. InCall(job[t]) => InCall(job[t])'
        BY <1>6, <3>1, <3>2, <4>1 DEF InCall
      <4> QED
        BY <1>3, <2>1, <4>1, <4>2, DspInside
    <3>3. CASE ~job[t].switch
      <4>1. Goto(t, "idle")
        BY <2>4, <3>3 DEF Failed
      <4> QED
        BY <1>5, <2>1, <3>1, <4>1
    <3> QED
      BY <3>2, <3>3
  <2> QED
    BY <2>2, <2>3, <2>4
<1>14. CASE ApplyRest(t)
  <2>1. /\ job[t].pc = "rest" /\ UNCHANGED <<power, dsp, overlap>>
        /\ job[t].op \in {"profile", "reapply"} /\ power \in Powers
    BY <1>1, <1>14 DEF ApplyRest, At, Fits, DataOK
  <2>2. CASE /\ IF job[t].op = "reapply" THEN UNCHANGED <<profile, chosen>>
                ELSE /\ profile' = [source |-> job[t].src, master |-> job[t].lvl]
                     /\ chosen' = job[t].src
             /\ IF job[t].switch
                THEN job' = [job EXCEPT ![t].ok = TRUE, ![t].pc = "fadeUp?"]
                ELSE Goto(t, IF job[t].op = "profile" THEN "persist" ELSE "idle")
             /\ UNCHANGED <<failures, sure>>
    <3>1. InCall(job[t]) => /\ dsp.source = job[t].src /\ dsp.master = job[t].val
                            /\ job[t].val = Master(job[t].lvl) \/ Dimmed(job[t])
                            /\ job[t].op = "reapply" => job[t].src = profile.source
                                                        /\ job[t].lvl = profile.master
      BY <2>1 DEF InCall
    <3>2. InCall(job[t]) => profile'.source = job[t].src /\ profile'.master = job[t].lvl
      BY <2>1, <2>2, <3>1
    <3>3. InCall(job[t]) => SourceAgrees' /\ (MasterAgrees' \/ Dimmed(job[t]))
      BY <2>1, <3>1, <3>2 DEF SourceAgrees, MasterAgrees, Master
    <3>4. CASE job[t].switch
      <4>1. Turn(t) /\ job'[t].pc = "fadeUp?" /\ job'[t].pc \notin QuietPCs /\ job'[t].op = job[t].op
        BY <1>1, <2>2, <3>4 DEF Turn, Jobs, QuietPCs
      <4>2. InCall(job[t]) => InCall(job[t])'
        BY <1>6, <2>1, <3>3, <3>4, <4>1 DEF InCall, Dimmed
      <4> QED
        BY <1>3, <2>1, <4>1, <4>2, DspInside
    <3>5. CASE ~job[t].switch
      <4>1. Goto(t, IF job[t].op = "profile" THEN "persist" ELSE "idle")
        BY <2>2, <3>5
      <4>2. InCall(job[t]) => SourceAgrees' /\ MasterAgrees'
        BY <3>3, <3>5 DEF Dimmed
      <4> QED
        BY <1>5, <2>1, <4>1, <4>2
    <3> QED
      BY <3>4, <3>5
  <2>3. CASE sure' = {} /\ Goto(t, Failed(t)) /\ UNCHANGED <<profile, chosen>>
    <3>1. SourceAgrees' /\ MasterAgrees'
      BY <2>3 DEF SourceAgrees, MasterAgrees
    <3>2. CASE job[t].switch
      <4>1. /\ Turn(t) /\ job'[t].pc = "fadeUp?" /\ job'[t].pc \notin QuietPCs /\ job'[t].op = job[t].op
        BY <2>3, <3>2, Jump DEF QuietPCs, PCs, Failed
      <4>2. InCall(job[t]) => InCall(job[t])'
        BY <1>6, <3>1, <3>2, <4>1 DEF InCall
      <4> QED
        BY <1>3, <2>1, <4>1, <4>2, DspInside
    <3>3. CASE ~job[t].switch
      <4>1. Goto(t, "idle")
        BY <2>3, <3>3 DEF Failed
      <4> QED
        BY <1>5, <2>1, <3>1, <4>1
    <3> QED
      BY <3>2, <3>3
  <2> QED
    BY <1>14, <2>2, <2>3 DEF ApplyRest
<1>15. CASE FadeUpTest(t)
  <2>1. /\ Goto(t, IF power = "standby" THEN Return(t) ELSE "fadeUp")
        /\ job[t].pc = "fadeUp?" /\ UNCHANGED <<profile, power, dsp, sure, overlap>>
        /\ power \in {"on", "standby"} /\ job[t].op # "reapply"
    BY <1>1, <1>15 DEF FadeUpTest, At, serviceVars, DataOK, Powers, Fits, Switching
  <2>2. InCall(job[t]) => SourceAgrees' /\ (MasterAgrees' \/ power = "on")
    BY <2>1 DEF InCall, SourceAgrees, MasterAgrees, Master
  <2>3. CASE power = "standby"
    BY <1>4, <1>5, <2>1, <2>2, <2>3
  <2>4. CASE power = "on"
    <3>1. Goto(t, "fadeUp")
      BY <2>1, <2>4
    <3>2. Turn(t) /\ job'[t].pc = "fadeUp" /\ job'[t].pc \notin QuietPCs /\ job'[t].op = job[t].op
      BY <3>1, Jump DEF PCs, QuietPCs
    <3>3. InCall(job[t]) => InCall(job[t])'
      BY <2>1, <2>2, <2>4, <3>2 DEF InCall
    <3> QED
      BY <1>3, <2>1, <3>2, <3>3, DspInside
  <2> QED
    BY <2>1, <2>3, <2>4
<1>16. CASE LevelTest(t)
  <2>1. /\ job' = [job EXCEPT ![t] = [job[t] EXCEPT !.val = Master(profile.master), !.pc = "level"]]
        /\ UNCHANGED <<profile, power, dsp, sure, overlap>> /\ job[t].pc = "level?"
        /\ job[t].op \notin {"reapply", "volume"}
    BY <1>1, <1>16 DEF LevelTest, At, serviceVars, Fits, Switching
  <2>2. /\ Turn(t) /\ job'[t].pc = "level" /\ job'[t].pc \notin QuietPCs /\ job'[t].op = job[t].op
        /\ job'[t].val = Master(profile.master)
    BY <1>1, <2>1 DEF Turn, Jobs, QuietPCs
  <2>3. InCall(job[t]) => SourceAgrees' /\ job'[t].val = Master(profile.master)'
    BY <2>1, <2>2 DEF InCall, SourceAgrees, Master
  <2>4. InCall(job[t]) => InCall(job[t])'
    BY <2>1, <2>2, <2>3 DEF InCall
  <2> QED
    BY <1>3, <2>1, <2>2, <2>4, DspInside
<1>17. CASE WriteLevel(t)
  <2>1. /\ job[t].pc = "level" /\ UNCHANGED <<profile, power, overlap>>
        /\ job[t].val \in Gains /\ {"master"} \in SUBSET Cells
    BY <1>1, <1>17 DEF WriteLevel, At, serviceVars, Jobs, Cells
  <2>2. CASE job[t].op = "volume"
    <3>1. Write(t, "master", job[t].val, "adoptLevel", "idle", {"master"})
      BY <1>17, <2>2 DEF WriteLevel
    <3>2. /\ dsp'.source = dsp.source /\ ("source" \in sure' => "source" \in sure)
          /\ \/ Goto(t, "adoptLevel") /\ dsp'.master = job[t].val
             \/ Goto(t, "idle") /\ "master" \notin sure'
      BY <2>1, <3>1, MasterWrite
    <3>3. InCall(job[t]) => SourceAgrees' /\ job[t].val = Master(job[t].lvl)
      BY <2>1, <2>2, <3>2 DEF InCall, SourceAgrees
    <3>4. CASE Goto(t, "adoptLevel") /\ dsp'.master = job[t].val
      <4>1. /\ Turn(t) /\ job'[t].pc = "adoptLevel" /\ job'[t].pc \notin QuietPCs
            /\ job'[t].op = job[t].op /\ job'[t].lvl = job[t].lvl
        BY <3>4, Jump DEF PCs, QuietPCs
      <4>2. job[t].val = Master(job[t].lvl) => dsp'.master = Master(job[t].lvl)'
        BY <2>1, <3>4, <4>1 DEF Master
      <4>3. InCall(job[t]) => InCall(job[t])'
        BY <2>2, <3>3, <4>1, <4>2 DEF InCall
      <4> QED
        BY <1>3, <2>1, <4>1, <4>3, DspInside
    <3>5. CASE Goto(t, "idle") /\ "master" \notin sure'
      <4>1. MasterAgrees'
        BY <3>5 DEF MasterAgrees
      <4> QED
        BY <1>5, <2>1, <2>2, <3>3, <3>5, <4>1
    <3> QED
      BY <3>2, <3>4, <3>5
  <2>3. CASE job[t].op # "volume"
    <3>1. Write(t, "master", job[t].val, Return(t), Return(t), {"master"})
      BY <1>17, <2>3 DEF WriteLevel
    <3>2. /\ dsp'.source = dsp.source /\ ("source" \in sure' => "source" \in sure)
          /\ dsp'.master = job[t].val \/ "master" \notin sure'
          /\ Goto(t, Return(t))
      BY <2>1, <3>1, MasterWrite
    <3>3. InCall(job[t]) => SourceAgrees' /\ MasterAgrees'
      BY <2>1, <2>3, <3>2 DEF InCall, SourceAgrees, MasterAgrees, Master
    <3> QED
      BY <1>4, <1>5, <1>6, <2>1, <3>2, <3>3
  <2> QED
    BY <2>2, <2>3
<1>18. CASE AdoptLevel(t)
  <2>1. /\ job[t].pc = "adoptLevel" /\ profile' = [profile EXCEPT !.master = job[t].lvl]
        /\ Goto(t, "idle") /\ UNCHANGED <<power, dsp, sure, overlap>>
    BY <1>18 DEF AdoptLevel, At
  <2>2. profile'.source = profile.source /\ profile'.master = job[t].lvl
    BY <1>1, <2>1 DEF DataOK, Profiles
  <2>3. InCall(job[t]) => SourceAgrees' /\ MasterAgrees'
    BY <2>1, <2>2 DEF InCall, SourceAgrees, MasterAgrees, Master
  <2> QED
    BY <1>5, <2>1, <2>3
<1>19. CASE PowerWrite(t)
  <2>1. /\ Write(t, "master", job[t].val, "idle", "idle", {"master"})
        /\ power' = IF failures' = failures THEN power ELSE job[t].prev
        /\ job[t].pc = "powerWrite" /\ UNCHANGED <<profile, overlap>>
        /\ job[t].val \in Gains /\ {"master"} \in SUBSET Cells
    BY <1>1, <1>19 DEF PowerWrite, At, Jobs, Cells
  <2>2. /\ dsp'.source = dsp.source /\ ("source" \in sure' => "source" \in sure)
        /\ Goto(t, "idle")
        /\ \/ dsp'.master = job[t].val /\ failures' = failures
           \/ "master" \notin sure'
    BY <2>1, MasterWrite
  <2>3. InCall(job[t]) => SourceAgrees' /\ MasterAgrees'
    BY <2>1, <2>2 DEF InCall, SourceAgrees, MasterAgrees, Master
  <2> QED
    BY <1>5, <2>1, <2>2, <2>3
<1>20. CASE Persist(t)
  <2>1. /\ job[t].pc = "persist" /\ Goto(t, "idle")
        /\ UNCHANGED <<profile, power, dsp, sure, overlap>>
    BY <1>20 DEF Persist, At
  <2>2. InCall(job[t]) => SourceAgrees' /\ MasterAgrees'
    BY <2>1 DEF InCall, SourceAgrees, MasterAgrees, Master
  <2> QED
    BY <1>5, <2>1, <2>2
<1> QED
  BY <1>7, <1>8, <1>9, <1>10, <1>11, <1>12, <1>13, <1>14, <1>15, <1>16, <1>17, <1>18, <1>19,
     <1>20 DEF ServiceStep

LEMMA UserDsp == ASSUME IInv, DspInv, NEW t \in Users, UserCall(t) PROVE DspInv'
<1>1. job[t] \in Jobs /\ job \in [Tasks -> Jobs] /\ t \in Tasks
  BY DEF Tasks, IInv, TypeOK
<1>2. CASE \E p \in Profiles : ApplyProfile(t, p)
  <2>1. PICK p \in Profiles : ApplyProfile(t, p)
    BY <1>2
  <2>2. Turn(t) /\ job'[t].pc = "enter" /\ job'[t].op = "profile" /\ job[t].pc = "idle"
    BY <1>1, <2>1 DEF ApplyProfile, At, Jobs, Turn
  <2>3. UNCHANGED <<profile, power, dsp, sure>> /\ Enters(t, "profile")
    BY <2>1 DEF ApplyProfile, serviceVars
  <2>4. SourceAgrees /\ MasterAgrees => InCall(job[t])'
    BY <2>2, <2>3 DEF InCall, SourceAgrees, MasterAgrees, Master
  <2> QED
    BY <1>1, <2>2, <2>3, <2>4, DspEnters DEF Quiet, QuietPCs
<1>3. CASE Reapply(t)
  <2>1. /\ Turn(t) /\ job'[t].pc = "source" /\ job'[t].op = "reapply" /\ job[t].pc = "idle"
        /\ job'[t].src = profile.source /\ job'[t].lvl = profile.master
        /\ job'[t].val = Master(profile.master)
    BY <1>1, <1>3 DEF Reapply, At, Jobs, Turn
  <2>2. UNCHANGED <<profile, power, dsp, sure>> /\ Enters(t, "reapply")
    BY <1>3 DEF Reapply, serviceVars
  <2>3. job'[t].val = Master(job[t].lvl)'
    BY <2>1, <2>2 DEF Master
  <2>4. SourceAgrees /\ MasterAgrees => InCall(job[t])'
    <3>1. SourceAgrees /\ MasterAgrees => SourceAgrees' /\ MasterAgrees'
      BY <2>2 DEF SourceAgrees, MasterAgrees, Master
    <3> QED
      BY <2>1, <2>2, <2>3, <3>1 DEF InCall
  <2> QED
    BY <1>1, <2>1, <2>2, <2>4, DspEnters DEF Quiet, QuietPCs
<1>4. CASE \E l \in Levels : SetMasterVolume(t, l)
  <2>1. PICK l \in Levels : SetMasterVolume(t, l)
    BY <1>4
  <2>2. /\ Turn(t) /\ job'[t].pc = "level" /\ job'[t].op = "volume" /\ job[t].pc = "idle"
        /\ job'[t].lvl = l /\ job'[t].val = Master(l)
    BY <1>1, <2>1 DEF SetMasterVolume, At, Jobs, Turn
  <2>3. UNCHANGED <<profile, power, dsp, sure>> /\ Enters(t, "volume")
    BY <2>1 DEF SetMasterVolume, serviceVars
  <2>4. SourceAgrees /\ MasterAgrees => InCall(job[t])'
    <3>1. SourceAgrees /\ MasterAgrees => SourceAgrees' /\ MasterAgrees'
      BY <2>3 DEF SourceAgrees, MasterAgrees, Master
    <3>2. job'[t].val = Master(job[t].lvl)'
      BY <2>2, <2>3 DEF Master
    <3> QED
      BY <2>2, <3>1, <3>2 DEF InCall
  <2> QED
    BY <1>1, <2>2, <2>3, <2>4, DspEnters DEF Quiet, QuietPCs
<1>5. CASE \E s \in Powers : SetPowerState(t, s)
  <2>1. PICK s \in Powers : SetPowerState(t, s)
    BY <1>5
  <2>2. /\ Turn(t) /\ job'[t].pc = "powerWrite" /\ job'[t].op = "power" /\ job[t].pc = "idle"
        /\ job'[t].val = IF s = "standby" THEN Mute ELSE profile.master
    BY <1>1, <2>1 DEF SetPowerState, At, Jobs, Turn
  <2>3. UNCHANGED <<profile, dsp, sure>> /\ Enters(t, "power") /\ power' = s
    BY <2>1 DEF SetPowerState
  <2>4. SourceAgrees => InCall(job[t])'
    <3>1. SourceAgrees => SourceAgrees'
      BY <2>3 DEF SourceAgrees
    <3>2. job'[t].val = Master(profile.master)'
      BY <2>2, <2>3 DEF Master
    <3> QED
      BY <2>2, <3>1, <3>2 DEF InCall
  <2> QED
    BY <1>1, <2>2, <2>3, <2>4, DspEnters DEF Quiet, QuietPCs
<1>6. CASE SaveProfile(t)
  <2>1. Turn(t) /\ job'[t].pc = "persist" /\ job'[t].op = "save" /\ job[t].pc = "idle"
    BY <1>1, <1>6 DEF SaveProfile, At, Jobs, Turn
  <2>2. UNCHANGED <<profile, power, dsp, sure>> /\ Enters(t, "save")
    BY <1>6 DEF SaveProfile, serviceVars
  <2>3. SourceAgrees /\ MasterAgrees => InCall(job[t])'
    BY <2>1, <2>2 DEF InCall, SourceAgrees, MasterAgrees, Master
  <2> QED
    BY <1>1, <2>1, <2>2, <2>3, DspEnters DEF Quiet, QuietPCs
<1>7. CASE Upload(t) \/ UploadEnds(t)
  <2>1. Turn(t) /\ job'[t].pc \in QuietPCs /\ job[t].pc \in QuietPCs
    <3>1. CASE Upload(t)
      BY <1>1, <3>1 DEF Upload, At, Turn, Jobs, QuietPCs
    <3>2. CASE UploadEnds(t)
      BY <1>1, <3>2, GotoFields DEF UploadEnds, At, PCs, QuietPCs
    <3> QED
      BY <1>7, <3>1, <3>2
  <2>2. UNCHANGED <<profile, power, dsp, sure, overlap>>
    BY <1>7 DEF Upload, UploadEnds, serviceVars
  <2> QED
    BY <1>1, <2>1, <2>2, DspOutside DEF Quiet, QuietPCs
<1> QED
  BY <1>2, <1>3, <1>4, <1>5, <1>6, <1>7 DEF UserCall

LEMMA StreamDsp == ASSUME IInv, DspInv, NEW t \in Streams, StreamStep(t) PROVE DspInv'
<1>1. job[t] \in Jobs /\ job \in [Tasks -> Jobs] /\ t \in Tasks
  BY DEF Tasks, IInv, TypeOK
<1>2. /\ job[t].pc \in {"idle", "claim", "claimed", "streaming", "restore", "forget", "release"}
      /\ UNCHANGED <<profile, power, dsp, sure>>
  BY DEF StreamStep, Acquire, RingFails, Claim, Claimed, StreamEnds, Restore, Forget, Release,
         At, serviceVars
<1>3. Quiet(t)
  BY <1>2 DEF Quiet
<1>4. \/ /\ UNCHANGED overlap
         /\ \E pc \in {"claim", "streaming", "restore", "forget", "release", "idle"} : Goto(t, pc)
      \/ \E op \in {"claim", "restore"}, src \in Sources \cup {None}, cur \in Sources :
            /\ Enters(t, op)
            /\ job' = [job EXCEPT ![t] = [job[t] EXCEPT !.op = op, !.src = src, !.cur = cur,
                                                        !.ok = FALSE, !.pc = "enter"]]
  <2>1. CASE Claim(t)
    <3>1. profile.source \in Sources /\ Esp32 \in Sources
      BY AudioOutputAssumption DEF IInv, TypeOK, Profiles
    <3>2. CASE Goto(t, "streaming") /\ UNCHANGED overlap
      BY <3>2
    <3>3. CASE /\ Enters(t, "claim")
               /\ job' = [job EXCEPT ![t].op = "claim", ![t].src = Esp32,
                                     ![t].cur = profile.source, ![t].ok = FALSE,
                                     ![t].pc = "enter"]
      <4>1. job' = [job EXCEPT ![t] = [job[t] EXCEPT !.op = "claim", !.src = Esp32,
                                       !.cur = profile.source, !.ok = FALSE, !.pc = "enter"]]
        BY <1>1, <3>3
      <4> QED
        BY <3>1, <3>3, <4>1
    <3> QED
      BY <2>1, <3>2, <3>3 DEF Claim
  <2>2. CASE Restore(t)
    <3>1. previous \in Sources \cup {None} /\ job[t].cur \in Sources
          /\ job[t] = [job[t] EXCEPT !.cur = job[t].cur]
      BY <1>1 DEF IInv, TypeOK, Jobs
    <3>2. [job[t] EXCEPT !.op = "restore", !.src = previous, !.ok = FALSE, !.pc = "enter"]
          = [job[t] EXCEPT !.op = "restore", !.src = previous, !.cur = job[t].cur, !.ok = FALSE,
                           !.pc = "enter"]
      BY <1>1 DEF Jobs
    <3>3. CASE UNCHANGED overlap /\ (Goto(t, "release") \/ Goto(t, "forget"))
      BY <3>3
    <3>4. CASE /\ Enters(t, "restore")
               /\ job' = [job EXCEPT ![t].op = "restore", ![t].src = previous,
                                     ![t].ok = FALSE, ![t].pc = "enter"]
      <4>1. job' = [job EXCEPT ![t] = [job[t] EXCEPT !.op = "restore", !.src = previous,
                                                     !.ok = FALSE, !.pc = "enter"]]
        BY <1>1, <3>4
      <4>2. job' = [job EXCEPT ![t] = [job[t] EXCEPT !.op = "restore", !.src = previous,
                                       !.cur = job[t].cur, !.ok = FALSE, !.pc = "enter"]]
        BY <3>2, <4>1
      <4> QED
        BY <3>1, <3>4, <4>2
    <3> QED
      BY <2>2, <3>3, <3>4 DEF Restore
  <2>3. CASE \/ Acquire(t) \/ RingFails(t) \/ Claimed(t) \/ StreamEnds(t) \/ Forget(t) \/ Release(t)
    BY <2>3 DEF Acquire, RingFails, Claimed, StreamEnds, Forget, Release
  <2> QED
    BY <2>1, <2>2, <2>3 DEF StreamStep
<1>5. ASSUME UNCHANGED overlap,
             NEW pc \in {"claim", "streaming", "restore", "forget", "release", "idle"}, Goto(t, pc)
      PROVE  DspInv'
  <2>1. Turn(t) /\ job'[t].pc \in QuietPCs
    BY <1>1, <1>5, GotoFields DEF PCs, QuietPCs
  <2> QED
    BY <1>1, <1>2, <1>3, <1>5, <2>1, DspOutside
<1>6. ASSUME NEW op \in {"claim", "restore"}, NEW src \in Sources \cup {None}, NEW cur \in Sources,
             Enters(t, op),
             job' = [job EXCEPT ![t] = [job[t] EXCEPT !.op = op, !.src = src, !.cur = cur,
                                                      !.ok = FALSE, !.pc = "enter"]]
      PROVE  DspInv'
  <2>1. Turn(t) /\ job'[t].pc = "enter" /\ job'[t].op = op
    BY <1>1, <1>6 DEF Turn, Jobs
  <2>2. SourceAgrees /\ MasterAgrees => InCall(job[t])'
    BY <1>2, <2>1 DEF InCall, SourceAgrees, MasterAgrees, Master
  <2> QED
    BY <1>1, <1>3, <1>6, <2>1, <2>2, DspEnters DEF QuietPCs
<1> QED
  BY <1>4, <1>5, <1>6

(* Between two calls the DSP shows what last succeeded, whatever came      *)
(* before, as long as no two calls have overlapped.                        *)
THEOREM DspAgreesHolds == Spec => []DspAgrees
<1>1. Init => DspInv
  <2> SUFFICES ASSUME Init PROVE DspInv
    OBVIOUS
  <2>1. /\ dsp = profile /\ power = "on"
        /\ \A t \in Tasks : job[t].pc = "idle"
    BY DEF Init, NoCall
  <2> QED
    BY <2>1 DEF DspInv, Quiet, SourceAgrees, MasterAgrees, Master
<1>2. IInv /\ DspInv /\ [Next]_vars => DspInv'
  <2> SUFFICES ASSUME IInv, DspInv, [Next]_vars PROVE DspInv'
    OBVIOUS
  <2>1. CASE UNCHANGED vars
    BY <2>1 DEF vars, DspInv, Rest, Quiet, SourceAgrees, MasterAgrees, Master, InCall, Dimmed
  <2>2. CASE Next
    BY <2>2, UserDsp, ServiceDsp, StreamDsp DEF Next
  <2> QED
    BY <2>1, <2>2
<1>3. DspInv => DspAgrees
  BY DEF DspInv, DspAgrees, SourceAgrees, MasterAgrees
<1> QED
  BY <1>1, <1>2, <1>3, Inductive, PTL DEF Spec
=============================================================================
