--------------------------- MODULE WebRadioProofs ---------------------------
(***************************************************************************)
(* What the handshake between player and network task guarantees, proved   *)
(* for every set of URLs, writers and phones, every ring and every bound.  *)
(***************************************************************************)
EXTENDS WebRadio, TLAPS

USE DEF serviceVars, netVars, playerVars

\* A report built from a known state and fault has the type of a report.
LEMMA ReportType ==
    ASSUME NEW st \in {"idle", "connecting", "buffering", "playing", "error"},
           NEW f \in Faults
    PROVE  Report(st, f) \in Reports
BY DEF Report, Reports

\* Every variable keeps its range: the fields the tasks hand each other are
\* always one of the values their readers expect.
THEOREM TypeCorrect == Spec => []TypeOK
<1>1. Init => TypeOK
  <2> SUFFICES ASSUME Init PROVE TypeOK
    OBVIOUS
  <2>1. cfg \in Configs /\ saved \in Configs /\ surl \in Urls
    BY DEF Init, Configs
  <2>2. /\ Report("idle", "none") \in Reports
        /\ Report("buffering", "none") \in Reports
        /\ Report("connecting", "none") \in Reports
    BY ReportType DEF Faults
  <2>3. wcall \in [Writers -> [pc : {"idle", "save", "apply"}, new : Configs]]
    BY <2>1 DEF Init
  <2>4. ring \in [exists : BOOLEAN, tls : BOOLEAN, fill : 0..RingCap]
    BY WebRadioAssumption DEF Init, NoRing
  <2>5. gen \in 0..MaxGen /\ pgen \in 0..MaxGen /\ hops \in 0..MaxHops
    BY WebRadioAssumption DEF Init
  <2>6. pc \in PlayerPoints /\ net \in NetPoints
    BY DEF Init, PlayerPoints, NetPoints
  <2>7. status \in Reports /\ pstat \in Reports /\ netRep \in Reports
    BY <2>2 DEF Init
  <2> QED
    BY <2>1, <2>3, <2>4, <2>5, <2>6, <2>7 DEF Init, TypeOK
<1>2. TypeOK /\ [Next]_vars => TypeOK'
  <2> SUFFICES ASSUME TypeOK, [Next]_vars PROVE TypeOK'
    OBVIOUS
  <2> USE WebRadioAssumption DEF TypeOK
  <2>a. /\ Report("idle", "none") \in Reports
        /\ Report("connecting", "none") \in Reports
        /\ Report("buffering", "none") \in Reports
        /\ Report("playing", "none") \in Reports
        /\ Report("error", "none") \in Reports
        /\ Report("error", "output") \in Reports
        /\ Report("error", "memory") \in Reports
        /\ Report("error", "connect") \in Reports
        /\ Report("error", "format") \in Reports
    BY ReportType DEF Faults
  <2>b. \A st \in {"playing", "buffering"} : [pstat EXCEPT !.state = st] \in Reports
    BY DEF Reports
  <2>c. ASSUME NEW s \in Reports PROVE Merged(s) \in Reports
    BY DEF Merged
  <2>d. \A f \in 0..RingCap : [ring EXCEPT !.fill = f]
            \in [exists : BOOLEAN, tls : BOOLEAN, fill : 0..RingCap]
    OBVIOUS
  <2>e. ring.fill \in 0..RingCap
    OBVIOUS
  <2>1. ASSUME NEW w \in Writers, WriterNext(w) PROVE TypeOK'
    <3>1. CASE Request(w)
      BY <3>1 DEF Request
    <3>2. CASE RequestOff(w)
      <4>1. [cfg EXCEPT !.enabled = FALSE] \in Configs
        BY DEF Configs
      <4> QED
        BY <3>2, <4>1 DEF RequestOff
    <3>3. CASE Save(w)
      BY <3>3 DEF Save
    <3>4. CASE Apply(w)
      <4>1. gen + 1 \in 0..MaxGen
        BY <3>4 DEF Apply
      <4> QED
        BY <3>4, <4>1 DEF Apply
    <3> QED
      BY <2>1, <3>1, <3>2, <3>3, <3>4 DEF WriterNext
  <2>2. ASSUME NEW p \in Phones, PhoneAcquire(p) \/ PhoneRelease(p) PROVE TypeOK'
    BY <2>2 DEF PhoneAcquire, PhoneRelease
  <2>3. ASSUME PlayerNext PROVE TypeOK'
    <3> USE DEF PlayerPoints, HasRing, HoldsSink, InSession
    <3>1. CASE InitPlayer \/ Settle \/ Poll \/ AcquireSink
      BY <3>1, <2>a DEF InitPlayer, Settle, Poll, AcquireSink, PublishIdle
    <3>2. CASE CreateRing
      <4>1. [exists |-> TRUE, tls |-> cfg.url \in TlsUrls, fill |-> 0]
                \in [exists : BOOLEAN, tls : BOOLEAN, fill : 0..RingCap]
        OBVIOUS
      <4> QED
        BY <3>2, <4>1, <2>a DEF CreateRing
    <3>3. CASE ClaimInput \/ LoopHead \/ ReadGeneration
      BY <3>3 DEF ClaimInput, LoopHead, ReadGeneration
    <3>4. CASE ReadUrl
      <4>1. cfg.url \in Urls
        BY DEF Configs
      <4> QED
        BY <3>4, <4>1 DEF ReadUrl
    <3>5. CASE PrepareSession
      <4>1. [ring EXCEPT !.fill = 0]
                \in [exists : BOOLEAN, tls : BOOLEAN, fill : 0..RingCap]
        BY <2>d
      <4>2. ring' \in [exists : BOOLEAN, tls : BOOLEAN, fill : 0..RingCap]
        BY <3>5, <4>1 DEF PrepareSession
      <4>3. hops' \in 0..MaxHops /\ net' \in NetPoints
        BY <3>5 DEF PrepareSession, NetPoints
      <4> QED
        BY <3>5, <4>2, <4>3, <2>a DEF PrepareSession
    <3>6. CASE WaitForFill
      BY <3>6, <2>b, <2>c DEF WaitForFill, Publish, PublishForced
    <3>7. CASE PlayStep
      <4>1. ring.fill > 0 => ring.fill - 1 \in 0..RingCap
        BY <2>e
      <4> QED
        BY <3>7, <4>1, <2>a, <2>b, <2>c, <2>d
        DEF PlayStep, Publish, PublishForced, Continue
    <3>8. CASE StopFetch \/ JoinFetch \/ Reap \/ RestoreSource \/ ReleaseSink
      BY <3>8 DEF StopFetch, JoinFetch, Reap, RestoreSource, ReleaseSink
    <3>9. CASE DeleteRing
      BY <3>9, <2>a DEF DeleteRing, PublishIdle, NoRing
    <3> QED
      BY <2>3, <3>1, <3>2, <3>3, <3>4, <3>5, <3>6, <3>7, <3>8, <3>9 DEF PlayerNext
  <2>4. ASSUME NetNext PROVE TypeOK'
    <3> USE DEF NetPoints
    <3>1. CASE FetchLoop
      BY <3>1, <2>a DEF FetchLoop
    <3>2. CASE OpenStream
      BY <3>2, <2>a DEF OpenStream, Refuse, FollowPlaylist
    <3>3. CASE Pump \/ Pause
      BY <3>3 DEF Pump, Pause
    <3>4. CASE Push
      <4>1. ring.fill < RingCap => ring.fill + 1 \in 0..RingCap
        BY <2>e
      <4> QED
        BY <3>4, <4>1, <2>d DEF Push
    <3> QED
      BY <2>4, <3>1, <3>2, <3>3, <3>4 DEF NetNext
  <2>5. CASE UNCHANGED vars
    BY <2>5 DEF vars
  <2> QED
    BY <2>1, <2>2, <2>3, <2>4, <2>5 DEF Next
<1> QED
  BY <1>1, <1>2, PTL DEF Spec

-----------------------------------------------------------------------------
(* The handshake.  FetchHandshake and ClaimFollowsPlayer speak of the same  *)
(* program points as the ring does, so the three are inductive together:    *)
(* a network task exists only at points at which the player holds the sink  *)
(* and has a ring.                                                          *)

RingFollowsPlayer == ring.exists <=> pc \in HasRing

Handshake == FetchHandshake /\ ClaimFollowsPlayer /\ RingFollowsPlayer

\* The steps of everyone but the player and its network task see to it that
\* nothing the handshake is about changes, save the sink in a phone's hands.
LEMMA OthersKeepHandshake ==
    ASSUME Handshake,
           \/ \E w \in Writers : WriterNext(w)
           \/ \E p \in Phones : PhoneAcquire(p) \/ PhoneRelease(p)
           \/ UNCHANGED vars
    PROVE  Handshake'
<1> USE DEF Handshake, FetchHandshake, ClaimFollowsPlayer, RingFollowsPlayer
<1>1. ASSUME NEW w \in Writers, WriterNext(w) PROVE Handshake'
  BY <1>1 DEF WriterNext, Request, RequestOff, Save, Apply
<1>2. ASSUME NEW p \in Phones, PhoneAcquire(p) \/ PhoneRelease(p) PROVE Handshake'
  BY <1>2, WebRadioAssumption DEF PhoneAcquire, PhoneRelease
<1>3. CASE UNCHANGED vars
  BY <1>3 DEF vars
<1> QED
  BY <1>1, <1>2, <1>3

\* Every step of the player keeps the handshake.
LEMMA PlayerKeepsHandshake ==
    ASSUME TypeOK, Handshake, PlayerNext
    PROVE  Handshake'
<1> USE WebRadioAssumption
    DEF Handshake, FetchHandshake, ClaimFollowsPlayer, RingFollowsPlayer,
        HasRing, HoldsSink, InSession
<1>1. CASE InitPlayer \/ Settle \/ Poll
  BY <1>1 DEF InitPlayer, Settle, Poll
<1>2. CASE AcquireSink
  BY <1>2 DEF AcquireSink
<1>3. CASE CreateRing
  BY <1>3 DEF CreateRing
<1>4. CASE ClaimInput \/ LoopHead \/ ReadGeneration \/ ReadUrl
  BY <1>4 DEF ClaimInput, LoopHead, ReadGeneration, ReadUrl
<1>5. CASE PrepareSession
  \* No task and no token are left from the session before.
  <2>1. net = "none" /\ ~done
    BY <1>5 DEF PrepareSession
  <2>2. ring'.exists = ring.exists
    BY <1>5 DEF PrepareSession, TypeOK
  <2> QED
    BY <1>5, <2>1, <2>2 DEF PrepareSession
<1>6. CASE WaitForFill
  BY <1>6 DEF WaitForFill
<1>7. CASE PlayStep
  <2>1. ring'.exists = ring.exists
    BY <1>7 DEF PlayStep, TypeOK
  <2>2. pc = "play" /\ pc' \in {"play", "fill", "stop"}
    BY <1>7 DEF PlayStep, Continue
  <2>3. UNCHANGED <<sink, stop, done, net>>
    BY <1>7 DEF PlayStep
  <2> QED
    BY <2>1, <2>2, <2>3
<1>8. CASE StopFetch
  BY <1>8 DEF StopFetch
<1>9. CASE JoinFetch
  \* The token that is taken was the task's last act.
  <2>1. net = "none"
    BY <1>9 DEF JoinFetch
  <2> QED
    BY <1>9, <2>1 DEF JoinFetch
<1>10. CASE Reap \/ RestoreSource
  BY <1>10 DEF Reap, RestoreSource
<1>11. CASE ReleaseSink
  BY <1>11 DEF ReleaseSink
<1>12. CASE DeleteRing
  BY <1>12 DEF DeleteRing, NoRing
<1> QED
  BY <1>1, <1>2, <1>3, <1>4, <1>5, <1>6, <1>7, <1>8, <1>9, <1>10, <1>11, <1>12
  DEF PlayerNext

\* Every step of the network task keeps the handshake.
LEMMA NetKeepsHandshake ==
    ASSUME TypeOK, Handshake, NetNext
    PROVE  Handshake'
<1> USE DEF Handshake, FetchHandshake, ClaimFollowsPlayer, RingFollowsPlayer
<1>1. CASE FetchLoop
  BY <1>1 DEF FetchLoop
<1>2. CASE OpenStream
  BY <1>2 DEF OpenStream, Refuse, FollowPlaylist
<1>3. CASE Pump \/ Pause
  BY <1>3 DEF Pump, Pause
<1>4. CASE Push
  <2>1. ring'.exists = ring.exists
    BY <1>4 DEF Push, TypeOK
  <2> QED
    BY <1>4, <2>1 DEF Push
<1> QED
  BY <1>1, <1>2, <1>3, <1>4 DEF NetNext

\* The three parts hold together in every reachable state.
THEOREM HandshakeHolds == Spec => []Handshake
<1>1. Init => Handshake
  BY WebRadioAssumption
  DEF Init, Handshake, FetchHandshake, ClaimFollowsPlayer, RingFollowsPlayer,
      NoRing, HasRing, HoldsSink, InSession
<1>2. TypeOK /\ Handshake /\ [Next]_vars => Handshake'
  BY OthersKeepHandshake, PlayerKeepsHandshake, NetKeepsHandshake DEF Next
<1> QED
  BY <1>1, <1>2, TypeCorrect, PTL DEF Spec

\* Player and network task meet exactly once per session: no session starts
\* while the task of an earlier one lives, or on its token.
THEOREM FetchHandshakeHolds == Spec => []FetchHandshake
<1>1. Handshake => FetchHandshake
  BY DEF Handshake
<1> QED
  BY <1>1, HandshakeHolds, PTL

\* The player owns the I2S sink exactly between tryAcquire and release.
THEOREM ClaimFollowsPlayerHolds == Spec => []ClaimFollowsPlayer
<1>1. Handshake => ClaimFollowsPlayer
  BY DEF Handshake
<1> QED
  BY <1>1, HandshakeHolds, PTL

\* The network task never pushes into a ring that was freed, nor keeps
\* running once another producer may own the wire.
THEOREM RingOutlivesFetchHolds == Spec => []RingOutlivesFetch
<1>1. Handshake => RingOutlivesFetch
  BY DEF Handshake, FetchHandshake, ClaimFollowsPlayer, RingFollowsPlayer,
         RingOutlivesFetch, HasRing, HoldsSink, InSession
<1> QED
  BY <1>1, HandshakeHolds, PTL

-----------------------------------------------------------------------------
(* The configuration a session was started for.  The player reads the       *)
(* generation first: a generation that is still current when the session    *)
(* has its URL was current when the URL was read.                           *)

SessionInv ==
    /\ pgen <= gen
    /\ pc \in {"prepare", "fill", "play"} /\ pgen = gen => surl = cfg.url

\* Every step of the player keeps SessionInv.
LEMMA PlayerKeepsSession ==
    ASSUME TypeOK, SessionInv, PlayerNext
    PROVE  SessionInv'
<1> USE DEF SessionInv, TypeOK
<1>1. CASE ReadGeneration
  BY <1>1 DEF ReadGeneration
<1>2. CASE ReadUrl
  BY <1>2 DEF ReadUrl
<1>3. CASE PrepareSession
  BY <1>3 DEF PrepareSession
<1>4. CASE WaitForFill
  BY <1>4 DEF WaitForFill
<1>5. CASE PlayStep
  BY <1>5 DEF PlayStep, Continue
<1>6. CASE InitPlayer \/ Settle \/ Poll \/ AcquireSink \/ CreateRing \/ ClaimInput
  BY <1>6 DEF InitPlayer, Settle, Poll, AcquireSink, CreateRing, ClaimInput
<1>7. CASE LoopHead \/ StopFetch \/ JoinFetch \/ Reap
  BY <1>7 DEF LoopHead, StopFetch, JoinFetch, Reap
<1>8. CASE RestoreSource \/ ReleaseSink \/ DeleteRing
  BY <1>8 DEF RestoreSource, ReleaseSink, DeleteRing
<1> QED
  BY <1>1, <1>2, <1>3, <1>4, <1>5, <1>6, <1>7, <1>8 DEF PlayerNext

\* A session that sessionCurrent lets go on plays the configured URL.
THEOREM SessionUrlCurrentHolds == Spec => []SessionUrlCurrent
<1>1. Init => SessionInv
  BY DEF Init, SessionInv
<1>2. TypeOK /\ SessionInv /\ [Next]_vars => SessionInv'
  <2> SUFFICES ASSUME TypeOK, SessionInv, [Next]_vars PROVE SessionInv'
    OBVIOUS
  <2>1. ASSUME NEW w \in Writers, WriterNext(w) PROVE SessionInv'
    <3>1. CASE Request(w) \/ RequestOff(w) \/ Save(w)
      BY <3>1 DEF Request, RequestOff, Save, SessionInv
    <3>2. CASE Apply(w)
      \* The new generation is one no session was started for.
      BY <3>2 DEF Apply, SessionInv, TypeOK
    <3> QED
      BY <2>1, <3>1, <3>2 DEF WriterNext
  <2>2. ASSUME NEW p \in Phones, PhoneAcquire(p) \/ PhoneRelease(p) PROVE SessionInv'
    BY <2>2 DEF PhoneAcquire, PhoneRelease, SessionInv
  <2>3. CASE PlayerNext
    BY <2>3, PlayerKeepsSession
  <2>4. CASE NetNext
    BY <2>4 DEF NetNext, FetchLoop, OpenStream, Pump, Push, Pause, SessionInv
  <2>5. CASE UNCHANGED vars
    BY <2>5 DEF vars, SessionInv
  <2> QED
    BY <2>1, <2>2, <2>3, <2>4, <2>5 DEF Next
<1>3. SessionInv => SessionUrlCurrent
  BY DEF SessionInv, SessionUrlCurrent, SessionCurrent
<1> QED
  BY <1>1, <1>2, <1>3, TypeCorrect, PTL DEF Spec
=============================================================================
