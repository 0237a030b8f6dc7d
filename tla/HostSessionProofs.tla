------------------------- MODULE HostSessionProofs -------------------------
(* Theorems about HostSession, for any codes and expiries, any number of      *)
(* guests, of validations and of restarts, and any length of the tick, the    *)
(* grace and the timers' delays.                                              *)
EXTENDS HostSession, TLAPS

(* TypeOK in two parts: what the functions of createInterfaceServer may change, *)
(* and the rest.                                                              *)
HostTypes ==
  /\ session \in State \cup {None}
  /\ timers \in [Timer -> Nat \cup {None}]
  /\ session # None => \A t \in Timer : timers[t] # None
  /\ session = None => timers["wall"] = None
  /\ sinceTick \in Nat
  /\ disk \in State \cup {None, Torn, Forged}
  /\ guests \in [Guest -> {"out", "pending", "approved"}]
  /\ used \in Nat /\ overrun \in Nat

Call == [code : Code, answer : Token \cup {None, Refusal}]
Poll == [code : Code, refused : BOOLEAN]

OtherTypes ==
  /\ up \in BOOLEAN
  /\ calls \in [Caller -> Call \cup {None}]
  /\ poll \in Poll \cup {None}
  /\ wall \in 0..MaxTime /\ srv \in 0..MaxTime
  /\ alive \subseteq Code
  /\ restarts \in Nat

LEMMA TypeParts == TypeOK <=> HostTypes /\ OtherTypes /\ (session # None => up)
  BY DEF TypeOK, HostTypes, OtherTypes, Call, Poll

(* A process that is down has no timers, and waits for nothing. *)
DownIsIdle ==
  ~up => timers = Off /\ calls = [v \in Caller |-> None] /\ poll = None

-----------------------------------------------------------------------------
(* What the functions return *)

LEMMA ActiveMeans ==
  ASSUME NEW s \in State, wall \in 0..MaxTime, Active(s)
  PROVE  wall < s.expiresAt /\ s.budgetUsed < Window(s) /\ Window(s) \in Int
         /\ ~(wall < s.highWater - GraceMs)
<1>1. /\ s.expiresAt \in Int /\ s.budgetUsed \in Int /\ Window(s) \in Int
      /\ s.highWater - GraceMs \in Int
  BY TimeAssumption DEF State, Window
<1>2. /\ ~(wall < s.highWater - GraceMs) /\ ~(wall >= s.expiresAt)
      /\ ~(s.budgetUsed >= Window(s))
  BY Zenon DEF Active, EvaluateSession
<1>3. QED
  BY <1>1, <1>2

LEMMA MeansActive ==
  ASSUME NEW s, ~(wall < s.highWater - GraceMs), ~(wall >= s.expiresAt),
         ~(s.budgetUsed >= Window(s))
  PROVE  Active(s)
  BY Zenon DEF Active, EvaluateSession

LEMMA AccrueType ==
  ASSUME NEW s \in State, wall \in 0..MaxTime, sinceTick \in Nat
  PROVE  /\ Accrue(s) \in State
         /\ Accrue(s).budgetUsed = s.budgetUsed + sinceTick
         /\ Accrue(s).highWater = Max(s.highWater, wall)
         /\ Accrue(s).expiresAt = s.expiresAt /\ Window(Accrue(s)) = Window(s)
<1>1. Max(s.highWater, wall) \in 0..MaxTime /\ s.budgetUsed + sinceTick \in Nat
  BY DEF State, Max
<1>2. QED
  BY <1>1 DEF State, Accrue, Window

LEMMA ArmedType ==
  ASSUME NEW s \in State, wall \in 0..MaxTime, Active(s)
  PROVE  /\ Armed(s) \in [Timer -> Nat]
         /\ Armed(s)["tick"] = TickMs
<1>1. WallDelay(s) \in Nat
  BY ActiveMeans, TimeAssumption DEF WallDelay, Min, State
<1>2. Min(Window(s) - s.budgetUsed + MarginMs, MaxDelay) \in Nat
  <2>1. Window(s) - s.budgetUsed + MarginMs \in Nat
    BY ActiveMeans, TimeAssumption DEF State
  <2>2. QED
    BY <2>1, TimeAssumption DEF Min
<1>3. QED
  BY <1>1, <1>2, TimeAssumption DEF Armed, Timer

LEMMA ReadStateType ==
  ReadState # None => ReadState \in State /\ ReadState = disk
  BY DEF ReadState, Unseal

(* Ending a session keeps the types, also where timers are set all the same. *)
LEMMA EndType ==
  ASSUME NEW left \in [Timer -> Nat \cup {None}], left["wall"] = None, EndWith(left)
  PROVE  HostTypes'
  BY DEF EndWith, HostTypes, AllOut

LEMMA EndSessionType ==
  ASSUME EndSession
  PROVE  HostTypes'
<1>1. Off \in [Timer -> Nat \cup {None}] /\ Off["wall"] = None
  BY DEF Off, Timer
<1>2. QED
  BY <1>1, EndType DEF EndSession

LEMMA StraddleType ==
  ASSUME NEW s \in State, wall \in 0..MaxTime, Active(s), Straddle(s)
  PROVE  HostTypes' /\ session' = None
<1>1. Armed(s) \in [Timer -> Nat]
  BY ArmedType
<1>2. /\ [Armed(s) EXCEPT !.wall = None] \in [Timer -> Nat \cup {None}]
      /\ [Armed(s) EXCEPT !.wall = None]["wall"] = None
  BY <1>1 DEF Timer
<1>3. CASE EndSession
  BY <1>3, EndSessionType DEF EndSession, EndWith
<1>4. CASE EndWith([Armed(s) EXCEPT !.wall = None])
  BY <1>4, <1>2, EndType DEF EndWith
<1>5. QED
  BY <1>3, <1>4 DEF Straddle

LEMMA LoadType ==
  ASSUME HostTypes, wall \in 0..MaxTime, session = None, LoadSessionFromDisk
  PROVE  HostTypes'
<1>1. CASE ReadState # None /\ Active(ReadState)
  <2>1. ReadState \in State /\ ReadState # None
    BY <1>1, ReadStateType
  <2>2. CASE session' = ReadState /\ timers' = Armed(ReadState) /\ sinceTick' = 0
             /\ UNCHANGED <<disk, guests, used, overrun>>
    <3>1. timers' \in [Timer -> Nat]
      BY <1>1, <2>1, <2>2, ArmedType
    <3>2. \A t \in Timer : timers'[t] # None
      BY <3>1, NoneAssumption
    <3>3. QED
      BY <2>1, <2>2, <3>1, <3>2 DEF HostTypes
  <2>3. CASE Straddle(ReadState)
    BY <1>1, <2>1, <2>3, StraddleType
  <2>4. QED
    BY <1>1, <2>2, <2>3 DEF LoadSessionFromDisk
<1>2. CASE ~(ReadState # None /\ Active(ReadState))
  BY <1>2 DEF LoadSessionFromDisk, HostTypes
<1>3. QED
  BY <1>1, <1>2

LEMMA ActiveSessionType ==
  ASSUME HostTypes, wall \in 0..MaxTime,
         NEW admitted \in [Guest -> {"out", "pending", "approved"}], ActiveSession(admitted)
  PROVE  HostTypes'
<1>1. CASE session = None /\ LoadSessionFromDisk
  BY <1>1, LoadType
<1>2. CASE EndSession
  BY <1>2, EndSessionType
<1>3. CASE guests' = admitted /\ UNCHANGED <<session, sinceTick, timers, disk, used, overrun>>
  BY <1>3 DEF HostTypes
<1>4. QED
  BY <1>1, <1>2, <1>3 DEF ActiveSession

LEMMA TickThenType ==
  ASSUME HostTypes, wall \in 0..MaxTime, session # None, NEW rearmed, TickThen(rearmed),
         Active(Accrue(session)) => rearmed \in [Timer -> Nat]
  PROVE  HostTypes'
<1> DEFINE s == Accrue(session)
<1>1. s \in State
  BY AccrueType DEF HostTypes
<1> HIDE DEF s
<1>2. CASE Active(s) /\ rearmed \in [Timer -> Nat] /\ session' = s /\ disk' = s
           /\ timers' = rearmed /\ sinceTick' = 0 /\ UNCHANGED <<guests, used, overrun>>
  <2>1. \A t \in Timer : timers'[t] # None
    BY <1>2, NoneAssumption
  <2>2. session' # None
    BY <1>1, <1>2, NoneAssumption
  <2>3. QED
    BY <1>1, <1>2, <2>1, <2>2 DEF HostTypes
<1>3. CASE EndSession
  BY <1>3, EndSessionType
<1>4. QED
  BY <1>2, <1>3 DEF TickThen, s

-----------------------------------------------------------------------------
(* Types *)

LEMMA TypeInit == Init => TypeOK /\ DownIsIdle
  BY TimeAssumption DEF Init, TypeOK, DownIsIdle, Off, AllOut, Timer

LEMMA UpstreamType ==
  ASSUME srv \in 0..MaxTime, NEW c \in Code
  PROVE  Upstream(c) \in Token \cup {Refusal}
  BY TimeAssumption DEF Upstream, Token

(* A validation that succeeds carries a grant. *)
LEMMA DeliverType ==
  ASSUME TypeOK, NEW v \in Caller, ValidateDeliver(v)
  PROVE  HostTypes'
<1> DEFINE t == calls[v].answer
           s == [code |-> calls[v].code, issuedAt |-> t.issuedAt, expiresAt |-> t.expiresAt,
                 highWater |-> wall, budgetUsed |-> 0]
<1>1. t \in Token /\ calls[v] \in Call
  BY DEF ValidateDeliver, TypeOK, Call
<1>2. s \in State
  BY <1>1 DEF TypeOK, Token, State, Call
<1>3. HostTypes /\ wall \in 0..MaxTime
  BY DEF TypeOK, HostTypes
<1>4. \/ UNCHANGED host
      \/ EndSession
      \/ Active(s) /\ session' = s /\ disk' = s /\ timers' = Armed(s)
         /\ sinceTick' = 0 /\ used' = 0 /\ overrun' = 0 /\ UNCHANGED guests
      \/ Active(s) /\ Straddle(s)
  BY Zenon DEF ValidateDeliver
<1> HIDE DEF s
<1>5. CASE UNCHANGED host
  BY <1>3, <1>5 DEF HostTypes, host
<1>6. CASE EndSession
  BY <1>6, EndSessionType
<1>7. CASE Active(s) /\ session' = s /\ disk' = s /\ timers' = Armed(s)
           /\ sinceTick' = 0 /\ used' = 0 /\ overrun' = 0 /\ UNCHANGED guests
  <2>1. timers' \in [Timer -> Nat]
    BY <1>2, <1>3, <1>7, ArmedType
  <2>2. \A x \in Timer : timers'[x] # None
    BY <2>1, NoneAssumption
  <2>3. session' # None
    BY <1>2, <1>7, NoneAssumption
  <2>4. QED
    BY <1>2, <1>3, <1>7, <2>1, <2>2, <2>3 DEF HostTypes
<1>8. CASE Active(s) /\ Straddle(s)
  BY <1>2, <1>3, <1>8, StraddleType
<1>9. QED
  BY <1>4, <1>5, <1>6, <1>7, <1>8

(* Stopping, and what is found at the next start *)
LEMMA StopType ==
  ASSUME TypeOK, NEW left \in State \cup {None, Torn, Forged}, Stop(left)
  PROVE  TypeOK' /\ DownIsIdle'
<1>1. DownIsIdle'
  BY DEF Stop, DownIsIdle
<1>2. HostTypes'
  <2>1. timers' \in [Timer -> Nat \cup {None}] /\ timers'["wall"] = None
    BY DEF Stop, Off, Timer
  <2>2. guests' \in [Guest -> {"out", "pending", "approved"}]
    BY DEF Stop, AllOut
  <2>3. used' \in Nat
    BY DEF Stop, TypeOK
  <2>4. QED
    BY <2>1, <2>2, <2>3 DEF Stop, HostTypes
<1>3. OtherTypes'
  <2>1. OtherTypes
    BY TypeParts
  <2>2. calls' \in [Caller -> Call \cup {None}] /\ poll' \in Poll \cup {None}
    BY DEF Stop
  <2>3. restarts' = restarts + 1 /\ restarts \in Nat /\ up' = FALSE
    BY <2>1, Zenon DEF Stop, OtherTypes
  <2>4. UNCHANGED <<wall, srv, alive>>
    BY DEF Stop
  <2>5. restarts' \in Nat
    BY <2>3
  <2>6. up' \in BOOLEAN
    BY <2>3, Zenon
  <2>7. wall' \in 0..MaxTime /\ srv' \in 0..MaxTime /\ alive' \subseteq Code
    BY <2>1, <2>4 DEF OtherTypes
  <2>8. QED
    BY <2>2, <2>5, <2>6, <2>7, Zenon DEF OtherTypes
<1>4. session' = None
  BY DEF Stop
<1>5. QED
  BY <1>1, <1>2, <1>3, <1>4 DEF HostTypes, OtherTypes, TypeOK, Call, Poll

LEMMA TimersType ==
  ASSUME TypeOK, DownIsIdle, Timers
  PROVE  HostTypes'
<1>1. HostTypes /\ wall \in 0..MaxTime /\ sinceTick \in Nat
  BY DEF TypeOK, HostTypes
<1>2. session # None => /\ session \in State /\ Accrue(session) \in State
                        /\ timers \in [Timer -> Nat]
  BY <1>1, AccrueType DEF HostTypes
<1>3. CASE Tick
  <2>1. [timers EXCEPT !.tick = TickMs] \in [Timer -> Nat] /\ session # None
    BY <1>2, <1>3, TimeAssumption DEF Tick, Due, Timer
  <2>2. QED
    BY <1>1, <1>3, <2>1, TickThenType DEF Tick
<1>4. CASE WallTimer
  <2>1. CASE EndSession
    BY <2>1, EndSessionType
  <2>2. CASE ~(wall >= session.expiresAt)
    <3>1. session # None /\ timers' = [timers EXCEPT !.wall = WallDelay(session)]
          /\ UNCHANGED <<session, sinceTick, disk, guests, used, overrun>>
      BY <1>4, <2>2 DEF WallTimer, Due
    <3>2. WallDelay(session) \in Nat
      BY <1>1, <1>2, <2>2, <3>1, TimeAssumption DEF WallDelay, Min, State
    <3>3. timers' \in [Timer -> Nat]
      BY <1>2, <3>1, <3>2
    <3>4. \A t \in Timer : timers'[t] # None
      BY <3>3, NoneAssumption
    <3>5. QED
      BY <1>1, <3>1, <3>3, <3>4 DEF HostTypes
  <2>3. QED
    BY <1>4, <2>1, <2>2 DEF WallTimer
<1>5. CASE BudgetTimer
  <2>1. session # None
    BY <1>5 DEF BudgetTimer, Due
  <2>2. CASE TickThen(Armed(Accrue(session)))
    <3>1. Active(Accrue(session)) => Armed(Accrue(session)) \in [Timer -> Nat]
      BY <1>1, <1>2, <2>1, ArmedType
    <3>2. QED
      BY <1>1, <2>1, <2>2, <3>1, TickThenType
  <2>3. CASE Active(Accrue(session)) /\ Straddle(Accrue(session))
    BY <1>1, <1>2, <2>1, <2>3, StraddleType
  <2>4. QED
    BY <1>5, <2>2, <2>3 DEF BudgetTimer
<1>6. CASE \E t \in Timer : StrayTimer(t)
  <2>1. PICK t \in Timer : StrayTimer(t)
    BY <1>6
  <2>2. timers' \in [Timer -> Nat \cup {None}] /\ session' = None
    BY <1>1, <2>1, TimeAssumption DEF StrayTimer, HostTypes
  <2>3. timers'["wall"] = None
    BY <1>1, <2>1, TimeAssumption DEF StrayTimer, HostTypes, Timer
  <2>4. QED
    BY <1>1, <2>1, <2>2, <2>3 DEF StrayTimer, HostTypes
<1>7. QED
  BY <1>3, <1>4, <1>5, <1>6 DEF Timers

(* What TimersType leaves out: a timer runs in a process that is up. *)
LEMMA TimersLeave ==
  ASSUME Timers
  PROVE  up /\ UNCHANGED <<up, calls, poll, world>>
  BY DEF Timers, Tick, WallTimer, BudgetTimer, StrayTimer, Due, Fires

LEMMA PassType ==
  ASSUME TypeOK, DownIsIdle, Pass
  PROVE  TypeOK' /\ DownIsIdle'
<1>1. up => \A t \in Timer : timers[t] # 0
  BY DEF Pass, Fires
<1>2. /\ timers' \in [Timer -> Nat \cup {None}]
      /\ \A t \in Timer : timers'[t] = None <=> timers[t] = None
  <2>1. CASE up
    <3>1. \A t \in Timer : timers[t] # None => timers[t] \in Nat \ {0}
      BY <1>1, <2>1 DEF TypeOK
    <3>2. \A t \in Timer : timers[t] # None => timers[t] - 1 \in Nat
      BY <3>1
    <3>3. \A t \in Timer : timers[t] # None => timers[t] - 1 # None
      BY <3>2, NoneAssumption
    <3>4. timers' = [t \in Timer |-> IF timers[t] = None THEN None ELSE timers[t] - 1]
      BY DEF Pass
    <3>5. QED
      BY <3>2, <3>3, <3>4
  <2>2. CASE ~up
    BY <2>2 DEF Pass, DownIsIdle, Off
  <2>3. QED
    BY <2>1, <2>2 DEF TypeOK
<1>3. wall' \in 0..MaxTime /\ srv' \in 0..MaxTime
  BY TimeAssumption DEF Pass, Min, TypeOK
<1>4. sinceTick' \in Nat
  BY DEF Pass, TypeOK
<1>5. used' \in Nat /\ overrun' \in Nat
  BY TimeAssumption DEF Pass, Min, TypeOK
<1>6. TypeOK'
  BY <1>2, <1>3, <1>4, <1>5 DEF Pass, TypeOK, Timer
<1>7. DownIsIdle'
  BY <1>2 DEF Pass, DownIsIdle, Off, TypeOK
<1>8. QED
  BY <1>6, <1>7

LEMMA TypeStep ==
  TypeOK /\ DownIsIdle /\ [Next]_vars => TypeOK' /\ DownIsIdle'
<1> SUFFICES ASSUME TypeOK, DownIsIdle, [Next]_vars PROVE TypeOK' /\ DownIsIdle'
  OBVIOUS
<1>0. HostTypes /\ OtherTypes /\ wall \in 0..MaxTime /\ srv \in 0..MaxTime
  BY TypeParts DEF OtherTypes
<1> DEFINE Goal == TypeOK' /\ DownIsIdle'
<1>00. ASSUME HostTypes', OtherTypes', up' PROVE Goal
  BY <1>00 DEF HostTypes, OtherTypes, TypeOK, DownIsIdle, Call, Poll
<1>1. CASE Timers
  <2>1. OtherTypes' /\ up'
    BY <1>0, <1>1, TimersLeave DEF OtherTypes, world
  <2>2. QED
    BY <1>1, <1>00, <2>1, TimersType
<1>2. CASE Read
  <2>1. HostTypes'
    BY <1>0, <1>2, ActiveSessionType DEF Read, HostTypes
  <2>2. QED
    BY <1>0, <1>00, <1>2, <2>1 DEF Read, OtherTypes, world
<1>3. CASE \E g \in Guest : Join(g) \/ Approve(g) \/ Leave(g)
  <2>1. PICK g \in Guest : Join(g) \/ Approve(g) \/ Leave(g)
    BY <1>3
  <2>2. \A x \in {"out", "pending", "approved"} :
          [guests EXCEPT ![g] = x] \in [Guest -> {"out", "pending", "approved"}]
    BY <1>0 DEF HostTypes
  <2>3. CASE Join(g)
    <3>1. HostTypes'
      BY <1>0, <2>2, <2>3, ActiveSessionType DEF Join
    <3>2. QED
      BY <1>0, <1>00, <2>3, <3>1 DEF Join, OtherTypes, world
  <2>4. CASE Approve(g)
    <3>1. HostTypes'
      BY <1>0, <2>2, <2>4 DEF Approve, HostTypes
    <3>2. QED
      BY <1>0, <1>00, <2>4, <3>1 DEF Approve, OtherTypes, world
  <2>5. CASE Leave(g)
    <3>1. HostTypes'
      BY <1>0, <2>2, <2>5 DEF Leave, HostTypes
    <3>2. QED
      BY <1>0, <1>00, <2>5, <3>1 DEF Leave, OtherTypes, world
  <2>6. QED
    BY <2>1, <2>3, <2>4, <2>5
<1>4. CASE \E v \in Caller : (\E c \in Code : ValidateSend(v, c))
                             \/ ValidateAnswer(v) \/ ValidateFail(v)
  <2>1. PICK v \in Caller : \/ \E c \in Code : ValidateSend(v, c)
                            \/ ValidateAnswer(v) \/ ValidateFail(v)
    BY <1>4
  <2>2. UNCHANGED <<up, host, poll, world>>
    BY <2>1 DEF ValidateSend, ValidateAnswer, ValidateFail
  <2>3. calls' \in [Caller -> Call \cup {None}]
    <3>1. CASE \E c \in Code : ValidateSend(v, c)
      <4>1. PICK c \in Code : ValidateSend(v, c)
        BY <3>1
      <4>2. [code |-> c, answer |-> None] \in Call
        BY DEF Call
      <4>3. QED
        BY <1>0, <4>1, <4>2 DEF ValidateSend, OtherTypes
    <3>2. CASE ValidateAnswer(v)
      <4>1. calls[v] \in Call
        BY <1>0, <3>2 DEF ValidateAnswer, OtherTypes
      <4>2. Upstream(calls[v].code) \in Token \cup {Refusal}
        BY <1>0, <4>1, UpstreamType DEF Call
      <4>3. [calls[v] EXCEPT !.answer = Upstream(calls[v].code)] \in Call
        BY <4>1, <4>2 DEF Call
      <4>4. QED
        BY <1>0, <3>2, <4>3 DEF ValidateAnswer, OtherTypes
    <3>3. CASE ValidateFail(v)
      BY <1>0, <3>3 DEF ValidateFail, OtherTypes
    <3>4. QED
      BY <2>1, <3>1, <3>2, <3>3
  <2>4. OtherTypes'
    BY <1>0, <2>2, <2>3 DEF OtherTypes, world
  <2>5. HostTypes'
    BY <1>0, <2>2 DEF HostTypes, host
  <2>6. up
    BY <2>1 DEF ValidateSend, ValidateAnswer, ValidateFail, DownIsIdle
  <2>7. QED
    BY <1>00, <2>2, <2>4, <2>5, <2>6
<1>5. CASE \E v \in Caller : ValidateDeliver(v)
  <2>1. PICK v \in Caller : ValidateDeliver(v)
    BY <1>5
  <2>2. HostTypes'
    BY <2>1, DeliverType
  <2>3. OtherTypes'
    BY <1>0, <2>1 DEF ValidateDeliver, OtherTypes, world
  <2>4. up
    BY <2>1 DEF ValidateDeliver, DownIsIdle
  <2>5. QED
    BY <1>00, <2>1, <2>2, <2>3, <2>4 DEF ValidateDeliver
<1>6. CASE PollSend
  <2>1. HostTypes'
    BY <1>0, <1>6, ActiveSessionType DEF PollSend, HostTypes
  <2>2. session' # None => session'.code \in Code
    BY <2>1 DEF HostTypes, State
  <2>3. poll' \in Poll \cup {None}
    BY <1>6, <2>2 DEF PollSend, Poll
  <2>4. QED
    BY <1>0, <1>00, <1>6, <2>1, <2>3 DEF PollSend, OtherTypes, world
<1>7. CASE PollAnswer \/ PollIgnore
  <2>1. up
    BY <1>7 DEF PollAnswer, PollIgnore, DownIsIdle
  <2>2. poll' \in Poll \cup {None} /\ UNCHANGED <<up, host, calls, world>>
    BY <1>0, <1>7 DEF PollAnswer, PollIgnore, OtherTypes, Poll
  <2>3. HostTypes' /\ OtherTypes'
    BY <1>0, <2>2 DEF HostTypes, OtherTypes, host, world
  <2>4. QED
    BY <1>00, <2>1, <2>2, <2>3
<1>8. CASE PollRefused
  <2>1. up
    BY <1>8 DEF PollRefused, DownIsIdle
  <2>2. HostTypes'
    BY <1>8, EndSessionType DEF PollRefused
  <2>3. QED
    BY <1>0, <1>00, <1>8, <2>1, <2>2 DEF PollRefused, OtherTypes, world
<1>9. CASE Crash \/ CrashInWrite
  <2>1. CASE Crash
    BY <1>0, <2>1, StopType DEF Crash, HostTypes
  <2>2. CASE CrashInWrite
    BY <1>0, <2>2, StopType DEF CrashInWrite
  <2>3. QED
    BY <1>9, <2>1, <2>2
<1>10. CASE Boot
  <2>1. session = None
    BY <1>10 DEF Boot, TypeOK
  <2>2. HostTypes'
    BY <1>0, <1>10, <2>1, LoadType DEF Boot
  <2>3. QED
    BY <1>0, <1>00, <1>10, <2>2 DEF Boot, OtherTypes, world
<1>11. CASE BootNewKey
  BY <1>0, <1>00, <1>11 DEF BootNewKey, HostTypes, OtherTypes, world
<1>12. CASE EditDisk
  BY <1>12 DEF EditDisk, TypeOK, DownIsIdle, world
<1>13. CASE \E t \in 0..MaxTime : SetClock(t)
  BY <1>13 DEF SetClock, TypeOK, DownIsIdle
<1>14. CASE \E c \in Code : Revoke(c)
  BY <1>14 DEF Revoke, TypeOK, DownIsIdle, host
<1>15. CASE Pass
  BY <1>15, PassType
<1>16. CASE UNCHANGED vars
  BY <1>16 DEF vars, host, world, TypeOK, DownIsIdle
<1>17. QED
  BY <1>1, <1>2, <1>3, <1>4, <1>5, <1>6, <1>7, <1>8, <1>9, <1>10, <1>11, <1>12, <1>13, <1>14,
     <1>15, <1>16 DEF Next

(* The variables keep their types, for any clock, network and restarts, while  *)
(* the process runs, and all timers are set while a session is live.           *)
THEOREM TypeCorrect == Spec => []TypeOK
<1>1. Spec => [](TypeOK /\ DownIsIdle)
  BY TypeInit, TypeStep, PTL DEF Spec
<1>2. QED
  BY <1>1, PTL

-----------------------------------------------------------------------------
(* The file, the memory and the guests agree *)

Agree == DiskMirrorsMemory /\ GuestsSlaved

LEMMA EndAgrees ==
  ASSUME NEW left, EndWith(left)
  PROVE  Agree' /\ session' = None
  BY DEF EndWith, Agree, DiskMirrorsMemory, GuestsSlaved

LEMMA EndSessionAgrees ==
  ASSUME EndSession
  PROVE  Agree' /\ session' = None
  BY EndAgrees DEF EndSession

LEMMA StraddleAgrees ==
  ASSUME NEW s, Straddle(s)
  PROVE  Agree' /\ session' = None
  BY EndAgrees, EndSessionAgrees DEF Straddle

LEMMA LoadAgrees ==
  ASSUME TypeOK, GuestsSlaved, session = None, LoadSessionFromDisk
  PROVE  Agree'
<1>1. CASE session' = ReadState /\ ReadState # None /\ UNCHANGED <<disk, guests>>
  <2>1. session' \in State /\ session' = disk'
    BY <1>1, ReadStateType
  <2>2. session' # None
    BY <2>1, NoneAssumption
  <2>3. QED
    BY <2>1, <2>2 DEF Agree, DiskMirrorsMemory, GuestsSlaved
<1>2. CASE Straddle(ReadState)
  BY <1>2, StraddleAgrees
<1>3. CASE (disk' = IF disk = Torn THEN Torn ELSE None) /\ UNCHANGED <<session, guests>>
  BY <1>3 DEF Agree, DiskMirrorsMemory, GuestsSlaved, AllOut
<1>4. QED
  BY <1>1, <1>2, <1>3 DEF LoadSessionFromDisk

LEMMA ActiveSessionAgrees ==
  ASSUME TypeOK, Agree, up, up', NEW admitted, ActiveSession(admitted)
  PROVE  Agree'
<1>1. CASE session = None /\ LoadSessionFromDisk
  BY <1>1, LoadAgrees DEF Agree
<1>2. CASE EndSession
  BY <1>2, EndSessionAgrees
<1>3. CASE session # None /\ UNCHANGED <<session, disk>>
  BY <1>3 DEF Agree, DiskMirrorsMemory, GuestsSlaved
<1>4. QED
  BY <1>1, <1>2, <1>3 DEF ActiveSession

LEMMA TickThenAgrees ==
  ASSUME TypeOK, session # None, NEW rearmed, TickThen(rearmed)
  PROVE  Agree'
<1>1. CASE session' = Accrue(session) /\ disk' = Accrue(session)
  <2>1. Accrue(session) \in State
    BY AccrueType DEF TypeOK
  <2>2. session' # None
    BY <1>1, <2>1, NoneAssumption
  <2>3. QED
    BY <1>1, <2>2 DEF Agree, DiskMirrorsMemory, GuestsSlaved
<1>2. CASE EndSession
  BY <1>2, EndSessionAgrees
<1>3. QED
  BY <1>1, <1>2 DEF TickThen

LEMMA DeliverAgrees ==
  ASSUME TypeOK, Agree, up, up', NEW v \in Caller, ValidateDeliver(v)
  PROVE  Agree'
<1> DEFINE t == calls[v].answer
           s == [code |-> calls[v].code, issuedAt |-> t.issuedAt, expiresAt |-> t.expiresAt,
                 highWater |-> wall, budgetUsed |-> 0]
<1>1. s \in State
  <2>1. t \in Token /\ calls[v] \in Call
    BY DEF ValidateDeliver, TypeOK, Call
  <2>2. QED
    BY <2>1 DEF TypeOK, Token, State, Call
<1>2. \/ UNCHANGED host
      \/ EndSession
      \/ session' = s /\ disk' = s
      \/ Straddle(s)
  BY Zenon DEF ValidateDeliver
<1> HIDE DEF s
<1>3. CASE session' = s /\ disk' = s
  <2>1. session' # None
    BY <1>1, <1>3, NoneAssumption
  <2>2. QED
    BY <1>3, <2>1 DEF Agree, DiskMirrorsMemory, GuestsSlaved
<1>4. CASE UNCHANGED host
  BY <1>4 DEF host, Agree, DiskMirrorsMemory, GuestsSlaved, AllOut
<1>5. QED
  BY <1>2, <1>3, <1>4, EndSessionAgrees, StraddleAgrees

LEMMA TimersAgree ==
  ASSUME TypeOK, Agree, Timers
  PROVE  Agree'
<1>1. up /\ up'
  BY TimersLeave
<1>2. CASE Tick
  BY <1>2, TickThenAgrees DEF Tick, Due
<1>3. CASE WallTimer
  <2>1. CASE EndSession
    BY <2>1, EndSessionAgrees
  <2>2. CASE UNCHANGED <<session, disk, guests>>
    BY <1>1, <2>2 DEF Agree, DiskMirrorsMemory, GuestsSlaved, AllOut
  <2>3. QED
    BY <1>3, <2>1, <2>2 DEF WallTimer
<1>4. CASE BudgetTimer
  <2>1. session # None
    BY <1>4 DEF BudgetTimer, Due
  <2>2. TickThen(Armed(Accrue(session))) \/ Straddle(Accrue(session))
    BY <1>4 DEF BudgetTimer
  <2>3. QED
    BY <2>1, <2>2, TickThenAgrees, StraddleAgrees
<1>5. CASE \E x \in Timer : StrayTimer(x)
  BY <1>1, <1>5 DEF StrayTimer, Agree, DiskMirrorsMemory, GuestsSlaved, AllOut
<1>6. QED
  BY <1>2, <1>3, <1>4, <1>5 DEF Timers

LEMMA AgreeStep ==
  TypeOK /\ DownIsIdle /\ Agree /\ [Next]_vars => Agree'
<1> SUFFICES ASSUME TypeOK, DownIsIdle, Agree, [Next]_vars PROVE Agree'
  OBVIOUS
<1>1. CASE Timers
  BY <1>1, TimersAgree
<1>2. CASE Read
  BY <1>2, ActiveSessionAgrees DEF Read
<1>3. CASE \E g \in Guest : Join(g) \/ Approve(g) \/ Leave(g)
  <2>1. PICK g \in Guest : Join(g) \/ Approve(g) \/ Leave(g)
    BY <1>3
  <2>2. CASE Join(g)
    BY <2>2, ActiveSessionAgrees DEF Join
  <2>3. CASE Approve(g) \/ Leave(g)
    <3>1. guests[g] # "out" /\ UNCHANGED <<up, session, disk>>
      BY <2>3 DEF Approve, Leave
    <3>2. session # None
      BY <3>1 DEF Agree, GuestsSlaved, AllOut
    <3>3. QED
      BY <3>1, <3>2 DEF Agree, DiskMirrorsMemory, GuestsSlaved
  <2>4. QED
    BY <2>1, <2>2, <2>3
<1>4. CASE \E v \in Caller : (\E c \in Code : ValidateSend(v, c))
                             \/ ValidateAnswer(v) \/ ValidateFail(v)
  <2>1. UNCHANGED <<up, host>>
    BY <1>4 DEF ValidateSend, ValidateAnswer, ValidateFail
  <2>2. QED
    BY <2>1 DEF host, Agree, DiskMirrorsMemory, GuestsSlaved, AllOut
<1>5. CASE \E v \in Caller : ValidateDeliver(v)
  <2>1. PICK v \in Caller : ValidateDeliver(v)
    BY <1>5
  <2>2. up /\ up'
    BY <2>1 DEF ValidateDeliver, DownIsIdle
  <2>3. QED
    BY <2>1, <2>2, DeliverAgrees
<1>6. CASE PollSend
  BY <1>6, ActiveSessionAgrees DEF PollSend
<1>7. CASE PollAnswer \/ PollIgnore
  BY <1>7 DEF PollAnswer, PollIgnore, host, Agree, DiskMirrorsMemory, GuestsSlaved, AllOut
<1>8. CASE PollRefused
  BY <1>8, EndSessionAgrees DEF PollRefused
<1>9. CASE Crash \/ CrashInWrite
  BY <1>9 DEF Crash, CrashInWrite, Stop, Agree, DiskMirrorsMemory, GuestsSlaved
<1>10. CASE Boot
  BY <1>10, LoadAgrees DEF Boot, TypeOK, Agree
<1>11. CASE BootNewKey
  BY <1>11 DEF BootNewKey, TypeOK, Agree, DiskMirrorsMemory, GuestsSlaved, AllOut
<1>12. CASE EditDisk
  BY <1>12 DEF EditDisk, Agree, DiskMirrorsMemory, GuestsSlaved, AllOut
<1>13. CASE \E t \in 0..MaxTime : SetClock(t)
  BY <1>13 DEF SetClock, Agree, DiskMirrorsMemory, GuestsSlaved, AllOut
<1>14. CASE \E c \in Code : Revoke(c)
  BY <1>14 DEF Revoke, host, Agree, DiskMirrorsMemory, GuestsSlaved, AllOut
<1>15. CASE Pass
  BY <1>15 DEF Pass, Agree, DiskMirrorsMemory, GuestsSlaved, AllOut
<1>16. CASE UNCHANGED vars
  BY <1>16 DEF vars, host, Agree, DiskMirrorsMemory, GuestsSlaved, AllOut
<1>17. QED
  BY <1>1, <1>2, <1>3, <1>4, <1>5, <1>6, <1>7, <1>8, <1>9, <1>10, <1>11, <1>12, <1>13, <1>14,
     <1>15, <1>16 DEF Next

LEMMA AgreeAlways == Spec => [](TypeOK /\ DownIsIdle /\ Agree)
<1>1. Init => Agree
  BY DEF Init, Agree, DiskMirrorsMemory, GuestsSlaved
<1>2. QED
  BY <1>1, TypeInit, TypeStep, AgreeStep, PTL DEF Spec

(* The sealed file holds exactly the session that is enforced, or one the user  *)
(* edited, and nothing restorable when there is no session: through timers,     *)
(* restarts, torn writes and lost keys, what ended does not come back.          *)
THEOREM NothingLeftBehind == Spec => []DiskMirrorsMemory
<1>1. Agree => DiskMirrorsMemory
  BY DEF Agree
<1>2. QED
  BY <1>1, AgreeAlways, PTL

(* Without a session no guest is connected. *)
THEOREM NobodyStays == Spec => []GuestsSlaved
<1>1. Agree => GuestsSlaved
  BY DEF Agree
<1>2. QED
  BY <1>1, AgreeAlways, PTL

-----------------------------------------------------------------------------
(* Time *)

(* What the history says of a session: the tick's timer and the runtime not yet *)
(* accrued make up one tick; whatever the token was used beyond the accrued     *)
(* runtime is in the present tick, or was lost in one restart each; and a       *)
(* session is beyond its limits at most since the last tick, because it was     *)
(* within them then. `used` outlives a restart together with the file.          *)
Ledger ==
  /\ session # None =>
       /\ timers["tick"] + sinceTick = TickMs
       /\ session.budgetUsed < Window(session)
       /\ used <= session.budgetUsed + sinceTick + restarts * TickMs
       /\ overrun <= sinceTick
  /\ session = None /\ disk \in State => used <= disk.budgetUsed + restarts * TickMs
  /\ OutOfLimits \/ overrun = 0

LEMMA OneMoreTick ==
  ASSUME NEW r \in Nat
  PROVE  /\ r * TickMs \in Nat /\ (r + 1) * TickMs \in Nat
         /\ (r + 1) * TickMs = r * TickMs + TickMs
  BY TimeAssumption

(* A session that is active now is within its limits right after a tick. *)
LEMMA StillActive ==
  ASSUME NEW s \in State, wall \in 0..MaxTime, Active(s),
         session' = s, sinceTick' = 0, wall' = wall
  PROVE  ~OutOfLimits'
<1> DEFINE a == [s EXCEPT !.budgetUsed = @ + 0, !.highWater = Max(@, wall)]
<1>1. /\ a.budgetUsed = s.budgetUsed /\ a.highWater = Max(s.highWater, wall)
      /\ a.expiresAt = s.expiresAt /\ Window(a) = Window(s)
  BY DEF State, Window
<1>2. a = Accrue(session)'
  BY DEF Accrue
<1> HIDE DEF a
<1>3. ~(wall < a.highWater - GraceMs)
  BY <1>1, ActiveMeans, TimeAssumption DEF State, Max
<1>4. ~(wall >= a.expiresAt) /\ ~(a.budgetUsed >= Window(a))
  BY <1>1, ActiveMeans DEF State
<1>5. EvaluateSession(a, wall) = "active"
  BY <1>3, <1>4, MeansActive DEF Active
<1>6. QED
  BY <1>2, <1>5, Zenon DEF OutOfLimits, Active

LEMMA FreshLedger ==
  ASSUME NEW s \in State, wall \in 0..MaxTime, Active(s),
         session' = s, sinceTick' = 0, wall' = wall, timers'["tick"] = TickMs,
         overrun' = 0, restarts' \in Nat, used' <= s.budgetUsed + restarts' * TickMs
  PROVE  Ledger'
<1>1. s # None /\ s.budgetUsed \in Nat
  BY NoneAssumption DEF State
<1>2. s.budgetUsed < Window(s)
  BY ActiveMeans
<1>3. restarts' * TickMs \in Nat
  BY OneMoreTick
<1>4. session' # None =>
       /\ timers'["tick"] + sinceTick' = TickMs
       /\ session'.budgetUsed < Window(s)
       /\ used' <= session'.budgetUsed + sinceTick' + restarts' * TickMs
       /\ overrun' <= sinceTick'
  BY <1>1, <1>2, <1>3, TimeAssumption
<1>5. Window(session)' = Window(s)
  BY DEF Window
<1>6. QED
  BY <1>1, <1>4, <1>5 DEF Ledger

LEMMA EndLedger ==
  ASSUME NEW left, EndWith(left)
  PROVE  Ledger'
  BY NoneAssumption DEF EndWith, Ledger

LEMMA EndsLedger ==
  ASSUME EndSession \/ \E s : Straddle(s)
  PROVE  Ledger'
  BY EndLedger DEF EndSession, Straddle

(* A step that leaves the session and its clocks alone *)
LEMMA SameLedger ==
  ASSUME Ledger, UNCHANGED <<session, sinceTick, used, overrun, wall, restarts>>,
         session # None => timers'["tick"] = timers["tick"],
         disk' = disk \/ disk' \notin State
  PROVE  Ledger'
<1>1. OutOfLimits' <=> OutOfLimits
  BY DEF OutOfLimits, Active, Accrue
<1>2. Window(session)' = Window(session)
  BY DEF Window
<1>3. QED
  BY <1>1, <1>2 DEF Ledger

LEMMA LoadLedger ==
  ASSUME TypeOK, Ledger, session = None, LoadSessionFromDisk, UNCHANGED <<wall, restarts>>
  PROVE  Ledger'
<1>1. CASE /\ ReadState # None /\ Active(ReadState)
           /\ session' = ReadState /\ timers' = Armed(ReadState) /\ sinceTick' = 0
           /\ UNCHANGED <<disk, guests, used, overrun>>
  <2>1. ReadState \in State /\ ReadState = disk
    BY <1>1, ReadStateType
  <2>2. timers'["tick"] = TickMs
    BY <1>1, <2>1, ArmedType DEF TypeOK
  <2>3. overrun' = 0
    BY <1>1 DEF Ledger, OutOfLimits
  <2>4. used' <= disk.budgetUsed + restarts' * TickMs
    BY <1>1, <2>1 DEF Ledger
  <2>5. QED
    BY <1>1, <2>1, <2>2, <2>3, <2>4, FreshLedger DEF TypeOK
<1>2. CASE Straddle(ReadState)
  BY <1>2, EndsLedger
<1>3. CASE /\ disk' = IF disk = Torn THEN Torn ELSE None
           /\ UNCHANGED <<session, timers, sinceTick, guests, used, overrun>>
  <2>1. disk' \notin State
    BY <1>3, NoneAssumption
  <2>2. QED
    BY <1>3, <2>1, SameLedger
<1>4. QED
  BY <1>1, <1>2, <1>3 DEF LoadSessionFromDisk

LEMMA ActiveSessionLedger ==
  ASSUME TypeOK, Ledger, NEW admitted, ActiveSession(admitted), UNCHANGED world
  PROVE  Ledger'
<1>1. CASE session = None /\ LoadSessionFromDisk
  BY <1>1, LoadLedger DEF world
<1>2. CASE EndSession
  BY <1>2, EndsLedger
<1>3. CASE UNCHANGED <<session, sinceTick, timers, disk, used, overrun>>
  BY <1>3, SameLedger DEF world
<1>4. QED
  BY <1>1, <1>2, <1>3 DEF ActiveSession

(* A tick that finds the session active: it was within its limits all the time. *)
LEMMA TickThenLedger ==
  ASSUME TypeOK, Ledger, session # None, NEW rearmed, TickThen(rearmed), UNCHANGED world,
         Active(Accrue(session)) => rearmed["tick"] = TickMs
  PROVE  Ledger'
<1> DEFINE s == Accrue(session)
<1>0. session \in State /\ sinceTick \in Nat /\ wall \in 0..MaxTime
  BY DEF TypeOK
<1>1. s \in State /\ s.budgetUsed = session.budgetUsed + sinceTick
  BY <1>0, AccrueType
<1>2. Active(s) => overrun = 0
  BY DEF Ledger, OutOfLimits
<1> HIDE DEF s
<1>3. CASE Active(s) /\ session' = s /\ disk' = s /\ timers' = rearmed /\ sinceTick' = 0
           /\ UNCHANGED <<guests, used, overrun>>
  <2>1. used' <= s.budgetUsed + restarts' * TickMs
    BY <1>1, <1>3 DEF Ledger, world
  <2>2. QED
    BY <1>0, <1>1, <1>2, <1>3, <2>1, FreshLedger DEF TypeOK, world, s
<1>4. CASE EndSession
  BY <1>4, EndsLedger
<1>5. QED
  BY <1>3, <1>4 DEF TickThen, s

LEMMA TimersLedger ==
  ASSUME TypeOK, Ledger, Timers
  PROVE  Ledger'
<1>0. UNCHANGED world
  BY TimersLeave
<1>1. CASE Tick
  <2>1. session # None /\ [timers EXCEPT !.tick = TickMs]["tick"] = TickMs
    BY <1>1 DEF Tick, Due, TypeOK, Timer
  <2>2. QED
    BY <1>0, <1>1, <2>1, TickThenLedger DEF Tick
<1>2. CASE WallTimer
  <2>1. CASE EndSession
    BY <2>1, EndsLedger
  <2>2. CASE timers' = [timers EXCEPT !.wall = WallDelay(session)]
             /\ UNCHANGED <<session, sinceTick, disk, guests, used, overrun>>
    <3>1. timers'["tick"] = timers["tick"]
      BY <2>2 DEF TypeOK, Timer
    <3>2. QED
      BY <1>0, <2>2, <3>1, SameLedger DEF world
  <2>3. QED
    BY <1>2, <2>1, <2>2 DEF WallTimer
<1>3. CASE BudgetTimer
  <2>1. session # None
    BY <1>3 DEF BudgetTimer, Due
  <2>2. CASE TickThen(Armed(Accrue(session)))
    <3>1. Accrue(session) \in State /\ wall \in 0..MaxTime
      BY <2>1, AccrueType DEF TypeOK
    <3>2. Active(Accrue(session)) => Armed(Accrue(session))["tick"] = TickMs
      BY <3>1, ArmedType
    <3>3. QED
      BY <1>0, <2>1, <2>2, <3>2, TickThenLedger
  <2>3. CASE Straddle(Accrue(session))
    BY <2>3, EndsLedger
  <2>4. QED
    BY <1>3, <2>2, <2>3 DEF BudgetTimer
<1>4. CASE \E x \in Timer : StrayTimer(x)
  BY <1>0, <1>4, SameLedger DEF StrayTimer, world
<1>5. QED
  BY <1>1, <1>2, <1>3, <1>4 DEF Timers

LEMMA DeliverLedger ==
  ASSUME TypeOK, Ledger, NEW v \in Caller, ValidateDeliver(v)
  PROVE  Ledger'
<1> DEFINE t == calls[v].answer
           s == [code |-> calls[v].code, issuedAt |-> t.issuedAt, expiresAt |-> t.expiresAt,
                 highWater |-> wall, budgetUsed |-> 0]
<1>1. s \in State /\ s.budgetUsed = 0
  <2>1. t \in Token /\ calls[v] \in Call
    BY DEF ValidateDeliver, TypeOK, Call
  <2>2. QED
    BY <2>1 DEF TypeOK, Token, State, Call
<1>2. \/ UNCHANGED host
      \/ EndSession
      \/ Active(s) /\ session' = s /\ disk' = s /\ timers' = Armed(s)
         /\ sinceTick' = 0 /\ used' = 0 /\ overrun' = 0 /\ UNCHANGED guests
      \/ Straddle(s)
  BY Zenon DEF ValidateDeliver
<1>3. UNCHANGED world /\ wall \in 0..MaxTime /\ restarts \in Nat
  BY DEF ValidateDeliver, TypeOK
<1> HIDE DEF s
<1>4. CASE UNCHANGED host
  BY <1>3, <1>4, SameLedger DEF host, world
<1>5. CASE Active(s) /\ session' = s /\ disk' = s /\ timers' = Armed(s)
           /\ sinceTick' = 0 /\ used' = 0 /\ overrun' = 0 /\ UNCHANGED guests
  <2>1. timers'["tick"] = TickMs
    BY <1>1, <1>3, <1>5, ArmedType
  <2>2. restarts' \in Nat /\ wall' = wall
    BY <1>3 DEF world
  <2>3. used' <= s.budgetUsed + restarts' * TickMs
    BY <1>1, <1>5, <2>2, OneMoreTick
  <2>4. QED
    BY <1>1, <1>3, <1>5, <2>1, <2>2, <2>3, FreshLedger
<1>6. QED
  BY <1>2, <1>4, <1>5, EndsLedger

(* The runtime since the last tick, which a restart forgets, is less than a tick. *)
LEMMA StopLedger ==
  ASSUME TypeOK, Agree, Ledger, NEW left \in {disk, Torn}, Stop(left)
  PROVE  Ledger'
<1>1. session' = None /\ overrun' = 0 /\ disk' = left /\ restarts' = restarts + 1
      /\ used' = (IF left \in State THEN used ELSE 0)
  BY DEF Stop
<1>2. ASSUME left \in State
      PROVE  used' <= left.budgetUsed + restarts' * TickMs
  <2>1. left = session /\ session # None
    BY <1>2, NoneAssumption DEF Stop, Agree, DiskMirrorsMemory
  <2>2. sinceTick <= TickMs
    <3>1. timers["tick"] \in Nat /\ sinceTick \in Nat /\ timers["tick"] + sinceTick = TickMs
      BY <2>1 DEF TypeOK, Timer, Ledger
    <3>2. QED
      BY <3>1
  <2>3. used <= left.budgetUsed + sinceTick + restarts * TickMs
    BY <2>1 DEF Ledger
  <2>4. /\ used \in Nat /\ left.budgetUsed \in Nat /\ sinceTick \in Nat /\ restarts \in Nat
        /\ TickMs \in Nat
    BY <1>2, TimeAssumption DEF TypeOK, State
  <2>5. /\ restarts * TickMs \in Nat /\ restarts' * TickMs \in Nat
        /\ restarts' * TickMs = restarts * TickMs + TickMs
    BY <1>1, <2>4, OneMoreTick
  <2>6. used <= left.budgetUsed + restarts' * TickMs
    BY <2>2, <2>3, <2>4, <2>5
  <2>7. QED
    BY <1>1, <1>2, <2>6
<1>3. QED
  BY <1>1, <1>2 DEF Ledger

LEMMA PassLedger ==
  ASSUME TypeOK, Ledger, Pass
  PROVE  Ledger'
<1>1. CASE session = None
  BY <1>1 DEF Pass, Ledger, OutOfLimits
<1>2. CASE session # None
  <2>1. /\ timers'["tick"] = timers["tick"] - 1 /\ sinceTick' = sinceTick + 1
        /\ used' = Min(used + 1, MaxHistory)
        /\ overrun' = IF OutOfLimits /\ OutOfLimits' THEN Min(overrun + 1, MaxHistory) ELSE 0
        /\ UNCHANGED <<session, disk, restarts>>
    BY <1>2 DEF Pass, TypeOK, Timer
  <2>2. /\ timers["tick"] \in Nat /\ sinceTick \in Nat /\ used \in Nat /\ overrun \in Nat
        /\ session.budgetUsed \in Nat /\ restarts \in Nat
    BY <1>2 DEF TypeOK, Timer, State
  <2>3. used' <= used + 1 /\ overrun' <= overrun + 1 /\ used' \in Nat /\ overrun' \in Nat
    BY <2>1, <2>2, TimeAssumption DEF Min
  <2>4. restarts * TickMs \in Nat
    BY <2>2, OneMoreTick
  <2>5. /\ timers["tick"] + sinceTick = TickMs /\ overrun <= sinceTick
        /\ used <= session.budgetUsed + sinceTick + restarts * TickMs
        /\ session.budgetUsed < Window(session)
    BY <1>2 DEF Ledger
  <2>6. /\ timers'["tick"] + sinceTick' = TickMs /\ overrun' <= sinceTick'
        /\ used' <= session.budgetUsed + sinceTick' + restarts * TickMs
    BY <2>1, <2>2, <2>3, <2>4, <2>5, TimeAssumption
  <2>7. OutOfLimits' \/ overrun' = 0
    BY <2>1
  <2>8. Window(session)' = Window(session)
    BY <2>1 DEF Window
  <2>9. QED
    BY <1>2, <2>1, <2>5, <2>6, <2>7, <2>8 DEF Ledger
<1>3. QED
  BY <1>1, <1>2

LEMMA SetClockLedger ==
  ASSUME TypeOK, Ledger, NEW t, SetClock(t)
  PROVE  Ledger'
<1>1. overrun' = 0 \/ (overrun' = overrun /\ OutOfLimits')
  BY DEF SetClock
<1>2. session # None => sinceTick \in Nat
  BY DEF TypeOK
<1>3. Window(session)' = Window(session)
  BY DEF SetClock, Window
<1>4. QED
  BY <1>1, <1>2, <1>3 DEF SetClock, Ledger

LEMMA LedgerStep ==
  TypeOK /\ Agree /\ Ledger /\ [Next]_vars => Ledger'
<1> SUFFICES ASSUME TypeOK, Agree, Ledger, [Next]_vars PROVE Ledger'
  OBVIOUS
<1>1. CASE Timers
  BY <1>1, TimersLedger
<1>2. CASE Read
  BY <1>2, ActiveSessionLedger DEF Read
<1>3. CASE \E g \in Guest : Join(g) \/ Approve(g) \/ Leave(g)
  <2>1. PICK g \in Guest : Join(g) \/ Approve(g) \/ Leave(g)
    BY <1>3
  <2>2. CASE Join(g)
    BY <2>2, ActiveSessionLedger DEF Join
  <2>3. CASE Approve(g) \/ Leave(g)
    BY <2>3, SameLedger DEF Approve, Leave, world
  <2>4. QED
    BY <2>1, <2>2, <2>3
<1>4. CASE \E v \in Caller : (\E c \in Code : ValidateSend(v, c))
                             \/ ValidateAnswer(v) \/ ValidateFail(v)
  BY <1>4, SameLedger DEF ValidateSend, ValidateAnswer, ValidateFail, host, world
<1>5. CASE \E v \in Caller : ValidateDeliver(v)
  BY <1>5, DeliverLedger
<1>6. CASE PollSend
  BY <1>6, ActiveSessionLedger DEF PollSend
<1>7. CASE PollAnswer \/ PollIgnore
  BY <1>7, SameLedger DEF PollAnswer, PollIgnore, host, world
<1>8. CASE PollRefused
  BY <1>8, EndsLedger DEF PollRefused
<1>9. CASE Crash \/ CrashInWrite
  BY <1>9, StopLedger DEF Crash, CrashInWrite
<1>10. CASE Boot
  BY <1>10, LoadLedger DEF Boot, TypeOK, world
<1>11. CASE BootNewKey
  <2>1. disk' \notin State
    BY <1>11, NoneAssumption DEF BootNewKey
  <2>2. QED
    BY <1>11, <2>1, SameLedger DEF BootNewKey, world
<1>12. CASE EditDisk
  BY <1>12, SameLedger, NoneAssumption DEF EditDisk, world
<1>13. CASE \E t \in 0..MaxTime : SetClock(t)
  BY <1>13, SetClockLedger
<1>14. CASE \E c \in Code : Revoke(c)
  BY <1>14, SameLedger DEF Revoke, host
<1>15. CASE Pass
  BY <1>15, PassLedger
<1>16. CASE UNCHANGED vars
  BY <1>16, SameLedger DEF vars, host, world
<1>17. QED
  BY <1>1, <1>2, <1>3, <1>4, <1>5, <1>6, <1>7, <1>8, <1>9, <1>10, <1>11, <1>12, <1>13, <1>14,
     <1>15, <1>16 DEF Next

LEMMA LedgerAlways == Spec => [](TypeOK /\ Ledger)
<1>1. Init => Ledger
  BY NoneAssumption DEF Init, Ledger
<1>2. QED
  BY <1>1, AgreeAlways, LedgerStep, PTL DEF Spec

(* However the user sets the clock, whatever the network does and whenever the  *)
(* process is restarted, a session that passed one of its limits is ended       *)
(* within one tick of monotonic time.                                           *)
THEOREM LimitsEnforced == Spec => []EnforcedWithinTick
<1>1. TypeOK /\ Ledger => EnforcedWithinTick
  <2> SUFFICES ASSUME TypeOK, Ledger PROVE overrun <= TickMs
    BY DEF EnforcedWithinTick
  <2>1. CASE session = None
    BY <2>1, TimeAssumption DEF Ledger, OutOfLimits
  <2>2. CASE session # None
    <3>1. /\ timers["tick"] \in Nat /\ sinceTick \in Nat /\ overrun \in Nat
          /\ timers["tick"] + sinceTick = TickMs /\ overrun <= sinceTick
      BY <2>2 DEF TypeOK, Timer, Ledger
    <3>2. QED
      BY <3>1, TimeAssumption
  <2>3. QED
    BY <2>1, <2>2
<1>2. QED
  BY <1>1, LedgerAlways, PTL

(* No setting of the clock lets a token be used longer than its window, but for *)
(* one tick, and one more for each restart.                                     *)
THEOREM RuntimeIsCapped == Spec => []RuntimeCapped
<1>1. TypeOK /\ Ledger => RuntimeCapped
  <2> SUFFICES ASSUME TypeOK, Ledger, session # None
               PROVE  used <= Window(session) + (restarts + 1) * TickMs
    BY DEF RuntimeCapped
  <2>1. /\ timers["tick"] \in Nat /\ sinceTick \in Nat /\ used \in Nat /\ restarts \in Nat
        /\ session.budgetUsed \in Nat /\ Window(session) \in Int
    BY TimeAssumption DEF TypeOK, Timer, State, Window
  <2>2. /\ timers["tick"] + sinceTick = TickMs /\ session.budgetUsed < Window(session)
        /\ used <= session.budgetUsed + sinceTick + restarts * TickMs
    BY DEF Ledger
  <2>3. /\ restarts * TickMs \in Nat /\ (restarts + 1) * TickMs \in Nat
        /\ (restarts + 1) * TickMs = restarts * TickMs + TickMs
    BY <2>1, OneMoreTick
  <2>4. QED
    BY <2>1, <2>2, <2>3, TimeAssumption
<1>2. QED
  BY <1>1, LedgerAlways, PTL

-----------------------------------------------------------------------------
(* HostSession implements GuestRoom *)

RoomStep == Membership!Next \/ UNCHANGED Membership!vars

(* A session that starts, or is replaced, keeps the guests there are. *)
LEMMA StartsRoom ==
  ASSUME session' # None, guests' = guests
  PROVE  RoomStep
  BY DEF RoomStep, Membership!Next, Membership!Start

LEMMA SameRoom ==
  ASSUME session' = session, guests' = guests
  PROVE  RoomStep
  BY DEF RoomStep, Membership!vars

LEMMA EndsRoom ==
  ASSUME session' = None, guests' = AllOut
  PROVE  RoomStep
  BY DEF RoomStep, Membership!Next, Membership!End, Membership!Empty, AllOut

LEMMA FunctionsRoom ==
  ASSUME EndSession \/ \E s : Straddle(s)
  PROVE  RoomStep
  BY EndsRoom DEF EndSession, Straddle, EndWith

LEMMA LoadRoom ==
  ASSUME LoadSessionFromDisk
  PROVE  RoomStep
<1>1. CASE ReadState # None /\ session' = ReadState /\ UNCHANGED guests
  BY <1>1, StartsRoom
<1>2. CASE Straddle(ReadState)
  BY <1>2, FunctionsRoom
<1>3. CASE UNCHANGED <<session, guests>>
  BY <1>3, SameRoom
<1>4. QED
  BY <1>1, <1>2, <1>3 DEF LoadSessionFromDisk

LEMMA TickThenRoom ==
  ASSUME TypeOK, session # None, NEW rearmed, TickThen(rearmed)
  PROVE  RoomStep
<1>1. CASE session' = Accrue(session) /\ UNCHANGED guests
  <2>1. Accrue(session) \in State
    BY AccrueType DEF TypeOK
  <2>2. QED
    BY <1>1, <2>1, StartsRoom, NoneAssumption
<1>2. CASE EndSession
  BY <1>2, FunctionsRoom
<1>3. QED
  BY <1>1, <1>2 DEF TickThen

LEMMA TimersRoom ==
  ASSUME TypeOK, Timers
  PROVE  RoomStep
<1>1. CASE Tick
  BY <1>1, TickThenRoom DEF Tick, Due
<1>2. CASE WallTimer
  BY <1>2, FunctionsRoom, SameRoom DEF WallTimer
<1>3. CASE BudgetTimer
  BY <1>3, TickThenRoom, FunctionsRoom DEF BudgetTimer, Due
<1>4. CASE \E x \in Timer : StrayTimer(x)
  BY <1>4, SameRoom DEF StrayTimer
<1>5. QED
  BY <1>1, <1>2, <1>3, <1>4 DEF Timers

LEMMA ActiveSessionRoom ==
  ASSUME ActiveSession(guests)
  PROVE  RoomStep
  BY LoadRoom, FunctionsRoom, SameRoom DEF ActiveSession

(* Only who is out joins, and only a session that was found active. *)
LEMMA JoinRoom ==
  ASSUME NEW g \in Guest, Join(g)
  PROVE  RoomStep
<1>1. CASE LoadSessionFromDisk
  BY <1>1, LoadRoom
<1>2. CASE EndSession
  BY <1>2, FunctionsRoom
<1>3. CASE session # None /\ guests' = [guests EXCEPT ![g] = "pending"] /\ session' = session
  <2>1. Membership!Join(g)
    BY <1>3 DEF Join, Membership!Join, Membership!Becomes
  <2>2. QED
    BY <2>1 DEF RoomStep, Membership!Next
<1>4. QED
  BY <1>1, <1>2, <1>3 DEF Join, ActiveSession

LEMMA DecideRoom ==
  ASSUME TypeOK, GuestsSlaved, NEW g \in Guest, Approve(g) \/ Leave(g)
  PROVE  RoomStep
<1>1. session # None /\ session' = session
  BY DEF Approve, Leave, GuestsSlaved, AllOut
<1>2. CASE Approve(g)
  <2>1. Membership!Approve(g)
    BY <1>1, <1>2 DEF Approve, Membership!Approve, Membership!Becomes
  <2>2. QED
    BY <2>1 DEF RoomStep, Membership!Next
<1>3. CASE Leave(g)
  <2>1. guests[g] \in {"pending", "approved"}
    BY <1>3 DEF Leave, TypeOK
  <2>2. Membership!Leave(g)
    BY <1>1, <1>3, <2>1 DEF Leave, Membership!Leave, Membership!Becomes
  <2>3. QED
    BY <2>2 DEF RoomStep, Membership!Next
<1>4. QED
  BY <1>2, <1>3

LEMMA DeliverRoom ==
  ASSUME TypeOK, NEW v \in Caller, ValidateDeliver(v)
  PROVE  RoomStep
<1> DEFINE t == calls[v].answer
           s == [code |-> calls[v].code, issuedAt |-> t.issuedAt, expiresAt |-> t.expiresAt,
                 highWater |-> wall, budgetUsed |-> 0]
<1>1. s # None
  <2>1. t \in Token /\ calls[v] \in Call
    BY DEF ValidateDeliver, TypeOK, Call
  <2>2. s \in State
    BY <2>1 DEF TypeOK, Token, State, Call
  <2>3. QED
    BY <2>2, NoneAssumption
<1>2. UNCHANGED host \/ EndSession \/ (session' = s /\ guests' = guests) \/ Straddle(s)
  BY Zenon DEF ValidateDeliver
<1> HIDE DEF s
<1>3. QED
  BY <1>1, <1>2, SameRoom, StartsRoom, FunctionsRoom DEF host

LEMMA NextRoom ==
  TypeOK /\ Agree /\ [Next]_vars => RoomStep
<1> SUFFICES ASSUME TypeOK, Agree, [Next]_vars PROVE RoomStep
  OBVIOUS
<1>1. CASE Timers
  BY <1>1, TimersRoom
<1>2. CASE Read \/ PollSend
  BY <1>2, ActiveSessionRoom DEF Read, PollSend
<1>3. CASE \E g \in Guest : Join(g) \/ Approve(g) \/ Leave(g)
  BY <1>3, JoinRoom, DecideRoom DEF Agree
<1>4. CASE \E v \in Caller : (\E c \in Code : ValidateSend(v, c))
                             \/ ValidateAnswer(v) \/ ValidateFail(v)
  BY <1>4, SameRoom DEF ValidateSend, ValidateAnswer, ValidateFail, host
<1>5. CASE \E v \in Caller : ValidateDeliver(v)
  BY <1>5, DeliverRoom
<1>6. CASE PollAnswer \/ PollIgnore
  BY <1>6, SameRoom DEF PollAnswer, PollIgnore, host
<1>7. CASE PollRefused
  BY <1>7, FunctionsRoom DEF PollRefused
<1>8. CASE Crash \/ CrashInWrite
  BY <1>8, EndsRoom DEF Crash, CrashInWrite, Stop
<1>9. CASE Boot
  BY <1>9, LoadRoom DEF Boot
<1>10. CASE \/ BootNewKey \/ EditDisk \/ Pass
            \/ \E t \in 0..MaxTime : SetClock(t)
            \/ \E c \in Code : Revoke(c)
  BY <1>10, SameRoom DEF BootNewKey, EditDisk, Pass, SetClock, Revoke, host
<1>11. CASE UNCHANGED vars
  BY <1>11, SameRoom DEF vars, host
<1>12. QED
  BY <1>1, <1>2, <1>3, <1>4, <1>5, <1>6, <1>7, <1>8, <1>9, <1>10, <1>11 DEF Next

(* The session and its guests are a GuestRoom: nobody is in it but in a live    *)
(* session, nobody is approved who was not pending, and whatever ends the       *)
(* session empties it in the same step.                                         *)
THEOREM SessionImplementsRoom == Spec => ImplementsRoom
<1>1. Init => Membership!Init
  BY DEF Init, Membership!Init, Membership!Empty, AllOut
<1>2. TypeOK /\ Agree /\ [Next]_vars => [Membership!Next]_(Membership!vars)
  BY NextRoom DEF RoomStep
<1>3. QED
  BY <1>1, <1>2, AgreeAlways, PTL DEF Spec, ImplementsRoom, Membership!Spec
=============================================================================
