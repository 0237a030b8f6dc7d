---------------------------- MODULE HostSession ----------------------------
(***************************************************************************)
(* The session of the host's CLI process (cli/lib/server.mjs) and its       *)
(* offline enforcement: the wall-clock limit, the monotonic budget and the  *)
(* high-water mark (clock-guard.mjs), the sealed state on disk that         *)
(* survives restarts (sealed-store.mjs), the revocation poll, and the LAN   *)
(* guests, who are connected only while a session is live.                  *)
(*                                                                          *)
(* Time is discrete. The user may set the wall clock as he likes; the       *)
(* monotonic clock, on which Node's timers run, advances with Pass only. A  *)
(* synchronous handler takes no time, and a due timer runs before time goes *)
(* on: event-loop latency is far below TICK_MS. But the clock may move on   *)
(* between two readings of one handler (Straddle).                          *)
(***************************************************************************)
EXTENDS Integers

CONSTANTS
  Code,         \* codes the web application has issued
  Expiry,       \* Expiry[c]: expiresAt of c, fixed at approval (see CodeStore)
  Guest,        \* LAN guests
  Caller,       \* concurrent POST /api/local/validate requests
  None,         \* JavaScript's null; also a missing file
  Torn,         \* a half written session.json: not JSON
  Refusal,      \* a 401 answer
  Forged,       \* an edited session.json: JSON whose seal does not match
  TickMs,       \* TICK_MS
  GraceMs,      \* CLOCK_GRACE_MS
  MarginMs,     \* the 250 ms added to the budget timer
  MaxDelay,     \* setTimeout's largest delay, 2^31 - 1 ms
  MaxTime,      \* bound: clocks stop here, after the last expiry
  MaxHistory,   \* bound: the history variables stop here
  MaxRestarts   \* bound: how often the process is stopped

ASSUME TimeAssumption ==
  /\ MaxTime \in Nat /\ Expiry \in [Code -> 0..MaxTime]
  /\ TickMs \in Nat \ {0} /\ GraceMs \in Nat /\ MarginMs \in Nat
  /\ MaxDelay \in Nat \ {0} /\ MaxHistory \in Nat /\ MaxRestarts \in Nat

State == [code : Code, issuedAt : 0..MaxTime, expiresAt : 0..MaxTime,
          highWater : 0..MaxTime, budgetUsed : Nat]
Token == [issuedAt : 0..MaxTime, expiresAt : 0..MaxTime]

ASSUME NoneAssumption ==
  /\ None \notin State \cup Token \cup Nat \cup {Refusal, Torn, Forged}
  /\ Torn \notin State \cup {Forged} /\ Forged \notin State

VARIABLES
  up,         \* the CLI process runs
  session,    \* the live session's token and state, or None
  sinceTick,  \* process.hrtime() - session.lastHr
  timers,     \* the remaining delays of tickTimer, wallTimer, budgetTimer, None if not set
  disk,       \* session.json: None, Torn, Forged or a sealed State
  guests,     \* guests[g] \in {"out", "pending", "approved"}
  calls,      \* calls[v]: the validation v is waiting for, or None
  poll,       \* the revocation poll in flight, or None
  wall,       \* Date.now() on the host
  srv,        \* Date.now() in the web application
  alive,      \* codes neither revoked nor deleted upstream
  restarts,   \* how often the process was stopped
  used,       \* history: monotonic time the present token has been in use
  overrun     \* history: monotonic time the session has outlived its limits

host == <<session, sinceTick, timers, disk, guests, used, overrun>>
world == <<wall, srv, alive, restarts>>
vars == <<up, host, calls, poll, world>>

Min(a, b) == IF a < b THEN a ELSE b
Max(a, b) == IF a < b THEN b ELSE a
AllOut == [g \in Guest |-> "out"]
Timer == {"tick", "wall", "budget"}
Off == [t \in Timer |-> None]

-----------------------------------------------------------------------------
(* clock-guard.mjs *)

Window(s) == s.expiresAt - s.issuedAt

EvaluateSession(s, now) ==
  IF now < s.highWater - GraceMs THEN "tampered"
  ELSE IF now >= s.expiresAt THEN "expired"
  ELSE IF s.budgetUsed >= Window(s) THEN "budget-exhausted"
  ELSE "active"

Active(s) == EvaluateSession(s, wall) = "active"

(* Faulty variants, named <definition>_<fault>, are never used by Next: each  *)
(* is a change the properties below must detect.                              *)
Accrue_Forgets(s) == [s EXCEPT !.budgetUsed = sinceTick, !.highWater = Max(@, wall)]
Accrue_WallOnly(s) == [s EXCEPT !.highWater = Max(@, wall)]

(* What tick() writes into the state: runtime accrued, newest time seen. *)
Accrue(s) == [s EXCEPT !.budgetUsed = @ + sinceTick, !.highWater = Max(@, wall)]

-----------------------------------------------------------------------------
(* The functions of createInterfaceServer, called by the handlers below *)

EndWith(left) ==
  /\ session' = None
  /\ timers' = left
  /\ disk' = None
  /\ guests' = AllOut
  /\ sinceTick' = 0 /\ used' = 0 /\ overrun' = 0

EndSession_KeepsTimers == EndWith(timers)

EndSession_KeepsFile ==
  /\ session' = None /\ timers' = Off /\ disk' = disk /\ guests' = AllOut
  /\ sinceTick' = 0 /\ used' = 0 /\ overrun' = 0

EndSession_KeepsGuests ==
  /\ session' = None /\ timers' = Off /\ disk' = None /\ guests' = guests
  /\ sinceTick' = 0 /\ used' = 0 /\ overrun' = 0

EndSession == EndWith(Off)

WallDelay(s) == Min(s.expiresAt - wall, MaxDelay)

(* armSessionRuntime, for a session that evaluates to active *)
Armed(s) == [tick |-> TickMs, wall |-> WallDelay(s),
             budget |-> Min(Window(s) - s.budgetUsed + MarginMs, MaxDelay)]

(* The expiry of s, found active a moment ago, has passed when armSessionRuntime *)
(* looks again: it ends the session, and if scheduleWall is what looks, the      *)
(* other two timers are set all the same.                                        *)
Straddle(s) ==
  /\ s.expiresAt = wall + 1
  /\ EndSession \/ EndWith([Armed(s) EXCEPT !.wall = None])

(* unseal, with the install key the process started with *)
Unseal(file) == IF file \in State THEN file ELSE None

ReadState == IF disk = Torn THEN None ELSE Unseal(disk)

(* loadSessionFromDisk. What is not restored is deleted, here or in readState, *)
(* but a file that is not JSON is left where it is.                           *)
LoadSessionFromDisk ==
  IF ReadState # None /\ Active(ReadState)
    THEN \/ /\ session' = ReadState
            /\ timers' = Armed(ReadState)
            /\ sinceTick' = 0
            /\ UNCHANGED <<disk, guests, used, overrun>>
         \/ Straddle(ReadState)
    ELSE /\ disk' = IF disk = Torn THEN Torn ELSE None
         /\ UNCHANGED <<session, timers, sinceTick, guests, used, overrun>>

(* activeSession; guests become `admitted` if it finds a session. A file that *)
(* would be restored is found at the start only (DiskMirrorsMemory).          *)
ActiveSession(admitted) ==
  \/ /\ session = None
     /\ LoadSessionFromDisk
  \/ /\ session # None /\ ~Active(session)
     /\ EndSession
  \/ /\ session # None /\ Active(session)
     /\ guests' = admitted
     /\ UNCHANGED <<session, sinceTick, timers, disk, used, overrun>>

TickThen_Unchecked(rearmed) ==
  /\ session' = Accrue(session)
  /\ disk' = Accrue(session)
  /\ timers' = rearmed
  /\ sinceTick' = 0
  /\ UNCHANGED <<guests, used, overrun>>

(* tick(), after which the timers are `rearmed` if the session is still active *)
TickThen(rearmed) ==
  LET s == Accrue(session) IN
    IF Active(s)
      THEN /\ session' = s
           /\ disk' = s
           /\ timers' = rearmed
           /\ sinceTick' = 0
           /\ UNCHANGED <<guests, used, overrun>>
      ELSE EndSession

(* A callback that finds no session returns. *)
Fires(timer) == up /\ timers[timer] = 0
Due(timer) == Fires(timer) /\ session # None

-----------------------------------------------------------------------------
(* Timers *)

Tick ==
  /\ Due("tick")
  /\ TickThen([timers EXCEPT !.tick = TickMs])
  /\ UNCHANGED <<up, calls, poll, world>>

WallTimer ==
  /\ Due("wall")
  /\ IF wall >= session.expiresAt
       THEN EndSession
       ELSE /\ timers' = [timers EXCEPT !.wall = WallDelay(session)]
            /\ UNCHANGED <<session, sinceTick, disk, guests, used, overrun>>
  /\ UNCHANGED <<up, calls, poll, world>>

BudgetTimer ==
  /\ Due("budget")
  /\ \/ TickThen(Armed(Accrue(session)))
     \/ Active(Accrue(session)) /\ Straddle(Accrue(session))
  /\ UNCHANGED <<up, calls, poll, world>>

(* Timers set while a session ended; tickTimer is an interval. *)
StrayTimer(timer) ==
  /\ Fires(timer) /\ session = None
  /\ timers' = [timers EXCEPT ![timer] = IF timer = "tick" THEN TickMs ELSE None]
  /\ UNCHANGED <<up, session, sinceTick, disk, guests, used, overrun, calls, poll, world>>

-----------------------------------------------------------------------------
(* Requests of the host's browser and of guests *)

(* GET /api/local/session, or a page for a guest *)
Read ==
  /\ up
  /\ ActiveSession(guests)
  /\ UNCHANGED <<up, calls, poll, world>>

Join_NoGate(g) ==
  /\ up /\ guests[g] = "out"
  /\ guests' = [guests EXCEPT ![g] = "pending"]
  /\ UNCHANGED <<up, session, sinceTick, timers, disk, used, overrun, calls, poll, world>>

(* WebSocket upgrade: shouldAccept, then addGuest *)
Join(g) ==
  /\ up /\ guests[g] = "out"
  /\ ActiveSession([guests EXCEPT ![g] = "pending"])
  /\ UNCHANGED <<up, calls, poll, world>>

Approve(g) ==
  /\ up /\ guests[g] = "pending"
  /\ guests' = [guests EXCEPT ![g] = "approved"]
  /\ UNCHANGED <<up, session, sinceTick, timers, disk, used, overrun, calls, poll, world>>

(* The host denies the guest, or its connection closes. *)
Leave(g) ==
  /\ up /\ guests[g] # "out"
  /\ guests' = [guests EXCEPT ![g] = "out"]
  /\ UNCHANGED <<up, session, sinceTick, timers, disk, used, overrun, calls, poll, world>>

-----------------------------------------------------------------------------
(* handleValidate. The call awaits upstream without a time limit. *)

(* The web application's answer: what CodeLifecycle promises of c. *)
Upstream(c) ==
  IF c \in alive /\ srv <= Expiry[c] THEN [issuedAt |-> srv, expiresAt |-> Expiry[c]] ELSE Refusal

ValidateSend(v, c) ==
  /\ up /\ calls[v] = None
  /\ calls' = [calls EXCEPT ![v] = [code |-> c, answer |-> None]]
  /\ UNCHANGED <<up, host, poll, world>>

ValidateAnswer(v) ==
  /\ calls[v] # None /\ calls[v].answer = None
  /\ calls' = [calls EXCEPT ![v].answer = Upstream(calls[v].code)]
  /\ UNCHANGED <<up, host, poll, world>>

(* fetch fails, or the answer says no *)
ValidateFail(v) ==
  /\ calls[v] # None /\ calls[v].answer \notin Token
  /\ calls' = [calls EXCEPT ![v] = None]
  /\ UNCHANGED <<up, host, poll, world>>

(* A verified token starts a session, replacing the one there may be. *)
ValidateDeliver(v) ==
  /\ calls[v] # None /\ calls[v].answer \in Token
  /\ LET t == calls[v].answer
         s == [code |-> calls[v].code, issuedAt |-> t.issuedAt, expiresAt |-> t.expiresAt,
               highWater |-> wall, budgetUsed |-> 0]
     IN IF wall >= t.expiresAt THEN UNCHANGED host
        ELSE IF ~Active(s) THEN EndSession
        ELSE \/ /\ session' = s
                /\ disk' = s
                /\ timers' = Armed(s)
                /\ sinceTick' = 0 /\ used' = 0 /\ overrun' = 0
                /\ UNCHANGED guests
             \/ Straddle(s)
  /\ calls' = [calls EXCEPT ![v] = None]
  /\ UNCHANGED <<up, poll, world>>

-----------------------------------------------------------------------------
(* revocationPoll. Its period exceeds its time limit: one is in flight at most. *)

PollSend ==
  /\ up /\ poll = None
  /\ ActiveSession(guests)
  /\ poll' = IF session' = None THEN None ELSE [code |-> session'.code, refused |-> FALSE]
  /\ UNCHANGED <<up, calls, world>>

(* Upstream decides to refuse the code; any other outcome is PollIgnore. *)
PollAnswer ==
  /\ poll # None /\ ~poll.refused
  /\ Upstream(poll.code) = Refusal
  /\ poll' = [poll EXCEPT !.refused = TRUE]
  /\ UNCHANGED <<up, host, calls, world>>

(* No network, time limit, or the code is still good. *)
PollIgnore ==
  /\ poll # None /\ ~poll.refused
  /\ poll' = None
  /\ UNCHANGED <<up, host, calls, world>>

PollRefused_Ignored ==
  /\ poll # None /\ poll.refused
  /\ poll' = None
  /\ UNCHANGED <<up, host, calls, world>>

PollRefused ==
  /\ poll # None /\ poll.refused
  /\ EndSession
  /\ poll' = None
  /\ UNCHANGED <<up, calls, world>>

-----------------------------------------------------------------------------
(* The process stops (closed, killed, power cut) and starts again *)

Stop(left) ==
  /\ up /\ restarts < MaxRestarts
  /\ up' = FALSE
  /\ restarts' = restarts + 1
  /\ session' = None /\ timers' = Off /\ sinceTick' = 0 /\ overrun' = 0
  /\ guests' = AllOut
  /\ calls' = [v \in Caller |-> None] /\ poll' = None
  /\ disk' = left
  /\ used' = IF left \in State THEN used ELSE 0
  /\ UNCHANGED <<wall, srv, alive>>

Crash == Stop(disk)

(* The power fails inside writeFileSync, which truncates the file and fills it. *)
CrashInWrite ==
  /\ \/ Due("tick") \/ Due("budget")
     \/ \E v \in Caller : calls[v] # None /\ calls[v].answer \in Token
  /\ Stop(Torn)

Boot ==
  /\ ~up
  /\ up' = TRUE
  /\ LoadSessionFromDisk
  /\ UNCHANGED <<calls, poll, world>>

(* loadInstallKey finds no key and makes one, which no seal on the disk matches. *)
BootNewKey ==
  /\ ~up
  /\ up' = TRUE
  /\ disk' = IF disk = Torn THEN Torn ELSE None
  /\ UNCHANGED <<session, sinceTick, timers, guests, used, overrun, calls, poll, world>>

-----------------------------------------------------------------------------
(* The environment *)

(* The user edits session.json. *)
EditDisk ==
  /\ disk \in State
  /\ disk' = Forged
  /\ UNCHANGED <<up, session, sinceTick, timers, guests, used, overrun, calls, poll, world>>

(* The administrator revokes or deletes the code. *)
Revoke(c) ==
  /\ c \in alive
  /\ alive' = alive \ {c}
  /\ UNCHANGED <<up, host, calls, poll, wall, srv, restarts>>

(* The limits are passed, measured without waiting for the next tick. *)
OutOfLimits == session # None /\ ~Active(Accrue(session))

(* The user sets the wall clock; back within the limits, there is no overrun. *)
SetClock(t) ==
  /\ wall' = t
  /\ UNCHANGED <<up, session, sinceTick, timers, disk, guests, used, calls, poll, srv, alive,
                 restarts>>
  /\ overrun' = IF OutOfLimits' THEN overrun ELSE 0

Pass ==
  /\ ~ \E t \in Timer : Fires(t)
  /\ wall' = Min(wall + 1, MaxTime)
  /\ srv' = Min(srv + 1, MaxTime)
  /\ timers' = [t \in Timer |-> IF timers[t] = None THEN None ELSE timers[t] - 1]
  /\ UNCHANGED <<up, session, disk, guests, calls, poll, alive, restarts>>
  /\ IF session = None
       THEN UNCHANGED <<sinceTick, used, overrun>>
       ELSE /\ sinceTick' = sinceTick + 1
            /\ used' = Min(used + 1, MaxHistory)
            /\ overrun' = IF OutOfLimits /\ OutOfLimits' THEN Min(overrun + 1, MaxHistory) ELSE 0

-----------------------------------------------------------------------------
Init ==
  /\ up = TRUE
  /\ session = None /\ sinceTick = 0 /\ timers = Off /\ disk = None
  /\ guests = AllOut
  /\ calls = [v \in Caller |-> None]
  /\ poll = None
  /\ wall = 0 /\ srv = 0
  /\ alive = Code
  /\ restarts = 0 /\ used = 0 /\ overrun = 0

Timers == Tick \/ WallTimer \/ BudgetTimer \/ \E t \in Timer : StrayTimer(t)

Next ==
  \/ Timers \/ Read
  \/ \E g \in Guest : Join(g) \/ Approve(g) \/ Leave(g)
  \/ \E v \in Caller : (\E c \in Code : ValidateSend(v, c))
                       \/ ValidateAnswer(v) \/ ValidateFail(v) \/ ValidateDeliver(v)
  \/ PollSend \/ PollAnswer \/ PollIgnore \/ PollRefused
  \/ Crash \/ CrashInWrite \/ Boot \/ BootNewKey
  \/ EditDisk
  \/ \E t \in 0..MaxTime : SetClock(t)
  \/ \E c \in Code : Revoke(c)
  \/ Pass

Spec == Init /\ [][Next]_vars

-----------------------------------------------------------------------------
(* Properties *)

(* Types; all timers are set while a session is live, and none that would have *)
(* to look at it when there is none.                                           *)
TypeOK ==
  /\ up \in BOOLEAN
  /\ session \in State \cup {None}
  /\ session # None => up
  /\ timers \in [Timer -> Nat \cup {None}]
  /\ session # None => \A t \in Timer : timers[t] # None
  /\ session = None => timers["wall"] = None
  /\ sinceTick \in Nat
  /\ disk \in State \cup {None, Torn, Forged}
  /\ guests \in [Guest -> {"out", "pending", "approved"}]
  /\ calls \in [Caller -> [code : Code, answer : Token \cup {None, Refusal}] \cup {None}]
  /\ poll \in [code : Code, refused : BOOLEAN] \cup {None}
  /\ wall \in 0..MaxTime /\ srv \in 0..MaxTime
  /\ alive \subseteq Code
  /\ restarts \in Nat /\ used \in Nat /\ overrun \in Nat

(***************************************************************************)
(* What the process would restore is what it enforces: while a session is   *)
(* live the sealed file holds exactly its state (unless the user edited     *)
(* it), and when none is, nothing restorable is left, so that a session     *)
(* that was ended or refused does not come back with the next start.        *)
(***************************************************************************)
DiskMirrorsMemory ==
  up => IF session = None THEN disk \in {None, Torn, Forged}
                          ELSE disk \in {session, Forged}

(* Guests are slaved to the session: without one nobody is connected. *)
GuestsSlaved == session = None => guests = AllOut

(***************************************************************************)
(* However the user sets the clock, a session that passed one of its limits *)
(* is ended within one tick of monotonic time, also when nobody asks.       *)
(***************************************************************************)
EnforcedWithinTick == overrun <= TickMs

(***************************************************************************)
(* "Freezing or rewinding the wall clock caps total usable runtime at the   *)
(* granted window": no setting of the clock lets a token be used longer,    *)
(* but for one tick, and one more for every restart.                        *)
(***************************************************************************)
RuntimeCapped ==
  session # None => used <= Window(session) + (restarts + 1) * TickMs

(***************************************************************************)
(* "While a session is active, an explicit 401 ends the session": the       *)
(* session that a refused poll ends is one whose own code is refused.       *)
(***************************************************************************)
RefusalIsOwn ==
  [][PollRefused /\ session # None => Upstream(session.code) = Refusal]_vars

(* "Hand-edit any byte of session.json -> next check kills the session". *)
EditKillsSession ==
  [][Tick /\ disk = Forged => session' = None]_vars

(***************************************************************************)
(* The session and its guests behave as GuestRoom promises: whatever ends   *)
(* the session - limits, a refusal, a restart - empties the room at once.    *)
(***************************************************************************)
Membership == INSTANCE GuestRoom WITH live <- session # None, status <- guests
ImplementsRoom == Membership!Spec

-----------------------------------------------------------------------------
(* Fairness is a premise of each liveness property, so that neither gains from *)
(* what only the other needs: a session must end without the network, and one  *)
(* whose code is revoked without waiting for its limits.                       *)

(* Time goes on, and Node runs its due timers. *)
TimeFairness == WF_vars(Pass) /\ WF_vars(Timers)

(* The poll's interval keeps firing; a request is over after 10 s at the latest *)
(* (AbortSignal.timeout), and the network is not down every time it asks.       *)
PollFairness ==
  WF_vars(PollSend) /\ WF_vars(PollIgnore) /\ SF_vars(PollAnswer) /\ WF_vars(PollRefused)

(* Every session ends, whatever the user does to the wall clock. *)
SessionEnds == TimeFairness => (session # None ~> session = None)

(* A session whose code is revoked ends, if the network is up now and then. *)
RevokedEnds == PollFairness =>
  \A c \in Code : (session # None /\ session.code = c /\ c \notin alive)
                    ~> (session = None \/ session.code # c)
=============================================================================
