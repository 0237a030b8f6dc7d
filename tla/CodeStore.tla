----------------------------- MODULE CodeStore -----------------------------
(***************************************************************************)
(* The access-control store of the web application: access requests,        *)
(* access codes, the two index sets and the request->code link, all in one  *)
(* Redis, and the HTTP handlers that work on them                           *)
(* (app/lib/store.ts, app/lib/lifecycle.ts, app/app/api/**/route.ts).       *)
(*                                                                          *)
(* Every handler is a serverless invocation. Each `await redis....` is one   *)
(* atomic Redis command and one action here; between two of them any other  *)
(* invocation may run, so what a handler read before may be stale when it   *)
(* writes. h[p] is what invocation p holds between two commands; h[p].pc    *)
(* names the command it will issue next.                                    *)
(***************************************************************************)
EXTENDS Naturals

CONSTANTS
  Handler,    \* serverless invocations that may be in flight together
  Request,    \* request ids (randomUUID)
  Code,       \* access codes (generateCode)
  Cookie,     \* visitors, by their cookieId
  Timeout,    \* the timeoutMinutes an administrator may choose
  None,       \* JavaScript's null
  MaxClock,   \* bound: the clock stops here
  MaxAborts   \* bound: invocations that die between two commands

ASSUME TimeoutAssumption == Timeout \subseteq Nat \ {0}
ASSUME BoundAssumption == MaxClock \in Nat /\ MaxAborts \in Nat

RequestStatus == {"pending", "approved", "denied"}
CodeStatus == {"active", "expired", "revoked"}

AccessRequest == [cookie : Cookie, status : RequestStatus]
AccessCode == [code : Code, req : Request, expiresAt : Nat, status : CodeStatus]
Approval == [req : Request, expiresAt : Nat]
Token == [code : Code, issuedAt : Nat, expiresAt : Nat]

(* A UUID is never a code of eight letters and digits. *)
ASSUME IdAssumption == Request \cap Code = {}
ASSUME NoneAssumption ==
  None \notin Request \cup Code \cup AccessRequest \cup AccessCode \cup Approval \cup Token

VARIABLES
  requests,   \* request:<id>       -> AccessRequest or None
  reqIndex,   \* requests:index
  codes,      \* code:<code>        -> AccessCode or None
  codeIndex,  \* codes:index
  link,       \* request_code:<id>  -> Code or None
  clock,      \* Date.now(), in minutes
  h,          \* the local state of every invocation
  minted,     \* history: what the code was approved for, None before that
  known,      \* history: the ids a client may have learnt
  grant,      \* history: the grant signed last, None before the first
  aborts      \* bound counter of Abort

redis == <<requests, reqIndex, codes, codeIndex, link>>
history == <<minted, known, grant, aborts>>
vars == <<redis, clock, h, history>>

-----------------------------------------------------------------------------
(* Lifecycle rules and the local state of an invocation *)

(* Faulty variants, named <definition>_<fault>, are never used by Next: each  *)
(* is a change the properties below must detect.                              *)
EffectiveCodeStatus_Recomputed(rec, now) ==
  IF now > rec.expiresAt THEN "expired" ELSE "active"

EffectiveCodeStatus_RevokedExpires(rec, now) ==
  IF now > rec.expiresAt THEN "expired" ELSE rec.status

EffectiveCodeStatus(rec, now) ==
  IF rec.status = "active" /\ now > rec.expiresAt THEN "expired" ELSE rec.status

ComputeExpiresAt_Sign(approvedAt, timeout) == approvedAt - timeout

ComputeExpiresAt(approvedAt, timeout) == approvedAt + timeout

Idle == [pc |-> "idle", req |-> None, code |-> None, cookie |-> None, time |-> 0,
         snap |-> None, links |-> {}, reads |-> {}, saves |-> {}]

(* The steps of approveRequest during which its new code is not yet stored. *)
Approving == {"ApproveGet", "ApproveSetRequest", "ApproveSetCode"}

(* randomUUID and generateCode: an id no record and no invocation has. *)
FreshRequest(r) ==
  /\ requests[r] = None
  /\ r \notin known
  /\ \A p \in Handler : h[p].req # r

FreshCode(c) ==
  /\ minted[c] = None
  /\ \A p \in Handler : h[p].pc \in Approving => h[p].code # c

Call(p, local) ==
  /\ h[p] = Idle
  /\ h' = [h EXCEPT ![p] = local]
  /\ UNCHANGED <<redis, clock, history>>

At(p, step) == h[p].pc = step
Goto(p, step) == h' = [h EXCEPT ![p].pc = step]
Return(p) == h' = [h EXCEPT ![p] = Idle]

(* A read finished: go on with the local state `local`, or answer null. *)
Proceed(p, ok, local) == h' = [h EXCEPT ![p] = IF ok THEN local ELSE Idle]

Init ==
  /\ requests = [r \in Request |-> None]
  /\ reqIndex = {}
  /\ codes = [c \in Code |-> None]
  /\ codeIndex = {}
  /\ link = [r \in Request |-> None]
  /\ clock = 0
  /\ h = [p \in Handler |-> Idle]
  /\ minted = [c \in Code |-> None]
  /\ known = {}
  /\ grant = None
  /\ aborts = 0

-----------------------------------------------------------------------------
(* POST /api/requests: createRequest *)

CallCreate(p, r, k) ==
  /\ FreshRequest(r)
  /\ Call(p, [Idle EXCEPT !.pc = "CreateSet", !.req = r,
                          !.snap = [cookie |-> k, status |-> "pending"]])

CreateSet(p) ==
  /\ At(p, "CreateSet")
  /\ requests' = [requests EXCEPT ![h[p].req] = h[p].snap]
  /\ Goto(p, "CreateSadd")
  /\ UNCHANGED <<reqIndex, codes, codeIndex, link, clock, history>>

CreateSadd(p) ==
  /\ At(p, "CreateSadd")
  /\ reqIndex' = reqIndex \cup {h[p].req}
  /\ known' = known \cup {h[p].req}
  /\ Return(p)
  /\ UNCHANGED <<requests, codes, codeIndex, link, clock, minted, grant, aborts>>

(***************************************************************************)
(* POST /api/admin/approve: approveRequest. `now` is the default argument,   *)
(* read when the call is made. The code is drawn here although generateCode *)
(* runs after the read: it is random, and nobody sees it before it is set.  *)
(***************************************************************************)
CallApprove(p, r, t, c) ==
  /\ r \in known
  /\ FreshCode(c)
  /\ Call(p, [Idle EXCEPT !.pc = "ApproveGet", !.req = r, !.code = c,
                          !.time = ComputeExpiresAt(clock, t)])

ApproveGet_AnyStatus(p) ==
  /\ At(p, "ApproveGet")
  /\ LET request == requests[h[p].req] IN
       Proceed(p, request # None,
               [h[p] EXCEPT !.pc = "ApproveSetRequest", !.snap = request])
  /\ UNCHANGED <<redis, clock, history>>

ApproveGet_NotApproved(p) ==
  /\ At(p, "ApproveGet")
  /\ LET request == requests[h[p].req] IN
       Proceed(p, request # None /\ request.status # "approved",
               [h[p] EXCEPT !.pc = "ApproveSetRequest", !.snap = request])
  /\ UNCHANGED <<redis, clock, history>>

ApproveGet(p) ==
  /\ At(p, "ApproveGet")
  /\ LET request == requests[h[p].req] IN
       Proceed(p, request # None /\ request.status = "pending",
               [h[p] EXCEPT !.pc = "ApproveSetRequest", !.snap = request])
  /\ UNCHANGED <<redis, clock, history>>

ApproveSetRequest(p) ==
  /\ At(p, "ApproveSetRequest")
  /\ requests' = [requests EXCEPT ![h[p].req] = [h[p].snap EXCEPT !.status = "approved"]]
  /\ Goto(p, "ApproveSetCode")
  /\ UNCHANGED <<reqIndex, codes, codeIndex, link, clock, history>>

ApproveSetCode_NotIndexed(p) ==
  /\ At(p, "ApproveSetCode")
  /\ LET c == h[p].code IN
       /\ codes' = [codes EXCEPT ![c] = [code |-> c, req |-> h[p].req,
                                         expiresAt |-> h[p].time, status |-> "active"]]
       /\ minted' = [minted EXCEPT ![c] = [req |-> h[p].req, expiresAt |-> h[p].time]]
  /\ Goto(p, "ApproveSetLink")
  /\ UNCHANGED <<requests, reqIndex, codeIndex, link, clock, known, grant, aborts>>

ApproveSetCode(p) ==
  /\ At(p, "ApproveSetCode")
  /\ LET c == h[p].code IN
       /\ codes' = [codes EXCEPT ![c] = [code |-> c, req |-> h[p].req,
                                         expiresAt |-> h[p].time, status |-> "active"]]
       /\ minted' = [minted EXCEPT ![c] = [req |-> h[p].req, expiresAt |-> h[p].time]]
  /\ Goto(p, "ApproveSaddCode")
  /\ UNCHANGED <<requests, reqIndex, codeIndex, link, clock, known, grant, aborts>>

ApproveSaddCode(p) ==
  /\ At(p, "ApproveSaddCode")
  /\ codeIndex' = codeIndex \cup {h[p].code}
  /\ known' = known \cup {h[p].code}
  /\ Goto(p, "ApproveSetLink")
  /\ UNCHANGED <<requests, reqIndex, codes, link, clock, minted, grant, aborts>>

ApproveSetLink(p) ==
  /\ At(p, "ApproveSetLink")
  /\ link' = [link EXCEPT ![h[p].req] = h[p].code]
  /\ Return(p)
  /\ UNCHANGED <<requests, reqIndex, codes, codeIndex, clock, history>>

-----------------------------------------------------------------------------
(* POST /api/admin/deny: denyRequest *)

CallDeny(p, r) == r \in known /\ Call(p, [Idle EXCEPT !.pc = "DenyGet", !.req = r])

DenyGet(p) ==
  /\ At(p, "DenyGet")
  /\ LET request == requests[h[p].req] IN
       Proceed(p, request # None /\ request.status = "pending",
               [h[p] EXCEPT !.pc = "DenySet", !.snap = request])
  /\ UNCHANGED <<redis, clock, history>>

DenySet(p) ==
  /\ At(p, "DenySet")
  /\ requests' = [requests EXCEPT ![h[p].req] = [h[p].snap EXCEPT !.status = "denied"]]
  /\ Return(p)
  /\ UNCHANGED <<reqIndex, codes, codeIndex, link, clock, history>>

-----------------------------------------------------------------------------
(* DELETE /api/admin/requests/[id], and DELETE /api/requests/[id] which first *)
(* checks that the visitor owns the request: deleteRequest                    *)

CallDeleteRequest(p, r) ==
  r \in known /\ Call(p, [Idle EXCEPT !.pc = "DeleteGetLink", !.req = r])

CallDeleteOwn(p, r, k) ==
  r \in known /\ Call(p, [Idle EXCEPT !.pc = "OwnGet", !.req = r, !.cookie = k])

OwnGet(p) ==
  /\ At(p, "OwnGet")
  /\ LET request == requests[h[p].req] IN
       Proceed(p, request # None /\ request.cookie = h[p].cookie,
               [h[p] EXCEPT !.pc = "DeleteGetLink"])
  /\ UNCHANGED <<redis, clock, history>>

DeleteGetLink(p) ==
  /\ At(p, "DeleteGetLink")
  /\ LET code == link[h[p].req] IN
       h' = [h EXCEPT ![p].pc = IF code = None THEN "DelRequest" ELSE "Cascade",
                      ![p].code = code]
  /\ UNCHANGED <<redis, clock, history>>

Cascade_KeepsIndex(p) ==
  /\ At(p, "Cascade")
  /\ codes' = [codes EXCEPT ![h[p].code] = None]
  /\ link' = [link EXCEPT ![h[p].req] = None]
  /\ Goto(p, "DelRequest")
  /\ UNCHANGED <<requests, reqIndex, codeIndex, clock, history>>

(* One del command with two keys. *)
Cascade(p) ==
  /\ At(p, "Cascade")
  /\ codes' = [codes EXCEPT ![h[p].code] = None]
  /\ link' = [link EXCEPT ![h[p].req] = None]
  /\ Goto(p, "CascadeSrem")
  /\ UNCHANGED <<requests, reqIndex, codeIndex, clock, history>>

CascadeSrem(p) ==
  /\ At(p, "CascadeSrem")
  /\ codeIndex' = codeIndex \ {h[p].code}
  /\ Goto(p, "DelRequest")
  /\ UNCHANGED <<requests, reqIndex, codes, link, clock, history>>

DelRequest(p) ==
  /\ At(p, "DelRequest")
  /\ requests' = [requests EXCEPT ![h[p].req] = None]
  /\ Goto(p, "SremRequest")
  /\ UNCHANGED <<reqIndex, codes, codeIndex, link, clock, history>>

SremRequest(p) ==
  /\ At(p, "SremRequest")
  /\ reqIndex' = reqIndex \ {h[p].req}
  /\ Return(p)
  /\ UNCHANGED <<requests, codes, codeIndex, link, clock, history>>

-----------------------------------------------------------------------------
(* POST /api/admin/revoke: revokeCode *)

CallRevoke(p, c) == c \in known /\ Call(p, [Idle EXCEPT !.pc = "RevokeGet", !.code = c])

RevokeGet(p) ==
  /\ At(p, "RevokeGet")
  /\ LET record == codes[h[p].code] IN
       Proceed(p, record # None,
               [h[p] EXCEPT !.pc = "RevokeSet", !.snap = record])
  /\ UNCHANGED <<redis, clock, history>>

RevokeSet(p) ==
  /\ At(p, "RevokeSet")
  /\ codes' = [codes EXCEPT ![h[p].code] = [h[p].snap EXCEPT !.status = "revoked"]]
  /\ Return(p)
  /\ UNCHANGED <<requests, reqIndex, codeIndex, link, clock, history>>

-----------------------------------------------------------------------------
(* DELETE /api/admin/codes/[code]: deleteCode *)

CallDeleteCode(p, c) ==
  c \in known /\ Call(p, [Idle EXCEPT !.pc = "DeleteCodeGet", !.code = c])

DeleteCodeGet_KeepsLink(p) ==
  /\ At(p, "DeleteCodeGet")
  /\ Goto(p, "DelCode")
  /\ UNCHANGED <<redis, clock, history>>

DeleteCodeGet(p) ==
  /\ At(p, "DeleteCodeGet")
  /\ LET record == codes[h[p].code] IN
       IF record = None
         THEN Goto(p, "DelCode")
         ELSE h' = [h EXCEPT ![p].pc = "Unlink", ![p].req = record.req]
  /\ UNCHANGED <<redis, clock, history>>

Unlink(p) ==
  /\ At(p, "Unlink")
  /\ link' = [link EXCEPT ![h[p].req] = None]
  /\ Goto(p, "DelCode")
  /\ UNCHANGED <<requests, reqIndex, codes, codeIndex, clock, history>>

DelCode(p) ==
  /\ At(p, "DelCode")
  /\ codes' = [codes EXCEPT ![h[p].code] = None]
  /\ Goto(p, "SremCode")
  /\ UNCHANGED <<requests, reqIndex, codeIndex, link, clock, history>>

SremCode(p) ==
  /\ At(p, "SremCode")
  /\ codeIndex' = codeIndex \ {h[p].code}
  /\ Return(p)
  /\ UNCHANGED <<requests, reqIndex, codes, link, clock, history>>

-----------------------------------------------------------------------------
(* POST /api/validate. The clock is read after the record; resolveCode writes *)
(* the record back when it finds it expired; an active code gets a grant.     *)

CallValidate(p, c) == Call(p, [Idle EXCEPT !.pc = "ValidateGet", !.code = c])

ValidateGet(p) ==
  /\ At(p, "ValidateGet")
  /\ LET record == codes[h[p].code] IN
       Proceed(p, record # None,
               [h[p] EXCEPT !.pc = "ValidateResolve", !.snap = record])
  /\ UNCHANGED <<redis, clock, history>>

ValidateResolve_SavesOld(p) ==
  /\ At(p, "ValidateResolve")
  /\ LET rec == h[p].snap
         status == EffectiveCodeStatus(rec, clock)
     IN /\ Proceed(p, status # rec.status, [h[p] EXCEPT !.pc = "ValidateSave"])
        /\ grant' = IF status # "active" THEN grant
                    ELSE [code |-> rec.code, issuedAt |-> clock, expiresAt |-> rec.expiresAt]
  /\ UNCHANGED <<redis, clock, minted, known, aborts>>

ValidateResolve(p) ==
  /\ At(p, "ValidateResolve")
  /\ LET rec == h[p].snap
         status == EffectiveCodeStatus(rec, clock)
     IN /\ Proceed(p, status # rec.status,
                   [h[p] EXCEPT !.pc = "ValidateSave", !.snap.status = status])
        /\ grant' = IF status # "active" THEN grant
                    ELSE [code |-> rec.code, issuedAt |-> clock, expiresAt |-> rec.expiresAt]
  /\ UNCHANGED <<redis, clock, minted, known, aborts>>

ValidateSave(p) ==
  /\ At(p, "ValidateSave")
  /\ codes' = [codes EXCEPT ![h[p].code] = h[p].snap]
  /\ Return(p)
  /\ UNCHANGED <<requests, reqIndex, codeIndex, link, clock, history>>

-----------------------------------------------------------------------------
(* The listings: GET /api/admin/state and GET /api/requests. Both read the    *)
(* clock first and persist every expiry they observe. The commands of one     *)
(* Promise.all run in any order; the administrator's listing resolves only    *)
(* after all its reads, the visitor's resolves each request on its own. Of    *)
(* the request records only the visitor's cookie matters, which never         *)
(* changes: the listing reads them in one step with their index.              *)

CallState(p) == Call(p, [Idle EXCEPT !.pc = "StateList", !.time = clock])

StateList(p) ==
  /\ At(p, "StateList")
  /\ h' = [h EXCEPT ![p].pc = "State", ![p].reads = codeIndex]
  /\ UNCHANGED <<redis, clock, history>>

CallMine(p, k) == Call(p, [Idle EXCEPT !.pc = "MineList", !.time = clock, !.cookie = k])

MineList(p) ==
  /\ At(p, "MineList")
  /\ h' = [h EXCEPT ![p].pc = "Mine",
                    ![p].links = {r \in reqIndex :
                                    requests[r] # None /\ requests[r].cookie = h[p].cookie}]
  /\ UNCHANGED <<redis, clock, history>>

(* getCodeForRequest, first command *)
MineLink(p, r) ==
  /\ At(p, "Mine")
  /\ r \in h[p].links
  /\ h' = [h EXCEPT ![p].links = @ \ {r},
                    ![p].reads = IF link[r] = None THEN @ ELSE @ \cup {link[r]}]
  /\ UNCHANGED <<redis, clock, history>>

(* get code:<c>, then effectiveCodeStatus under the listing's own `now` *)
ListRead(p, c) ==
  /\ h[p].pc \in {"State", "Mine"}
  /\ c \in h[p].reads
  /\ LET rec == codes[c]
         stale == rec # None /\ EffectiveCodeStatus(rec, h[p].time) # rec.status
     IN h' = [h EXCEPT ![p].reads = @ \ {c},
                       ![p].saves = IF stale THEN @ \cup {[rec EXCEPT !.status = "expired"]}
                                             ELSE @]
  /\ UNCHANGED <<redis, clock, history>>

ListSave(p, rec) ==
  /\ At(p, "Mine") \/ (At(p, "State") /\ h[p].reads = {})
  /\ rec \in h[p].saves
  /\ codes' = [codes EXCEPT ![rec.code] = rec]
  /\ h' = [h EXCEPT ![p].saves = @ \ {rec}]
  /\ UNCHANGED <<requests, reqIndex, codeIndex, link, clock, history>>

ListDone(p) ==
  /\ h[p].pc \in {"State", "Mine"}
  /\ h[p].links = {} /\ h[p].reads = {} /\ h[p].saves = {}
  /\ Return(p)
  /\ UNCHANGED <<redis, clock, history>>

-----------------------------------------------------------------------------
(* The invocation dies between two commands (crash, time limit, Redis error). *)
Abort(p) ==
  /\ h[p] # Idle
  /\ aborts < MaxAborts
  /\ aborts' = aborts + 1
  /\ Return(p)
  /\ UNCHANGED <<redis, clock, minted, known, grant>>

Tick ==
  /\ clock < MaxClock
  /\ clock' = clock + 1
  /\ UNCHANGED <<redis, h, history>>

RequestCalls(p) ==
  \E r \in Request :
    \/ \E k \in Cookie : CallCreate(p, r, k) \/ CallDeleteOwn(p, r, k)
    \/ \E t \in Timeout, c \in Code : CallApprove(p, r, t, c)
    \/ CallDeny(p, r)
    \/ CallDeleteRequest(p, r)

CodeCalls(p) ==
  \/ \E c \in Code : CallRevoke(p, c) \/ CallDeleteCode(p, c) \/ CallValidate(p, c)
  \/ CallState(p)
  \/ \E k \in Cookie : CallMine(p, k)

RequestSteps(p) ==
  \/ CreateSet(p) \/ CreateSadd(p)
  \/ ApproveGet(p) \/ ApproveSetRequest(p) \/ ApproveSetCode(p)
  \/ ApproveSaddCode(p) \/ ApproveSetLink(p)
  \/ DenyGet(p) \/ DenySet(p)
  \/ OwnGet(p) \/ DeleteGetLink(p) \/ Cascade(p) \/ CascadeSrem(p)
  \/ DelRequest(p) \/ SremRequest(p)

CodeSteps(p) ==
  \/ RevokeGet(p) \/ RevokeSet(p)
  \/ DeleteCodeGet(p) \/ Unlink(p) \/ DelCode(p) \/ SremCode(p)
  \/ ValidateGet(p) \/ ValidateResolve(p) \/ ValidateSave(p)

ListSteps(p) ==
  \/ StateList(p) \/ MineList(p)
  \/ \E r \in Request : MineLink(p, r)
  \/ \E c \in Code : ListRead(p, c)
  \/ \E rec \in h[p].saves : ListSave(p, rec)
  \/ ListDone(p)

Next ==
  \/ \E p \in Handler : RequestCalls(p) \/ CodeCalls(p) \/ RequestSteps(p)
                        \/ CodeSteps(p) \/ ListSteps(p) \/ Abort(p)
  \/ Tick

Spec == Init /\ [][Next]_vars

-----------------------------------------------------------------------------
(* Properties *)

Steps == {"idle", "CreateSet", "CreateSadd", "ApproveGet", "ApproveSetRequest",
          "ApproveSetCode", "ApproveSaddCode", "ApproveSetLink", "DenyGet", "DenySet",
          "OwnGet", "DeleteGetLink", "Cascade", "CascadeSrem", "DelRequest",
          "SremRequest", "RevokeGet", "RevokeSet", "DeleteCodeGet", "Unlink",
          "DelCode", "SremCode", "ValidateGet", "ValidateResolve", "ValidateSave",
          "StateList", "State", "MineList", "Mine"}

Local == [pc : Steps, req : Request \cup {None}, code : Code \cup {None},
          cookie : Cookie \cup {None}, time : Nat,
          snap : AccessRequest \cup AccessCode \cup {None},
          links : SUBSET Request, reads : SUBSET Code, saves : SUBSET AccessCode]

(* What a step needs, an earlier step of the same call has put there. *)
NeedsRequest == Approving \cup
  {"CreateSet", "CreateSadd", "ApproveSaddCode", "ApproveSetLink", "DenyGet", "DenySet",
   "OwnGet", "DeleteGetLink", "Cascade", "CascadeSrem", "DelRequest", "SremRequest", "Unlink"}

NeedsCode == Approving \cup
  {"ApproveSaddCode", "ApproveSetLink", "Cascade", "CascadeSrem", "RevokeGet", "RevokeSet",
   "DeleteCodeGet", "Unlink", "DelCode", "SremCode", "ValidateGet", "ValidateResolve",
   "ValidateSave"}

Ready(l) ==
  /\ l.pc \in NeedsRequest => l.req \in Request
  /\ l.pc \in NeedsCode => l.code \in Code
  /\ l.pc \in {"CreateSet", "ApproveSetRequest", "DenySet"} => l.snap \in AccessRequest
  /\ l.pc \in {"RevokeSet", "ValidateResolve", "ValidateSave"} => l.snap \in AccessCode

(* Every variable keeps its type, and every step finds its operands. *)
TypeOK ==
  /\ requests \in [Request -> AccessRequest \cup {None}]
  /\ reqIndex \subseteq Request
  /\ codes \in [Code -> AccessCode \cup {None}]
  /\ codeIndex \subseteq Code
  /\ link \in [Request -> Code \cup {None}]
  /\ clock \in Nat
  /\ h \in [Handler -> Local]
  /\ \A p \in Handler : Ready(h[p])
  /\ minted \in [Code -> Approval \cup {None}]
  /\ known \subseteq Request \cup Code
  /\ grant \in Token \cup {None}
  /\ aborts \in Nat

(* rec is what approveRequest minted for c, whatever its status is now. *)
AsMinted(rec, c) ==
  /\ rec \in AccessCode
  /\ rec.code = c
  /\ minted[c] = [req |-> rec.req, expiresAt |-> rec.expiresAt]

(***************************************************************************)
(* However stale the snapshots are that revokeCode, resolveCode and the     *)
(* listings write back, no write changes what a code was approved for, and  *)
(* none but approveRequest's can make a code active.                        *)
(***************************************************************************)
RecordsAsMinted == \A c \in Code : codes[c] # None => AsMinted(codes[c], c)

Carries(l) ==
  /\ l.pc \in {"RevokeSet", "ValidateResolve", "ValidateSave"} => AsMinted(l.snap, l.code)
  /\ l.pc = "ValidateSave" => l.snap.status # "active"
  /\ \A rec \in l.saves : AsMinted(rec, rec.code) /\ rec.status # "active"

SnapshotsAsMinted == \A p \in Handler : Carries(h[p])

NewCodesUnseen ==
  \A p \in Handler : h[p].pc \in Approving =>
    /\ minted[h[p].code] = None
    /\ \A q \in Handler \ {p} : h[q].pc \in Approving => h[q].code # h[p].code

NoStaleRevival == RecordsAsMinted /\ SnapshotsAsMinted /\ NewCodesUnseen

(***************************************************************************)
(* A code its owner can be shown (the link is set) and can use (it is       *)
(* active) is in the codes index, so the administrator sees it and can      *)
(* revoke it: whatever interleaving of approvals, deletions and crashes.    *)
(***************************************************************************)
LinkedActiveCodeListed ==
  \A r \in Request : LET c == link[r] IN
    (c # None /\ codes[c] # None /\ codes[c].status = "active") => c \in codeIndex

(* The code's life as a validating client observes it. *)
Phase(c) ==
  IF minted[c] = None THEN "unissued"
  ELSE IF codes[c] # None /\ codes[c].status = "active" THEN "live" ELSE "ended"

Admitted(p) ==
  IF h[p].pc = "ValidateResolve" /\ h[p].snap.status = "active" THEN h[p].code ELSE None

Lifecycle == INSTANCE CodeLifecycle WITH
  Client <- Handler,
  phase <- [c \in Code |-> Phase(c)],
  expiry <- [c \in Code |-> IF minted[c] = None THEN None ELSE minted[c].expiresAt],
  admitted <- [p \in Handler |-> Admitted(p)],
  now <- clock

(***************************************************************************)
(* The store implements CodeLifecycle: once a code has been seen revoked,   *)
(* expired or deleted no interleaving of stale writes makes it live again,  *)
(* and no validation that starts then is granted; every grant carries the   *)
(* expiry of the approval and is signed no later than it.                   *)
(***************************************************************************)
ImplementsLifecycle == Lifecycle!Spec

-----------------------------------------------------------------------------
(* What holds as long as handlers do not overlap (Handler is a singleton).  *)

Quiet == \A p \in Handler : h[p] = Idle

(***************************************************************************)
(* Even in the middle of a handler, and after one died half way: a link     *)
(* leads from a listed, approved request to its own listed, stored code.    *)
(* This is what the order of the commands within each handler is for.       *)
(***************************************************************************)
LinksSound ==
  \A r \in Request : LET c == link[r] IN c # None =>
    /\ r \in reqIndex /\ requests[r] # None /\ requests[r].status = "approved"
    /\ c \in codeIndex /\ codes[c] # None /\ codes[c].req = r

(***************************************************************************)
(* When no handler ever died, the store is exact between calls: the indexes *)
(* list the stored records, and every stored code is linked from its        *)
(* request (so deleting the request finds and deletes the code).            *)
(***************************************************************************)
StoreExact ==
  Quiet /\ aborts = 0 =>
    /\ \A r \in Request : r \in reqIndex <=> requests[r] # None
    /\ \A c \in Code : c \in codeIndex <=> codes[c] # None
    /\ \A c \in Code : codes[c] # None => link[codes[c].req] = c

(* An approval that is repeated, also after one that died half way, never    *)
(* mints a second code for the request, if the two do not overlap.           *)
OneCodePerRequest ==
  \A c, d \in Code : minted[c] # None /\ minted[d] # None /\ minted[c].req = minted[d].req
                       => c = d

(* pending --deny--> denied is terminal: such a request can only be deleted. *)
DeniedIsTerminal ==
  [][\A r \in Request : requests[r] # None /\ requests[r].status = "denied"
       => requests'[r] \in {requests[r], None}]_vars

(* active --revoke--> revoked is terminal: such a code can only be deleted. *)
RevokedIsTerminal ==
  [][\A c \in Code : codes[c] # None /\ codes[c].status = "revoked"
       => codes'[c] \in {codes[c], None}]_vars

(* "Deleting/revoking never resurrects anything": a deleted record is gone. *)
DeletedStaysDeleted ==
  [][/\ \A r \in Request : r \in known /\ requests[r] = None => requests'[r] = None
     /\ \A c \in Code : minted[c] # None /\ codes[c] = None => codes'[c] = None]_vars
=============================================================================
