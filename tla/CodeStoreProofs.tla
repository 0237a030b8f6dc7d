-------------------------- MODULE CodeStoreProofs --------------------------
(* Theorems about CodeStore, for any number of invocations, requests, codes   *)
(* and visitors, any time limits and any values of the bounds.                *)
EXTENDS CodeStore, TLAPS

(* An idle invocation is well typed. *)
LEMMA IdleOK == Idle \in Local /\ Ready(Idle)
  BY DEF Idle, Local, Ready, Steps, NeedsRequest, NeedsCode, Approving

(* Entering a handler keeps the types if its first local state is well typed. *)
LEMMA CallType ==
  ASSUME TypeOK, NEW p \in Handler, NEW l \in Local, Ready(l), Call(p, l)
  PROVE  TypeOK'
  BY DEF TypeOK, Call, redis, history, Ready

(* So does a step that leaves Redis alone and replaces one local state. *)
LEMMA LocalType ==
  ASSUME TypeOK, NEW p \in Handler, NEW l \in Local, Ready(l),
         h' = [h EXCEPT ![p] = l], UNCHANGED <<redis, clock, history>>
  PROVE  TypeOK'
  BY DEF TypeOK, redis, history, Ready

(* Each first local state is well typed. *)
LEMMA RequestCallsType ==
  ASSUME TypeOK, NEW p \in Handler, RequestCalls(p)
  PROVE  TypeOK'
<1>1. CASE \E r \in Request, k \in Cookie : CallCreate(p, r, k)
  <2>1. PICK r \in Request, k \in Cookie : CallCreate(p, r, k)
    BY <1>1
  <2> DEFINE l == [Idle EXCEPT !.pc = "CreateSet", !.req = r,
                               !.snap = [cookie |-> k, status |-> "pending"]]
  <2>2. l \in Local /\ Ready(l)
    BY DEF Idle, Local, Ready, Steps, NeedsRequest, NeedsCode, Approving, AccessRequest,
           RequestStatus
  <2>3. QED
    BY <2>1, <2>2, CallType DEF CallCreate
<1>2. CASE \E r \in Request, k \in Cookie : CallDeleteOwn(p, r, k)
  <2>1. PICK r \in Request, k \in Cookie : CallDeleteOwn(p, r, k)
    BY <1>2
  <2> DEFINE l == [Idle EXCEPT !.pc = "OwnGet", !.req = r, !.cookie = k]
  <2>2. l \in Local /\ Ready(l)
    BY DEF Idle, Local, Ready, Steps, NeedsRequest, NeedsCode, Approving
  <2>3. QED
    BY <2>1, <2>2, CallType DEF CallDeleteOwn
<1>3. CASE \E r \in Request, t \in Timeout, c \in Code : CallApprove(p, r, t, c)
  <2>1. PICK r \in Request, t \in Timeout, c \in Code : CallApprove(p, r, t, c)
    BY <1>3
  <2> DEFINE l == [Idle EXCEPT !.pc = "ApproveGet", !.req = r, !.code = c,
                               !.time = ComputeExpiresAt(clock, t)]
  <2> HIDE DEF l
  <2>2. ComputeExpiresAt(clock, t) \in Nat
    BY TimeoutAssumption DEF TypeOK, ComputeExpiresAt
  <2>3. l \in Local /\ Ready(l)
    BY <2>2 DEF l, Idle, Local, Ready, Steps, NeedsRequest, NeedsCode, Approving
  <2>4. QED
    BY <2>1, <2>3, CallType DEF CallApprove, l
<1>4. CASE \E r \in Request : CallDeny(p, r)
  <2>1. PICK r \in Request : CallDeny(p, r)
    BY <1>4
  <2> DEFINE l == [Idle EXCEPT !.pc = "DenyGet", !.req = r]
  <2>2. l \in Local /\ Ready(l)
    BY DEF Idle, Local, Ready, Steps, NeedsRequest, NeedsCode, Approving
  <2>3. QED
    BY <2>1, <2>2, CallType DEF CallDeny
<1>5. CASE \E r \in Request : CallDeleteRequest(p, r)
  <2>1. PICK r \in Request : CallDeleteRequest(p, r)
    BY <1>5
  <2> DEFINE l == [Idle EXCEPT !.pc = "DeleteGetLink", !.req = r]
  <2>2. l \in Local /\ Ready(l)
    BY DEF Idle, Local, Ready, Steps, NeedsRequest, NeedsCode, Approving
  <2>3. QED
    BY <2>1, <2>2, CallType DEF CallDeleteRequest
<1>6. QED
  BY <1>1, <1>2, <1>3, <1>4, <1>5 DEF RequestCalls

LEMMA CodeCallsType ==
  ASSUME TypeOK, NEW p \in Handler, CodeCalls(p)
  PROVE  TypeOK'
<1>1. CASE \E c \in Code : CallRevoke(p, c)
  <2>1. PICK c \in Code : CallRevoke(p, c)
    BY <1>1
  <2> DEFINE l == [Idle EXCEPT !.pc = "RevokeGet", !.code = c]
  <2>2. l \in Local /\ Ready(l)
    BY DEF TypeOK, Idle, Local, Ready, Steps, NeedsRequest, NeedsCode, Approving
  <2>3. QED
    BY <2>1, <2>2, CallType DEF CallRevoke
<1>2. CASE \E c \in Code : CallDeleteCode(p, c)
  <2>1. PICK c \in Code : CallDeleteCode(p, c)
    BY <1>2
  <2> DEFINE l == [Idle EXCEPT !.pc = "DeleteCodeGet", !.code = c]
  <2>2. l \in Local /\ Ready(l)
    BY DEF TypeOK, Idle, Local, Ready, Steps, NeedsRequest, NeedsCode, Approving
  <2>3. QED
    BY <2>1, <2>2, CallType DEF CallDeleteCode
<1>3. CASE \E c \in Code : CallValidate(p, c)
  <2>1. PICK c \in Code : CallValidate(p, c)
    BY <1>3
  <2> DEFINE l == [Idle EXCEPT !.pc = "ValidateGet", !.code = c]
  <2>2. l \in Local /\ Ready(l)
    BY DEF TypeOK, Idle, Local, Ready, Steps, NeedsRequest, NeedsCode, Approving
  <2>3. QED
    BY <2>1, <2>2, CallType DEF CallValidate
<1>4. CASE CallState(p)
  <2> DEFINE l == [Idle EXCEPT !.pc = "StateList", !.time = clock]
  <2>2. l \in Local /\ Ready(l)
    BY DEF TypeOK, Idle, Local, Ready, Steps, NeedsRequest, NeedsCode, Approving
  <2>3. QED
    BY <1>4, <2>2, CallType DEF CallState
<1>5. CASE \E k \in Cookie : CallMine(p, k)
  <2>1. PICK k \in Cookie : CallMine(p, k)
    BY <1>5
  <2> DEFINE l == [Idle EXCEPT !.pc = "MineList", !.time = clock, !.cookie = k]
  <2>2. l \in Local /\ Ready(l)
    BY DEF TypeOK, Idle, Local, Ready, Steps, NeedsRequest, NeedsCode, Approving
  <2>3. QED
    BY <2>1, <2>2, CallType DEF CallMine
<1>6. (\E c \in Code : CallRevoke(p, c)) \/ (\E c \in Code : CallDeleteCode(p, c))
       \/ (\E c \in Code : CallValidate(p, c)) \/ CallState(p) \/ (\E k \in Cookie : CallMine(p, k))
  BY Zenon DEF CodeCalls
<1>7. QED
  BY <1>1, <1>2, <1>3, <1>4, <1>5, <1>6, Zenon

LEMMA RequestStepsType ==
  ASSUME TypeOK, NEW p \in Handler, RequestSteps(p)
  PROVE  TypeOK'
<1>1. CASE CreateSet(p)
  BY <1>1, IdleOK DEF CreateSet, At, Goto, Return, Proceed, TypeOK,
     Local, Ready, Steps, NeedsRequest, NeedsCode, Approving, redis, history
<1>2. CASE CreateSadd(p)
  BY <1>2, IdleOK DEF CreateSadd, At, Goto, Return, Proceed, TypeOK,
     Local, Ready, Steps, NeedsRequest, NeedsCode, Approving, redis, history
<1>3. CASE ApproveGet(p)
  <2> DEFINE request == requests[h[p].req]
             l == IF request # None /\ request.status = "pending"
                    THEN [h[p] EXCEPT !.pc = "ApproveSetRequest", !.snap = request] ELSE Idle
  <2>1. request \in AccessRequest \cup {None} /\ h[p] \in Local /\ Ready(h[p])
    BY <1>3 DEF ApproveGet, At, TypeOK, Ready, NeedsRequest, NeedsCode, Approving
  <2>2. l \in Local /\ Ready(l)
    <3> HIDE DEF request
    <3>1. CASE request # None /\ request.status = "pending"
      <4>1. request \in AccessRequest /\ l = [h[p] EXCEPT !.pc = "ApproveSetRequest", !.snap = request]
        BY <2>1, <3>1
      <4>2. l \in Local
        BY <2>1, <4>1 DEF Local, Steps
      <4>3. l.pc = "ApproveSetRequest" /\ l.req = h[p].req /\ l.code = h[p].code /\ l.snap = request
        BY <2>1, <4>1 DEF Local
      <4>4. h[p].pc = "ApproveGet"
        BY <1>3 DEF ApproveGet, At
      <4>5. Ready(l)
        <5> HIDE DEF l
        <5>1. QED
          BY <2>1, <4>1, <4>3, <4>4 DEF Ready, NeedsRequest, NeedsCode, Approving
      <4>6. QED
        BY <4>2, <4>5
    <3>2. CASE ~(request # None /\ request.status = "pending")
      BY <3>2, IdleOK
    <3>3. QED
      BY <3>1, <3>2
  <2>3. QED
    BY <1>3, <2>2, LocalType DEF ApproveGet, Proceed
<1>4. CASE ApproveSetRequest(p)
  <2> DEFINE rec == [h[p].snap EXCEPT !.status = "approved"]
  <2>1. h[p].req \in Request /\ h[p].snap \in AccessRequest
    BY <1>4 DEF ApproveSetRequest, At, TypeOK, Ready, NeedsRequest, Approving
  <2>2. rec \in AccessRequest
    BY <2>1 DEF AccessRequest, RequestStatus
  <2>3. requests' \in [Request -> AccessRequest \cup {None}]
    <3> HIDE DEF rec
    <3>1. QED
      BY <1>4, <2>1, <2>2 DEF ApproveSetRequest, TypeOK, rec
  <2>4. h' \in [Handler -> Local] /\ \A q \in Handler : Ready(h'[q])
    BY <1>4 DEF ApproveSetRequest, At, Goto, TypeOK, Local, Ready, Steps, NeedsRequest, NeedsCode, Approving
  <2>5. QED
    BY <1>4, <2>3, <2>4 DEF ApproveSetRequest, TypeOK, history
<1>5. CASE ApproveSetCode(p)
  <2> DEFINE c == h[p].code
             rec == [code |-> c, req |-> h[p].req, expiresAt |-> h[p].time, status |-> "active"]
             app == [req |-> h[p].req, expiresAt |-> h[p].time]
  <2>1. c \in Code /\ h[p].req \in Request /\ h[p].time \in Nat
    BY <1>5 DEF ApproveSetCode, At, TypeOK, Local, Ready, NeedsRequest, NeedsCode, Approving
  <2>2. rec \in AccessCode /\ app \in Approval
    BY <2>1 DEF AccessCode, CodeStatus, Approval
  <2>3. codes' = [codes EXCEPT ![c] = rec] /\ minted' = [minted EXCEPT ![c] = app]
    BY <1>5 DEF ApproveSetCode
  <2>4. codes' \in [Code -> AccessCode \cup {None}]
    BY <2>1, <2>2, <2>3 DEF TypeOK
  <2>5. minted' \in [Code -> Approval \cup {None}]
    BY <2>1, <2>2, <2>3 DEF TypeOK
  <2>6. h' \in [Handler -> Local] /\ \A q \in Handler : Ready(h'[q])
    BY <1>5 DEF ApproveSetCode, At, Goto, TypeOK, Local, Ready, Steps, NeedsRequest, NeedsCode, Approving
  <2>7. QED
    BY <1>5, <2>4, <2>5, <2>6 DEF ApproveSetCode, TypeOK
<1>6. CASE ApproveSaddCode(p)
  <2>1. h[p].code \in Code /\ h[p].req \in Request
    BY <1>6 DEF ApproveSaddCode, At, TypeOK, Ready, NeedsRequest, NeedsCode
  <2>2. QED
    BY <1>6, <2>1 DEF ApproveSaddCode, Goto, TypeOK, Local, Ready, Steps, NeedsRequest, NeedsCode, Approving
<1>7. CASE ApproveSetLink(p)
  BY <1>7, IdleOK DEF ApproveSetLink, At, Goto, Return, Proceed, TypeOK,
     Local, Ready, Steps, NeedsRequest, NeedsCode, Approving, redis, history
<1>8. CASE DenyGet(p)
  <2> DEFINE request == requests[h[p].req]
             l == IF request # None /\ request.status = "pending"
                    THEN [h[p] EXCEPT !.pc = "DenySet", !.snap = request] ELSE Idle
  <2>1. request \in AccessRequest \cup {None} /\ h[p] \in Local /\ Ready(h[p])
    BY <1>8 DEF DenyGet, At, TypeOK, Ready, NeedsRequest, NeedsCode, Approving
  <2>2. l \in Local /\ Ready(l)
    <3> HIDE DEF request
    <3>1. CASE request # None /\ request.status = "pending"
      <4>1. request \in AccessRequest /\ l = [h[p] EXCEPT !.pc = "DenySet", !.snap = request]
        BY <2>1, <3>1
      <4>2. l \in Local
        BY <2>1, <4>1 DEF Local, Steps
      <4>3. l.pc = "DenySet" /\ l.req = h[p].req /\ l.code = h[p].code /\ l.snap = request
        BY <2>1, <4>1 DEF Local
      <4>4. h[p].pc = "DenyGet"
        BY <1>8 DEF DenyGet, At
      <4>5. Ready(l)
        <5> HIDE DEF l
        <5>1. QED
          BY <2>1, <4>1, <4>3, <4>4 DEF Ready, NeedsRequest, NeedsCode, Approving
      <4>6. QED
        BY <4>2, <4>5
    <3>2. CASE ~(request # None /\ request.status = "pending")
      BY <3>2, IdleOK
    <3>3. QED
      BY <3>1, <3>2
  <2>3. QED
    BY <1>8, <2>2, LocalType DEF DenyGet, Proceed
<1>9. CASE DenySet(p)
  BY <1>9, IdleOK DEF DenySet, At, Goto, Return, Proceed, TypeOK, AccessRequest, AccessCode,
     RequestStatus, CodeStatus, Local, Ready, Steps, NeedsRequest, NeedsCode, Approving, redis, history
<1>10. CASE OwnGet(p)
  <2> DEFINE l == [h[p] EXCEPT !.pc = "DeleteGetLink"]
  <2>1. l \in Local /\ Ready(l)
    <3>1. h[p] \in Local /\ h[p].req \in Request
      BY <1>10 DEF OwnGet, At, TypeOK, Ready, NeedsRequest
    <3>2. l \in Local
      BY <3>1 DEF Local, Steps
    <3>3. l.pc = "DeleteGetLink" /\ l.req = h[p].req
      BY <3>1 DEF Local
    <3>4. QED
      BY <3>1, <3>2, <3>3 DEF Ready, NeedsCode, Approving
  <2>2. h' \in {[h EXCEPT ![p] = l], [h EXCEPT ![p] = Idle]}
    BY <1>10 DEF OwnGet, Proceed
  <2> HIDE DEF l
  <2>3. QED
    BY <1>10, <2>1, <2>2, IdleOK, LocalType DEF OwnGet
<1>11. CASE DeleteGetLink(p)
  <2> DEFINE code == link[h[p].req]
             l == [h[p] EXCEPT !.pc = IF code = None THEN "DelRequest" ELSE "Cascade",
                               !.code = code]
  <2>1. code \in Code \cup {None} /\ h[p].req \in Request /\ h[p] \in Local
    BY <1>11 DEF DeleteGetLink, At, TypeOK, Ready, NeedsRequest
  <2>2. l \in Local /\ Ready(l)
    <3> HIDE DEF code
    <3>1. QED
      BY <2>1 DEF Local, Ready, Steps, NeedsRequest, NeedsCode, Approving
  <2>3. h' = [h EXCEPT ![p] = l]
    BY <1>11 DEF DeleteGetLink, TypeOK, Local
  <2>4. QED
    BY <1>11, <2>2, <2>3, LocalType DEF DeleteGetLink
<1>12. CASE Cascade(p)
  BY <1>12, IdleOK DEF Cascade, At, Goto, Return, Proceed, TypeOK,
     Local, Ready, Steps, NeedsRequest, NeedsCode, Approving, redis, history
<1>13. CASE CascadeSrem(p)
  BY <1>13, IdleOK DEF CascadeSrem, At, Goto, Return, Proceed, TypeOK,
     Local, Ready, Steps, NeedsRequest, NeedsCode, Approving, redis, history
<1>14. CASE DelRequest(p)
  BY <1>14, IdleOK DEF DelRequest, At, Goto, Return, Proceed, TypeOK,
     Local, Ready, Steps, NeedsRequest, NeedsCode, Approving, redis, history
<1>15. CASE SremRequest(p)
  BY <1>15, IdleOK DEF SremRequest, At, Goto, Return, Proceed, TypeOK,
     Local, Ready, Steps, NeedsRequest, NeedsCode, Approving, redis, history
<1>16. QED
  BY <1>1, <1>2, <1>3, <1>4, <1>5, <1>6, <1>7, <1>8, <1>9, <1>10, <1>11, <1>12, <1>13, <1>14, <1>15 DEF RequestSteps

LEMMA CodeStepsType ==
  ASSUME TypeOK, NEW p \in Handler, CodeSteps(p)
  PROVE  TypeOK'
<1>1. CASE RevokeGet(p)
  <2> DEFINE record == codes[h[p].code]
             l == IF record # None
                    THEN [h[p] EXCEPT !.pc = "RevokeSet", !.snap = record] ELSE Idle
  <2>1. record \in AccessCode \cup {None} /\ h[p] \in Local /\ Ready(h[p])
    BY <1>1 DEF RevokeGet, At, TypeOK, Ready, NeedsRequest, NeedsCode, Approving
  <2>2. l \in Local /\ Ready(l)
    <3> HIDE DEF record
    <3>1. CASE record # None
      <4>1. record \in AccessCode /\ l = [h[p] EXCEPT !.pc = "RevokeSet", !.snap = record]
        BY <2>1, <3>1
      <4>2. l \in Local
        BY <2>1, <4>1 DEF Local, Steps
      <4>3. l.pc = "RevokeSet" /\ l.req = h[p].req /\ l.code = h[p].code /\ l.snap = record
        BY <2>1, <4>1 DEF Local
      <4>4. h[p].pc = "RevokeGet"
        BY <1>1 DEF RevokeGet, At
      <4>5. Ready(l)
        <5> HIDE DEF l
        <5>1. QED
          BY <2>1, <4>1, <4>3, <4>4 DEF Ready, NeedsRequest, NeedsCode, Approving
      <4>6. QED
        BY <4>2, <4>5
    <3>2. CASE ~(record # None)
      BY <3>2, IdleOK
    <3>3. QED
      BY <3>1, <3>2
  <2>3. QED
    BY <1>1, <2>2, LocalType DEF RevokeGet, Proceed
<1>2. CASE RevokeSet(p)
  BY <1>2, IdleOK DEF RevokeSet, At, Goto, Return, Proceed, TypeOK, AccessRequest, AccessCode,
     RequestStatus, CodeStatus, Local, Ready, Steps, NeedsRequest, NeedsCode, Approving, redis, history
<1>3. CASE DeleteCodeGet(p)
  <2> DEFINE rec == codes[h[p].code]
             l == [h[p] EXCEPT !.pc = "Unlink", !.req = rec.req]
  <2>1. h[p] \in Local /\ h[p].code \in Code
    BY <1>3 DEF DeleteCodeGet, At, TypeOK, Ready, NeedsCode
  <2>2. CASE rec = None
    BY <1>3, <2>1, <2>2 DEF DeleteCodeGet, Goto, TypeOK, Local, Ready, Steps, NeedsRequest,
       NeedsCode, Approving, redis, history
  <2>3. CASE rec # None
    <3>1. rec.req \in Request
      BY <2>1, <2>3 DEF TypeOK, AccessCode
    <3> HIDE DEF rec
    <3>2. l \in Local /\ l.pc = "Unlink" /\ l.req = rec.req /\ l.code = h[p].code
      BY <2>1, <3>1 DEF Local, Steps
    <3>3. Ready(l)
      BY <2>1, <3>1, <3>2 DEF Ready
    <3>4. h' = [h EXCEPT ![p] = l]
      BY <1>3, <2>1, <2>3 DEF DeleteCodeGet, TypeOK, Local, rec
    <3> HIDE DEF l
    <3>5. QED
      BY <1>3, <3>2, <3>3, <3>4, LocalType DEF DeleteCodeGet
  <2>4. QED
    BY <2>2, <2>3
<1>4. CASE Unlink(p)
  BY <1>4, IdleOK DEF Unlink, At, Goto, Return, Proceed, TypeOK,
     Local, Ready, Steps, NeedsRequest, NeedsCode, Approving, redis, history
<1>5. CASE DelCode(p)
  BY <1>5, IdleOK DEF DelCode, At, Goto, Return, Proceed, TypeOK,
     Local, Ready, Steps, NeedsRequest, NeedsCode, Approving, redis, history
<1>6. CASE SremCode(p)
  BY <1>6, IdleOK DEF SremCode, At, Goto, Return, Proceed, TypeOK,
     Local, Ready, Steps, NeedsRequest, NeedsCode, Approving, redis, history
<1>7. CASE ValidateGet(p)
  <2> DEFINE record == codes[h[p].code]
             l == IF record # None
                    THEN [h[p] EXCEPT !.pc = "ValidateResolve", !.snap = record] ELSE Idle
  <2>1. record \in AccessCode \cup {None} /\ h[p] \in Local /\ Ready(h[p])
    BY <1>7 DEF ValidateGet, At, TypeOK, Ready, NeedsRequest, NeedsCode, Approving
  <2>2. l \in Local /\ Ready(l)
    <3> HIDE DEF record
    <3>1. CASE record # None
      <4>1. record \in AccessCode /\ l = [h[p] EXCEPT !.pc = "ValidateResolve", !.snap = record]
        BY <2>1, <3>1
      <4>2. l \in Local
        BY <2>1, <4>1 DEF Local, Steps
      <4>3. l.pc = "ValidateResolve" /\ l.req = h[p].req /\ l.code = h[p].code /\ l.snap = record
        BY <2>1, <4>1 DEF Local
      <4>4. h[p].pc = "ValidateGet"
        BY <1>7 DEF ValidateGet, At
      <4>5. Ready(l)
        <5> HIDE DEF l
        <5>1. QED
          BY <2>1, <4>1, <4>3, <4>4 DEF Ready, NeedsRequest, NeedsCode, Approving
      <4>6. QED
        BY <4>2, <4>5
    <3>2. CASE ~(record # None)
      BY <3>2, IdleOK
    <3>3. QED
      BY <3>1, <3>2
  <2>3. QED
    BY <1>7, <2>2, LocalType DEF ValidateGet, Proceed
<1>8. CASE ValidateResolve(p)
  <2> DEFINE rec == h[p].snap
             status == EffectiveCodeStatus(rec, clock)
             l == IF status # rec.status
                    THEN [h[p] EXCEPT !.pc = "ValidateSave", !.snap.status = status] ELSE Idle
             g == [code |-> rec.code, issuedAt |-> clock, expiresAt |-> rec.expiresAt]
  <2>1. rec \in AccessCode /\ h[p] \in Local /\ h[p].code \in Code
    BY <1>8 DEF ValidateResolve, At, TypeOK, Ready, NeedsCode
  <2>2. status \in CodeStatus
    BY <2>1 DEF EffectiveCodeStatus, AccessCode, CodeStatus
  <2>3. [rec EXCEPT !.status = status] \in AccessCode
    BY <2>1, <2>2 DEF AccessCode
  <2>4. l \in Local /\ Ready(l)
    <3> HIDE DEF rec, status
    <3>1. [h[p] EXCEPT !.pc = "ValidateSave", !.snap.status = status]
            = [h[p] EXCEPT !.pc = "ValidateSave", !.snap = [rec EXCEPT !.status = status]]
      BY DEF rec
    <3>2. CASE status # rec.status
      <4>1. l = [h[p] EXCEPT !.pc = "ValidateSave", !.snap = [rec EXCEPT !.status = status]]
        BY <3>1, <3>2
      <4>2. l \in Local
        <5> DEFINE newSnap == [rec EXCEPT !.status = status]
        <5> HIDE DEF newSnap
        <5>1. newSnap \in AccessCode /\ l = [h[p] EXCEPT !.pc = "ValidateSave", !.snap = newSnap]
          BY <2>3, <4>1 DEF newSnap
        <5>2. "ValidateSave" \in Steps
          BY DEF Steps
        <5>3. QED
          BY <2>1, <5>1, <5>2 DEF Local
      <4>3. l.pc = "ValidateSave" /\ l.code = h[p].code /\ l.snap \in AccessCode
        BY <2>1, <2>3, <4>1 DEF Local
      <4>4. QED
        BY <2>1, <4>2, <4>3 DEF Ready, NeedsRequest, Approving
    <3>3. CASE status = rec.status
      BY <3>3, IdleOK
    <3>4. QED
      BY <3>2, <3>3
  <2>5. g \in Token
    BY <2>1 DEF AccessCode, TypeOK, Token
  <2>6. h' = [h EXCEPT ![p] = l] /\ grant' \in {grant, g}
    BY <1>8 DEF ValidateResolve, Proceed
  <2>7. h' \in [Handler -> Local] /\ \A q \in Handler : Ready(h'[q])
    BY <2>4, <2>6 DEF TypeOK
  <2>8. QED
    BY <1>8, <2>5, <2>6, <2>7 DEF ValidateResolve, TypeOK, redis
<1>9. CASE ValidateSave(p)
  BY <1>9, IdleOK DEF ValidateSave, At, Goto, Return, Proceed, TypeOK,
     Local, Ready, Steps, NeedsRequest, NeedsCode, Approving, redis, history
<1>10. QED
  BY <1>1, <1>2, <1>3, <1>4, <1>5, <1>6, <1>7, <1>8, <1>9 DEF CodeSteps

LEMMA ListStepsType ==
  ASSUME TypeOK, NEW p \in Handler, ListSteps(p)
  PROVE  TypeOK'
<1> USE DEF Ready, NeedsRequest, NeedsCode, Approving
<1>0. h[p] \in Local
  BY DEF TypeOK
<1>1. CASE StateList(p)
  <2> DEFINE l == [h[p] EXCEPT !.pc = "State", !.reads = codeIndex]
  <2>1. l \in Local
    BY <1>0 DEF TypeOK, Local, Steps
  <2>2. l.pc = "State"
    BY <1>0 DEF Local
  <2>3. Ready(l)
    BY <2>2
  <2>4. h' = [h EXCEPT ![p] = l]
    BY <1>0, <1>1 DEF StateList, TypeOK, Local
  <2> HIDE DEF l
  <2>5. QED
    BY <1>1, <2>1, <2>3, <2>4, LocalType DEF StateList
<1>2. CASE MineList(p)
  <2> DEFINE rs == {r \in reqIndex : requests[r] # None /\ requests[r].cookie = h[p].cookie}
             l == [h[p] EXCEPT !.pc = "Mine", !.links = rs]
  <2>1. rs \subseteq Request
    BY DEF TypeOK
  <2>2. l \in Local /\ l.pc = "Mine"
    <3> HIDE DEF rs
    <3>1. QED
      BY <1>0, <2>1 DEF Local, Steps
  <2>3. Ready(l)
    BY <2>2
  <2>4. h' = [h EXCEPT ![p] = l]
    BY <1>0, <1>2 DEF MineList, TypeOK, Local
  <2> HIDE DEF l
  <2>5. QED
    BY <1>2, <2>2, <2>3, <2>4, LocalType DEF MineList
<1>3. CASE \E r \in Request : MineLink(p, r)
  <2>1. PICK r \in Request : MineLink(p, r)
    BY <1>3
  <2> DEFINE found == IF link[r] = None THEN h[p].reads ELSE h[p].reads \cup {link[r]}
             l == [h[p] EXCEPT !.links = @ \ {r}, !.reads = found]
  <2>2. found \subseteq Code
    BY <1>0 DEF TypeOK, Local
  <2>3. l \in Local /\ Ready(l)
    <3> HIDE DEF found
    <3>1. h[p] \in Local /\ h[p].pc = "Mine"
      BY <1>0, <2>1 DEF MineLink, At
    <3>2. l \in Local /\ l.pc = "Mine"
      BY <2>2, <3>1 DEF Local
    <3>3. QED
      BY <1>0, <3>2
  <2>4. h' = [h EXCEPT ![p] = l]
    BY <1>0, <2>1 DEF MineLink, Local
  <2> HIDE DEF l
  <2>5. QED
    BY <2>1, <2>3, <2>4, LocalType DEF MineLink
<1>4. CASE \E c \in Code : ListRead(p, c)
  <2>1. PICK c \in Code : ListRead(p, c)
    BY <1>4
  <2> DEFINE rec == codes[c]
             stale == rec # None /\ EffectiveCodeStatus(rec, h[p].time) # rec.status
             found == IF stale THEN h[p].saves \cup {[rec EXCEPT !.status = "expired"]}
                               ELSE h[p].saves
             l == [h[p] EXCEPT !.reads = @ \ {c}, !.saves = found]
  <2>2. rec \in AccessCode => [rec EXCEPT !.status = "expired"] \in AccessCode
    BY DEF AccessCode, CodeStatus
  <2>3. found \subseteq AccessCode
    BY <1>0, <2>2 DEF TypeOK, Local
  <2>4. l \in Local /\ Ready(l)
    <3> HIDE DEF found
    <3>1. h[p] \in Local /\ h[p].pc \in {"State", "Mine"}
      BY <1>0, <2>1 DEF ListRead
    <3>2. l \in Local /\ l.pc = h[p].pc
      BY <2>3, <3>1 DEF Local
    <3>3. QED
      BY <1>0, <3>1, <3>2
  <2>5. h' = [h EXCEPT ![p] = l]
    BY <1>0, <2>1 DEF ListRead, Local
  <2> HIDE DEF l
  <2>6. QED
    BY <2>1, <2>4, <2>5, LocalType DEF ListRead
<1>5. CASE \E rec \in h[p].saves : ListSave(p, rec)
  <2>1. PICK rec \in h[p].saves : ListSave(p, rec)
    BY <1>5
  <2> DEFINE l == [h[p] EXCEPT !.saves = @ \ {rec}]
  <2>2. rec \in AccessCode /\ rec.code \in Code
    BY <1>0 DEF Local, AccessCode
  <2>3. l \in Local /\ Ready(l)
    BY <1>0, <2>1 DEF Local, Steps, ListSave, At
  <2>4. h' = [h EXCEPT ![p] = l]
    BY <1>0, <2>1 DEF ListSave, Local
  <2>5. h' \in [Handler -> Local] /\ \A q \in Handler : Ready(h'[q])
    BY <2>3, <2>4 DEF TypeOK
  <2>6. codes' \in [Code -> AccessCode \cup {None}]
    BY <2>1, <2>2 DEF ListSave, TypeOK
  <2>7. QED
    BY <2>1, <2>5, <2>6 DEF ListSave, TypeOK, history
<1>6. CASE ListDone(p)
  BY <1>6, IdleOK, LocalType DEF ListDone, Return
<1>7. QED
  BY <1>1, <1>2, <1>3, <1>4, <1>5, <1>6 DEF ListSteps

LEMMA AbortType == ASSUME TypeOK, NEW p \in Handler, Abort(p) PROVE TypeOK'
  BY IdleOK DEF Abort, Return, TypeOK, redis

LEMMA TickType == TypeOK /\ Tick => TypeOK'
  BY DEF Tick, TypeOK, redis, history

LEMMA NextType == TypeOK /\ [Next]_vars => TypeOK'
<1> SUFFICES ASSUME TypeOK, [Next]_vars PROVE TypeOK'
  OBVIOUS
<1>1. ASSUME NEW p \in Handler,
             RequestCalls(p) \/ CodeCalls(p) \/ RequestSteps(p) \/ CodeSteps(p)
               \/ ListSteps(p) \/ Abort(p)
      PROVE  TypeOK'
  BY <1>1, RequestCallsType, CodeCallsType, RequestStepsType, CodeStepsType,
     ListStepsType, AbortType
<1>2. CASE UNCHANGED vars
  BY <1>2 DEF vars, redis, history, TypeOK
<1>3. QED
  BY <1>1, <1>2, TickType DEF Next

(* Types hold in every reachable state: no handler ever acts on an operand  *)
(* that an earlier step of the same call did not provide.                   *)
THEOREM TypeCorrect == Spec => []TypeOK
<1>1. Init => TypeOK
  BY IdleOK DEF Init, TypeOK
<1>2. QED
  BY <1>1, NextType, PTL DEF Spec

-----------------------------------------------------------------------------
(* No stale write changes what was approved or makes a code active.           *)

(* The frame of the argument: a step of p that mints nothing, replaces p's    *)
(* local state by l, which carries only minted and inactive records, and      *)
(* stores only minted records.                                                *)
LEMMA Frame ==
  ASSUME TypeOK, NoStaleRevival, NEW p \in Handler, NEW l,
         h' = [h EXCEPT ![p] = l], minted' = minted, Carries(l),
         l.pc \in Approving => h[p].pc \in Approving /\ l.code = h[p].code,
         \A c \in Code : codes'[c] \in {codes[c], None} \/ AsMinted(codes'[c], c)
  PROVE  NoStaleRevival'
<1>1. RecordsAsMinted'
  BY DEF NoStaleRevival, RecordsAsMinted, AsMinted
<1>2. SnapshotsAsMinted'
  BY DEF TypeOK, NoStaleRevival, SnapshotsAsMinted, Carries, AsMinted
<1>3. NewCodesUnseen'
  BY DEF TypeOK, NoStaleRevival, NewCodesUnseen
<1>4. QED
  BY <1>1, <1>2, <1>3 DEF NoStaleRevival

(* A call whose first step is not one of approveRequest's. *)
LEMMA FrameCall ==
  ASSUME TypeOK, NoStaleRevival, NEW p \in Handler, NEW l, Call(p, l),
         l.saves = {}, l.pc \notin Approving \cup {"RevokeSet", "ValidateResolve", "ValidateSave"}
  PROVE  NoStaleRevival'
<1>1. Carries(l)
  BY DEF Carries
<1>2. QED
  BY <1>1, Frame DEF Call, redis, history

(* A step that moves p to another step and replaces no record by a new one. *)
LEMMA FrameGoto ==
  ASSUME TypeOK, NoStaleRevival, NEW p \in Handler, NEW s,
         Goto(p, s), minted' = minted,
         s \notin {"RevokeSet", "ValidateResolve", "ValidateSave"},
         s \in Approving => h[p].pc \in Approving,
         \A c \in Code : codes'[c] \in {codes[c], None}
  PROVE  NoStaleRevival'
<1> DEFINE l == [h[p] EXCEPT !.pc = s]
<1>1. h[p] \in Local /\ Carries(h[p])
  BY DEF TypeOK, NoStaleRevival, SnapshotsAsMinted
<1>2. Carries(l) /\ l.pc = s /\ l.code = h[p].code
  BY <1>1 DEF Carries, Local
<1>3. h' = [h EXCEPT ![p] = l]
  BY DEF Goto
<1>4. QED
  <2> HIDE DEF l
  <2>1. QED
    BY <1>2, <1>3, Frame

(* A step with which p's handler returns. *)
LEMMA FrameReturn ==
  ASSUME TypeOK, NoStaleRevival, NEW p \in Handler, Return(p), minted' = minted,
         \A c \in Code : codes'[c] \in {codes[c], None} \/ AsMinted(codes'[c], c)
  PROVE  NoStaleRevival'
<1>1. Carries(Idle) /\ Idle.pc \notin Approving
  BY DEF Carries, Idle, Approving
<1>2. QED
  BY <1>1, Frame DEF Return

LEMMA RequestCallsKeep ==
  ASSUME TypeOK, NoStaleRevival, NEW p \in Handler, RequestCalls(p)
  PROVE  NoStaleRevival'
<1>1. CASE \E r \in Request, k \in Cookie : CallCreate(p, r, k)
  BY <1>1, FrameCall DEF CallCreate, Idle, Approving
<1>2. CASE \E r \in Request, k \in Cookie : CallDeleteOwn(p, r, k)
  BY <1>2, FrameCall DEF CallDeleteOwn, Idle, Approving
<1>3. CASE \E r \in Request : CallDeny(p, r)
  BY <1>3, FrameCall DEF CallDeny, Idle, Approving
<1>4. CASE \E r \in Request : CallDeleteRequest(p, r)
  BY <1>4, FrameCall DEF CallDeleteRequest, Idle, Approving
<1>5. CASE \E r \in Request, t \in Timeout, c \in Code : CallApprove(p, r, t, c)
  <2>1. PICK r \in Request, t \in Timeout, c \in Code : CallApprove(p, r, t, c)
    BY <1>5
  <2> DEFINE l == [Idle EXCEPT !.pc = "ApproveGet", !.req = r, !.code = c,
                               !.time = ComputeExpiresAt(clock, t)]
  <2>2. /\ h' = [h EXCEPT ![p] = l] /\ minted' = minted /\ codes' = codes
        /\ FreshCode(c)
    BY <2>1 DEF CallApprove, Call, redis, history
  <2>3. l.pc = "ApproveGet" /\ l.code = c /\ l.saves = {}
    BY DEF Idle
  <2> HIDE DEF l
  <2>4. RecordsAsMinted'
    BY <2>2 DEF NoStaleRevival, RecordsAsMinted, AsMinted
  <2>5. Carries(l)
    BY <2>3 DEF Carries
  <2>6. SnapshotsAsMinted'
    BY <2>2, <2>5 DEF TypeOK, NoStaleRevival, SnapshotsAsMinted, Carries, AsMinted
  <2>7. NewCodesUnseen'
    BY <2>2, <2>3 DEF TypeOK, NoStaleRevival, NewCodesUnseen, FreshCode
  <2>8. QED
    BY <2>4, <2>6, <2>7 DEF NoStaleRevival
<1>6. QED
  BY <1>1, <1>2, <1>3, <1>4, <1>5 DEF RequestCalls

LEMMA CodeCallsKeep ==
  ASSUME TypeOK, NoStaleRevival, NEW p \in Handler, CodeCalls(p)
  PROVE  NoStaleRevival'
<1> USE FrameCall DEF Idle, Approving
<1>1. CASE \E c \in Code : CallRevoke(p, c)
  BY <1>1 DEF CallRevoke
<1>2. CASE \E c \in Code : CallDeleteCode(p, c)
  BY <1>2 DEF CallDeleteCode
<1>3. CASE \E c \in Code : CallValidate(p, c)
  BY <1>3 DEF CallValidate
<1>4. CASE CallState(p)
  BY <1>4 DEF CallState
<1>5. CASE \E k \in Cookie : CallMine(p, k)
  BY <1>5 DEF CallMine
<1>6. (\E c \in Code : CallRevoke(p, c)) \/ (\E c \in Code : CallDeleteCode(p, c))
       \/ (\E c \in Code : CallValidate(p, c)) \/ CallState(p) \/ (\E k \in Cookie : CallMine(p, k))
  BY Zenon DEF CodeCalls
<1>7. QED
  BY <1>1, <1>2, <1>3, <1>4, <1>5, <1>6, Zenon

LEMMA RequestStepsKeep ==
  ASSUME TypeOK, NoStaleRevival, NEW p \in Handler, RequestSteps(p)
  PROVE  NoStaleRevival'
<1>0. h[p] \in Local /\ Carries(h[p])
  BY DEF TypeOK, NoStaleRevival, SnapshotsAsMinted
<1>1. CASE CreateSet(p)
  BY <1>1, FrameGoto DEF CreateSet, At, Approving, history
<1>2. CASE CreateSadd(p)
  BY <1>2, FrameReturn DEF CreateSadd, history
<1>3. CASE ApproveGet(p)
  <2> DEFINE l == [h[p] EXCEPT !.pc = "ApproveSetRequest", !.snap = requests[h[p].req]]
  <2>1. l.pc = "ApproveSetRequest" /\ l.code = h[p].code /\ l.saves = h[p].saves
    BY <1>0 DEF Local
  <2>2. Carries(l)
    BY <1>0, <2>1 DEF Carries
  <2>3. h' = [h EXCEPT ![p] = l] \/ Return(p)
    BY <1>3 DEF ApproveGet, Proceed, Return
  <2> HIDE DEF l
  <2>4. QED
    BY <1>3, <2>1, <2>2, <2>3, Frame, FrameReturn DEF ApproveGet, At, Approving, redis, history
<1>4. CASE ApproveSetRequest(p)
  BY <1>4, FrameGoto DEF ApproveSetRequest, At, Approving, history
<1>5. CASE ApproveSetCode(p)
  <2> DEFINE c == h[p].code
             rec == [code |-> c, req |-> h[p].req, expiresAt |-> h[p].time, status |-> "active"]
             app == [req |-> h[p].req, expiresAt |-> h[p].time]
             l == [h[p] EXCEPT !.pc = "ApproveSaddCode"]
  <2>1. c \in Code /\ h[p].req \in Request /\ h[p].time \in Nat /\ h[p].pc \in Approving
    BY <1>5 DEF ApproveSetCode, At, TypeOK, Local, Ready, NeedsRequest, NeedsCode, Approving
  <2>2. minted[c] = None /\ \A q \in Handler \ {p} : h[q].pc \in Approving => h[q].code # c
    BY <2>1 DEF NoStaleRevival, NewCodesUnseen
  <2>3. rec \in AccessCode /\ rec.code = c /\ app = [req |-> rec.req, expiresAt |-> rec.expiresAt]
    BY <2>1 DEF AccessCode, CodeStatus
  <2>4. app # None
    BY <2>1, NoneAssumption DEF Approval
  <2>5. /\ codes' = [codes EXCEPT ![c] = rec] /\ minted' = [minted EXCEPT ![c] = app]
        /\ h' = [h EXCEPT ![p] = l]
    BY <1>5 DEF ApproveSetCode, Goto
  <2>6. l.pc = "ApproveSaddCode" /\ l.saves = h[p].saves
    BY <1>0 DEF Local
  <2>7. \A r, d : AsMinted(r, d) /\ d \in Code /\ d # c => AsMinted(r, d)'
    BY <2>5 DEF TypeOK, AsMinted
  <2>8. \A r : ~AsMinted(r, c)
    BY <2>2, NoneAssumption DEF AsMinted, AccessCode, Approval
  <2>9. minted'[c] = [req |-> rec.req, expiresAt |-> rec.expiresAt]
    BY <2>1, <2>3, <2>5 DEF TypeOK
  <2> HIDE DEF c, rec, app, l
  <2>10. RecordsAsMinted'
    <3>1. ASSUME NEW d \in Code, codes'[d] # None PROVE AsMinted(codes[d], d)'
      <4>1. CASE d = c
        BY <2>1, <2>3, <2>5, <2>9, <4>1 DEF TypeOK, AsMinted
      <4>2. CASE d # c
        <5>1. codes'[d] = codes[d] /\ AsMinted(codes[d], d)
          BY <2>5, <3>1, <4>2 DEF TypeOK, NoStaleRevival, RecordsAsMinted
        <5>2. QED
          BY <2>5, <4>2, <5>1 DEF TypeOK, AsMinted
      <4>3. QED
        BY <4>1, <4>2
    <3>2. QED
      BY <3>1 DEF RecordsAsMinted
  <2>11. SnapshotsAsMinted'
    <3>1. ASSUME NEW q \in Handler PROVE Carries(h[q])'
      <4>1. \A r \in h[q].saves : AsMinted(r, r.code) /\ r.code \in Code
        BY DEF NoStaleRevival, SnapshotsAsMinted, Carries, AsMinted, AccessCode
      <4>2. \A r \in h[q].saves : AsMinted(r, r.code)' /\ r.status # "active"
        BY <2>7, <2>8, <4>1 DEF NoStaleRevival, SnapshotsAsMinted, Carries
      <4>3. CASE q = p
        <5>1. h'[q] = l
          BY <2>5, <4>3 DEF TypeOK
        <5>2. QED
          BY <2>6, <4>2, <4>3, <5>1 DEF Carries
      <4>4. CASE q # p
        BY <2>5, <2>7, <2>8, <4>2, <4>4
           DEF TypeOK, NoStaleRevival, SnapshotsAsMinted, Carries, Ready, NeedsCode
      <4>5. QED
        BY <4>3, <4>4
    <3>2. QED
      BY <3>1 DEF SnapshotsAsMinted
  <2>12. NewCodesUnseen'
    BY <2>2, <2>5, <2>6 DEF TypeOK, NoStaleRevival, NewCodesUnseen, Approving, c
  <2>13. QED
    BY <2>10, <2>11, <2>12 DEF NoStaleRevival
<1>6. CASE ApproveSaddCode(p)
  BY <1>6, FrameGoto DEF ApproveSaddCode, At, Approving, history
<1>7. CASE ApproveSetLink(p)
  BY <1>7, FrameReturn DEF ApproveSetLink, history
<1>8. CASE DenyGet(p)
  <2> DEFINE l == [h[p] EXCEPT !.pc = "DenySet", !.snap = requests[h[p].req]]
  <2>1. l.pc = "DenySet" /\ l.code = h[p].code /\ l.saves = h[p].saves
    BY <1>0 DEF Local
  <2>2. Carries(l)
    BY <1>0, <2>1 DEF Carries
  <2>3. h' = [h EXCEPT ![p] = l] \/ Return(p)
    BY <1>8 DEF DenyGet, Proceed, Return
  <2> HIDE DEF l
  <2>4. QED
    BY <1>8, <2>1, <2>2, <2>3, Frame, FrameReturn DEF DenyGet, At, Approving, redis, history
<1>9. CASE DenySet(p)
  BY <1>9, FrameReturn DEF DenySet, history
<1>10. CASE OwnGet(p)
  <2>1. Goto(p, "DeleteGetLink") \/ Return(p)
    BY <1>10 DEF OwnGet, Proceed, Goto, Return
  <2>2. QED
    BY <1>10, <2>1, FrameGoto, FrameReturn DEF OwnGet, Approving, redis, history
<1>11. CASE DeleteGetLink(p)
  <2> DEFINE step == IF link[h[p].req] = None THEN "DelRequest" ELSE "Cascade"
             l == [h[p] EXCEPT !.pc = step, !.code = link[h[p].req]]
  <2>1. l.pc \in {"DelRequest", "Cascade"} /\ l.saves = h[p].saves
    BY <1>0 DEF Local
  <2>2. Carries(l) /\ l.pc \notin Approving
    BY <1>0, <2>1 DEF Carries, Approving
  <2>3. h' = [h EXCEPT ![p] = l]
    BY <1>0, <1>11 DEF DeleteGetLink, Local
  <2> HIDE DEF l
  <2>4. QED
    BY <1>11, <2>2, <2>3, Frame DEF DeleteGetLink, redis, history
<1>12. CASE Cascade(p)
  BY <1>12, FrameGoto DEF Cascade, At, Approving, history, TypeOK
<1>13. CASE CascadeSrem(p)
  BY <1>13, FrameGoto DEF CascadeSrem, At, Approving, history
<1>14. CASE DelRequest(p)
  BY <1>14, FrameGoto DEF DelRequest, At, Approving, history
<1>15. CASE SremRequest(p)
  BY <1>15, FrameReturn DEF SremRequest, history
<1>16. QED
  BY <1>1, <1>2, <1>3, <1>4, <1>5, <1>6, <1>7, <1>8, <1>9, <1>10, <1>11, <1>12, <1>13, <1>14, <1>15 DEF RequestSteps

LEMMA CodeStepsKeep ==
  ASSUME TypeOK, NoStaleRevival, NEW p \in Handler, CodeSteps(p)
  PROVE  NoStaleRevival'
<1>0. h[p] \in Local /\ Ready(h[p]) /\ Carries(h[p])
  BY DEF TypeOK, NoStaleRevival, SnapshotsAsMinted
<1>1. CASE RevokeGet(p)
  <2> DEFINE record == codes[h[p].code]
             l == [h[p] EXCEPT !.pc = "RevokeSet", !.snap = record]
  <2>1. h[p].code \in Code
    BY <1>0, <1>1 DEF RevokeGet, At, Ready, NeedsCode
  <2>2. l.pc = "RevokeSet" /\ l.code = h[p].code /\ l.snap = record /\ l.saves = h[p].saves
    BY <1>0 DEF Local
  <2>3. CASE record = None
    BY <1>1, <2>3, FrameReturn DEF RevokeGet, Proceed, Return, redis, history
  <2>4. CASE record # None
    <3>1. AsMinted(record, h[p].code)
      BY <2>1, <2>4 DEF NoStaleRevival, RecordsAsMinted
    <3>2. h' = [h EXCEPT ![p] = l]
      BY <1>1, <2>4 DEF RevokeGet, Proceed
    <3> HIDE DEF l, record
    <3>3. Carries(l) /\ l.pc \notin Approving
      BY <1>0, <2>2, <3>1 DEF Carries, Approving
    <3>4. QED
      BY <1>1, <3>2, <3>3, Frame DEF RevokeGet, redis, history
  <2>5. QED
    BY <2>3, <2>4
<1>2. CASE RevokeSet(p)
  <2> DEFINE rec == [h[p].snap EXCEPT !.status = "revoked"]
  <2>1. AsMinted(h[p].snap, h[p].code) /\ h[p].code \in Code
    BY <1>0, <1>2 DEF RevokeSet, At, Carries, Ready, NeedsCode
  <2>2. AsMinted(rec, h[p].code)
    BY <2>1 DEF AsMinted, AccessCode, CodeStatus
  <2>3. codes' = [codes EXCEPT ![h[p].code] = rec]
    BY <1>2 DEF RevokeSet
  <2> HIDE DEF rec
  <2>4. \A c \in Code : codes'[c] \in {codes[c], None} \/ AsMinted(codes'[c], c)
    BY <2>1, <2>2, <2>3 DEF TypeOK
  <2>5. QED
    BY <1>2, <2>4, FrameReturn DEF RevokeSet, history
<1>3. CASE DeleteCodeGet(p)
  <2> DEFINE l == [h[p] EXCEPT !.pc = "Unlink", !.req = codes[h[p].code].req]
  <2>1. l.pc = "Unlink" /\ l.saves = h[p].saves
    BY <1>0 DEF Local
  <2>2. Carries(l) /\ l.pc \notin Approving
    BY <1>0, <2>1 DEF Carries, Approving
  <2>3. Goto(p, "DelCode") \/ h' = [h EXCEPT ![p] = l]
    BY <1>0, <1>3 DEF DeleteCodeGet, Local
  <2> HIDE DEF l
  <2>4. QED
    BY <1>3, <2>2, <2>3, Frame, FrameGoto DEF DeleteCodeGet, Approving, redis, history
<1>4. CASE Unlink(p)
  BY <1>4, FrameGoto DEF Unlink, Approving, history
<1>5. CASE DelCode(p)
  BY <1>5, FrameGoto DEF DelCode, Approving, history, TypeOK
<1>6. CASE SremCode(p)
  BY <1>6, FrameReturn DEF SremCode, history
<1>7. CASE ValidateGet(p)
  <2> DEFINE record == codes[h[p].code]
             l == [h[p] EXCEPT !.pc = "ValidateResolve", !.snap = record]
  <2>1. h[p].code \in Code
    BY <1>0, <1>7 DEF ValidateGet, At, Ready, NeedsCode
  <2>2. l.pc = "ValidateResolve" /\ l.code = h[p].code /\ l.snap = record /\ l.saves = h[p].saves
    BY <1>0 DEF Local
  <2>3. CASE record = None
    BY <1>7, <2>3, FrameReturn DEF ValidateGet, Proceed, Return, redis, history
  <2>4. CASE record # None
    <3>1. AsMinted(record, h[p].code)
      BY <2>1, <2>4 DEF NoStaleRevival, RecordsAsMinted
    <3>2. h' = [h EXCEPT ![p] = l]
      BY <1>7, <2>4 DEF ValidateGet, Proceed
    <3> HIDE DEF l, record
    <3>3. Carries(l) /\ l.pc \notin Approving
      BY <1>0, <2>2, <3>1 DEF Carries, Approving
    <3>4. QED
      BY <1>7, <3>2, <3>3, Frame DEF ValidateGet, redis, history
  <2>5. QED
    BY <2>3, <2>4
<1>8. CASE ValidateResolve(p)
  <2> DEFINE rec == h[p].snap
             status == EffectiveCodeStatus(rec, clock)
             new == [rec EXCEPT !.status = status]
             l == [h[p] EXCEPT !.pc = "ValidateSave", !.snap = new]
  <2>1. AsMinted(rec, h[p].code) /\ rec \in AccessCode
    BY <1>0, <1>8 DEF ValidateResolve, At, Carries, AsMinted
  <2>2. status \in CodeStatus /\ (status # rec.status => status # "active")
    BY <2>1 DEF EffectiveCodeStatus, AccessCode, CodeStatus
  <2>3. new.status = status /\ AsMinted(new, h[p].code)
    BY <2>1, <2>2 DEF AsMinted, AccessCode
  <2>4. l.pc = "ValidateSave" /\ l.code = h[p].code /\ l.snap = new /\ l.saves = h[p].saves
    BY <1>0 DEF Local
  <2>5. h' = IF status # rec.status THEN [h EXCEPT ![p] = l] ELSE [h EXCEPT ![p] = Idle]
    <3>1. [h[p] EXCEPT !.pc = "ValidateSave", !.snap.status = status] = l
      BY <1>0 DEF Local
    <3>2. QED
      BY <1>8, <3>1 DEF ValidateResolve, Proceed
  <2> HIDE DEF rec, status, new, l
  <2>6. CASE status # rec.status
    <3>1. Carries(l) /\ l.pc \notin Approving
      BY <1>0, <2>2, <2>3, <2>4, <2>6 DEF Carries, Approving
    <3>2. QED
      BY <1>8, <2>5, <2>6, <3>1, Frame DEF ValidateResolve, redis
  <2>7. CASE status = rec.status
    BY <1>8, <2>5, <2>7, FrameReturn DEF ValidateResolve, Return, redis
  <2>8. QED
    BY <2>6, <2>7
<1>9. CASE ValidateSave(p)
  <2>1. AsMinted(h[p].snap, h[p].code) /\ h[p].code \in Code
    BY <1>0, <1>9 DEF ValidateSave, At, Carries, Ready, NeedsCode
  <2>2. \A c \in Code : codes'[c] \in {codes[c], None} \/ AsMinted(codes'[c], c)
    BY <1>9, <2>1 DEF ValidateSave, TypeOK
  <2>3. QED
    BY <1>9, <2>2, FrameReturn DEF ValidateSave, history
<1>10. QED
  BY <1>1, <1>2, <1>3, <1>4, <1>5, <1>6, <1>7, <1>8, <1>9 DEF CodeSteps

LEMMA ListStepsKeep ==
  ASSUME TypeOK, NoStaleRevival, NEW p \in Handler, ListSteps(p)
  PROVE  NoStaleRevival'
<1>0. h[p] \in Local /\ Carries(h[p])
  BY DEF TypeOK, NoStaleRevival, SnapshotsAsMinted
<1>1. CASE StateList(p)
  <2> DEFINE l == [h[p] EXCEPT !.pc = "State", !.reads = codeIndex]
  <2>1. l.pc = "State" /\ l.saves = h[p].saves
    BY <1>0 DEF Local
  <2>2. h' = [h EXCEPT ![p] = l]
    BY <1>0, <1>1 DEF StateList, TypeOK, Local
  <2> HIDE DEF l
  <2>3. Carries(l) /\ l.pc \notin Approving
    BY <1>0, <2>1 DEF Carries, Approving
  <2>4. QED
    BY <1>1, <2>2, <2>3, Frame DEF StateList, redis, history
<1>2. CASE MineList(p)
  <2> DEFINE rs == {r \in reqIndex : requests[r] # None /\ requests[r].cookie = h[p].cookie}
             l == [h[p] EXCEPT !.pc = "Mine", !.links = rs]
  <2>1. h' = [h EXCEPT ![p] = l]
    BY <1>0, <1>2 DEF MineList, TypeOK, Local
  <2>2. l.pc = "Mine" /\ l.saves = h[p].saves
    BY <1>0 DEF Local
  <2> HIDE DEF l
  <2>3. QED
    BY <1>0, <1>2, <2>1, <2>2, Frame DEF MineList, Carries, Approving, redis, history
<1>3. CASE \E r \in Request : MineLink(p, r)
  <2>1. PICK r \in Request : MineLink(p, r)
    BY <1>3
  <2> DEFINE found == IF link[r] = None THEN h[p].reads ELSE h[p].reads \cup {link[r]}
             l == [h[p] EXCEPT !.links = @ \ {r}, !.reads = found]
  <2>2. h' = [h EXCEPT ![p] = l]
    BY <1>0, <2>1 DEF MineLink, Local
  <2>3. l.pc = h[p].pc /\ l.code = h[p].code /\ l.snap = h[p].snap /\ l.saves = h[p].saves
    BY <1>0 DEF Local
  <2> HIDE DEF l
  <2>4. Carries(l) /\ l.pc \notin Approving
    BY <1>0, <2>1, <2>3 DEF Carries, Approving, MineLink, At
  <2>5. QED
    BY <2>1, <2>2, <2>4, Frame DEF MineLink, redis, history
<1>4. CASE \E c \in Code : ListRead(p, c)
  <2>1. PICK c \in Code : ListRead(p, c)
    BY <1>4
  <2> DEFINE rec == codes[c]
             new == [rec EXCEPT !.status = "expired"]
             stale == rec # None /\ EffectiveCodeStatus(rec, h[p].time) # rec.status
             found == IF stale THEN h[p].saves \cup {new} ELSE h[p].saves
             l == [h[p] EXCEPT !.reads = @ \ {c}, !.saves = found]
  <2>2. stale => AsMinted(new, new.code) /\ new.status # "active"
    <3>1. rec # None => AsMinted(rec, c)
      BY DEF NoStaleRevival, RecordsAsMinted
    <3>2. QED
      BY <3>1 DEF AsMinted, AccessCode, CodeStatus
  <2>3. h' = [h EXCEPT ![p] = l]
    BY <1>0, <2>1 DEF ListRead, Local
  <2>4. l.pc = h[p].pc /\ l.saves = found
    BY <1>0 DEF Local
  <2>5. h[p].pc \in {"State", "Mine"}
    BY <2>1 DEF ListRead
  <2> HIDE DEF l, new, stale
  <2>6. Carries(l) /\ l.pc \notin Approving
    BY <1>0, <2>2, <2>4, <2>5 DEF Carries, Approving
  <2>7. QED
    BY <2>1, <2>3, <2>6, Frame DEF ListRead, redis, history
<1>5. CASE \E rec \in h[p].saves : ListSave(p, rec)
  <2>1. PICK rec \in h[p].saves : ListSave(p, rec)
    BY <1>5
  <2> DEFINE l == [h[p] EXCEPT !.saves = @ \ {rec}]
  <2>2. AsMinted(rec, rec.code)
    BY <1>0 DEF Carries
  <2>3. h' = [h EXCEPT ![p] = l]
    BY <1>0, <2>1 DEF ListSave, Local
  <2>4. l.pc = h[p].pc /\ l.code = h[p].code /\ l.snap = h[p].snap
        /\ l.saves = h[p].saves \ {rec}
    BY <1>0 DEF Local
  <2> HIDE DEF l
  <2>5. \A c \in Code : codes'[c] \in {codes[c], None} \/ AsMinted(codes'[c], c)
    BY <2>1, <2>2 DEF ListSave, TypeOK
  <2>6. Carries(l)
    BY <1>0, <2>4 DEF Carries
  <2>7. QED
    BY <2>1, <2>3, <2>4, <2>5, <2>6, Frame DEF ListSave, history
<1>6. CASE ListDone(p)
  BY <1>6, FrameReturn DEF ListDone, redis, history
<1>7. QED
  BY <1>1, <1>2, <1>3, <1>4, <1>5, <1>6 DEF ListSteps

LEMMA NextKeep == TypeOK /\ NoStaleRevival /\ [Next]_vars => NoStaleRevival'
<1> SUFFICES ASSUME TypeOK, NoStaleRevival, [Next]_vars PROVE NoStaleRevival'
  OBVIOUS
<1>1. ASSUME NEW p \in Handler,
             RequestCalls(p) \/ CodeCalls(p) \/ RequestSteps(p) \/ CodeSteps(p)
               \/ ListSteps(p)
      PROVE  NoStaleRevival'
  BY <1>1, RequestCallsKeep, CodeCallsKeep, RequestStepsKeep, CodeStepsKeep, ListStepsKeep
<1>2. ASSUME NEW p \in Handler, Abort(p) PROVE NoStaleRevival'
  BY <1>2, FrameReturn DEF Abort, redis
<1>3. CASE Tick \/ UNCHANGED vars
  BY <1>3 DEF Tick, vars, redis, history, NoStaleRevival, RecordsAsMinted, SnapshotsAsMinted,
     NewCodesUnseen, Carries, AsMinted
<1>4. QED
  BY <1>1, <1>2, <1>3 DEF Next

(* Whatever handlers overlap and die, no stale write ever makes a code active *)
(* again or changes what it was approved for.                                 *)
THEOREM StaleWritesHarmless == Spec => []NoStaleRevival
<1>1. Init => NoStaleRevival
  BY DEF Init, Idle, NoStaleRevival, RecordsAsMinted, SnapshotsAsMinted, NewCodesUnseen,
     Carries, Approving
<1>2. QED
  BY <1>1, TypeCorrect, NextKeep, PTL DEF Spec

-----------------------------------------------------------------------------
(* The store implements CodeLifecycle: each step is one of its steps or a     *)
(* stuttering step.                                                           *)

AbstractStep == [Lifecycle!Next]_(Lifecycle!vars)

(* A step that leaves the codes alone ends p's admission, if anything. *)
LEMMA DropStep ==
  ASSUME TypeOK, NEW p \in Handler, NEW l, h' = [h EXCEPT ![p] = l],
         l.pc = "ValidateResolve" => l.snap.status # "active",
         UNCHANGED <<codes, minted, clock, grant>>
  PROVE  AbstractStep
<1>1. Lifecycle!Drop(p)
  BY DEF TypeOK, Lifecycle!Drop, Phase, Admitted
<1>2. QED
  BY <1>1 DEF AbstractStep, Lifecycle!Next

(* A step that deletes one record, or overwrites it by an inactive one, ends  *)
(* the code's life or changes nothing.                                        *)
LEMMA EndStep ==
  ASSUME TypeOK, NEW p \in Handler, NEW l, h' = [h EXCEPT ![p] = l],
         NEW c \in Code, NEW rec, codes' = [codes EXCEPT ![c] = rec],
         rec = None \/ rec.status # "active",
         h[p].pc # "ValidateResolve", l.pc # "ValidateResolve",
         UNCHANGED <<minted, clock, grant>>
  PROVE  AbstractStep
<1>1. \A q \in Handler : Admitted(q)' = Admitted(q)
  BY DEF TypeOK, Admitted
<1>2. \A d \in Code : d # c => Phase(d)' = Phase(d)
  BY DEF TypeOK, Phase
<1>3. CASE Phase(c) = "live"
  <2>1. Phase(c)' = "ended"
    BY <1>3 DEF TypeOK, Phase
  <2>2. Lifecycle!End(c)
    BY <1>1, <1>2, <1>3, <2>1 DEF Lifecycle!End
  <2>3. QED
    BY <2>2 DEF AbstractStep, Lifecycle!Next
<1>4. CASE Phase(c) # "live"
  <2>1. Phase(c)' = Phase(c)
    BY <1>4 DEF TypeOK, Phase
  <2>2. UNCHANGED Lifecycle!vars
    BY <1>1, <1>2, <2>1 DEF Lifecycle!vars
  <2>3. QED
    BY <2>2 DEF AbstractStep
<1>5. QED
  BY <1>3, <1>4

LEMMA FirstStep ==
  ASSUME TypeOK, NEW p \in Handler, NEW l, Call(p, l), l.pc # "ValidateResolve"
  PROVE  AbstractStep
  BY DropStep DEF Call, redis, history

LEMMA CallStep ==
  ASSUME TypeOK, NEW p \in Handler, RequestCalls(p) \/ CodeCalls(p)
  PROVE  AbstractStep
<1> USE FirstStep DEF Idle
<1>1. ASSUME NEW r \in Request, NEW k \in Cookie, CallCreate(p, r, k) \/ CallDeleteOwn(p, r, k)
      PROVE  AbstractStep
  BY <1>1 DEF CallCreate, CallDeleteOwn
<1>2. ASSUME NEW r \in Request, NEW t \in Timeout, NEW c \in Code, CallApprove(p, r, t, c)
      PROVE  AbstractStep
  BY <1>2 DEF CallApprove
<1>3. ASSUME NEW r \in Request, CallDeny(p, r) \/ CallDeleteRequest(p, r)
      PROVE  AbstractStep
  BY <1>3 DEF CallDeny, CallDeleteRequest
<1>4. ASSUME NEW c \in Code, CallRevoke(p, c) \/ CallDeleteCode(p, c) \/ CallValidate(p, c)
      PROVE  AbstractStep
  BY <1>4 DEF CallRevoke, CallDeleteCode, CallValidate
<1>5. ASSUME CallState(p) PROVE AbstractStep
  BY <1>5 DEF CallState
<1>6. ASSUME NEW k \in Cookie, CallMine(p, k) PROVE AbstractStep
  BY <1>6 DEF CallMine
<1>7. QED
  BY <1>1, <1>2, <1>3, <1>4, <1>5, <1>6 DEF RequestCalls, CodeCalls

LEMMA GotoStep ==
  ASSUME TypeOK, NEW p \in Handler, NEW s, Goto(p, s), s # "ValidateResolve",
         UNCHANGED <<codes, minted, clock, grant>>
  PROVE  AbstractStep
<1>1. [h[p] EXCEPT !.pc = s].pc = s
  BY DEF TypeOK, Local
<1>2. QED
  BY <1>1, DropStep DEF Goto

LEMMA ReturnStep ==
  ASSUME TypeOK, NEW p \in Handler, Return(p), UNCHANGED <<codes, minted, clock, grant>>
  PROVE  AbstractStep
  BY DropStep DEF Return, Idle

LEMMA RequestStepsRefine ==
  ASSUME TypeOK, NoStaleRevival, NEW p \in Handler, RequestSteps(p)
  PROVE  AbstractStep
<1>0. h[p] \in Local
  BY DEF TypeOK
<1>1. CASE CreateSet(p)
  BY <1>1, GotoStep DEF CreateSet, history
<1>2. CASE CreateSadd(p)
  BY <1>2, ReturnStep DEF CreateSadd, history
<1>3. CASE ApproveGet(p)
  <2>1. [h[p] EXCEPT !.pc = "ApproveSetRequest", !.snap = requests[h[p].req]].pc = "ApproveSetRequest"
    BY <1>0 DEF Local
  <2>2. QED
    BY <1>3, <2>1, ReturnStep, DropStep DEF ApproveGet, Proceed, Return, redis, history
<1>4. CASE ApproveSetRequest(p)
  BY <1>4, GotoStep DEF ApproveSetRequest, history
<1>5. CASE ApproveSetCode(p)
  <2> DEFINE c == h[p].code
             rec == [code |-> c, req |-> h[p].req, expiresAt |-> h[p].time, status |-> "active"]
             app == [req |-> h[p].req, expiresAt |-> h[p].time]
  <2>1. c \in Code /\ h[p].req \in Request /\ h[p].time \in Nat /\ h[p].pc = "ApproveSetCode"
    BY <1>5 DEF ApproveSetCode, At, TypeOK, Local, Ready, NeedsRequest, NeedsCode, Approving
  <2>2. minted[c] = None
    BY <2>1 DEF NoStaleRevival, NewCodesUnseen, Approving
  <2>3. app # None /\ rec # None
    BY <2>1, NoneAssumption DEF Approval, AccessCode, CodeStatus
  <2>4. /\ codes' = [codes EXCEPT ![c] = rec] /\ minted' = [minted EXCEPT ![c] = app]
        /\ UNCHANGED <<clock, grant>>
    BY <1>5 DEF ApproveSetCode
  <2>5. \A q \in Handler : Admitted(q)' = Admitted(q)
    BY <1>0, <1>5, <2>1 DEF ApproveSetCode, Goto, TypeOK, Admitted, Local
  <2>6. app.expiresAt \in Nat /\ rec.status = "active"
    BY <2>1
  <2> HIDE DEF c, rec, app
  <2>7. Phase(c) = "unissued" /\ \A d \in Code : Phase(d)' = IF d = c THEN "live" ELSE Phase(d)
    BY <2>1, <2>2, <2>3, <2>4, <2>6 DEF TypeOK, Phase
  <2>8. PICK d \in Code : d = c
    BY <2>1
  <2>9. Lifecycle!Issue(d)
    BY <2>1, <2>3, <2>4, <2>5, <2>6, <2>7, <2>8 DEF TypeOK, Lifecycle!Issue
  <2>10. QED
    BY <2>9 DEF AbstractStep, Lifecycle!Next
<1>6. CASE ApproveSaddCode(p)
  BY <1>6, GotoStep DEF ApproveSaddCode, history
<1>7. CASE ApproveSetLink(p)
  BY <1>7, ReturnStep DEF ApproveSetLink, history
<1>8. CASE DenyGet(p)
  <2>1. [h[p] EXCEPT !.pc = "DenySet", !.snap = requests[h[p].req]].pc = "DenySet"
    BY <1>0 DEF Local
  <2>2. QED
    BY <1>8, <2>1, ReturnStep, DropStep DEF DenyGet, Proceed, Return, redis, history
<1>9. CASE DenySet(p)
  BY <1>9, ReturnStep DEF DenySet, history
<1>10. CASE OwnGet(p)
  <2>1. Goto(p, "DeleteGetLink") \/ Return(p)
    BY <1>10 DEF OwnGet, Proceed, Goto, Return
  <2>2. QED
    BY <1>10, <2>1, GotoStep, ReturnStep DEF OwnGet, redis, history
<1>11. CASE DeleteGetLink(p)
  <2> DEFINE step == IF link[h[p].req] = None THEN "DelRequest" ELSE "Cascade"
             l == [h[p] EXCEPT !.pc = step, !.code = link[h[p].req]]
  <2>1. l.pc # "ValidateResolve" /\ h' = [h EXCEPT ![p] = l]
    BY <1>0, <1>11 DEF DeleteGetLink, Local
  <2> HIDE DEF l
  <2>2. QED
    BY <1>11, <2>1, DropStep DEF DeleteGetLink, redis, history
<1>12. CASE Cascade(p)
  <2> DEFINE l == [h[p] EXCEPT !.pc = "CascadeSrem"]
  <2>1. l.pc = "CascadeSrem" /\ h' = [h EXCEPT ![p] = l] /\ h[p].pc = "Cascade"
    BY <1>0, <1>12 DEF Cascade, Goto, At, Local
  <2>2. h[p].code \in Code /\ codes' = [codes EXCEPT ![h[p].code] = None]
    BY <1>12, <2>1 DEF Cascade, TypeOK, Ready, NeedsCode
  <2> HIDE DEF l
  <2>3. QED
    BY <1>12, <2>1, <2>2, EndStep DEF Cascade, history
<1>13. CASE CascadeSrem(p)
  BY <1>13, GotoStep DEF CascadeSrem, history
<1>14. CASE DelRequest(p)
  BY <1>14, GotoStep DEF DelRequest, history
<1>15. CASE SremRequest(p)
  BY <1>15, ReturnStep DEF SremRequest, history
<1>16. QED
  BY <1>1, <1>2, <1>3, <1>4, <1>5, <1>6, <1>7, <1>8, <1>9, <1>10, <1>11, <1>12, <1>13, <1>14, <1>15 DEF RequestSteps

LEMMA CodeStepsRefine ==
  ASSUME TypeOK, NoStaleRevival, NEW p \in Handler, CodeSteps(p)
  PROVE  AbstractStep
<1>0. h[p] \in Local /\ Ready(h[p]) /\ Carries(h[p])
  BY DEF TypeOK, NoStaleRevival, SnapshotsAsMinted
<1>1. CASE RevokeGet(p)
  <2>1. [h[p] EXCEPT !.pc = "RevokeSet", !.snap = codes[h[p].code]].pc = "RevokeSet"
    BY <1>0 DEF Local
  <2>2. QED
    BY <1>1, <2>1, ReturnStep, DropStep DEF RevokeGet, Proceed, Return, redis, history
<1>2. CASE RevokeSet(p)
  <2> DEFINE rec == [h[p].snap EXCEPT !.status = "revoked"]
  <2>1. h[p].code \in Code /\ h[p].snap \in AccessCode /\ h[p].pc = "RevokeSet"
    BY <1>0, <1>2 DEF RevokeSet, At, Ready, NeedsCode
  <2>2. rec.status = "revoked"
    BY <2>1 DEF AccessCode
  <2>3. codes' = [codes EXCEPT ![h[p].code] = rec] /\ h' = [h EXCEPT ![p] = Idle]
        /\ UNCHANGED <<minted, clock, grant>>
    BY <1>2 DEF RevokeSet, Return, history
  <2>4. Idle.pc # "ValidateResolve"
    BY DEF Idle
  <2> HIDE DEF rec
  <2>5. QED
    BY <2>1, <2>2, <2>3, <2>4, EndStep
<1>3. CASE DeleteCodeGet(p)
  <2> DEFINE l == [h[p] EXCEPT !.pc = "Unlink", !.req = codes[h[p].code].req]
  <2>1. l.pc = "Unlink"
    BY <1>0 DEF Local
  <2>2. Goto(p, "DelCode") \/ h' = [h EXCEPT ![p] = l]
    BY <1>0, <1>3 DEF DeleteCodeGet, Local
  <2> HIDE DEF l
  <2>3. QED
    BY <1>3, <2>1, <2>2, GotoStep, DropStep DEF DeleteCodeGet, redis, history
<1>4. CASE Unlink(p)
  BY <1>4, GotoStep DEF Unlink, history
<1>5. CASE DelCode(p)
  <2> DEFINE l == [h[p] EXCEPT !.pc = "SremCode"]
  <2>1. l.pc = "SremCode" /\ h' = [h EXCEPT ![p] = l] /\ h[p].pc = "DelCode"
    BY <1>0, <1>5 DEF DelCode, Goto, At, Local
  <2>2. h[p].code \in Code /\ codes' = [codes EXCEPT ![h[p].code] = None]
    BY <1>0, <1>5, <2>1 DEF DelCode, Ready, NeedsCode
  <2> HIDE DEF l
  <2>3. QED
    BY <1>5, <2>1, <2>2, EndStep DEF DelCode, history
<1>6. CASE SremCode(p)
  BY <1>6, ReturnStep DEF SremCode, history
<1>7. CASE ValidateGet(p)
  <2> DEFINE record == codes[h[p].code]
             l == [h[p] EXCEPT !.pc = "ValidateResolve", !.snap = record]
  <2>1. PICK c \in Code : c = h[p].code
    BY <1>0, <1>7 DEF ValidateGet, At, Ready, NeedsCode
  <2>2. l.pc = "ValidateResolve" /\ l.snap = record /\ l.code = c
    BY <1>0, <2>1 DEF Local
  <2>3. UNCHANGED <<codes, minted, clock, grant>>
    BY <1>7 DEF ValidateGet, redis, history
  <2>4. CASE record = None
    BY <1>7, <2>3, <2>4, ReturnStep DEF ValidateGet, Proceed, Return
  <2>5. CASE record # None
    <3>1. h' = [h EXCEPT ![p] = l]
      BY <1>7, <2>5 DEF ValidateGet, Proceed
    <3>2. CASE record.status # "active"
      <4> HIDE DEF l, record
      <4>1. QED
        BY <2>2, <2>3, <3>1, <3>2, DropStep
    <3>3. CASE record.status = "active"
      <4>1. Phase(c) = "live"
        <5>1. AsMinted(record, c)
          BY <2>1, <2>5 DEF NoStaleRevival, RecordsAsMinted
        <5>2. minted[c] # None
          BY <5>1, NoneAssumption DEF AsMinted, AccessCode, Approval
        <5>3. QED
          BY <2>1, <2>5, <3>3, <5>2 DEF Phase
      <4>2. \A d \in Code : Phase(d)' = Phase(d)
        BY <2>3 DEF Phase
      <4> HIDE DEF l
      <4>3. Admitted(p)' = c /\ \A q \in Handler \ {p} : Admitted(q)' = Admitted(q)
        BY <2>2, <3>1, <3>3 DEF TypeOK, Admitted
      <4>4. Lifecycle!Admit(p, c)
        BY <2>3, <4>1, <4>2, <4>3 DEF Lifecycle!Admit
      <4>5. QED
        BY <4>4 DEF AbstractStep, Lifecycle!Next
    <3>4. QED
      BY <3>2, <3>3
  <2>6. QED
    BY <2>4, <2>5
<1>8. CASE ValidateResolve(p)
  <2> DEFINE rec == h[p].snap
             status == EffectiveCodeStatus(rec, clock)
             l == IF status # rec.status
                    THEN [h[p] EXCEPT !.pc = "ValidateSave", !.snap.status = status] ELSE Idle
             g == [code |-> rec.code, issuedAt |-> clock, expiresAt |-> rec.expiresAt]
  <2>1. rec \in AccessCode /\ h[p].pc = "ValidateResolve"
    BY <1>0, <1>8 DEF ValidateResolve, At, Ready
  <2>2. PICK c \in Code : c = h[p].code /\ AsMinted(rec, c)
    BY <1>0, <1>8 DEF ValidateResolve, At, Carries, Ready, NeedsCode
  <2>3. /\ h' = [h EXCEPT ![p] = l] /\ UNCHANGED <<codes, minted, clock>>
        /\ grant' = IF status # "active" THEN grant ELSE g
    BY <1>8 DEF ValidateResolve, Proceed, redis
  <2>4. l.pc # "ValidateResolve"
    BY <1>0 DEF Local, Idle
  <2>5. status = "active" => rec.status = "active" /\ ~(clock > rec.expiresAt)
    BY <2>1 DEF EffectiveCodeStatus
  <2>6. CASE status # "active"
    <3> HIDE DEF l, rec, status
    <3>1. QED
      BY <2>3, <2>4, <2>6, DropStep
  <2>7. CASE status = "active"
    <3>1. clock <= rec.expiresAt /\ rec.code = c /\ minted[c] # None
          /\ minted[c].expiresAt = rec.expiresAt
      BY <2>1, <2>2, <2>5, <2>7, NoneAssumption DEF AsMinted, AccessCode, Approval, TypeOK
    <3>2. Admitted(p) = c
      BY <2>1, <2>2, <2>5, <2>7 DEF Admitted
    <3>3. \A d \in Code : Phase(d)' = Phase(d)
      BY <2>3 DEF Phase
    <3> HIDE DEF l
    <3>4. Admitted(p)' = None /\ \A q \in Handler \ {p} : Admitted(q)' = Admitted(q)
      BY <2>3, <2>4 DEF TypeOK, Admitted
    <3>5. Lifecycle!Grant(p, c)
      <4> HIDE DEF rec, status
      <4>1. grant' = [code |-> c, issuedAt |-> clock, expiresAt |-> rec.expiresAt]
        BY <2>3, <2>7, <3>1
      <4>2. QED
        BY <2>3, <3>1, <3>2, <3>3, <3>4, <4>1 DEF Lifecycle!Grant
    <3>6. QED
      BY <3>5 DEF AbstractStep, Lifecycle!Next
  <2>8. QED
    BY <2>6, <2>7
<1>9. CASE ValidateSave(p)
  <2>1. h[p].code \in Code /\ h[p].pc = "ValidateSave" /\ h[p].snap.status # "active"
    BY <1>0, <1>9 DEF ValidateSave, At, Ready, NeedsCode, Carries
  <2>2. Idle.pc # "ValidateResolve"
    BY DEF Idle
  <2>3. QED
    BY <1>9, <2>1, <2>2, EndStep DEF ValidateSave, Return, history
<1>10. QED
  BY <1>1, <1>2, <1>3, <1>4, <1>5, <1>6, <1>7, <1>8, <1>9 DEF CodeSteps

LEMMA ListStepsRefine ==
  ASSUME TypeOK, NoStaleRevival, NEW p \in Handler, ListSteps(p)
  PROVE  AbstractStep
<1>0. h[p] \in Local /\ Carries(h[p])
  BY DEF TypeOK, NoStaleRevival, SnapshotsAsMinted
<1>1. CASE \E rec \in h[p].saves : ListSave(p, rec)
  <2>1. PICK rec \in h[p].saves : ListSave(p, rec)
    BY <1>1
  <2> DEFINE l == [h[p] EXCEPT !.saves = @ \ {rec}]
  <2>2. rec.code \in Code /\ rec.status # "active"
    BY <1>0 DEF Carries, AsMinted, AccessCode
  <2>3. h' = [h EXCEPT ![p] = l] /\ l.pc = h[p].pc /\ h[p].pc # "ValidateResolve"
    BY <1>0, <2>1 DEF ListSave, At, Local
  <2> HIDE DEF l
  <2>4. QED
    BY <2>1, <2>2, <2>3, EndStep DEF ListSave, history
<1>2. CASE StateList(p) \/ MineList(p) \/ (\E r \in Request : MineLink(p, r))
             \/ (\E c \in Code : ListRead(p, c)) \/ ListDone(p)
  <2>1. /\ UNCHANGED <<codes, minted, clock, grant>>
        /\ h[p].pc # "ValidateResolve"
    BY <1>2 DEF StateList, MineList, MineLink, ListRead, ListDone, At, redis, history
  <2>2. h'[p].pc # "ValidateResolve" /\ \A q \in Handler \ {p} : h'[q] = h[q]
    <3> DEFINE NotAdmitting == h'[p].pc # "ValidateResolve" /\ \A q \in Handler \ {p} : h'[q] = h[q]
    <3>1. CASE StateList(p)
      BY <1>0, <3>1 DEF StateList, TypeOK, Local
    <3>2. CASE MineList(p)
      BY <1>0, <3>2 DEF MineList, TypeOK, Local
    <3>3. ASSUME NEW r \in Request, MineLink(p, r) PROVE NotAdmitting
      BY <1>0, <2>1, <3>3 DEF MineLink, TypeOK, Local
    <3>4. ASSUME NEW c \in Code, ListRead(p, c) PROVE NotAdmitting
      BY <1>0, <2>1, <3>4 DEF ListRead, TypeOK, Local
    <3>5. CASE ListDone(p)
      BY <3>5 DEF ListDone, Return, Idle, TypeOK
    <3>6. QED
      BY <1>2, <3>1, <3>2, <3>3, <3>4, <3>5
  <2>3. \A q \in Handler : Admitted(q)' = Admitted(q)
    BY <2>1, <2>2 DEF Admitted
  <2>4. \A d \in Code : Phase(d)' = Phase(d)
    BY <2>1 DEF Phase
  <2>5. UNCHANGED Lifecycle!vars
    BY <2>1, <2>3, <2>4 DEF Lifecycle!vars
  <2>6. QED
    BY <2>5 DEF AbstractStep
<1>3. QED
  BY <1>1, <1>2 DEF ListSteps

LEMMA NextRefines == TypeOK /\ NoStaleRevival /\ [Next]_vars => AbstractStep
<1> SUFFICES ASSUME TypeOK, NoStaleRevival, [Next]_vars PROVE AbstractStep
  OBVIOUS
<1>1. ASSUME NEW p \in Handler,
             RequestCalls(p) \/ CodeCalls(p) \/ RequestSteps(p) \/ CodeSteps(p)
               \/ ListSteps(p)
      PROVE  AbstractStep
  BY <1>1, CallStep, RequestStepsRefine, CodeStepsRefine, ListStepsRefine
<1>2. ASSUME NEW p \in Handler, Abort(p) PROVE AbstractStep
  BY <1>2, ReturnStep DEF Abort, redis
<1>3. CASE Tick
  <2>1. Lifecycle!Pass
    BY <1>3 DEF Tick, TypeOK, redis, history, Lifecycle!Pass, Phase, Admitted
  <2>2. QED
    BY <2>1 DEF AbstractStep, Lifecycle!Next
<1>4. CASE UNCHANGED vars
  <2>1. UNCHANGED Lifecycle!vars
    BY <1>4 DEF vars, redis, history, Lifecycle!vars, Phase, Admitted
  <2>2. QED
    BY <2>1 DEF AbstractStep
<1>5. QED
  BY <1>1, <1>2, <1>3, <1>4 DEF Next

(* The store implements CodeLifecycle: an ended code never lives again, and a *)
(* grant is signed only for a code found live, within its one expiry.         *)
THEOREM StoreImplementsLifecycle == Spec => ImplementsLifecycle
<1>1. Init => Lifecycle!Init
  BY DEF Init, Idle, Phase, Admitted, Lifecycle!Init
<1>2. QED
  BY <1>1, TypeCorrect, StaleWritesHarmless, NextRefines, PTL
     DEF Spec, ImplementsLifecycle, Lifecycle!Spec, AbstractStep
=============================================================================
