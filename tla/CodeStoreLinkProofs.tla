------------------------ MODULE CodeStoreLinkProofs ------------------------
(* What its owner can use, the administrator can see: LinkedActiveCodeListed, *)
(* for handlers that overlap and die in any way.                              *)
EXTENDS CodeStoreProofs

Issued(c) == minted[c] # None
Ended(c) == Phase(c) = "ended"

(* The administrator sees the code, or nobody can use it any more. *)
Accounted(c) == Issued(c) /\ (c \in codeIndex \/ Ended(c))

(* Steps that work on a code somebody was given *)
OnIssued == {"ApproveSaddCode", "ApproveSetLink", "Cascade", "CascadeSrem",
             "DeleteCodeGet", "Unlink", "DelCode", "SremCode"}

(* A code is linked after it was listed, and unlisted after it was deleted. *)
InOrder(l) ==
  /\ l.pc \in OnIssued => Issued(l.code)
  /\ l.pc = "ApproveSetLink" => Accounted(l.code)
  /\ l.pc \in {"CascadeSrem", "SremCode"} => Ended(l.code)

LinksAccounted == \A r \in Request : link[r] # None => Accounted(link[r])
KnownIssued == \A c \in Code : c \in known => Issued(c)
HandlersInOrder == \A p \in Handler : InOrder(h[p])

LinkInv == LinksAccounted /\ KnownIssued /\ HandlersInOrder

-----------------------------------------------------------------------------
(* A code once issued stays issued, and one that ended stays ended, because   *)
(* the store implements CodeLifecycle.                                        *)
LEMMA EndedForGood ==
  ASSUME TypeOK, NoStaleRevival, [Next]_vars, NEW c \in Code
  PROVE  (Issued(c) => Issued(c)') /\ (Ended(c) => Ended(c)')
<1> DEFINE phase == [d \in Code |-> Phase(d)]
<1>1. \/ phase' = phase
      \/ \E d \in Code : phase[d] \in {"unissued", "live"}
                         /\ phase' = [phase EXCEPT ![d] = IF @ = "live" THEN "ended" ELSE "live"]
  BY NextRefines DEF AbstractStep, Lifecycle!Next, Lifecycle!vars, Lifecycle!Issue, Lifecycle!End,
     Lifecycle!Admit, Lifecycle!Grant, Lifecycle!Drop, Lifecycle!Pass
<1>2. phase[c] = Phase(c) /\ phase'[c] = Phase(c)'
  OBVIOUS
<1>3. Phase(c) = "unissued" <=> ~Issued(c)
  BY DEF Phase, Issued
<1>4. Phase(c)' = "unissued" <=> ~Issued(c)'
  BY DEF Phase, Issued

<1>5. Phase(c) # "unissued" => Phase(c)' # "unissued"
  BY <1>1, <1>2
<1>6. Phase(c) = "ended" => Phase(c)' = "ended"
  BY <1>1, <1>2
<1>7. QED
  BY <1>3, <1>4, <1>5, <1>6 DEF Ended

(* The frame of the argument: a step of p replaces p's local state by one that *)
(* is in order, unlists only codes that ended, links only accounted ones, and  *)
(* makes no code known that was not issued.                                    *)
LEMMA LinkFrame ==
  ASSUME TypeOK, NoStaleRevival, LinkInv, [Next]_vars,
         NEW p \in Handler, NEW l, h' = [h EXCEPT ![p] = l], InOrder(l)',
         \A c \in codeIndex : c \in codeIndex' \/ Ended(c),
         \A r \in Request : link'[r] \in {link[r], None} \/ Accounted(link[r])',
         \A c \in Code : c \in known' => c \in known \/ Issued(c)'
  PROVE  LinkInv'
<1>1. \A c \in Code : Accounted(c) => Accounted(c)'
  BY EndedForGood DEF Accounted
<1>2. LinksAccounted'
  <2>1. ASSUME NEW r \in Request, link'[r] # None PROVE Accounted(link[r])'
    <3>1. CASE link'[r] = link[r]
      <4>1. link[r] \in Code /\ Accounted(link[r])
        BY <2>1, <3>1 DEF TypeOK, LinkInv, LinksAccounted
      <4>2. QED
        BY <1>1, <3>1, <4>1 DEF Accounted
    <3>2. QED
      BY <2>1, <3>1
  <2>2. QED
    BY <2>1 DEF LinksAccounted
<1>3. KnownIssued'
  BY EndedForGood DEF LinkInv, KnownIssued
<1>4. HandlersInOrder'
  <2>1. ASSUME NEW q \in Handler, q # p PROVE InOrder(h[q])'
    <3>1. h'[q] = h[q] /\ InOrder(h[q]) /\ Ready(h[q])
      BY <2>1 DEF TypeOK, LinkInv, HandlersInOrder
    <3>2. h[q].pc \in OnIssued => h[q].code \in Code
      BY <3>1 DEF Ready, NeedsCode, OnIssued
    <3>3. h[q].pc \in OnIssued => Issued(h[q].code)'
      BY <3>1, <3>2, EndedForGood DEF InOrder
    <3>4. h[q].pc = "ApproveSetLink" => Accounted(h[q].code)'
      BY <1>1, <3>1, <3>2 DEF InOrder, OnIssued
    <3>5. h[q].pc \in {"CascadeSrem", "SremCode"} => Ended(h[q].code)'
      BY <3>1, <3>2, EndedForGood DEF InOrder, OnIssued
    <3>6. QED
      BY <3>1, <3>3, <3>4, <3>5 DEF InOrder, Issued, Ended, Accounted
  <2>2. InOrder(h[p])'
    BY DEF TypeOK
  <2>3. QED
    BY <2>1, <2>2 DEF HandlersInOrder
<1>5. QED
  BY <1>2, <1>3, <1>4 DEF LinkInv

(* A step that leaves the index, the links and the known ids alone *)
LEMMA LinkLocal ==
  ASSUME TypeOK, NoStaleRevival, LinkInv, [Next]_vars,
         NEW p \in Handler, NEW l, h' = [h EXCEPT ![p] = l],
         l.pc \in OnIssued => InOrder(l)',
         UNCHANGED <<codeIndex, link, known>>
  PROVE  LinkInv'
<1>1. InOrder(l)'
  BY DEF InOrder, OnIssued
<1>2. QED
  BY <1>1, LinkFrame

LEMMA LinkReturn ==
  ASSUME TypeOK, NoStaleRevival, LinkInv, [Next]_vars,
         NEW p \in Handler, Return(p), UNCHANGED <<codeIndex, link, known>>
  PROVE  LinkInv'
  BY LinkLocal DEF Return, Idle, OnIssued

LEMMA LinkGoto ==
  ASSUME TypeOK, NoStaleRevival, LinkInv, [Next]_vars,
         NEW p \in Handler, NEW s, Goto(p, s), s \notin OnIssued,
         UNCHANGED <<codeIndex, link, known>>
  PROVE  LinkInv'
<1>1. [h[p] EXCEPT !.pc = s].pc = s
  BY DEF TypeOK, Local
<1>2. QED
  BY <1>1, LinkLocal DEF Goto

LEMMA LinkCall ==
  ASSUME TypeOK, NoStaleRevival, LinkInv, [Next]_vars,
         NEW p \in Handler, RequestCalls(p) \/ CodeCalls(p)
  PROVE  LinkInv'
<1>1. ASSUME NEW l, Call(p, l), l.pc \in OnIssued => InOrder(l)' PROVE LinkInv'
  BY <1>1, LinkLocal DEF Call, redis, history
<1>2. ASSUME NEW r \in Request, NEW k \in Cookie, CallCreate(p, r, k) \/ CallDeleteOwn(p, r, k)
      PROVE  LinkInv'
  BY <1>1, <1>2 DEF CallCreate, CallDeleteOwn, Idle, OnIssued
<1>3. ASSUME NEW r \in Request, NEW t \in Timeout, NEW c \in Code, CallApprove(p, r, t, c)
      PROVE  LinkInv'
  BY <1>1, <1>3 DEF CallApprove, Idle, OnIssued
<1>4. ASSUME NEW r \in Request, CallDeny(p, r) \/ CallDeleteRequest(p, r) PROVE LinkInv'
  BY <1>1, <1>4 DEF CallDeny, CallDeleteRequest, Idle, OnIssued
<1>5. ASSUME NEW c \in Code, CallDeleteCode(p, c) PROVE LinkInv'
  <2> DEFINE l == [Idle EXCEPT !.pc = "DeleteCodeGet", !.code = c]
  <2>1. Issued(c)' /\ Call(p, l)
    BY <1>5, EndedForGood DEF CallDeleteCode, LinkInv, KnownIssued
  <2>2. l.pc = "DeleteCodeGet" /\ l.code = c
    BY DEF Idle
  <2> HIDE DEF l
  <2>3. InOrder(l)'
    BY <2>1, <2>2 DEF InOrder, Issued
  <2>4. QED
    BY <1>1, <2>1, <2>3
<1>6. ASSUME NEW c \in Code, CallRevoke(p, c) \/ CallValidate(p, c) PROVE LinkInv'
  BY <1>1, <1>6 DEF CallRevoke, CallValidate, Idle, OnIssued
<1>7. CASE CallState(p)
  BY <1>1, <1>7 DEF CallState, Idle, OnIssued
<1>8. ASSUME NEW k \in Cookie, CallMine(p, k) PROVE LinkInv'
  BY <1>1, <1>8 DEF CallMine, Idle, OnIssued
<1>9. QED
  BY <1>2, <1>3, <1>4, <1>5, <1>6, <1>7, <1>8 DEF RequestCalls, CodeCalls

LEMMA LinkRequestSteps ==
  ASSUME TypeOK, NoStaleRevival, LinkInv, [Next]_vars, NEW p \in Handler, RequestSteps(p)
  PROVE  LinkInv'
<1>0. h[p] \in Local /\ Ready(h[p]) /\ InOrder(h[p])
  BY DEF TypeOK, LinkInv, HandlersInOrder
<1>1. CASE CreateSet(p)
  BY <1>1, LinkGoto DEF CreateSet, OnIssued, history
<1>2. CASE CreateSadd(p)
  <2>1. InOrder(Idle)' /\ h' = [h EXCEPT ![p] = Idle]
    BY <1>2 DEF CreateSadd, Return, InOrder, Idle, OnIssued
  <2>2. \A c \in Code : c \in known' => c \in known
    BY <1>0, <1>2, IdAssumption DEF CreateSadd, At, Ready, NeedsRequest
  <2>3. QED
    BY <1>2, <2>1, <2>2, LinkFrame DEF CreateSadd
<1>3. CASE ApproveGet(p)
  <2>1. [h[p] EXCEPT !.pc = "ApproveSetRequest", !.snap = requests[h[p].req]].pc = "ApproveSetRequest"
    BY <1>0 DEF Local
  <2>2. QED
    BY <1>3, <2>1, LinkLocal, LinkReturn DEF ApproveGet, Proceed, Return, OnIssued, redis, history
<1>4. CASE ApproveSetRequest(p)
  BY <1>4, LinkGoto DEF ApproveSetRequest, OnIssued, history
<1>5. CASE ApproveSetCode(p)
  <2> DEFINE app == [req |-> h[p].req, expiresAt |-> h[p].time]
  <2>0. PICK l : l = [h[p] EXCEPT !.pc = "ApproveSaddCode"]
    OBVIOUS
  <2>1. h[p].code \in Code /\ app \in Approval
    BY <1>0, <1>5 DEF ApproveSetCode, At, Local, Ready, NeedsRequest, NeedsCode, Approving, Approval
  <2>2. minted'[h[p].code] = app
    BY <1>5, <2>1 DEF ApproveSetCode, TypeOK
  <2>3. l.pc = "ApproveSaddCode" /\ l.code = h[p].code /\ h' = [h EXCEPT ![p] = l]
    BY <1>0, <1>5, <2>0 DEF ApproveSetCode, Goto, Local
  <2>4. InOrder(l)'
    BY <2>1, <2>2, <2>3, NoneAssumption DEF InOrder, Issued
  <2>5. QED
    BY <1>5, <2>3, <2>4, LinkLocal DEF ApproveSetCode
<1>6. CASE ApproveSaddCode(p)
  <2>0. PICK l : l = [h[p] EXCEPT !.pc = "ApproveSetLink"]
    OBVIOUS
  <2>1. PICK c \in Code : c = h[p].code /\ Issued(c)
    BY <1>0, <1>6 DEF ApproveSaddCode, At, Ready, NeedsCode, InOrder, OnIssued
  <2>2. Issued(c)' /\ codeIndex' = codeIndex \cup {c} /\ known' = known \cup {c}
    BY <1>6, <2>1, EndedForGood DEF ApproveSaddCode
  <2>3. l.pc = "ApproveSetLink" /\ l.code = c /\ h' = [h EXCEPT ![p] = l]
    BY <1>0, <1>6, <2>0, <2>1 DEF ApproveSaddCode, Goto, Local
  <2>4. InOrder(l)'
    BY <2>2, <2>3 DEF InOrder, Issued, Accounted
  <2>5. \A d \in Code : d \in known' => d \in known \/ Issued(d)'
    BY <2>2 DEF Issued
  <2>6. QED
    BY <1>6, <2>3, <2>4, <2>5, LinkFrame DEF ApproveSaddCode
<1>7. CASE ApproveSetLink(p)
  <2>1. h[p].code \in Code /\ Accounted(h[p].code)
    BY <1>0, <1>7 DEF ApproveSetLink, At, Ready, NeedsCode, InOrder
  <2>2. UNCHANGED <<codes, minted, codeIndex, known>> /\ h' = [h EXCEPT ![p] = Idle]
    BY <1>7 DEF ApproveSetLink, Return, history
  <2>3. \A r \in Request : link'[r] \in {link[r], None} \/ Accounted(link[r])'
    BY <1>7, <2>1, <2>2 DEF ApproveSetLink, TypeOK, Accounted, Issued, Ended, Phase
  <2>4. InOrder(Idle)'
    BY DEF InOrder, Idle, OnIssued
  <2>5. QED
    BY <2>2, <2>3, <2>4, LinkFrame
<1>8. CASE DenyGet(p)
  <2>1. [h[p] EXCEPT !.pc = "DenySet", !.snap = requests[h[p].req]].pc = "DenySet"
    BY <1>0 DEF Local
  <2>2. QED
    BY <1>8, <2>1, LinkLocal, LinkReturn DEF DenyGet, Proceed, Return, OnIssued, redis, history
<1>9. CASE DenySet(p)
  BY <1>9, LinkReturn DEF DenySet, history
<1>10. CASE OwnGet(p)
  <2>1. Goto(p, "DeleteGetLink") \/ Return(p)
    BY <1>10 DEF OwnGet, Proceed, Goto, Return
  <2>2. QED
    BY <1>10, <2>1, LinkGoto, LinkReturn DEF OwnGet, OnIssued, redis, history
<1>11. CASE DeleteGetLink(p)
  <2> DEFINE step == IF link[h[p].req] = None THEN "DelRequest" ELSE "Cascade"
  <2>0. PICK l : l = [h[p] EXCEPT !.pc = step, !.code = link[h[p].req]]
    OBVIOUS
  <2>1. h[p].req \in Request
    BY <1>0, <1>11 DEF DeleteGetLink, At, Ready, NeedsRequest
  <2>2. link[h[p].req] # None => Issued(link[h[p].req])
    BY <2>1 DEF LinkInv, LinksAccounted, Accounted
  <2>3. l.pc = step /\ l.code = link[h[p].req] /\ h' = [h EXCEPT ![p] = l]
    BY <1>0, <1>11, <2>0 DEF DeleteGetLink, Local
  <2>4. UNCHANGED <<redis, history>>
    BY <1>11 DEF DeleteGetLink
  <2>5. l.pc \in OnIssued => InOrder(l)'
    BY <2>2, <2>3, <2>4 DEF InOrder, Issued, OnIssued, history
  <2>6. QED
    BY <2>3, <2>4, <2>5, LinkLocal DEF redis, history
<1>12. CASE Cascade(p)
  <2>0. PICK l : l = [h[p] EXCEPT !.pc = "CascadeSrem"]
    OBVIOUS
  <2>1. PICK c \in Code : c = h[p].code /\ Issued(c)
    BY <1>0, <1>12 DEF Cascade, At, Ready, NeedsCode, InOrder, OnIssued
  <2>2. l.pc = "CascadeSrem" /\ l.code = c /\ h' = [h EXCEPT ![p] = l]
    BY <1>0, <1>12, <2>0, <2>1 DEF Cascade, Goto, Local
  <2>3. Issued(c)' /\ codes'[c] = None
    BY <1>12, <2>1 DEF Cascade, TypeOK, Issued, history
  <2>4. InOrder(l)'
    BY <2>2, <2>3 DEF InOrder, Issued, Ended, Phase
  <2>5. \A r \in Request : link'[r] \in {link[r], None}
    BY <1>12 DEF Cascade, TypeOK
  <2>6. QED
    BY <1>12, <2>2, <2>4, <2>5, LinkFrame DEF Cascade, history
<1>13. CASE CascadeSrem(p)
  <2>0. PICK l : l = [h[p] EXCEPT !.pc = "DelRequest"]
    OBVIOUS
  <2>1. Ended(h[p].code)
    BY <1>0, <1>13 DEF CascadeSrem, At, InOrder
  <2>2. l.pc = "DelRequest" /\ h' = [h EXCEPT ![p] = l]
    BY <1>0, <1>13, <2>0 DEF CascadeSrem, Goto, Local
  <2>3. InOrder(l)'
    BY <2>2 DEF InOrder, OnIssued
  <2>4. QED
    BY <1>13, <2>1, <2>2, <2>3, LinkFrame DEF CascadeSrem, history
<1>14. CASE DelRequest(p)
  BY <1>14, LinkGoto DEF DelRequest, OnIssued, history
<1>15. CASE SremRequest(p)
  BY <1>15, LinkReturn DEF SremRequest, history
<1>16. QED
  BY <1>1, <1>2, <1>3, <1>4, <1>5, <1>6, <1>7, <1>8, <1>9, <1>10, <1>11, <1>12, <1>13,
     <1>14, <1>15 DEF RequestSteps

LEMMA LinkCodeSteps ==
  ASSUME TypeOK, NoStaleRevival, LinkInv, [Next]_vars, NEW p \in Handler, CodeSteps(p)
  PROVE  LinkInv'
<1>0. h[p] \in Local /\ Ready(h[p]) /\ InOrder(h[p])
  BY DEF TypeOK, LinkInv, HandlersInOrder
<1>1. CASE RevokeGet(p)
  <2>1. [h[p] EXCEPT !.pc = "RevokeSet", !.snap = codes[h[p].code]].pc = "RevokeSet"
    BY <1>0 DEF Local
  <2>2. QED
    BY <1>1, <2>1, LinkLocal, LinkReturn DEF RevokeGet, Proceed, Return, OnIssued, redis, history
<1>2. CASE RevokeSet(p)
  BY <1>2, LinkReturn DEF RevokeSet, history
<1>3. CASE DeleteCodeGet(p)
  <2>1. PICK c \in Code : c = h[p].code /\ Issued(c)
    BY <1>0, <1>3 DEF DeleteCodeGet, At, Ready, NeedsCode, InOrder, OnIssued
  <2>2. PICK l : l = IF codes[c] = None THEN [h[p] EXCEPT !.pc = "DelCode"]
                     ELSE [h[p] EXCEPT !.pc = "Unlink", !.req = codes[c].req]
    OBVIOUS
  <2>3. l.pc \in {"DelCode", "Unlink"} /\ l.code = c
    BY <1>0, <2>1, <2>2 DEF Local
  <2>4. h' = [h EXCEPT ![p] = l]
    BY <1>0, <1>3, <2>1, <2>2 DEF DeleteCodeGet, Goto, TypeOK, Local
  <2>5. InOrder(l)'
    BY <1>3, <2>1, <2>3 DEF DeleteCodeGet, InOrder, Issued, history
  <2>6. QED
    BY <1>3, <2>4, <2>5, LinkLocal DEF DeleteCodeGet, redis, history
<1>4. CASE Unlink(p)
  <2>1. PICK c \in Code : c = h[p].code /\ Issued(c)
    BY <1>0, <1>4 DEF Unlink, At, Ready, NeedsCode, InOrder, OnIssued
  <2>2. PICK l : l = [h[p] EXCEPT !.pc = "DelCode"]
    OBVIOUS
  <2>3. l.pc = "DelCode" /\ l.code = c /\ h' = [h EXCEPT ![p] = l]
    BY <1>0, <1>4, <2>1, <2>2 DEF Unlink, Goto, Local
  <2>4. InOrder(l)'
    BY <1>4, <2>1, <2>3 DEF Unlink, InOrder, Issued, history
  <2>5. \A r \in Request : link'[r] \in {link[r], None}
    BY <1>4 DEF Unlink, TypeOK
  <2>6. QED
    BY <1>4, <2>3, <2>4, <2>5, LinkFrame DEF Unlink, history
<1>5. CASE DelCode(p)
  <2>1. PICK c \in Code : c = h[p].code /\ Issued(c)
    BY <1>0, <1>5 DEF DelCode, At, Ready, NeedsCode, InOrder, OnIssued
  <2>2. PICK l : l = [h[p] EXCEPT !.pc = "SremCode"]
    OBVIOUS
  <2>3. l.pc = "SremCode" /\ l.code = c /\ h' = [h EXCEPT ![p] = l]
    BY <1>0, <1>5, <2>1, <2>2 DEF DelCode, Goto, Local
  <2>4. Issued(c)' /\ codes'[c] = None
    BY <1>5, <2>1 DEF DelCode, TypeOK, Issued, history
  <2>5. InOrder(l)'
    BY <2>3, <2>4 DEF InOrder, Issued, Ended, Phase
  <2>6. QED
    BY <1>5, <2>3, <2>5, LinkLocal DEF DelCode, history
<1>6. CASE SremCode(p)
  <2>1. Ended(h[p].code)
    BY <1>0, <1>6 DEF SremCode, At, InOrder
  <2>2. InOrder(Idle)'
    BY DEF InOrder, Idle, OnIssued
  <2>3. QED
    BY <1>6, <2>1, <2>2, LinkFrame DEF SremCode, Return, history
<1>7. CASE ValidateGet(p)
  <2>1. [h[p] EXCEPT !.pc = "ValidateResolve", !.snap = codes[h[p].code]].pc = "ValidateResolve"
    BY <1>0 DEF Local
  <2>2. QED
    BY <1>7, <2>1, LinkLocal, LinkReturn DEF ValidateGet, Proceed, Return, OnIssued, redis, history
<1>8. CASE ValidateResolve(p)
  <2> DEFINE status == EffectiveCodeStatus(h[p].snap, clock)
  <2>1. [h[p] EXCEPT !.pc = "ValidateSave", !.snap.status = status].pc = "ValidateSave"
    BY <1>0 DEF Local
  <2> HIDE DEF status
  <2>2. Return(p) \/ h' = [h EXCEPT ![p] = [h[p] EXCEPT !.pc = "ValidateSave", !.snap.status = status]]
    BY <1>8 DEF ValidateResolve, Proceed, Return, status
  <2>3. QED
    BY <1>8, <2>1, <2>2, LinkLocal, LinkReturn DEF ValidateResolve, OnIssued, redis
<1>9. CASE ValidateSave(p)
  BY <1>9, LinkReturn DEF ValidateSave, history
<1>10. QED
  BY <1>1, <1>2, <1>3, <1>4, <1>5, <1>6, <1>7, <1>8, <1>9 DEF CodeSteps

LEMMA LinkListSteps ==
  ASSUME TypeOK, NoStaleRevival, LinkInv, [Next]_vars, NEW p \in Handler, ListSteps(p)
  PROVE  LinkInv'
<1>0. h[p] \in Local
  BY DEF TypeOK
<1>1. UNCHANGED <<codeIndex, link, known>>
  BY DEF ListSteps, StateList, MineList, MineLink, ListRead, ListSave, ListDone, redis, history
<1>2. PICK l : l = h'[p]
  OBVIOUS
<1>3. h' = [h EXCEPT ![p] = l] /\ l.pc \in {"State", "Mine", "idle"}
  <2> DEFINE Lists == h' = [h EXCEPT ![p] = l] /\ l.pc \in {"State", "Mine", "idle"}
  <2>1. CASE StateList(p)
    BY <1>0, <1>2, <2>1 DEF StateList, TypeOK, Local
  <2>2. CASE MineList(p)
    BY <1>0, <1>2, <2>2 DEF MineList, TypeOK, Local
  <2>3. ASSUME NEW r \in Request, MineLink(p, r) PROVE Lists
    BY <1>0, <1>2, <2>3 DEF MineLink, At, TypeOK, Local
  <2>4. ASSUME NEW c \in Code, ListRead(p, c) PROVE Lists
    BY <1>0, <1>2, <2>4 DEF ListRead, TypeOK, Local
  <2>5. ASSUME NEW rec \in h[p].saves, ListSave(p, rec) PROVE Lists
    BY <1>0, <1>2, <2>5 DEF ListSave, At, TypeOK, Local
  <2>6. CASE ListDone(p)
    BY <1>2, <2>6 DEF ListDone, Return, Idle, TypeOK
  <2>7. QED
    BY <2>1, <2>2, <2>3, <2>4, <2>5, <2>6 DEF ListSteps
<1>4. QED
  BY <1>1, <1>3, LinkLocal DEF OnIssued

LEMMA NextLinks == TypeOK /\ NoStaleRevival /\ LinkInv /\ [Next]_vars => LinkInv'
<1> SUFFICES ASSUME TypeOK, NoStaleRevival, LinkInv, [Next]_vars PROVE LinkInv'
  OBVIOUS
<1>1. ASSUME NEW p \in Handler,
             RequestCalls(p) \/ CodeCalls(p) \/ RequestSteps(p) \/ CodeSteps(p)
               \/ ListSteps(p)
      PROVE  LinkInv'
  BY <1>1, LinkCall, LinkRequestSteps, LinkCodeSteps, LinkListSteps
<1>2. ASSUME NEW p \in Handler, Abort(p) PROVE LinkInv'
  BY <1>2, LinkReturn DEF Abort, redis
<1>3. CASE Tick \/ UNCHANGED vars
  BY <1>3 DEF Tick, vars, redis, history, LinkInv, LinksAccounted, KnownIssued, HandlersInOrder,
     InOrder, Accounted, Issued, Ended, Phase
<1>4. QED
  BY <1>1, <1>2, <1>3 DEF Next

(* Whatever handlers overlap and die: a code that is linked and active is in   *)
(* the index from which the administrator can revoke it.                       *)
THEOREM UsableIsListed == Spec => []LinkedActiveCodeListed
<1>1. Init => LinkInv
  BY DEF Init, Idle, LinkInv, LinksAccounted, KnownIssued, HandlersInOrder, InOrder, OnIssued
<1>2. TypeOK /\ LinkInv => LinkedActiveCodeListed
  BY DEF TypeOK, LinkInv, LinksAccounted, Accounted, Ended, Phase, LinkedActiveCodeListed
<1>3. QED
  BY <1>1, <1>2, TypeCorrect, StaleWritesHarmless, NextLinks, PTL DEF Spec

-----------------------------------------------------------------------------
(* What the store inherits from CodeLifecycle. The facts are proved of the     *)
(* abstract specification, where a step has a handful of cases, and hold of    *)
(* the store because it implements it.                                         *)

(* Whoever holds a validation, or the grant, does so for a code that was issued. *)
LifecycleInv ==
  /\ \A p \in Handler : Admitted(p) # None =>
       Admitted(p) \in Code /\ Phase(Admitted(p)) # "unissued"
  /\ Lifecycle!GrantAsIssued

Expiry(c) == IF minted[c] = None THEN None ELSE minted[c].expiresAt

LEMMA LifecycleInvStep == LifecycleInv /\ [Lifecycle!Next]_(Lifecycle!vars) => LifecycleInv'
<1> DEFINE phase == [c \in Code |-> Phase(c)]
           expiry == [c \in Code |-> Expiry(c)]
           admitted == [p \in Handler |-> Admitted(p)]
<1> SUFFICES ASSUME LifecycleInv, [Lifecycle!Next]_(Lifecycle!vars) PROVE LifecycleInv'
  OBVIOUS
<1>1. /\ \A c \in Code : phase[c] = Phase(c) /\ phase'[c] = Phase(c)'
      /\ \A c \in Code : expiry[c] = Expiry(c) /\ expiry'[c] = Expiry(c)'
      /\ \A p \in Handler : admitted[p] = Admitted(p) /\ admitted'[p] = Admitted(p)'
  OBVIOUS
<1>2. /\ \A p \in Handler : admitted[p] # None =>
           admitted[p] \in Code /\ phase[admitted[p]] # "unissued"
      /\ grant # None =>
           /\ grant.code \in Code /\ phase[grant.code] # "unissued"
           /\ grant.expiresAt = expiry[grant.code] /\ grant.issuedAt <= grant.expiresAt
  BY <1>1 DEF LifecycleInv, Lifecycle!GrantAsIssued, Expiry
<1> DEFINE Goal == /\ \A p \in Handler : admitted'[p] # None =>
                        admitted'[p] \in Code /\ phase'[admitted'[p]] # "unissued"
                   /\ grant' # None =>
                        /\ grant'.code \in Code /\ phase'[grant'.code] # "unissued"
                        /\ grant'.expiresAt = expiry'[grant'.code]
                        /\ grant'.issuedAt <= grant'.expiresAt
<1>3. phase \in [Code -> {Phase(c) : c \in Code}] /\ DOMAIN expiry = Code /\ DOMAIN admitted = Handler
      /\ expiry = [c \in Code |-> expiry[c]] /\ admitted = [p \in Handler |-> admitted[p]]
  OBVIOUS
<1>4. \/ \E c \in Code : /\ phase[c] = "unissued"
                         /\ phase' = [phase EXCEPT ![c] = "live"]
                         /\ expiry' = [expiry EXCEPT ![c] = expiry'[c]]
                         /\ UNCHANGED <<admitted, grant>>
      \/ \E c \in Code : /\ phase' = [phase EXCEPT ![c] = "ended"]
                         /\ UNCHANGED <<expiry, admitted, grant>>
      \/ \E p \in Handler, c \in Code : /\ phase[c] = "live"
                                        /\ admitted' = [admitted EXCEPT ![p] = c]
                                        /\ UNCHANGED <<phase, expiry, grant>>
      \/ \E p \in Handler, c \in Code :
           /\ admitted[p] = c /\ clock <= expiry[c]
           /\ grant' = [code |-> c, issuedAt |-> clock, expiresAt |-> expiry[c]]
           /\ admitted' = [admitted EXCEPT ![p] = None]
           /\ UNCHANGED <<phase, expiry>>
      \/ \E p \in Handler : /\ admitted' = [admitted EXCEPT ![p] = None]
                            /\ UNCHANGED <<phase, expiry, grant>>
      \/ UNCHANGED <<phase, expiry, admitted, grant>>
  BY DEF Lifecycle!Next, Lifecycle!vars, Lifecycle!Issue, Lifecycle!End, Lifecycle!Admit,
     Lifecycle!Grant, Lifecycle!Drop, Lifecycle!Pass, Expiry
<1>5. Goal
  <2> HIDE DEF phase, expiry, admitted
  <2>1. ASSUME NEW c \in Code, phase[c] = "unissued", phase' = [phase EXCEPT ![c] = "live"],
               expiry' = [expiry EXCEPT ![c] = expiry'[c]], UNCHANGED <<admitted, grant>>
        PROVE  Goal
    BY <1>2, <1>3, <2>1
  <2>2. ASSUME NEW c \in Code, phase' = [phase EXCEPT ![c] = "ended"],
               UNCHANGED <<expiry, admitted, grant>>
        PROVE  Goal
    BY <1>2, <1>3, <2>2
  <2>3. ASSUME NEW p \in Handler, NEW c \in Code, phase[c] = "live",
               admitted' = [admitted EXCEPT ![p] = c], UNCHANGED <<phase, expiry, grant>>
        PROVE  Goal
    BY <1>2, <1>3, <2>3
  <2>4. ASSUME NEW p \in Handler, NEW c \in Code, admitted[p] = c, clock <= expiry[c],
               grant' = [code |-> c, issuedAt |-> clock, expiresAt |-> expiry[c]],
               admitted' = [admitted EXCEPT ![p] = None], UNCHANGED <<phase, expiry>>
        PROVE  Goal
    <3>1. c # None
      BY NoneAssumption
    <3>2. phase[c] # "unissued"
      BY <1>2, <2>4, <3>1
    <3>3. QED
      BY <1>2, <1>3, <2>4, <3>2
  <2>5. ASSUME NEW p \in Handler, admitted' = [admitted EXCEPT ![p] = None],
               UNCHANGED <<phase, expiry, grant>>
        PROVE  Goal
    BY <1>2, <1>3, <2>5
  <2>6. CASE UNCHANGED <<phase, expiry, admitted, grant>>
    BY <1>2, <2>6
  <2>7. QED
    BY <1>4, <2>1, <2>2, <2>3, <2>4, <2>5, <2>6
<1>6. QED
  BY <1>1, <1>5 DEF LifecycleInv, Lifecycle!GrantAsIssued, Expiry

(***************************************************************************)
(* Whatever handlers overlap and die: the grant a client holds is for a     *)
(* code that was approved, carries the expiry of that approval, and was     *)
(* signed no later.                                                         *)
(***************************************************************************)
THEOREM GrantsAreSound == Spec => []Lifecycle!GrantAsIssued
<1>1. Lifecycle!Init => LifecycleInv
  BY DEF Lifecycle!Init, LifecycleInv, Lifecycle!GrantAsIssued
<1>2. LifecycleInv => Lifecycle!GrantAsIssued
  BY DEF LifecycleInv
<1>3. QED
  BY <1>1, <1>2, LifecycleInvStep, StoreImplementsLifecycle, PTL
     DEF ImplementsLifecycle, Lifecycle!Spec

(* A step of CodeLifecycle leaves what has ended alone. *)
LEMMA EndedIsKept ==
  ASSUME [Lifecycle!Next]_(Lifecycle!vars), NEW c \in Code, Phase(c) = "ended"
  PROVE  /\ Phase(c)' = "ended"
         /\ \A p \in Handler : Admitted(p)' = c => Admitted(p) = c
         /\ grant' # grant /\ grant'.code = c => \E p \in Handler : Admitted(p) = c
<1> DEFINE phase == [d \in Code |-> Phase(d)]
           expiry == [d \in Code |-> Expiry(d)]
           admitted == [p \in Handler |-> Admitted(p)]
<1>1. /\ phase[c] = Phase(c) /\ phase'[c] = Phase(c)'
      /\ \A p \in Handler : admitted[p] = Admitted(p) /\ admitted'[p] = Admitted(p)'
  OBVIOUS
<1>2. DOMAIN phase = Code /\ DOMAIN admitted = Handler /\ phase[c] = "ended" /\ c # None
  BY NoneAssumption
<1>3. \/ \E d \in Code : /\ phase[d] = "unissued"
                         /\ phase' = [phase EXCEPT ![d] = "live"]
                         /\ UNCHANGED <<admitted, grant>>
      \/ \E d \in Code : /\ phase[d] = "live"
                         /\ phase' = [phase EXCEPT ![d] = "ended"]
                         /\ UNCHANGED <<admitted, grant>>
      \/ \E p \in Handler, d \in Code : /\ phase[d] = "live"
                                        /\ admitted' = [admitted EXCEPT ![p] = d]
                                        /\ UNCHANGED <<phase, grant>>
      \/ \E p \in Handler, d \in Code :
           /\ admitted[p] = d /\ UNCHANGED phase
           /\ grant' = [code |-> d, issuedAt |-> clock, expiresAt |-> expiry[d]]
           /\ admitted' = [admitted EXCEPT ![p] = None]
      \/ \E p \in Handler : /\ admitted' = [admitted EXCEPT ![p] = None]
                            /\ UNCHANGED <<phase, grant>>
      \/ UNCHANGED <<phase, admitted, grant>>
  BY DEF Lifecycle!Next, Lifecycle!vars, Lifecycle!Issue, Lifecycle!End, Lifecycle!Admit,
     Lifecycle!Grant, Lifecycle!Drop, Lifecycle!Pass, Expiry
<1>4. /\ phase'[c] = "ended"
      /\ \A p \in Handler : admitted'[p] = c => admitted[p] = c
      /\ grant' # grant /\ grant'.code = c => \E p \in Handler : admitted[p] = c
  <2> HIDE DEF phase, expiry, admitted
  <2>1. QED
    BY <1>2, <1>3
<1>5. QED
  BY <1>1, <1>4

(***************************************************************************)
(* A code that was revoked, expired or deleted is out of use for good: no   *)
(* stale write makes it live, no validation finds it live again, and a      *)
(* grant for it can only come from a validation already past that check.    *)
(***************************************************************************)
THEOREM EndedCodesStayOut == Spec => Lifecycle!EndIsFinal
<1>1. [Lifecycle!Next]_(Lifecycle!vars) => [Lifecycle!EndKept]_(Lifecycle!vars)
  <2>1. SUFFICES ASSUME [Lifecycle!Next]_(Lifecycle!vars) PROVE Lifecycle!EndKept
    OBVIOUS
  <2>2. ASSUME NEW c \in Code, Phase(c) = "ended"
        PROVE  /\ Phase(c)' = "ended"
               /\ \A p \in Handler : Admitted(p)' = c => Admitted(p) = c
               /\ grant' # grant /\ grant'.code = c => \E p \in Handler : Admitted(p) = c
    BY <2>1, <2>2, EndedIsKept
  <2>3. QED
    BY <2>2 DEF Lifecycle!EndKept
<1>2. QED
  BY <1>1, StoreImplementsLifecycle, PTL
     DEF ImplementsLifecycle, Lifecycle!Spec, Lifecycle!EndIsFinal
=============================================================================
