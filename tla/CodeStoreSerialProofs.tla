----------------------- MODULE CodeStoreSerialProofs -----------------------
(* What the order of the commands within each handler achieves, as long as    *)
(* handlers do not overlap: the serial properties of CodeStore, for any        *)
(* number of requests, codes and visitors, and wherever handlers die.          *)
EXTENDS CodeStoreProofs

Serial == \E p : Handler = {p}

IsLive(c) == codes[c] # None /\ codes[c].status = "active"
IsApproved(r) == requests[r] # None /\ requests[r].status = "approved"
CodeOf(c, r) == codes[c] # None /\ codes[c].req = r

(* A request whose id got out is listed while it is stored. *)
KnownListed == \A r \in Request : r \in known /\ requests[r] # None => r \in reqIndex

(* A request with a code does not wait for a decision any more. *)
Settled ==
  \A c \in Code : minted[c] # None =>
    LET r == minted[c].req IN r \in known /\ (requests[r] # None => requests[r].status # "pending")

Uncoded(r) == \A c \in Code : minted[c] # None => minted[c].req # r

(* What a handler holds is what the store still has. *)
Current(l) ==
  /\ l.pc \notin {"State", "Mine"} => l.saves = {}
  /\ \A rec \in l.saves : rec.status = "expired" /\ IsLive(rec.code)
  /\ l.pc = "CreateSet" =>
       requests[l.req] = None /\ l.req \notin known /\ l.snap.status = "pending"
  /\ l.pc = "CreateSadd" => requests[l.req] # None
  /\ l.pc \in Approving \cup {"ApproveGet", "ApproveSaddCode", "ApproveSetLink"} => l.req \in known
  /\ l.pc \in {"ApproveSetRequest", "DenySet"} =>
       requests[l.req] = l.snap /\ l.snap.status = "pending"
  /\ l.pc \in {"ApproveSetCode", "ApproveSaddCode", "ApproveSetLink"} =>
       IsApproved(l.req) /\ link[l.req] = None
  /\ l.pc = "ApproveSetCode" => Uncoded(l.req)
  /\ l.pc \in {"ApproveSaddCode", "ApproveSetLink", "Unlink"} => CodeOf(l.code, l.req)
  /\ l.pc = "ApproveSetLink" => l.code \in codeIndex
  /\ l.pc = "Cascade" => link[l.req] = l.code
  /\ l.pc \in {"CascadeSrem", "SremCode"} => codes[l.code] = None
  /\ l.pc \in {"CascadeSrem", "DelRequest"} => link[l.req] = None
  /\ l.pc = "SremRequest" => requests[l.req] = None
  /\ l.pc = "DelCode" => \A r \in Request : link[r] # l.code
  /\ l.pc \in {"RevokeSet", "ValidateResolve"} => codes[l.code] = l.snap
  /\ l.pc = "ValidateSave" => IsLive(l.code)

(* Until a handler dies, the store is exact but for what the handler is doing. *)
RequestsExact(l) ==
  \A r \in Request : \/ r \in reqIndex <=> requests[r] # None
                     \/ l.pc \in {"CreateSadd", "SremRequest"} /\ l.req = r
CodesExact(l) ==
  \A c \in Code : \/ c \in codeIndex <=> codes[c] # None
                  \/ l.pc \in {"ApproveSaddCode", "CascadeSrem", "SremCode"} /\ l.code = c
CodesLinked(l) ==
  \A c \in Code : codes[c] # None =>
    \/ link[codes[c].req] = c
    \/ l.pc \in {"ApproveSaddCode", "ApproveSetLink", "DelCode"} /\ l.code = c
Exact(l) == RequestsExact(l) /\ CodesExact(l) /\ CodesLinked(l)

InStep(l) == Current(l) /\ (aborts = 0 => Exact(l))

SerialInv ==
  LinksSound /\ KnownListed /\ Settled /\ OneCodePerRequest /\ \A p \in Handler : InStep(h[p])

-----------------------------------------------------------------------------
(* The records and the terms they were minted with *)
LEMMA RecordTerms ==
  ASSUME TypeOK, NoStaleRevival, NEW c \in Code, codes[c] # None
  PROVE  /\ codes[c] \in AccessCode /\ codes[c].code = c
         /\ minted[c] # None /\ minted[c].req = codes[c].req /\ codes[c].req \in Request
<1>1. AsMinted(codes[c], c)
  BY DEF NoStaleRevival, RecordsAsMinted
<1>2. QED
  BY <1>1, NoneAssumption DEF AsMinted, AccessCode, Approval

(* The frame: the one handler goes on with l. *)
LEMMA SerialFrame ==
  ASSUME Serial, TypeOK, NEW p \in Handler, NEW l, h' = [h EXCEPT ![p] = l],
         LinksSound', KnownListed', Settled', OneCodePerRequest',
         Current(l)', aborts' = 0 => Exact(l)'
  PROVE  SerialInv'
<1>1. \A q \in Handler : h'[q] = l
  BY DEF Serial, TypeOK
<1>2. \A q \in Handler : InStep(h[q])'
  BY <1>1 DEF InStep
<1>3. QED
  BY <1>2 DEF SerialInv

(* Steps after which the store is exact again, or different *)
Mending == {"CreateSadd", "SremRequest", "ApproveSaddCode", "CascadeSrem", "SremCode",
            "ApproveSetLink", "DelCode"}

(* A step that only reads *)
LEMMA SerialRead ==
  ASSUME Serial, TypeOK, SerialInv, NEW p \in Handler, NEW l, h' = [h EXCEPT ![p] = l],
         Current(l), h[p].pc \notin Mending, UNCHANGED <<redis, minted, known, aborts>>
  PROVE  SerialInv'
<1>1. Current(l)'
  BY DEF redis, Current, IsLive, IsApproved, CodeOf, Uncoded
<1>2. aborts' = 0 => Exact(l)'
  BY DEF SerialInv, InStep, Exact, RequestsExact, CodesExact, CodesLinked, Mending, redis
<1>3. LinksSound' /\ KnownListed' /\ Settled' /\ OneCodePerRequest'
  BY DEF SerialInv, LinksSound, KnownListed, Settled, OneCodePerRequest, redis
<1>4. QED
  BY <1>1, <1>2, <1>3, SerialFrame

LEMMA IdleCurrent == Current(Idle)
  BY DEF Idle, Current, Approving

(* A read after which the handler returns *)
LEMMA SerialReturn ==
  ASSUME Serial, TypeOK, SerialInv, NEW p \in Handler, Return(p),
         h[p].pc \notin Mending, UNCHANGED <<redis, minted, known, aborts>>
  PROVE  SerialInv'
  BY IdleCurrent, SerialRead DEF Return

LEMMA SerialCall ==
  ASSUME Serial, TypeOK, NoStaleRevival, SerialInv, NEW p \in Handler,
         RequestCalls(p) \/ CodeCalls(p)
  PROVE  SerialInv'
<1>1. ASSUME NEW l, Call(p, l), Current(l) PROVE SerialInv'
  <2>1. h[p].pc \notin Mending
    BY <1>1 DEF Call, Idle, Mending
  <2>2. h' = [h EXCEPT ![p] = l] /\ UNCHANGED <<redis, minted, known, aborts>>
    BY <1>1 DEF Call, history
  <2>3. QED
    BY <1>1, <2>1, <2>2, SerialRead
<1>2. ASSUME NEW r \in Request, NEW k \in Cookie, CallCreate(p, r, k) PROVE SerialInv'
  <2> DEFINE l == [Idle EXCEPT !.pc = "CreateSet", !.req = r,
                               !.snap = [cookie |-> k, status |-> "pending"]]
  <2>1. Call(p, l) /\ requests[r] = None /\ r \notin known
    BY <1>2 DEF CallCreate, FreshRequest
  <2>2. l.pc = "CreateSet" /\ l.req = r /\ l.snap.status = "pending" /\ l.saves = {}
    BY DEF Idle
  <2> HIDE DEF l
  <2>3. Current(l)
    BY <2>1, <2>2 DEF Current, Approving
  <2>4. QED
    BY <1>1, <2>1, <2>3
<1>3. ASSUME NEW r \in Request, NEW k \in Cookie, CallDeleteOwn(p, r, k) PROVE SerialInv'
  BY <1>1, <1>3 DEF CallDeleteOwn, Current, Idle, Approving
<1>4. ASSUME NEW r \in Request, NEW t \in Timeout, NEW c \in Code, CallApprove(p, r, t, c)
      PROVE  SerialInv'
  BY <1>1, <1>4 DEF CallApprove, Current, Idle, Approving
<1>5. ASSUME NEW r \in Request, CallDeny(p, r) \/ CallDeleteRequest(p, r) PROVE SerialInv'
  BY <1>1, <1>5 DEF CallDeny, CallDeleteRequest, Current, Idle, Approving
<1>6. ASSUME NEW c \in Code, CallRevoke(p, c) \/ CallDeleteCode(p, c) \/ CallValidate(p, c)
      PROVE  SerialInv'
  BY <1>1, <1>6 DEF CallRevoke, CallDeleteCode, CallValidate, Current, Idle, Approving
<1>7. CASE CallState(p)
  BY <1>1, <1>7 DEF CallState, Current, Idle, Approving
<1>8. ASSUME NEW k \in Cookie, CallMine(p, k) PROVE SerialInv'
  BY <1>1, <1>8 DEF CallMine, Current, Idle, Approving
<1>9. QED
  BY <1>2, <1>3, <1>4, <1>5, <1>6, <1>7, <1>8 DEF RequestCalls, CodeCalls

(* What a handler knows of its own step *)
LEMMA AtStep ==
  ASSUME TypeOK, NoStaleRevival, SerialInv, NEW p \in Handler
  PROVE  h[p] \in Local /\ Ready(h[p]) /\ Carries(h[p]) /\ InStep(h[p])
  BY DEF TypeOK, NoStaleRevival, SnapshotsAsMinted, SerialInv

LEMMA SerialCreateSet ==
  ASSUME Serial, TypeOK, NoStaleRevival, SerialInv, NEW p \in Handler, CreateSet(p)
  PROVE  SerialInv'
<1>1. PICK l, r : l = [h[p] EXCEPT !.pc = "CreateSadd"] /\ r = h[p].req
  OBVIOUS
<1>2. h[p].pc = "CreateSet" /\ r \in Request /\ h[p].snap \in AccessRequest
      /\ Current(h[p]) /\ (aborts = 0 => Exact(h[p])) /\ h[p] \in Local
  BY <1>1, AtStep DEF CreateSet, At, InStep, Ready, NeedsRequest
<1>3. requests[r] = None /\ r \notin known /\ h[p].saves = {}
  BY <1>1, <1>2 DEF Current
<1>4. l.pc = "CreateSadd" /\ l.req = r /\ l.saves = {} /\ h' = [h EXCEPT ![p] = l]
  BY <1>1, <1>2, <1>3 DEF CreateSet, Goto, Local
<1>5. /\ requests' = [requests EXCEPT ![r] = h[p].snap] /\ h[p].snap # None
      /\ UNCHANGED <<reqIndex, codes, codeIndex, link, minted, known, aborts>>
  BY <1>1, <1>2, NoneAssumption DEF CreateSet, history
<1>6. LinksSound'
  BY <1>2, <1>3, <1>5 DEF TypeOK, SerialInv, LinksSound
<1>7. KnownListed' /\ Settled' /\ OneCodePerRequest'
  BY <1>2, <1>3, <1>5 DEF TypeOK, SerialInv, KnownListed, Settled, OneCodePerRequest
<1>8. Current(l)'
  BY <1>2, <1>4, <1>5 DEF TypeOK, Current, Approving
<1>9. aborts' = 0 => Exact(l)'
  BY <1>2, <1>3, <1>4, <1>5 DEF TypeOK, Exact, RequestsExact, CodesExact, CodesLinked
<1>10. QED
  BY <1>4, <1>6, <1>7, <1>8, <1>9, SerialFrame

LEMMA SerialCreateSadd ==
  ASSUME Serial, TypeOK, NoStaleRevival, SerialInv, NEW p \in Handler, CreateSadd(p)
  PROVE  SerialInv'
<1>1. PICK r : r = h[p].req
  OBVIOUS
<1>2. h[p].pc = "CreateSadd" /\ r \in Request /\ requests[r] # None
      /\ (aborts = 0 => Exact(h[p]))
  BY <1>1, AtStep DEF CreateSadd, At, InStep, Ready, NeedsRequest, Current
<1>3. /\ reqIndex' = reqIndex \cup {r} /\ known' = known \cup {r} /\ h' = [h EXCEPT ![p] = Idle]
      /\ UNCHANGED <<requests, codes, codeIndex, link, minted, aborts>>
  BY <1>1 DEF CreateSadd, Return
<1>4. LinksSound' /\ KnownListed' /\ Settled' /\ OneCodePerRequest'
  BY <1>3 DEF SerialInv, LinksSound, KnownListed, Settled, OneCodePerRequest
<1>5. Current(Idle)'
  BY DEF Current, Idle, Approving
<1>6. aborts' = 0 => Exact(Idle)'
  BY <1>1, <1>2, <1>3 DEF Idle, Exact, RequestsExact, CodesExact, CodesLinked
<1>7. QED
  BY <1>3, <1>4, <1>5, <1>6, SerialFrame

LEMMA SerialApproveGet ==
  ASSUME Serial, TypeOK, NoStaleRevival, SerialInv, NEW p \in Handler, ApproveGet(p)
  PROVE  SerialInv'
<1> DEFINE request == requests[h[p].req]
           l == [h[p] EXCEPT !.pc = "ApproveSetRequest", !.snap = request]
<1>1. h[p].pc = "ApproveGet" /\ h[p] \in Local /\ Current(h[p]) /\ h[p].pc \notin Mending
  BY AtStep DEF ApproveGet, At, InStep, Mending
<1>2. l.pc = "ApproveSetRequest" /\ l.req = h[p].req /\ l.snap = request /\ l.saves = h[p].saves
  BY <1>1 DEF Local
<1>3. UNCHANGED <<redis, minted, known, aborts>>
  BY DEF ApproveGet, history
<1>4. CASE request # None /\ request.status = "pending"
  <2>1. h' = [h EXCEPT ![p] = l]
    BY <1>4 DEF ApproveGet, Proceed
  <2>2. Current(l)
    <3> HIDE DEF l
    <3>1. QED
      BY <1>1, <1>2, <1>4 DEF Current, Approving
  <2>3. QED
    BY <1>1, <1>3, <2>1, <2>2, SerialRead
<1>5. CASE ~(request # None /\ request.status = "pending")
  BY <1>1, <1>3, <1>5, SerialReturn DEF ApproveGet, Proceed, Return
<1>6. QED
  BY <1>4, <1>5

LEMMA SerialApproveSetRequest ==
  ASSUME Serial, TypeOK, NoStaleRevival, SerialInv, NEW p \in Handler, ApproveSetRequest(p)
  PROVE  SerialInv'
<1>1. PICK l, r : l = [h[p] EXCEPT !.pc = "ApproveSetCode"] /\ r = h[p].req
  OBVIOUS
<1> DEFINE new == [h[p].snap EXCEPT !.status = "approved"]
<1>2. h[p].pc = "ApproveSetRequest" /\ r \in Request /\ h[p].snap \in AccessRequest
      /\ Current(h[p]) /\ (aborts = 0 => Exact(h[p])) /\ h[p] \in Local
  BY <1>1, AtStep DEF ApproveSetRequest, At, InStep, Ready, NeedsRequest, Approving
<1>3. requests[r] # None /\ requests[r].status = "pending" /\ r \in known /\ h[p].saves = {}
  BY <1>1, <1>2, NoneAssumption DEF Current, Approving
<1>4. l.pc = "ApproveSetCode" /\ l.req = r /\ l.saves = {} /\ h' = [h EXCEPT ![p] = l]
  BY <1>1, <1>2, <1>3 DEF ApproveSetRequest, Goto, Local
<1>5. /\ requests' = [requests EXCEPT ![r] = new]
      /\ UNCHANGED <<reqIndex, codes, codeIndex, link, minted, known, aborts>>
  BY <1>1 DEF ApproveSetRequest, history
<1>6. new # None /\ new.status = "approved"
  BY <1>2, NoneAssumption DEF AccessRequest, RequestStatus
<1>7. link[r] = None /\ Uncoded(r)
  BY <1>2, <1>3 DEF SerialInv, LinksSound, Settled, Uncoded
<1> HIDE DEF new
<1>8. LinksSound'
  BY <1>2, <1>3, <1>5, <1>6 DEF TypeOK, SerialInv, LinksSound
<1>9. KnownListed' /\ Settled' /\ OneCodePerRequest'
  BY <1>2, <1>3, <1>5, <1>6 DEF TypeOK, SerialInv, KnownListed, Settled, OneCodePerRequest
<1>10. Current(l)'
  BY <1>2, <1>3, <1>4, <1>5, <1>6, <1>7 DEF TypeOK, Current, Approving, IsApproved, Uncoded
<1>11. aborts' = 0 => Exact(l)'
  BY <1>2, <1>3, <1>4, <1>5, <1>6 DEF TypeOK, Exact, RequestsExact, CodesExact, CodesLinked
<1>12. QED
  BY <1>4, <1>8, <1>9, <1>10, <1>11, SerialFrame

LEMMA SerialApproveSetCode ==
  ASSUME Serial, TypeOK, NoStaleRevival, SerialInv, NEW p \in Handler, ApproveSetCode(p)
  PROVE  SerialInv'
<1>1. PICK l, r, c : l = [h[p] EXCEPT !.pc = "ApproveSaddCode"] /\ r = h[p].req /\ c = h[p].code
  OBVIOUS
<1>2. PICK rec, app : /\ rec = [code |-> c, req |-> r, expiresAt |-> h[p].time, status |-> "active"]
                      /\ app = [req |-> r, expiresAt |-> h[p].time]
  OBVIOUS
<1>3. h[p].pc = "ApproveSetCode" /\ r \in Request /\ c \in Code
      /\ Current(h[p]) /\ (aborts = 0 => Exact(h[p])) /\ h[p] \in Local
  BY <1>1, AtStep DEF ApproveSetCode, At, InStep, Ready, NeedsRequest, NeedsCode, Approving
<1>4. minted[c] = None /\ codes[c] = None
  BY <1>1, <1>3, RecordTerms DEF NoStaleRevival, NewCodesUnseen, Approving
<1>5. IsApproved(r) /\ link[r] = None /\ Uncoded(r) /\ r \in known /\ h[p].saves = {}
  BY <1>1, <1>3 DEF Current, Approving
<1>6. l.pc = "ApproveSaddCode" /\ l.req = r /\ l.code = c /\ l.saves = {}
      /\ h' = [h EXCEPT ![p] = l]
  BY <1>1, <1>3, <1>5 DEF ApproveSetCode, Goto, Local
<1>7. /\ codes' = [codes EXCEPT ![c] = rec] /\ minted' = [minted EXCEPT ![c] = app]
      /\ UNCHANGED <<requests, reqIndex, codeIndex, link, known, aborts>>
  BY <1>1, <1>2 DEF ApproveSetCode
<1>8. rec \in AccessCode /\ app \in Approval /\ rec.req = r /\ app.req = r
  BY <1>1, <1>2, <1>3 DEF AccessCode, Approval, CodeStatus, Local
<1>9. rec # None /\ app # None
  BY <1>8, NoneAssumption
<1>10. LinksSound'
  BY <1>3, <1>4, <1>7 DEF TypeOK, SerialInv, LinksSound
<1>11. KnownListed' /\ Settled' /\ OneCodePerRequest'
  <2>1. KnownListed'
    BY <1>7 DEF SerialInv, KnownListed
  <2>2. Settled'
    BY <1>3, <1>5, <1>7, <1>8 DEF TypeOK, SerialInv, Settled, IsApproved
  <2>3. OneCodePerRequest'
    BY <1>3, <1>5, <1>7, <1>8 DEF TypeOK, SerialInv, OneCodePerRequest, Uncoded
  <2>4. QED
    BY <2>1, <2>2, <2>3
<1>12. Current(l)'
  BY <1>3, <1>5, <1>6, <1>7, <1>8, <1>9 DEF TypeOK, Current, Approving, IsApproved, CodeOf
<1>13. aborts' = 0 => Exact(l)'
  BY <1>3, <1>4, <1>6, <1>7, <1>8, <1>9
     DEF TypeOK, Exact, RequestsExact, CodesExact, CodesLinked
<1>14. QED
  BY <1>6, <1>10, <1>11, <1>12, <1>13, SerialFrame

LEMMA SerialApproveSaddCode ==
  ASSUME Serial, TypeOK, NoStaleRevival, SerialInv, NEW p \in Handler, ApproveSaddCode(p)
  PROVE  SerialInv'
<1>1. PICK l, r, c : l = [h[p] EXCEPT !.pc = "ApproveSetLink"] /\ r = h[p].req /\ c = h[p].code
  OBVIOUS
<1>2. h[p].pc = "ApproveSaddCode" /\ r \in Request /\ c \in Code
      /\ Current(h[p]) /\ (aborts = 0 => Exact(h[p])) /\ h[p] \in Local
  BY <1>1, AtStep DEF ApproveSaddCode, At, InStep, Ready, NeedsRequest, NeedsCode
<1>3. IsApproved(r) /\ link[r] = None /\ CodeOf(c, r) /\ r \in known /\ h[p].saves = {}
  BY <1>1, <1>2 DEF Current
<1>4. l.pc = "ApproveSetLink" /\ l.req = r /\ l.code = c /\ l.saves = {}
      /\ h' = [h EXCEPT ![p] = l]
  BY <1>1, <1>2, <1>3 DEF ApproveSaddCode, Goto, Local
<1>5. /\ codeIndex' = codeIndex \cup {c} /\ known' = known \cup {c} /\ c \notin Request
      /\ UNCHANGED <<requests, reqIndex, codes, link, minted, aborts>>
  BY <1>1, <1>2, IdAssumption DEF ApproveSaddCode
<1>6. LinksSound' /\ KnownListed' /\ Settled' /\ OneCodePerRequest'
  BY <1>5 DEF SerialInv, LinksSound, KnownListed, Settled, OneCodePerRequest
<1>7. Current(l)'
  BY <1>3, <1>4, <1>5 DEF Current, Approving, IsApproved, CodeOf
<1>8. aborts' = 0 => Exact(l)'
  BY <1>1, <1>2, <1>3, <1>4, <1>5 DEF Exact, RequestsExact, CodesExact, CodesLinked, CodeOf
<1>9. QED
  BY <1>4, <1>6, <1>7, <1>8, SerialFrame

LEMMA SerialApproveSetLink ==
  ASSUME Serial, TypeOK, NoStaleRevival, SerialInv, NEW p \in Handler, ApproveSetLink(p)
  PROVE  SerialInv'
<1>1. PICK r, c : r = h[p].req /\ c = h[p].code
  OBVIOUS
<1>2. h[p].pc = "ApproveSetLink" /\ r \in Request /\ c \in Code
      /\ Current(h[p]) /\ (aborts = 0 => Exact(h[p]))
  BY <1>1, AtStep DEF ApproveSetLink, At, InStep, Ready, NeedsRequest, NeedsCode
<1>3. IsApproved(r) /\ link[r] = None /\ CodeOf(c, r) /\ r \in known /\ c \in codeIndex
  BY <1>1, <1>2 DEF Current
<1>4. /\ link' = [link EXCEPT ![r] = c] /\ h' = [h EXCEPT ![p] = Idle]
      /\ UNCHANGED <<requests, reqIndex, codes, codeIndex, minted, known, aborts>>
  BY <1>1 DEF ApproveSetLink, Return, history
<1>5. r \in reqIndex
  BY <1>2, <1>3 DEF SerialInv, KnownListed, IsApproved
<1>6. LinksSound'
  BY <1>2, <1>3, <1>4, <1>5 DEF TypeOK, SerialInv, LinksSound, IsApproved, CodeOf
<1>7. KnownListed' /\ Settled' /\ OneCodePerRequest'
  BY <1>4 DEF SerialInv, KnownListed, Settled, OneCodePerRequest
<1>8. Current(Idle)'
  BY DEF Current, Idle, Approving
<1>9. aborts' = 0 => Exact(Idle)'
  <2>1. SUFFICES ASSUME aborts = 0 PROVE Exact(Idle)'
    BY <1>4
  <2>2. RequestsExact(Idle)' /\ CodesExact(Idle)'
    BY <1>2, <1>4, <2>1 DEF Idle, Exact, RequestsExact, CodesExact
  <2>3. \A d \in Code : codes[d] # None => link'[codes[d].req] = d
    <3>1. ASSUME NEW d \in Code, codes[d] # None PROVE link'[codes[d].req] = d
      <4>1. CASE d = c
        BY <1>2, <1>3, <1>4, <4>1 DEF CodeOf, TypeOK
      <4>2. CASE d # c
        <5>1. link[codes[d].req] = d
          BY <1>1, <1>2, <2>1, <3>1, <4>2 DEF Exact, CodesLinked
        <5>2. codes[d].req # r
          BY <1>2, <1>3, <4>2, <3>1, <5>1, NoneAssumption
        <5>3. QED
          BY <1>4, <5>1, <5>2, <3>1, RecordTerms DEF TypeOK
      <4>3. QED
        BY <4>1, <4>2
    <3>2. QED
      BY <3>1
  <2>4. CodesLinked(Idle)'
    BY <1>4, <2>3 DEF CodesLinked
  <2>5. QED
    BY <2>2, <2>4 DEF Exact
<1>10. QED
  BY <1>4, <1>6, <1>7, <1>8, <1>9, SerialFrame

LEMMA SerialDenySet ==
  ASSUME Serial, TypeOK, NoStaleRevival, SerialInv, NEW p \in Handler, DenySet(p)
  PROVE  SerialInv'
<1>1. PICK r, new : r = h[p].req /\ new = [h[p].snap EXCEPT !.status = "denied"]
  OBVIOUS
<1>2. h[p].pc = "DenySet" /\ r \in Request /\ h[p].snap \in AccessRequest
      /\ Current(h[p]) /\ (aborts = 0 => Exact(h[p]))
  BY <1>1, AtStep DEF DenySet, At, InStep, Ready, NeedsRequest
<1>3. requests[r] # None /\ requests[r].status = "pending"
  BY <1>1, <1>2, NoneAssumption DEF Current
<1>4. /\ requests' = [requests EXCEPT ![r] = new] /\ h' = [h EXCEPT ![p] = Idle]
      /\ UNCHANGED <<reqIndex, codes, codeIndex, link, minted, known, aborts>>
  BY <1>1 DEF DenySet, Return, history
<1>5. new # None /\ new.status = "denied"
  BY <1>1, <1>2, NoneAssumption DEF AccessRequest, RequestStatus
<1>6. LinksSound'
  BY <1>2, <1>3, <1>4 DEF TypeOK, SerialInv, LinksSound
<1>7. KnownListed' /\ Settled' /\ OneCodePerRequest'
  BY <1>2, <1>3, <1>4, <1>5 DEF TypeOK, SerialInv, KnownListed, Settled, OneCodePerRequest
<1>8. Current(Idle)'
  BY DEF Current, Idle, Approving
<1>9. aborts' = 0 => Exact(Idle)'
  BY <1>2, <1>3, <1>4, <1>5 DEF TypeOK, Idle, Exact, RequestsExact, CodesExact, CodesLinked
<1>10. QED
  BY <1>4, <1>6, <1>7, <1>8, <1>9, SerialFrame

LEMMA SerialCascade ==
  ASSUME Serial, TypeOK, NoStaleRevival, SerialInv, NEW p \in Handler, Cascade(p)
  PROVE  SerialInv'
<1>1. PICK l, r, c : l = [h[p] EXCEPT !.pc = "CascadeSrem"] /\ r = h[p].req /\ c = h[p].code
  OBVIOUS
<1>2. h[p].pc = "Cascade" /\ r \in Request /\ c \in Code
      /\ Current(h[p]) /\ (aborts = 0 => Exact(h[p])) /\ h[p] \in Local
  BY <1>1, AtStep DEF Cascade, At, InStep, Ready, NeedsRequest, NeedsCode
<1>3. link[r] = c /\ h[p].saves = {} /\ c # None
  BY <1>1, <1>2, NoneAssumption DEF Current
<1>4. l.pc = "CascadeSrem" /\ l.req = r /\ l.code = c /\ l.saves = {}
      /\ h' = [h EXCEPT ![p] = l]
  BY <1>1, <1>2, <1>3 DEF Cascade, Goto, Local
<1>5. /\ codes' = [codes EXCEPT ![c] = None] /\ link' = [link EXCEPT ![r] = None]
      /\ UNCHANGED <<requests, reqIndex, codeIndex, minted, known, aborts>>
  BY <1>1 DEF Cascade, history
<1>6. codes[c] # None /\ codes[c].req = r
  BY <1>2, <1>3 DEF SerialInv, LinksSound
<1>7. LinksSound'
  BY <1>2, <1>5, <1>6 DEF TypeOK, SerialInv, LinksSound
<1>8. KnownListed' /\ Settled' /\ OneCodePerRequest'
  BY <1>5 DEF SerialInv, KnownListed, Settled, OneCodePerRequest
<1>9. Current(l)'
  BY <1>2, <1>4, <1>5 DEF TypeOK, Current, Approving
<1>10. aborts' = 0 => Exact(l)'
  BY <1>2, <1>3, <1>4, <1>5, RecordTerms
     DEF TypeOK, Exact, RequestsExact, CodesExact, CodesLinked
<1>11. QED
  BY <1>4, <1>7, <1>8, <1>9, <1>10, SerialFrame

LEMMA SerialCascadeSrem ==
  ASSUME Serial, TypeOK, NoStaleRevival, SerialInv, NEW p \in Handler, CascadeSrem(p)
  PROVE  SerialInv'
<1>1. PICK l, r, c : l = [h[p] EXCEPT !.pc = "DelRequest"] /\ r = h[p].req /\ c = h[p].code
  OBVIOUS
<1>2. h[p].pc = "CascadeSrem" /\ r \in Request /\ c \in Code
      /\ Current(h[p]) /\ (aborts = 0 => Exact(h[p])) /\ h[p] \in Local
  BY <1>1, AtStep DEF CascadeSrem, At, InStep, Ready, NeedsRequest, NeedsCode
<1>3. codes[c] = None /\ link[r] = None /\ h[p].saves = {}
  BY <1>1, <1>2 DEF Current
<1>4. l.pc = "DelRequest" /\ l.req = r /\ l.saves = {} /\ h' = [h EXCEPT ![p] = l]
  BY <1>1, <1>2, <1>3 DEF CascadeSrem, Goto, Local
<1>5. /\ codeIndex' = codeIndex \ {c}
      /\ UNCHANGED <<requests, reqIndex, codes, link, minted, known, aborts>>
  BY <1>1 DEF CascadeSrem, history
<1>6. LinksSound'
  BY <1>3, <1>5 DEF SerialInv, LinksSound
<1>7. KnownListed' /\ Settled' /\ OneCodePerRequest'
  BY <1>5 DEF SerialInv, KnownListed, Settled, OneCodePerRequest
<1>8. Current(l)'
  BY <1>3, <1>4, <1>5 DEF Current, Approving
<1>9. aborts' = 0 => Exact(l)'
  BY <1>1, <1>2, <1>3, <1>4, <1>5 DEF Exact, RequestsExact, CodesExact, CodesLinked
<1>10. QED
  BY <1>4, <1>6, <1>7, <1>8, <1>9, SerialFrame

LEMMA SerialDelRequest ==
  ASSUME Serial, TypeOK, NoStaleRevival, SerialInv, NEW p \in Handler, DelRequest(p)
  PROVE  SerialInv'
<1>1. PICK l, r : l = [h[p] EXCEPT !.pc = "SremRequest"] /\ r = h[p].req
  OBVIOUS
<1>2. h[p].pc = "DelRequest" /\ r \in Request
      /\ Current(h[p]) /\ (aborts = 0 => Exact(h[p])) /\ h[p] \in Local
  BY <1>1, AtStep DEF DelRequest, At, InStep, Ready, NeedsRequest
<1>3. link[r] = None /\ h[p].saves = {}
  BY <1>1, <1>2 DEF Current
<1>4. l.pc = "SremRequest" /\ l.req = r /\ l.saves = {} /\ h' = [h EXCEPT ![p] = l]
  BY <1>1, <1>2, <1>3 DEF DelRequest, Goto, Local
<1>5. /\ requests' = [requests EXCEPT ![r] = None]
      /\ UNCHANGED <<reqIndex, codes, codeIndex, link, minted, known, aborts>>
  BY <1>1 DEF DelRequest, history
<1>6. LinksSound'
  BY <1>2, <1>3, <1>5 DEF TypeOK, SerialInv, LinksSound
<1>7. KnownListed' /\ Settled' /\ OneCodePerRequest'
  BY <1>2, <1>5 DEF TypeOK, SerialInv, KnownListed, Settled, OneCodePerRequest
<1>8. Current(l)'
  BY <1>2, <1>4, <1>5 DEF TypeOK, Current, Approving
<1>9. aborts' = 0 => Exact(l)'
  BY <1>2, <1>4, <1>5 DEF TypeOK, Exact, RequestsExact, CodesExact, CodesLinked
<1>10. QED
  BY <1>4, <1>6, <1>7, <1>8, <1>9, SerialFrame

LEMMA SerialSremRequest ==
  ASSUME Serial, TypeOK, NoStaleRevival, SerialInv, NEW p \in Handler, SremRequest(p)
  PROVE  SerialInv'
<1>1. PICK r : r = h[p].req
  OBVIOUS
<1>2. h[p].pc = "SremRequest" /\ r \in Request /\ requests[r] = None
      /\ (aborts = 0 => Exact(h[p]))
  BY <1>1, AtStep DEF SremRequest, At, InStep, Ready, NeedsRequest, Current
<1>3. /\ reqIndex' = reqIndex \ {r} /\ h' = [h EXCEPT ![p] = Idle]
      /\ UNCHANGED <<requests, codes, codeIndex, link, minted, known, aborts>>
  BY <1>1 DEF SremRequest, Return, history
<1>4. LinksSound' /\ KnownListed' /\ Settled' /\ OneCodePerRequest'
  BY <1>2, <1>3 DEF SerialInv, LinksSound, KnownListed, Settled, OneCodePerRequest
<1>5. Current(Idle)'
  BY DEF Current, Idle, Approving
<1>6. aborts' = 0 => Exact(Idle)'
  BY <1>1, <1>2, <1>3 DEF Idle, Exact, RequestsExact, CodesExact, CodesLinked
<1>7. QED
  BY <1>3, <1>4, <1>5, <1>6, SerialFrame

LEMMA SerialUnlink ==
  ASSUME Serial, TypeOK, NoStaleRevival, SerialInv, NEW p \in Handler, Unlink(p)
  PROVE  SerialInv'
<1>1. PICK l, r, c : l = [h[p] EXCEPT !.pc = "DelCode"] /\ r = h[p].req /\ c = h[p].code
  OBVIOUS
<1>2. h[p].pc = "Unlink" /\ r \in Request /\ c \in Code
      /\ Current(h[p]) /\ (aborts = 0 => Exact(h[p])) /\ h[p] \in Local
  BY <1>1, AtStep DEF Unlink, At, InStep, Ready, NeedsRequest, NeedsCode
<1>3. CodeOf(c, r) /\ h[p].saves = {}
  BY <1>1, <1>2 DEF Current
<1>4. l.pc = "DelCode" /\ l.req = r /\ l.code = c /\ l.saves = {} /\ h' = [h EXCEPT ![p] = l]
  BY <1>1, <1>2, <1>3 DEF Unlink, Goto, Local
<1>5. /\ link' = [link EXCEPT ![r] = None]
      /\ UNCHANGED <<requests, reqIndex, codes, codeIndex, minted, known, aborts>>
  BY <1>1 DEF Unlink, history
<1>6. LinksSound'
  BY <1>2, <1>5 DEF TypeOK, SerialInv, LinksSound
<1>7. KnownListed' /\ Settled' /\ OneCodePerRequest'
  BY <1>5 DEF SerialInv, KnownListed, Settled, OneCodePerRequest
<1>8. \A r2 \in Request : link'[r2] # c
  BY <1>2, <1>3, <1>5, NoneAssumption DEF TypeOK, SerialInv, LinksSound, CodeOf
<1>9. Current(l)'
  BY <1>4, <1>8 DEF Current, Approving
<1>10. aborts' = 0 => Exact(l)'
  <2>1. ASSUME NEW d \in Code, codes[d] # None, d # c PROVE codes[d].req # r
    BY <1>2, <1>3, <2>1, RecordTerms DEF SerialInv, OneCodePerRequest, CodeOf
  <2>2. QED
    BY <1>2, <1>4, <1>5, <2>1, RecordTerms
       DEF TypeOK, Exact, RequestsExact, CodesExact, CodesLinked
<1>11. QED
  BY <1>4, <1>6, <1>7, <1>9, <1>10, SerialFrame

LEMMA SerialDelCode ==
  ASSUME Serial, TypeOK, NoStaleRevival, SerialInv, NEW p \in Handler, DelCode(p)
  PROVE  SerialInv'
<1>1. PICK l, c : l = [h[p] EXCEPT !.pc = "SremCode"] /\ c = h[p].code
  OBVIOUS
<1>2. h[p].pc = "DelCode" /\ c \in Code
      /\ Current(h[p]) /\ (aborts = 0 => Exact(h[p])) /\ h[p] \in Local
  BY <1>1, AtStep DEF DelCode, At, InStep, Ready, NeedsCode
<1>3. (\A r \in Request : link[r] # c) /\ h[p].saves = {}
  BY <1>1, <1>2 DEF Current
<1>4. l.pc = "SremCode" /\ l.code = c /\ l.saves = {} /\ h' = [h EXCEPT ![p] = l]
  BY <1>1, <1>2, <1>3 DEF DelCode, Goto, Local
<1>5. /\ codes' = [codes EXCEPT ![c] = None]
      /\ UNCHANGED <<requests, reqIndex, codeIndex, link, minted, known, aborts>>
  BY <1>1 DEF DelCode, history
<1>6. LinksSound'
  BY <1>2, <1>3, <1>5 DEF TypeOK, SerialInv, LinksSound
<1>7. KnownListed' /\ Settled' /\ OneCodePerRequest'
  BY <1>5 DEF SerialInv, KnownListed, Settled, OneCodePerRequest
<1>8. Current(l)'
  BY <1>2, <1>4, <1>5 DEF TypeOK, Current, Approving
<1>9. aborts' = 0 => Exact(l)'
  BY <1>1, <1>2, <1>4, <1>5 DEF TypeOK, Exact, RequestsExact, CodesExact, CodesLinked
<1>10. QED
  BY <1>4, <1>6, <1>7, <1>8, <1>9, SerialFrame

LEMMA SerialSremCode ==
  ASSUME Serial, TypeOK, NoStaleRevival, SerialInv, NEW p \in Handler, SremCode(p)
  PROVE  SerialInv'
<1>1. PICK c : c = h[p].code
  OBVIOUS
<1>2. h[p].pc = "SremCode" /\ c \in Code /\ codes[c] = None /\ (aborts = 0 => Exact(h[p]))
  BY <1>1, AtStep DEF SremCode, At, InStep, Ready, NeedsCode, Current
<1>3. /\ codeIndex' = codeIndex \ {c} /\ h' = [h EXCEPT ![p] = Idle]
      /\ UNCHANGED <<requests, reqIndex, codes, link, minted, known, aborts>>
  BY <1>1 DEF SremCode, Return, history
<1>4. LinksSound' /\ KnownListed' /\ Settled' /\ OneCodePerRequest'
  BY <1>2, <1>3 DEF SerialInv, LinksSound, KnownListed, Settled, OneCodePerRequest
<1>5. Current(Idle)'
  BY DEF Current, Idle, Approving
<1>6. aborts' = 0 => Exact(Idle)'
  BY <1>1, <1>2, <1>3 DEF Idle, Exact, RequestsExact, CodesExact, CodesLinked
<1>7. QED
  BY <1>3, <1>4, <1>5, <1>6, SerialFrame

(* A write that changes no more of a record than its status *)
LEMMA SerialRestate ==
  ASSUME Serial, TypeOK, NoStaleRevival, SerialInv, NEW p \in Handler, NEW l,
         h' = [h EXCEPT ![p] = l], Current(l)', h[p].pc \notin Mending,
         NEW c \in Code, NEW rec, codes[c] # None, AsMinted(rec, c),
         codes' = [codes EXCEPT ![c] = rec],
         UNCHANGED <<requests, reqIndex, codeIndex, link, minted, known, aborts>>
  PROVE  SerialInv'
<1>1. rec # None /\ rec.req = codes[c].req
  BY RecordTerms, NoneAssumption DEF AsMinted
<1>2. LinksSound'
  BY <1>1 DEF TypeOK, SerialInv, LinksSound
<1>3. KnownListed' /\ Settled' /\ OneCodePerRequest'
  BY DEF SerialInv, KnownListed, Settled, OneCodePerRequest
<1>4. aborts' = 0 => Exact(l)'
  BY <1>1, RecordTerms
     DEF TypeOK, SerialInv, InStep, Exact, RequestsExact, CodesExact, CodesLinked, Mending
<1>5. QED
  BY <1>2, <1>3, <1>4, SerialFrame

LEMMA SerialRevokeSet ==
  ASSUME Serial, TypeOK, NoStaleRevival, SerialInv, NEW p \in Handler, RevokeSet(p)
  PROVE  SerialInv'
<1>1. PICK c, rec : c = h[p].code /\ rec = [h[p].snap EXCEPT !.status = "revoked"]
  OBVIOUS
<1>2. h[p].pc = "RevokeSet" /\ c \in Code /\ AsMinted(h[p].snap, c) /\ codes[c] = h[p].snap
  BY <1>1, AtStep DEF RevokeSet, At, InStep, Ready, NeedsCode, Carries, Current
<1>3. codes[c] # None /\ AsMinted(rec, c)
  BY <1>1, <1>2, NoneAssumption DEF AsMinted, AccessCode, CodeStatus
<1>4. /\ codes' = [codes EXCEPT ![c] = rec] /\ h' = [h EXCEPT ![p] = Idle]
      /\ UNCHANGED <<requests, reqIndex, codeIndex, link, minted, known, aborts>>
  BY <1>1 DEF RevokeSet, Return, history
<1>5. Current(Idle)'
  BY DEF Current, Idle, Approving
<1>6. h[p].pc \notin Mending
  BY <1>2 DEF Mending
<1>7. QED
  BY <1>2, <1>3, <1>4, <1>5, <1>6, SerialRestate

LEMMA SerialValidateSave ==
  ASSUME Serial, TypeOK, NoStaleRevival, SerialInv, NEW p \in Handler, ValidateSave(p)
  PROVE  SerialInv'
<1>1. PICK c : c = h[p].code
  OBVIOUS
<1>2. h[p].pc = "ValidateSave" /\ c \in Code /\ AsMinted(h[p].snap, c) /\ codes[c] # None
  BY <1>1, AtStep DEF ValidateSave, At, InStep, Ready, NeedsCode, Carries, Current, IsLive
<1>3. /\ codes' = [codes EXCEPT ![c] = h[p].snap] /\ h' = [h EXCEPT ![p] = Idle]
      /\ UNCHANGED <<requests, reqIndex, codeIndex, link, minted, known, aborts>>
  BY <1>1 DEF ValidateSave, Return, history
<1>4. Current(Idle)'
  BY DEF Current, Idle, Approving
<1>5. h[p].pc \notin Mending
  BY <1>2 DEF Mending
<1>6. QED
  BY <1>2, <1>3, <1>4, <1>5, SerialRestate

LEMMA SerialListSave ==
  ASSUME Serial, TypeOK, NoStaleRevival, SerialInv, NEW p \in Handler,
         NEW rec \in h[p].saves, ListSave(p, rec)
  PROVE  SerialInv'
<1>1. PICK l, c : l = [h[p] EXCEPT !.saves = h[p].saves \ {rec}] /\ c = rec.code
  OBVIOUS
<1>2. h[p].pc \in {"State", "Mine"} /\ h[p] \in Local /\ Current(h[p]) /\ Carries(h[p])
  BY AtStep DEF ListSave, At, InStep
<1>3. AsMinted(rec, c) /\ rec.status = "expired" /\ c \in Code /\ codes[c] # None
  BY <1>1, <1>2 DEF Carries, Current, IsLive, AsMinted, AccessCode
<1>4. /\ codes' = [codes EXCEPT ![c] = rec] /\ h' = [h EXCEPT ![p] = l]
      /\ UNCHANGED <<requests, reqIndex, codeIndex, link, minted, known, aborts>>
  BY <1>1, <1>2 DEF ListSave, history, TypeOK, Local
<1>5. l.pc = h[p].pc /\ l.saves = h[p].saves \ {rec}
  BY <1>1, <1>2 DEF Local
<1>6. ASSUME NEW s \in l.saves PROVE s.status = "expired" /\ IsLive(s.code)'
  <2>1. s.status = "expired" /\ IsLive(s.code) /\ AsMinted(s, s.code) /\ s # rec
    BY <1>2, <1>5 DEF Current, Carries
  <2>2. s.code # c
    <3>1. SUFFICES ASSUME s.code = c PROVE FALSE
      OBVIOUS
    <3>2. [req |-> s.req, expiresAt |-> s.expiresAt] = [req |-> rec.req, expiresAt |-> rec.expiresAt]
      BY <1>3, <2>1, <3>1 DEF AsMinted
    <3>3. s.req = rec.req /\ s.expiresAt = rec.expiresAt /\ s.status = rec.status /\ s.code = rec.code
      BY <1>1, <1>3, <2>1, <3>1, <3>2
    <3>4. s = rec
      BY <1>3, <2>1, <3>3 DEF AsMinted, AccessCode
    <3>5. QED
      BY <2>1, <3>4
  <2>3. QED
    BY <1>4, <2>1, <2>2 DEF IsLive, TypeOK, AsMinted, AccessCode
<1>7. Current(l)'
  BY <1>2, <1>5, <1>6 DEF Current, Approving
<1>8. h[p].pc \notin Mending
  BY <1>2 DEF Mending
<1>9. QED
  BY <1>3, <1>4, <1>7, <1>8, SerialRestate

-----------------------------------------------------------------------------
(* The reads *)
LEMMA SerialRequestReads ==
  ASSUME Serial, TypeOK, NoStaleRevival, SerialInv, NEW p \in Handler,
         DenyGet(p) \/ OwnGet(p) \/ DeleteGetLink(p)
  PROVE  SerialInv'
<1>1. h[p] \in Local /\ Current(h[p]) /\ Ready(h[p]) /\ h[p].pc \notin Mending /\ h[p].saves = {}
      /\ UNCHANGED <<redis, minted, known, aborts>>
  BY AtStep DEF DenyGet, OwnGet, DeleteGetLink, At, InStep, Mending, Current, history
<1>2. CASE DenyGet(p)
  <2> DEFINE request == requests[h[p].req]
             l == [h[p] EXCEPT !.pc = "DenySet", !.snap = request]
  <2>1. l.pc = "DenySet" /\ l.req = h[p].req /\ l.snap = request /\ l.saves = {}
    BY <1>1 DEF Local
  <2>2. CASE request # None /\ request.status = "pending"
    <3>1. h' = [h EXCEPT ![p] = l]
      BY <1>2, <2>2 DEF DenyGet, Proceed
    <3>2. Current(l)
      <4> HIDE DEF l
      <4>1. QED
        BY <2>1, <2>2 DEF Current, Approving
    <3>3. QED
      BY <1>1, <3>1, <3>2, SerialRead
  <2>3. CASE ~(request # None /\ request.status = "pending")
    BY <1>1, <1>2, <2>3, SerialReturn DEF DenyGet, Proceed, Return
  <2>4. QED
    BY <2>2, <2>3
<1>3. CASE OwnGet(p)
  <2>1. PICK l : l = [h[p] EXCEPT !.pc = "DeleteGetLink"]
    OBVIOUS
  <2>2. l.pc = "DeleteGetLink" /\ l.saves = {}
    BY <1>1, <2>1 DEF Local
  <2>3. Current(l)
    BY <2>2 DEF Current, Approving
  <2>4. h' \in {[h EXCEPT ![p] = l], [h EXCEPT ![p] = Idle]}
    BY <1>3, <2>1 DEF OwnGet, Proceed
  <2>5. QED
    BY <1>1, <2>3, <2>4, SerialRead, SerialReturn DEF Return
<1>4. CASE DeleteGetLink(p)
  <2>1. PICK r, c, step : /\ r = h[p].req /\ c = link[h[p].req]
                          /\ step = IF c = None THEN "DelRequest" ELSE "Cascade"
    BY Zenon
  <2>2. PICK l : l = [h[p] EXCEPT !.pc = step, !.code = c]
    OBVIOUS
  <2>3. l.pc = step /\ l.req = r /\ l.code = c /\ l.saves = {}
    BY <1>1, <2>1, <2>2 DEF Local
  <2>4. Current(l) /\ h' = [h EXCEPT ![p] = l]
    <3>1. Current(l)
      BY <2>1, <2>3 DEF Current, Approving
    <3>2. h' = [h EXCEPT ![p] = l]
      BY <1>1, <1>4, <2>1, <2>2 DEF DeleteGetLink, TypeOK, Local
    <3>3. QED
      BY <3>1, <3>2
  <2>5. QED
    BY <1>1, <2>4, SerialRead
<1>5. QED
  BY <1>2, <1>3, <1>4

LEMMA SerialCodeReads ==
  ASSUME Serial, TypeOK, NoStaleRevival, SerialInv, NEW p \in Handler,
         RevokeGet(p) \/ ValidateGet(p) \/ DeleteCodeGet(p)
  PROVE  SerialInv'
<1>1. h[p] \in Local /\ h[p].code \in Code /\ h[p].pc \notin Mending /\ h[p].saves = {}
      /\ UNCHANGED <<redis, minted, known, aborts>>
  BY AtStep DEF RevokeGet, ValidateGet, DeleteCodeGet, At, InStep, Mending, Current, Ready,
                NeedsCode, history
<1>2. CASE RevokeGet(p) \/ ValidateGet(p)
  <2>1. ASSUME NEW l, NEW step \in {"RevokeSet", "ValidateResolve"},
               l = [h[p] EXCEPT !.pc = step, !.snap = codes[h[p].code]],
               h' \in {[h EXCEPT ![p] = l], [h EXCEPT ![p] = Idle]}
        PROVE  SerialInv'
    <3>1. l.pc = step /\ l.code = h[p].code /\ l.snap = codes[h[p].code] /\ l.saves = {}
      BY <1>1, <2>1 DEF Local
    <3>2. Current(l)
      BY <3>1 DEF Current, Approving
    <3>3. QED
      BY <1>1, <2>1, <3>2, SerialRead, SerialReturn DEF Return
  <2>2. QED
    BY <1>2, <2>1 DEF RevokeGet, ValidateGet, Proceed
<1>3. CASE DeleteCodeGet(p)
  <2>1. PICK c, rec : c = h[p].code /\ rec = codes[c]
    OBVIOUS
  <2>2. CASE rec = None
    <3>1. PICK l : l = [h[p] EXCEPT !.pc = "DelCode"]
      OBVIOUS
    <3>2. l.pc = "DelCode" /\ l.code = c /\ l.saves = {}
      BY <1>1, <2>1, <3>1 DEF Local
    <3>3. \A r \in Request : link[r] # c
      BY <1>1, <2>1, <2>2, NoneAssumption DEF SerialInv, LinksSound
    <3>4. Current(l)
      BY <3>2, <3>3 DEF Current, Approving
    <3>5. h' = [h EXCEPT ![p] = l]
      BY <1>3, <2>1, <2>2, <3>1 DEF DeleteCodeGet, Goto
    <3>6. QED
      BY <1>1, <3>4, <3>5, SerialRead
  <2>3. CASE rec # None
    <3>1. PICK l : l = [h[p] EXCEPT !.pc = "Unlink", !.req = rec.req]
      OBVIOUS
    <3>2. l.pc = "Unlink" /\ l.code = c /\ l.req = rec.req /\ l.saves = {}
      BY <1>1, <2>1, <3>1 DEF Local
    <3>3. Current(l)
      BY <2>1, <2>3, <3>2 DEF Current, Approving, CodeOf
    <3>4. h' = [h EXCEPT ![p] = l]
      BY <1>1, <1>3, <2>1, <2>3, <3>1 DEF DeleteCodeGet, TypeOK, Local
    <3>5. QED
      BY <1>1, <3>3, <3>4, SerialRead
  <2>4. QED
    BY <2>2, <2>3
<1>4. QED
  BY <1>2, <1>3

LEMMA OnlyLiveExpires ==
  ASSUME NEW rec, NEW now, EffectiveCodeStatus(rec, now) # rec.status
  PROVE  rec.status = "active" /\ EffectiveCodeStatus(rec, now) = "expired"
  BY DEF EffectiveCodeStatus

LEMMA SerialValidateResolve ==
  ASSUME Serial, TypeOK, NoStaleRevival, SerialInv, NEW p \in Handler, ValidateResolve(p)
  PROVE  SerialInv'
<1>1. PICK rec, status : rec = h[p].snap /\ status = EffectiveCodeStatus(rec, clock)
  OBVIOUS
<1>2. h[p].pc = "ValidateResolve" /\ h[p] \in Local /\ h[p].saves = {} /\ rec \in AccessCode
      /\ codes[h[p].code] = rec
  BY <1>1, AtStep DEF ValidateResolve, At, InStep, Ready, Current
<1>3. h[p].pc \notin Mending /\ UNCHANGED <<redis, minted, known, aborts>>
  BY <1>2 DEF ValidateResolve, Mending
<1>4. CASE status # rec.status
  <2>1. PICK l : l = [h[p] EXCEPT !.pc = "ValidateSave", !.snap.status = status]
    OBVIOUS
  <2>2. l.pc = "ValidateSave" /\ l.code = h[p].code /\ l.saves = {}
    BY <1>2, <2>1 DEF Local
  <2>3. IsLive(h[p].code)
    BY <1>1, <1>2, <1>4, OnlyLiveExpires, NoneAssumption DEF IsLive
  <2>4. Current(l)
    BY <2>2, <2>3 DEF Current, Approving
  <2>5. h' = [h EXCEPT ![p] = l]
    BY <1>1, <1>4, <2>1 DEF ValidateResolve, Proceed
  <2>6. QED
    BY <1>3, <2>4, <2>5, SerialRead
<1>5. CASE status = rec.status
  BY <1>1, <1>3, <1>5, SerialReturn DEF ValidateResolve, Proceed, Return
<1>6. QED
  BY <1>4, <1>5

LEMMA SerialListReads ==
  ASSUME Serial, TypeOK, NoStaleRevival, SerialInv, NEW p \in Handler,
         \/ StateList(p) \/ MineList(p) \/ ListDone(p)
         \/ \E r \in Request : MineLink(p, r)
  PROVE  SerialInv'
<1>1. h[p] \in Local /\ Current(h[p]) /\ h[p].pc \notin Mending
      /\ UNCHANGED <<redis, minted, known, aborts>>
  BY AtStep DEF StateList, MineList, ListDone, MineLink, At, InStep, Mending, history
<1>2. CASE StateList(p)
  <2>1. PICK l : l = [h[p] EXCEPT !.pc = "State", !.reads = codeIndex]
    OBVIOUS
  <2>2. l.pc = "State" /\ l.saves = {} /\ h' = [h EXCEPT ![p] = l]
    BY <1>1, <1>2, <2>1 DEF StateList, At, Current, Local, TypeOK
  <2>3. Current(l)
    BY <2>2 DEF Current, Approving
  <2>4. QED
    BY <1>1, <2>2, <2>3, SerialRead
<1>3. CASE MineList(p)
  <2> DEFINE mine == {r \in reqIndex : requests[r] # None /\ requests[r].cookie = h[p].cookie}
  <2>1. PICK l : l = [h[p] EXCEPT !.pc = "Mine", !.links = mine]
    BY Zenon
  <2>2. l.pc = "Mine" /\ l.saves = {} /\ h' = [h EXCEPT ![p] = l]
    BY <1>1, <1>3, <2>1 DEF MineList, At, Current, Local, TypeOK
  <2>3. Current(l)
    BY <2>2 DEF Current, Approving
  <2>4. QED
    BY <1>1, <2>2, <2>3, SerialRead
<1>4. CASE ListDone(p)
  BY <1>1, <1>4, SerialReturn DEF ListDone
<1>5. ASSUME NEW r \in Request, MineLink(p, r) PROVE SerialInv'
  <2> DEFINE found == IF link[r] = None THEN h[p].reads ELSE h[p].reads \cup {link[r]}
             l == [h[p] EXCEPT !.links = @ \ {r}, !.reads = found]
  <2>1. h' = [h EXCEPT ![p] = l]
    BY <1>1, <1>5 DEF MineLink, Local
  <2>2. l.pc = "Mine" /\ h[p].pc = "Mine" /\ l.saves = h[p].saves
    BY <1>1, <1>5 DEF MineLink, At, Local
  <2> HIDE DEF l
  <2>3. Current(l)
    BY <1>1, <2>2 DEF Current, Approving
  <2>4. QED
    BY <1>1, <2>1, <2>3, SerialRead
<1>6. QED
  BY <1>2, <1>3, <1>4, <1>5

LEMMA SerialListRead ==
  ASSUME Serial, TypeOK, NoStaleRevival, SerialInv, NEW p \in Handler, NEW c \in Code,
         ListRead(p, c)
  PROVE  SerialInv'
<1> DEFINE rec == codes[c]
           stale == rec # None /\ EffectiveCodeStatus(rec, h[p].time) # rec.status
           saves == IF stale THEN h[p].saves \cup {[rec EXCEPT !.status = "expired"]}
                             ELSE h[p].saves
<1>1. PICK l : l = [h[p] EXCEPT !.reads = h[p].reads \ {c}, !.saves = saves]
  OBVIOUS
<1>2. h[p].pc \in {"State", "Mine"} /\ h[p] \in Local /\ Current(h[p])
  BY AtStep DEF ListRead, InStep
<1>3. h[p].pc \notin Mending /\ UNCHANGED <<redis, minted, known, aborts>>
  BY <1>2 DEF ListRead, Mending, history
<1>4. h' = [h EXCEPT ![p] = l]
  BY <1>1, <1>2 DEF ListRead, TypeOK, Local
<1>5. l.pc = h[p].pc /\ l.saves = saves
  BY <1>1, <1>2 DEF Local
<1>6. stale => /\ IsLive(c)
               /\ [rec EXCEPT !.status = "expired"].status = "expired"
               /\ [rec EXCEPT !.status = "expired"].code = c
  BY <1>1, OnlyLiveExpires, RecordTerms DEF IsLive, AccessCode
<1>7. \A s \in l.saves : s.status = "expired" /\ IsLive(s.code)
  BY <1>2, <1>5, <1>6 DEF Current
<1>8. Current(l)
  BY <1>2, <1>5, <1>7 DEF Current, Approving
<1>9. QED
  BY <1>3, <1>4, <1>8, SerialRead

-----------------------------------------------------------------------------
(* An invocation that dies takes its step with it. *)
LEMMA SerialAbort ==
  ASSUME Serial, TypeOK, SerialInv, NEW p \in Handler, Abort(p)
  PROVE  SerialInv'
<1>1. h' = [h EXCEPT ![p] = Idle] /\ UNCHANGED <<redis, minted, known>> /\ aborts' # 0
  BY DEF Abort, Return, TypeOK
<1>2. LinksSound' /\ KnownListed' /\ Settled' /\ OneCodePerRequest'
  BY <1>1 DEF SerialInv, LinksSound, KnownListed, Settled, OneCodePerRequest, redis
<1>3. Current(Idle)'
  BY DEF Current, Idle, Approving
<1>4. QED
  BY <1>1, <1>2, <1>3, SerialFrame

LEMMA SerialStill ==
  ASSUME SerialInv, UNCHANGED <<redis, h, minted, known, aborts>>
  PROVE  SerialInv'
  BY DEF redis, SerialInv, LinksSound, KnownListed, Settled, OneCodePerRequest, InStep, Current,
         IsLive, IsApproved, CodeOf, Uncoded, Exact, RequestsExact, CodesExact, CodesLinked

LEMMA InitSerial == Init => SerialInv
  BY DEF Init, SerialInv, LinksSound, KnownListed, Settled, OneCodePerRequest, InStep, Current,
         Idle, Approving, Exact, RequestsExact, CodesExact, CodesLinked

LEMMA NextSerial ==
  ASSUME Serial, TypeOK, NoStaleRevival, SerialInv, [Next]_vars
  PROVE  SerialInv'
<1>1. ASSUME NEW p \in Handler, RequestSteps(p) PROVE SerialInv'
  BY <1>1, SerialCreateSet, SerialCreateSadd, SerialApproveGet, SerialApproveSetRequest,
     SerialApproveSetCode, SerialApproveSaddCode, SerialApproveSetLink, SerialDenySet,
     SerialRequestReads, SerialCascade, SerialCascadeSrem, SerialDelRequest, SerialSremRequest
  DEF RequestSteps
<1>2. ASSUME NEW p \in Handler, CodeSteps(p) PROVE SerialInv'
  BY <1>2, SerialCodeReads, SerialRevokeSet, SerialUnlink, SerialDelCode, SerialSremCode,
     SerialValidateResolve, SerialValidateSave
  DEF CodeSteps
<1>3. ASSUME NEW p \in Handler, ListSteps(p) PROVE SerialInv'
  BY <1>3, SerialListReads, SerialListRead, SerialListSave DEF ListSteps
<1>4. CASE Tick \/ UNCHANGED vars
  BY <1>4, SerialStill DEF Tick, vars, history, redis
<1>5. QED
  BY <1>1, <1>2, <1>3, <1>4, SerialCall, SerialAbort DEF Next

LEMMA SerialInvariant == Serial => (Spec => []SerialInv)
<1>1. SUFFICES ASSUME Serial PROVE Spec => []SerialInv
  OBVIOUS
<1>2. Init => SerialInv
  BY InitSerial
<1>3. TypeOK /\ NoStaleRevival /\ SerialInv /\ [Next]_vars => SerialInv'
  BY <1>1, NextSerial
<1>4. QED
  BY <1>2, <1>3, TypeCorrect, StaleWritesHarmless, PTL DEF Spec

-----------------------------------------------------------------------------
(* LinksSound: without overlap, at every moment and wherever handlers died,   *)
(* a link leads from a listed, approved request to its own listed code: the   *)
(* order of the commands in createRequest, approveRequest, deleteRequest and  *)
(* deleteCode is right.                                                       *)
THEOREM LinksStaySound == Serial => (Spec => []LinksSound)
<1>1. SerialInv => LinksSound
  BY DEF SerialInv
<1>2. QED
  BY <1>1, SerialInvariant, PTL

(* StoreExact: without overlap and deaths, the indexes list exactly what is   *)
(* stored, and every stored code is linked from its request, between calls.   *)
THEOREM StoreIsExact == Serial => (Spec => []StoreExact)
<1>1. SUFFICES ASSUME Serial PROVE Spec => []StoreExact
  OBVIOUS
<1>2. SerialInv => StoreExact
  <2>1. SUFFICES ASSUME SerialInv, Quiet, aborts = 0
                 PROVE  RequestsExact(Idle) /\ CodesExact(Idle) /\ CodesLinked(Idle)
    BY DEF StoreExact, RequestsExact, CodesExact, CodesLinked, Idle
  <2>2. QED
    BY <1>1, <2>1 DEF Serial, Quiet, SerialInv, InStep, Exact
<1>3. QED
  BY <1>1, <1>2, SerialInvariant, PTL

(* OneCodePerRequest: without overlap, approving a request twice never mints  *)
(* two codes for it, even if the first approval died half way.                *)
THEOREM OneCodeEach == Serial => (Spec => []OneCodePerRequest)
<1>1. SerialInv => OneCodePerRequest
  BY DEF SerialInv
<1>2. QED
  BY <1>1, SerialInvariant, PTL

(* A call that begins has not issued a command yet. *)
LEMMA CallsLeaveRedis ==
  ASSUME NEW p, RequestCalls(p) \/ CodeCalls(p)
  PROVE  UNCHANGED redis
<1>1. ASSUME NEW l, Call(p, l) PROVE UNCHANGED redis
  BY <1>1 DEF Call
<1>2. CASE RequestCalls(p)
  <2>1. PICK l : Call(p, l)
    BY <1>2, Zenon DEF RequestCalls, CallCreate, CallDeleteOwn, CallApprove, CallDeny,
       CallDeleteRequest
  <2>2. QED
    BY <1>1, <2>1
<1>3. CASE CodeCalls(p)
  <2>1. PICK l : Call(p, l)
    BY <1>3, Zenon DEF CodeCalls, CallRevoke, CallDeleteCode, CallValidate, CallState, CallMine
  <2>2. QED
    BY <1>1, <2>1
<1>4. QED
  BY <1>2, <1>3

(* DeniedIsTerminal: without overlap, a denied request changes no more until  *)
(* it is deleted.                                                             *)
DeniedStays ==
  \A r \in Request : requests[r] # None /\ requests[r].status = "denied"
    => requests'[r] \in {requests[r], None}

LEMMA NextDenied ==
  ASSUME TypeOK, NoStaleRevival, SerialInv, [Next]_vars
  PROVE  DeniedStays
<1>1. ASSUME NEW p \in Handler, CreateSet(p) PROVE DeniedStays
  <2>1. requests[h[p].req] = None /\ h[p].req \in Request
    BY <1>1, AtStep DEF CreateSet, At, InStep, Current, Ready, NeedsRequest
  <2>2. QED
    BY <1>1, <2>1 DEF CreateSet, DeniedStays, TypeOK
<1>2. ASSUME NEW p \in Handler, ApproveSetRequest(p) \/ DenySet(p) PROVE DeniedStays
  <2>1. requests[h[p].req].status = "pending" /\ h[p].req \in Request
    BY <1>2, AtStep DEF ApproveSetRequest, DenySet, At, InStep, Current, Ready, NeedsRequest, Approving
  <2>2. QED
    BY <1>2, <2>1 DEF ApproveSetRequest, DenySet, DeniedStays, TypeOK
<1>3. ASSUME NEW p \in Handler, DelRequest(p) PROVE DeniedStays
  BY <1>3 DEF DelRequest, DeniedStays, TypeOK
<1>4. CASE UNCHANGED requests
  BY <1>4 DEF DeniedStays
<1>5. \/ UNCHANGED requests
      \/ \E p \in Handler : CreateSet(p) \/ ApproveSetRequest(p) \/ DenySet(p) \/ DelRequest(p)
  <2>1. ASSUME NEW p \in Handler, RequestCalls(p) \/ CodeCalls(p) PROVE UNCHANGED requests
    BY <2>1, CallsLeaveRedis DEF redis
  <2>2. ASSUME NEW p \in Handler, RequestSteps(p)
        PROVE  \/ UNCHANGED requests
               \/ CreateSet(p) \/ ApproveSetRequest(p) \/ DenySet(p) \/ DelRequest(p)
    BY <2>2 DEF RequestSteps, CreateSadd, ApproveGet, ApproveSetCode, ApproveSaddCode,
       ApproveSetLink, DenyGet, OwnGet, DeleteGetLink, Cascade, CascadeSrem, SremRequest, redis
  <2>3. ASSUME NEW p \in Handler, CodeSteps(p) \/ ListSteps(p) \/ Abort(p) PROVE UNCHANGED requests
    BY <2>3 DEF CodeSteps, RevokeGet, RevokeSet, DeleteCodeGet, Unlink, DelCode, SremCode,
       ValidateGet, ValidateResolve, ValidateSave, ListSteps, StateList, MineList, MineLink,
       ListRead, ListSave, ListDone, Abort, redis
  <2>4. CASE Tick \/ UNCHANGED vars
    BY <2>4 DEF Tick, vars, redis
  <2>5. QED
    BY <2>1, <2>2, <2>3, <2>4 DEF Next
<1>6. QED
  BY <1>1, <1>2, <1>3, <1>4, <1>5

(* denyRequest is final: no handler but deleteRequest writes a denied request. *)
THEOREM DeniedForGood == Serial => (Spec => DeniedIsTerminal)
<1>1. TypeOK /\ NoStaleRevival /\ SerialInv /\ [Next]_vars => [DeniedStays]_vars
  BY NextDenied
<1>2. QED
  BY <1>1, TypeCorrect, StaleWritesHarmless, SerialInvariant, PTL
  DEF Spec, DeniedIsTerminal, DeniedStays

(* RevokedIsTerminal: without overlap, a revoked code changes no more until   *)
(* it is deleted, whatever expires meanwhile.                                 *)
RevokedStays ==
  \A c \in Code : codes[c] # None /\ codes[c].status = "revoked"
    => codes'[c] \in {codes[c], None}

LEMMA NextRevoked ==
  ASSUME TypeOK, NoStaleRevival, SerialInv, [Next]_vars
  PROVE  RevokedStays
<1>1. ASSUME NEW p \in Handler, ApproveSetCode(p) PROVE RevokedStays
  <2>1. codes[h[p].code] = None /\ h[p].code \in Code
    BY <1>1, AtStep, RecordTerms DEF ApproveSetCode, At, Ready, NeedsCode, NoStaleRevival,
       NewCodesUnseen, Approving
  <2>2. QED
    BY <1>1, <2>1 DEF ApproveSetCode, RevokedStays, TypeOK
<1>2. ASSUME NEW p \in Handler, Cascade(p) \/ DelCode(p) PROVE RevokedStays
  BY <1>2 DEF Cascade, DelCode, RevokedStays, TypeOK
<1>3. ASSUME NEW p \in Handler, RevokeSet(p) PROVE RevokedStays
  <2>1. codes[h[p].code] = h[p].snap /\ h[p].code \in Code /\ h[p].snap \in AccessCode
    BY <1>3, AtStep DEF RevokeSet, At, InStep, Current, Ready, NeedsCode
  <2>2. h[p].snap.status = "revoked" => [h[p].snap EXCEPT !.status = "revoked"] = h[p].snap
    BY <2>1 DEF AccessCode
  <2>3. QED
    BY <1>3, <2>1, <2>2 DEF RevokeSet, RevokedStays, TypeOK
<1>4. ASSUME NEW p \in Handler, ValidateSave(p) PROVE RevokedStays
  <2>1. h[p].code \in Code /\ codes[h[p].code].status = "active"
    BY <1>4, AtStep DEF ValidateSave, At, InStep, Current, IsLive, Ready, NeedsCode
  <2>2. QED
    BY <1>4, <2>1 DEF ValidateSave, RevokedStays, TypeOK
<1>5. ASSUME NEW p \in Handler, NEW rec \in h[p].saves, ListSave(p, rec) PROVE RevokedStays
  <2>0. Current(h[p]) /\ Carries(h[p])
    BY AtStep DEF InStep
  <2>1. rec.code \in Code /\ codes[rec.code].status = "active"
    BY <2>0 DEF Current, IsLive, Carries, AsMinted, AccessCode
  <2>2. QED
    BY <1>5, <2>1 DEF ListSave, RevokedStays, TypeOK
<1>6. CASE UNCHANGED codes
  BY <1>6 DEF RevokedStays
<1>7. \/ UNCHANGED codes
      \/ \E p \in Handler :
           \/ ApproveSetCode(p) \/ Cascade(p) \/ DelCode(p) \/ RevokeSet(p) \/ ValidateSave(p)
           \/ \E rec \in h[p].saves : ListSave(p, rec)
  <2>1. ASSUME NEW p \in Handler, RequestCalls(p) \/ CodeCalls(p) PROVE UNCHANGED codes
    BY <2>1, CallsLeaveRedis DEF redis
  <2>2. ASSUME NEW p \in Handler, RequestSteps(p)
        PROVE  UNCHANGED codes \/ ApproveSetCode(p) \/ Cascade(p)
    BY <2>2 DEF RequestSteps, CreateSet, CreateSadd, ApproveGet, ApproveSetRequest,
       ApproveSaddCode, ApproveSetLink, DenyGet, DenySet, OwnGet, DeleteGetLink, CascadeSrem,
       DelRequest, SremRequest, redis
  <2>3. ASSUME NEW p \in Handler, CodeSteps(p)
        PROVE  UNCHANGED codes \/ DelCode(p) \/ RevokeSet(p) \/ ValidateSave(p)
    BY <2>3 DEF CodeSteps, RevokeGet, DeleteCodeGet, Unlink, SremCode, ValidateGet,
       ValidateResolve, redis
  <2>4. ASSUME NEW p \in Handler, ListSteps(p) \/ Abort(p)
        PROVE  UNCHANGED codes \/ \E rec \in h[p].saves : ListSave(p, rec)
    BY <2>4 DEF ListSteps, StateList, MineList, MineLink, ListRead, ListDone, Abort, redis
  <2>5. CASE Tick \/ UNCHANGED vars
    BY <2>5 DEF Tick, vars, redis
  <2>6. QED
    BY <2>1, <2>2, <2>3, <2>4, <2>5 DEF Next
<1>8. QED
  BY <1>1, <1>2, <1>3, <1>4, <1>5, <1>6, <1>7

(* revokeCode is final: no handler but the deletions writes a revoked code, and *)
(* the lazy expiry of listCodes and validateCode passes it over.               *)
THEOREM RevokedForGood == Serial => (Spec => RevokedIsTerminal)
<1>1. TypeOK /\ NoStaleRevival /\ SerialInv /\ [Next]_vars => [RevokedStays]_vars
  BY NextRevoked
<1>2. QED
  BY <1>1, TypeCorrect, StaleWritesHarmless, SerialInvariant, PTL
  DEF Spec, RevokedIsTerminal, RevokedStays
=============================================================================
