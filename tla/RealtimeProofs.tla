--------------------------- MODULE RealtimeProofs ---------------------------
(* Theorems about Realtime, for any tabs, connections, guests, buttons and     *)
(* palette, and any number of clicks, sessions and restarts.                   *)
EXTENDS Realtime, TLAPS

(* What may be on its way to a tab, to a guest, and to the process. A tab is    *)
(* greeted with a list of guests, and nobody sends it the guests' hello.        *)
ToHost ==
  [type : {"colors"}, colors : Colors]
    \cup [type : {"hello"}, colors : Colors, pending : SUBSET Guest]
    \cup [type : {"joinRequest", "guestLeft"}, guest : Guest]
    \cup [type : {"sessionEnded", "lost"}]
ToGuest ==
  [type : {"colors", "approved"}, colors : Colors]
    \cup [type : {"hello", "denied", "sessionEnded", "close", "lost"}]
ToServer ==
  [type : {"approve", "deny"}, guest : Guest]
    \cup [type : {"cycle"}, button : Button]
    \cup [type : {"close"}]

OutOK(out) ==
  /\ \A c \in HostConn : out[c] \in Seq(ToHost)
  /\ \A g \in Guest : out[g] \in Seq(ToGuest)

DownOK == down = [c \in Conn |-> down[c]] /\ OutOK(down)
UpOK == up \in [Conn -> Seq(ToServer)]

(* TypeOK without the channels *)
ServerTypes ==
  /\ live \in BOOLEAN /\ colors \in Colors
  /\ hosts \subseteq HostConn /\ guests \subseteq Guest /\ approved \subseteq Guest
  /\ sock \in [Conn -> {"closed", "open", "ended"}]
PageTypes ==
  /\ page \in [Tab -> {"locked", "granted"}]
  /\ ws \in [Tab -> HostConn \cup {None}]
  /\ rows \in [Tab -> SUBSET Guest]
  /\ fetches \in [Tab -> SUBSET {"asked", "granted", "locked"}]
  /\ view \in [Guest -> {"none", "loading", "buttons", "code", "gone"}]
  /\ shown \in [Tab \cup Guest -> Colors]
LinkTypes ==
  /\ cut \subseteq Conn
  /\ cl \in [Conn -> {"closed", "connecting", "open", "closing"}]
HistoryTypes == events \in 0..MaxEvents /\ allowed \subseteq Guest

Types == DownOK /\ UpOK /\ ServerTypes /\ PageTypes /\ LinkTypes /\ HistoryTypes

LEMMA SeqOfMore ==
  ASSUME NEW A, NEW B, A \subseteq B, NEW s \in Seq(A)
  PROVE  s \in Seq(B)
  OBVIOUS

LEMMA TypesGiveTypeOK == Types => TypeOK
<1> SUFFICES ASSUME Types PROVE TypeOK
  OBVIOUS
<1>1. ToHost \subseteq Message /\ ToGuest \subseteq Message /\ ToServer \subseteq Message
  BY DEF ToHost, ToGuest, ToServer, Message
<1>2. \A c \in Conn : down[c] \in Seq(Message)
  BY <1>1, SeqOfMore DEF Types, DownOK, OutOK, Conn
<1>3. down \in [Conn -> Seq(Message)]
  BY <1>2 DEF Types, DownOK
<1>4. \A c \in Conn : up[c] \in Seq(Message)
  BY <1>1, SeqOfMore DEF Types, UpOK
<1>5. up \in [Conn -> Seq(Message)]
  BY <1>4 DEF Types, UpOK
<1>6. QED
  BY <1>3, <1>5 DEF Types, ServerTypes, PageTypes, LinkTypes, HistoryTypes, TypeOK

-----------------------------------------------------------------------------
(* Messages *)

LEMMA ShortSeq ==
  \A S : <<>> \in Seq(S) /\ \A a, b \in S : <<a>> \in Seq(S) /\ <<a, b>> \in Seq(S)
  OBVIOUS

LEMMA ColorsMessages ==
  ASSUME NEW cs \in Colors
  PROVE  /\ ColorsMsg(cs) \in ToHost /\ ColorsMsg(cs) \in ToGuest
         /\ ApprovedMsg(cs) \in ToGuest
         /\ \A waiting \in SUBSET Guest : HostHello(cs, waiting) \in ToHost
  BY DEF ColorsMsg, ApprovedMsg, HostHello, ToHost, ToGuest

LEMMA GuestMessages ==
  ASSUME NEW g \in Guest
  PROVE  /\ About("joinRequest", g) \in ToHost /\ About("guestLeft", g) \in ToHost
         /\ About("approve", g) \in ToServer /\ About("deny", g) \in ToServer
  BY DEF About, ToHost, ToServer

LEMMA PlainMessages ==
  /\ Plain("sessionEnded") \in ToHost /\ Plain("lost") \in ToHost
  /\ \A type \in {"hello", "denied", "sessionEnded", "close", "lost"} : Plain(type) \in ToGuest
  /\ Close \in ToGuest /\ Close \in ToServer
  /\ \A b \in Button : CycleMsg(b) \in ToServer
  BY DEF Plain, Close, CycleMsg, ToHost, ToGuest, ToServer

LEMMA Separate == \A c \in HostConn : c \notin Guest /\ c \notin Tab /\ c # None
  BY RealtimeAssumption

(* What is written keeps the channels in order. *)
LEMMA ToOK ==
  ASSUME NEW conns, NEW m, \A c \in conns \cap HostConn : m \in ToHost,
         \A g \in conns \cap Guest : m \in ToGuest
  PROVE  OutOK(To(conns, m))
<1>1. \A c \in HostConn : To(conns, m)[c] \in Seq(ToHost)
  <2> SUFFICES ASSUME NEW c \in HostConn PROVE To(conns, m)[c] \in Seq(ToHost)
    OBVIOUS
  <2>1. To(conns, m)[c] = IF c \in conns THEN <<m>> ELSE <<>>
    BY DEF To, Conn
  <2>2. QED
    BY <2>1
<1>2. \A g \in Guest : To(conns, m)[g] \in Seq(ToGuest)
  <2> SUFFICES ASSUME NEW g \in Guest PROVE To(conns, m)[g] \in Seq(ToGuest)
    OBVIOUS
  <2>1. To(conns, m)[g] = IF g \in conns THEN <<m>> ELSE <<>>
    BY DEF To, Conn
  <2>2. QED
    BY <2>1
<1>3. QED
  BY <1>1, <1>2 DEF OutOK

LEMMA WrittenOK ==
  ASSUME DownOK, NEW out, OutOK(out), down' = Written(out)
  PROVE  DownOK'
<1>1. \A c \in Conn : down'[c] = IF Hears(c) /\ Writable(c) THEN down[c] \o out[c] ELSE down[c]
  BY DEF Written
<1>2. \A c \in HostConn : down'[c] \in Seq(ToHost)
  <2> SUFFICES ASSUME NEW c \in HostConn PROVE down'[c] \in Seq(ToHost)
    OBVIOUS
  <2>1. down[c] \in Seq(ToHost) /\ out[c] \in Seq(ToHost) /\ c \in Conn
    BY DEF DownOK, OutOK, Conn
  <2>2. down[c] \o out[c] \in Seq(ToHost)
    BY <2>1
  <2>3. QED
    BY <1>1, <2>1, <2>2
<1>3. \A g \in Guest : down'[g] \in Seq(ToGuest)
  <2> SUFFICES ASSUME NEW g \in Guest PROVE down'[g] \in Seq(ToGuest)
    OBVIOUS
  <2>1. down[g] \in Seq(ToGuest) /\ out[g] \in Seq(ToGuest) /\ g \in Conn
    BY DEF DownOK, OutOK, Conn
  <2>2. down[g] \o out[g] \in Seq(ToGuest)
    BY <2>1
  <2>3. QED
    BY <1>1, <2>1, <2>2
<1>4. down' = [c \in Conn |-> down'[c]]
  BY DEF Written
<1>5. QED
  BY <1>2, <1>3, <1>4 DEF DownOK, OutOK

LEMMA WrittenToOK ==
  ASSUME DownOK, NEW conns, NEW m, \A c \in conns \cap HostConn : m \in ToHost,
         \A g \in conns \cap Guest : m \in ToGuest, down' = Written(To(conns, m))
  PROVE  DownOK'
  BY ToOK, WrittenOK

(* Reading the first message, or dropping all of them, does too. *)
LEMMA ReadOK ==
  ASSUME DownOK, NEW c \in Conn, down[c] # <<>>, down' = [down EXCEPT ![c] = Tail(@)]
  PROVE  /\ DownOK'
         /\ c \in HostConn => Head(down[c]) \in ToHost
         /\ c \in Guest => Head(down[c]) \in ToGuest
<1>1. \A d \in Conn : down'[d] = IF d = c THEN Tail(down[c]) ELSE down[d]
  BY DEF DownOK
<1>0. \A T : down[c] \in Seq(T) => Tail(down[c]) \in Seq(T) /\ Head(down[c]) \in T
  OBVIOUS
<1>2. c \in HostConn => Tail(down[c]) \in Seq(ToHost) /\ Head(down[c]) \in ToHost
  BY <1>0 DEF DownOK, OutOK
<1>3. c \in Guest => Tail(down[c]) \in Seq(ToGuest) /\ Head(down[c]) \in ToGuest
  BY <1>0 DEF DownOK, OutOK
<1>4. OutOK(down')
  BY <1>1, <1>2, <1>3 DEF DownOK, OutOK, Conn
<1>5. down' = [d \in Conn |-> down'[d]]
  BY DEF DownOK
<1>6. QED
  BY <1>2, <1>3, <1>4, <1>5 DEF DownOK

LEMMA DroppedOK ==
  ASSUME DownOK, NEW c \in Conn, down' = [down EXCEPT ![c] = <<>>]
  PROVE  DownOK'
<1>1. \A d \in Conn : down'[d] = IF d = c THEN <<>> ELSE down[d]
  BY DEF DownOK
<1>2. OutOK(down')
  BY <1>1 DEF DownOK, OutOK, Conn
<1>3. down' = [d \in Conn |-> down'[d]]
  BY DEF DownOK
<1>4. QED
  BY <1>2, <1>3 DEF DownOK

LEMMA UploadedOK ==
  ASSUME UpOK, NEW c \in Conn, NEW m \in ToServer
  PROVE  Uploaded(c, m) \in [Conn -> Seq(ToServer)]
<1>1. Append(up[c], m) \in Seq(ToServer)
  BY DEF UpOK
<1>2. QED
  BY <1>1 DEF UpOK, Uploaded

LEMMA ReceivesOK ==
  ASSUME UpOK, NEW c \in Conn, NEW type, Receives(c, type)
  PROVE  UpOK' /\ Head(up[c]) \in ToServer /\ Head(up[c]).type = type
<1>1. up[c] \in Seq(ToServer) /\ up[c] # <<>>
  BY DEF UpOK, Receives
<1>2. Head(up[c]) \in ToServer /\ Tail(up[c]) \in Seq(ToServer)
  BY <1>1
<1>3. QED
  BY <1>2 DEF UpOK, Receives

LEMMA ShutOK ==
  ASSUME Types, NEW c \in Conn, Shut(c)
  PROVE  DownOK' /\ UpOK' /\ cut' \subseteq Conn
<1>1. DownOK'
  BY DroppedOK DEF Types, Shut
<1>2. UpOK'
  BY PlainMessages, UploadedOK DEF Types, Shut, UpOK
<1>3. QED
  BY <1>1, <1>2 DEF Types, LinkTypes, Shut

LEMMA ClearTimersOK ==
  ASSUME Types, NEW t \in Tab, NEW others, ClearTimers(t, others),
         others \in [Conn -> {"closed", "connecting", "open", "closing"}]
  PROVE  DownOK' /\ UpOK' /\ LinkTypes'
<1>1. CASE ws[t] = None
  BY <1>1 DEF ClearTimers, net, Types, DownOK, OutOK, UpOK, LinkTypes
<1>2. CASE ws[t] # None
  <2>1. ws[t] \in Conn
    BY <1>2 DEF Types, PageTypes, Conn
  <2>2. Shut(ws[t]) /\ cl' = [others EXCEPT ![ws[t]] = "closed"]
    BY <1>2 DEF ClearTimers
  <2>3. DownOK' /\ UpOK' /\ cut' \subseteq Conn
    BY <2>1, <2>2, ShutOK
  <2>4. QED
    BY <2>2, <2>3 DEF LinkTypes
<1>3. QED
  BY <1>1, <1>2

-----------------------------------------------------------------------------
(* Types *)

(* What the process does *)
LEMMA CycleType ==
  ASSUME colors \in Colors, NEW b \in Button
  PROVE  Cycle(b) \in Colors
<1>1. (colors[b] + 1) % PaletteSize \in 0..PaletteSize - 1
  BY RealtimeAssumption DEF Colors
<1>2. QED
  BY <1>1 DEF Cycle, Colors

LEMMA WhiteType == White \in Colors
  BY RealtimeAssumption DEF White, Colors

(* The frames the end of a session writes *)
LEMMA EndOK ==
  ASSUME ServerTypes
  PROVE  OutOK([c \in Conn |-> CASE c \in hosts -> <<Plain("sessionEnded")>>
                                 [] c \in guests -> <<Plain("sessionEnded"), Close>>
                                 [] OTHER -> <<>>])
<1> DEFINE out == [c \in Conn |-> CASE c \in hosts -> <<Plain("sessionEnded")>>
                                    [] c \in guests -> <<Plain("sessionEnded"), Close>>
                                    [] OTHER -> <<>>]
<1>1. \A c \in HostConn : out[c] = <<Plain("sessionEnded")>> \/ out[c] = <<>>
  BY Separate DEF ServerTypes, Conn
<1>2. \A g \in Guest : \/ out[g] = <<Plain("sessionEnded")>>
                        \/ out[g] = <<Plain("sessionEnded"), Close>> \/ out[g] = <<>>
  BY DEF Conn
<1> HIDE DEF out
<1>3. OutOK(out)
  BY <1>1, <1>2, PlainMessages, ShortSeq DEF OutOK
<1>4. QED
  BY <1>3 DEF out

LEMMA SessionType ==
  ASSUME Types, EndSession \/ \E asking \in SUBSET Tab : StartSession(asking)
  PROVE  Types'
<1>1. CASE EndSession
  <2>1. DownOK'
    BY <1>1, EndOK, WrittenOK DEF EndSession, Types
  <2>2. ServerTypes'
    BY <1>1, WhiteType DEF EndSession, Types, ServerTypes
  <2>3. QED
    BY <1>1, <2>1, <2>2 DEF EndSession, Types, UpOK, PageTypes, LinkTypes, HistoryTypes, browser,
       tabs
<1>2. ASSUME NEW asking \in SUBSET Tab, StartSession(asking) PROVE Types'
  <2>1. DownOK'
    BY <1>2, WrittenToOK, ColorsMessages, WhiteType DEF StartSession, Types
  <2>2. ServerTypes'
    BY <1>2, WhiteType DEF StartSession, Types, ServerTypes
  <2>3. PageTypes'
    BY <1>2 DEF StartSession, Accepted, Types, PageTypes
  <2>4. HistoryTypes'
    BY <1>2, RealtimeAssumption DEF StartSession, Types, HistoryTypes
  <2>5. QED
    BY <1>2, <2>1, <2>2, <2>3, <2>4 DEF StartSession, Types, UpOK, LinkTypes
<1>3. QED
  BY <1>1, <1>2

LEMMA UpgradeType ==
  ASSUME Types, \/ \E c \in HostConn : AddHost(c)
                \/ \E g \in Guest : AddGuest(g) \/ Refuse(g)
  PROVE  Types'
<1>1. ASSUME NEW c \in HostConn, AddHost(c) PROVE Types'
  <2>1. HostHello(colors, Pending) \in ToHost
    BY ColorsMessages DEF Types, ServerTypes, Pending
  <2>2. DownOK'
    BY <1>1, <2>1, WrittenToOK, Separate DEF AddHost, Types
  <2>3. ServerTypes'
    BY <1>1 DEF AddHost, Types, ServerTypes, Conn
  <2>4. QED
    BY <1>1, <2>2, <2>3 DEF AddHost, Types, UpOK, PageTypes, LinkTypes, HistoryTypes, browser, tabs
<1>2. ASSUME NEW g \in Guest, AddGuest(g) PROVE Types'
  <2> DEFINE out == [c \in Conn |-> CASE c = g -> <<Plain("hello")>>
                                      [] c \in hosts -> <<About("joinRequest", g)>>
                                      [] OTHER -> <<>>]
  <2>1. \A c \in HostConn : out[c] = <<About("joinRequest", g)>> \/ out[c] = <<>>
    BY Separate DEF Conn
  <2>2. \A h \in Guest : out[h] = <<Plain("hello")>> \/ out[h] = <<>>
    BY Separate DEF Conn, Types, ServerTypes
  <2> HIDE DEF out
  <2>3. OutOK(out)
    BY <2>1, <2>2, PlainMessages, GuestMessages, ShortSeq DEF OutOK
  <2>4. DownOK'
    BY <1>2, <2>3, WrittenOK DEF AddGuest, Types, out
  <2>5. ServerTypes'
    BY <1>2 DEF AddGuest, Types, ServerTypes, Conn
  <2>6. QED
    BY <1>2, <2>4, <2>5 DEF AddGuest, Types, UpOK, PageTypes, LinkTypes, HistoryTypes, browser, tabs
<1>3. ASSUME NEW g \in Guest, Refuse(g) PROVE Types'
  <2>1. DownOK'
    BY <1>3, WrittenToOK, PlainMessages DEF Refuse, Types
  <2>2. QED
    BY <1>3, <2>1 DEF Refuse, Types, UpOK, ServerTypes, PageTypes, LinkTypes, HistoryTypes, server,
       browser, tabs
<1>4. QED
  BY <1>1, <1>2, <1>3

LEMMA ServerStepType ==
  ASSUME Types, NEW c \in Conn, ServerStep(c)
  PROVE  Types'
<1> DEFINE m == Head(up[c])
<1>1. CASE ReceiveCycle(c)
  <2>1. UpOK' /\ m \in ToServer /\ m.type = "cycle"
    BY <1>1, ReceivesOK DEF ReceiveCycle, Types
  <2>2. m.button \in Button
    BY <2>1 DEF ToServer
  <2>3. colors' \in Colors
    BY <1>1, <2>2, CycleType DEF ReceiveCycle, Types, ServerTypes
  <2>4. DownOK'
    BY <1>1, <2>3, WrittenToOK, ColorsMessages DEF ReceiveCycle, Types
  <2>5. QED
    BY <1>1, <2>1, <2>3, <2>4 DEF ReceiveCycle, Types, ServerTypes, PageTypes, LinkTypes,
       HistoryTypes, browser, tabs
<1>2. CASE ReceiveApprove(c)
  <2>1. UpOK' /\ m \in ToServer /\ m.type = "approve"
    BY <1>2, ReceivesOK DEF ReceiveApprove, Types
  <2>2. m.guest \in Guest
    BY <2>1 DEF ToServer
  <2> HIDE DEF m
  <2>3. \/ /\ approved' = approved \cup {m.guest}
           /\ down' = Written(To({m.guest}, ApprovedMsg(colors)))
           /\ allowed' = IF m.guest \in Pending THEN allowed \cup {m.guest} ELSE allowed
        \/ UNCHANGED <<approved, down, allowed>>
    BY <1>2 DEF ReceiveApprove, m
  <2>4. DownOK'
    <3>1. CASE down' = Written(To({m.guest}, ApprovedMsg(colors)))
      BY <2>2, <3>1, WrittenToOK, ColorsMessages, Separate DEF Types, ServerTypes
    <3>2. CASE UNCHANGED down
      BY <3>2 DEF Types, DownOK, OutOK
    <3>3. QED
      BY <2>3, <3>1, <3>2
  <2>5. approved' \subseteq Guest /\ allowed' \subseteq Guest
    BY <2>2, <2>3 DEF Types, ServerTypes, HistoryTypes
  <2>6. QED
    BY <1>2, <2>1, <2>4, <2>5 DEF ReceiveApprove, Types, ServerTypes, PageTypes, LinkTypes,
       HistoryTypes, browser, tabs
<1>3. CASE ReceiveDeny(c)
  <2>1. UpOK' /\ m \in ToServer /\ m.type = "deny"
    BY <1>3, ReceivesOK DEF ReceiveDeny, Types
  <2>2. m.guest \in Guest
    BY <2>1 DEF ToServer
  <2> HIDE DEF m
  <2> DEFINE out == [d \in Conn |-> IF d = m.guest THEN <<Plain("denied"), Close>> ELSE <<>>]
  <2>3. \/ /\ guests' = guests \ {m.guest} /\ down' = Written(out)
           /\ sock' = [sock EXCEPT ![m.guest] = "ended"]
        \/ UNCHANGED <<guests, sock, down>>
    BY <1>3 DEF ReceiveDeny, m
  <2>4. \A d \in HostConn : out[d] = <<>>
    BY <2>2, Separate DEF Conn
  <2>5. \A g \in Guest : out[g] = <<Plain("denied"), Close>> \/ out[g] = <<>>
    BY DEF Conn
  <2> HIDE DEF out
  <2>6. OutOK(out)
    BY <2>4, <2>5, PlainMessages, ShortSeq DEF OutOK
  <2>7. DownOK'
    <3>1. CASE down' = Written(out)
      BY <2>6, <3>1, WrittenOK DEF Types
    <3>2. CASE UNCHANGED down
      BY <3>2 DEF Types, DownOK, OutOK
    <3>3. QED
      BY <2>3, <3>1, <3>2
  <2>8. guests' \subseteq Guest /\ sock' \in [Conn -> {"closed", "open", "ended"}]
    BY <2>2, <2>3 DEF Types, ServerTypes
  <2>9. QED
    BY <1>3, <2>1, <2>7, <2>8 DEF ReceiveDeny, Types, ServerTypes, PageTypes, LinkTypes,
       HistoryTypes, browser, tabs
<1>4. CASE ReceiveClose(c)
  <2>1. UpOK'
    BY <1>4, ReceivesOK DEF ReceiveClose, Types
  <2>2. ServerTypes'
    BY <1>4 DEF ReceiveClose, Types, ServerTypes
  <2>3. QED
    BY <1>4, <2>1, <2>2 DEF ReceiveClose, Types, DownOK, OutOK, PageTypes, LinkTypes,
       HistoryTypes, browser, tabs
<1>5. QED
  BY <1>1, <1>2, <1>3, <1>4 DEF ServerStep

LEMMA SockCloseType ==
  ASSUME Types, NEW c \in Conn, SockClose(c)
  PROVE  Types'
<1>1. DownOK'
  <2>1. CASE c \in guests
    <3>1. c \in Guest /\ down' = Written(To(hosts, About("guestLeft", c)))
      BY <2>1 DEF SockClose, Types, ServerTypes
    <3>2. hosts \cap Guest = {}
      BY Separate DEF Types, ServerTypes
    <3>3. QED
      BY <3>1, <3>2, WrittenToOK, GuestMessages DEF Types
  <2>2. CASE c \notin guests
    BY <2>2 DEF SockClose, Types, DownOK, OutOK
  <2>3. QED
    BY <2>1, <2>2
<1>2. ServerTypes'
  BY DEF SockClose, Types, ServerTypes
<1>3. LinkTypes'
  BY DEF SockClose, Types, LinkTypes, browser
<1>4. QED
  BY <1>1, <1>2, <1>3 DEF SockClose, Types, UpOK, PageTypes, HistoryTypes, browser, tabs

LEMMA RestartType ==
  ASSUME Types, Restart
  PROVE  Types'
<1>1. DownOK'
  BY WrittenToOK, PlainMessages DEF Restart, Types
<1>2. UpOK'
  BY ShortSeq DEF Restart, UpOK
<1>3. ServerTypes'
  BY WhiteType DEF Restart, Types, ServerTypes
<1>4. LinkTypes'
  BY DEF Restart, Types, LinkTypes
<1>5. PageTypes'
  BY DEF Restart, Types, PageTypes
<1>6. HistoryTypes'
  BY RealtimeAssumption DEF Restart, Types, HistoryTypes
<1>7. QED
  BY <1>1, <1>2, <1>3, <1>4, <1>5, <1>6 DEF Types

(* What a tab does *)
LEMMA TabFetchType ==
  ASSUME Types, NEW t \in Tab, Refresh(t) \/ Serve(t)
  PROVE  Types'
<1>1. fetches' \in [Tab -> SUBSET {"asked", "granted", "locked"}]
  BY DEF Refresh, Serve, SessionBody, Types, PageTypes
<1>2. UNCHANGED <<server, net, cl, page, ws, rows, view, shown, events, allowed>>
  BY DEF Refresh, Serve
<1>3. QED
  BY <1>1, <1>2 DEF server, net, Types, DownOK, OutOK, UpOK, ServerTypes, PageTypes, LinkTypes,
     HistoryTypes

LEMMA TabShowsType ==
  ASSUME Types, NEW t \in Tab, ShowLocked(t) \/ ShowGranted(t) \/ Reload(t)
  PROVE  Types'
<1>0. cl \in [Conn -> {"closed", "connecting", "open", "closing"}]
  BY DEF Types, LinkTypes
<1>1. DownOK' /\ UpOK' /\ LinkTypes'
  <2>1. CASE ShowLocked(t) \/ Reload(t)
    BY <1>0, <2>1, ClearTimersOK DEF ShowLocked, Reload
  <2>2. CASE ShowGranted(t)
    <3>1. PICK c \in HostConn : ClearTimers(t, [cl EXCEPT ![c] = "connecting"])
      BY <2>2 DEF ShowGranted
    <3>2. [cl EXCEPT ![c] = "connecting"] \in [Conn -> {"closed", "connecting", "open", "closing"}]
      BY <1>0
    <3>3. QED
      BY <3>1, <3>2, ClearTimersOK
  <2>3. QED
    BY <2>1, <2>2
<1>2. PageTypes'
  <2>1. CASE ShowLocked(t)
    BY <2>1 DEF ShowLocked, Types, PageTypes
  <2>2. CASE ShowGranted(t)
    BY <2>2 DEF ShowGranted, Types, PageTypes
  <2>3. CASE Reload(t)
    BY <2>3, WhiteType DEF Reload, Types, PageTypes
  <2>4. QED
    BY <2>1, <2>2, <2>3
<1>3. UNCHANGED <<server, events, allowed>>
  BY DEF ShowLocked, ShowGranted, Reload
<1>4. QED
  BY <1>1, <1>2, <1>3 DEF server, Types, ServerTypes, HistoryTypes

LEMMA MessageEffect ==
  ASSUME NEW m \in ToHost \cup ToGuest, NEW cs \in Colors, NEW listed \in SUBSET Guest
  PROVE  ColorsAfter(cs, m) \in Colors
         /\ (m \in ToHost => RowsAfter(listed, m) \in SUBSET Guest)
<1>1. ColorsAfter(cs, m) \in Colors
  BY DEF ColorsAfter, ToHost, ToGuest
<1>2. m \in ToHost => RowsAfter(listed, m) \in SUBSET Guest
  BY DEF RowsAfter, ToHost
<1>3. QED
  BY <1>1, <1>2

LEMMA TabReceiveType ==
  ASSUME Types, NEW t \in Tab, TabReceive(t)
  PROVE  Types'
<1> DEFINE c == ws[t]
           m == Head(down[c])
<1>1. c \in HostConn /\ c \in Conn /\ down[c] # <<>> /\ down' = [down EXCEPT ![c] = Tail(@)]
  BY DEF TabReceive, Types, PageTypes, Conn
<1>2. DownOK' /\ m \in ToHost
  BY <1>1, ReadOK DEF Types
<1>3. /\ rows' = [rows EXCEPT ![t] = RowsAfter(@, m)]
      /\ shown' = [shown EXCEPT ![t] = ColorsAfter(@, m)]
      /\ fetches' = [fetches EXCEPT ![t] =
                       IF m.type \in {"sessionEnded", "lost"} THEN @ \cup {"asked"} ELSE @]
      /\ cl' = [cl EXCEPT ![c] = IF m.type = "lost" THEN "closed" ELSE "open"]
      /\ ws' = IF m.type = "lost" THEN [ws EXCEPT ![t] = None] ELSE ws
      /\ UNCHANGED <<server, up, cut, page, view, events, allowed>>
  BY DEF TabReceive
<1> HIDE DEF m, c
<1>4. RowsAfter(rows[t], m) \in SUBSET Guest /\ ColorsAfter(shown[t], m) \in Colors
  BY <1>2, MessageEffect DEF Types, PageTypes
<1>5. rows' \in [Tab -> SUBSET Guest] /\ shown' \in [Tab \cup Guest -> Colors]
  BY <1>3, <1>4 DEF Types, PageTypes
<1>6. /\ fetches' \in [Tab -> SUBSET {"asked", "granted", "locked"}]
      /\ ws' \in [Tab -> HostConn \cup {None}]
  BY <1>3 DEF Types, PageTypes
<1>7. cl' \in [Conn -> {"closed", "connecting", "open", "closing"}]
  BY <1>3 DEF Types, LinkTypes
<1>8. QED
  BY <1>2, <1>3, <1>5, <1>6, <1>7 DEF server, Types, UpOK, ServerTypes, PageTypes, LinkTypes,
     HistoryTypes

LEMMA TabUserType ==
  ASSUME Types, NEW t \in Tab,
         \/ \E g \in Guest, type \in {"approve", "deny"} : Decide(t, g, type)
         \/ \E b \in Button : HostClick(t, b)
  PROVE  Types'
<1>1. ASSUME NEW g \in Guest, NEW type \in {"approve", "deny"}, Decide(t, g, type) PROVE Types'
  <2>1. UpOK'
    <3>1. CASE IsOpen(ws[t])
      <4>1. ws[t] \in Conn
        BY <3>1 DEF IsOpen, Types, PageTypes, Conn
      <4>2. QED
        BY <1>1, <3>1, <4>1, GuestMessages, UploadedOK DEF Decide, Types, UpOK
    <3>2. CASE ~IsOpen(ws[t])
      BY <1>1, <3>2 DEF Decide, Types, UpOK
    <3>3. QED
      BY <3>1, <3>2
  <2>2. rows' \in [Tab -> SUBSET Guest]
    BY <1>1 DEF Decide, Types, PageTypes
  <2>3. QED
    BY <1>1, <2>1, <2>2 DEF Decide, server, Types, DownOK, OutOK, ServerTypes, PageTypes,
       LinkTypes, HistoryTypes
<1>2. ASSUME NEW b \in Button, HostClick(t, b) PROVE Types'
  <2>1. ws[t] \in Conn
    BY <1>2 DEF HostClick, IsOpen, Types, PageTypes, Conn
  <2>2. UpOK'
    BY <1>2, <2>1, PlainMessages, UploadedOK DEF HostClick, Types, UpOK
  <2>3. events' \in 0..MaxEvents
    BY <1>2, RealtimeAssumption DEF HostClick, Types, HistoryTypes
  <2>4. QED
    BY <1>2, <2>2, <2>3 DEF HostClick, server, browser, tabs, Types, DownOK, OutOK, ServerTypes,
       PageTypes, LinkTypes, HistoryTypes
<1>3. QED
  BY <1>1, <1>2

(* What a guest's page does *)
LEMMA GuestReceiveType ==
  ASSUME Types, NEW g \in Guest, GuestReceive(g)
  PROVE  Types'
<1> DEFINE m == Head(down[g])
<1>1. g \in Conn /\ down[g] # <<>> /\ down' = [down EXCEPT ![g] = Tail(@)]
  BY DEF GuestReceive, Conn
<1>2. DownOK' /\ m \in ToGuest
  BY <1>1, ReadOK DEF Types
<1>3. /\ view' = [view EXCEPT ![g] = GuestViews(g, m)]
      /\ shown' = [shown EXCEPT ![g] = ColorsAfter(@, m)]
      /\ cl' = [cl EXCEPT ![g] = IF m.type \in {"close", "lost"} THEN "closed" ELSE "open"]
      /\ up' = IF m.type = "close" THEN Uploaded(g, Close) ELSE up
      /\ UNCHANGED <<server, cut, tabs, events, allowed>>
  BY DEF GuestReceive
<1> HIDE DEF m
<1>4. view' \in [Guest -> {"none", "loading", "buttons", "code", "gone"}]
  BY <1>3 DEF GuestViews, Types, PageTypes
<1>5. shown' \in [Tab \cup Guest -> Colors]
  BY <1>2, <1>3, MessageEffect DEF Types, PageTypes
<1>6. UpOK'
  BY <1>1, <1>3, PlainMessages, UploadedOK DEF Types, UpOK
<1>7. LinkTypes'
  BY <1>3 DEF Types, LinkTypes
<1>8. QED
  BY <1>2, <1>3, <1>4, <1>5, <1>6, <1>7 DEF server, tabs, Types, ServerTypes, PageTypes,
     HistoryTypes

LEMMA GuestPageType ==
  ASSUME Types, NEW g \in Guest,
         \/ Connect(g) \/ Leave(g) \/ Cut(g) \/ Watchdog(g) \/ GiveUp(g) \/ Rejoin(g)
         \/ \E b \in Button : GuestClick(g, b)
  PROVE  Types'
<1>0. g \in Conn
  BY DEF Conn
<1>1. CASE Connect(g) \/ Watchdog(g) \/ GiveUp(g)
  <2>1. view' \in [Guest -> {"none", "loading", "buttons", "code", "gone"}]
    BY <1>1 DEF Connect, Watchdog, GiveUp, Types, PageTypes
  <2>2. cl' \in [Conn -> {"closed", "connecting", "open", "closing"}]
    BY <1>1 DEF Connect, Watchdog, GiveUp, Types, LinkTypes
  <2>3. UNCHANGED <<server, net, tabs, shown, events, allowed>>
    BY <1>1 DEF Connect, Watchdog, GiveUp
  <2>4. QED
    BY <2>1, <2>2, <2>3 DEF server, net, tabs, Types, DownOK, OutOK, UpOK, ServerTypes, PageTypes,
       LinkTypes, HistoryTypes
<1>2. CASE Leave(g)
  <2>1. DownOK' /\ UpOK' /\ cut' \subseteq Conn
    BY <1>0, <1>2, ShutOK DEF Leave
  <2>2. cl' \in [Conn -> {"closed", "connecting", "open", "closing"}]
    BY <1>2 DEF Leave, Types, LinkTypes
  <2>3. view' \in [Guest -> {"none", "loading", "buttons", "code", "gone"}]
    BY <1>2 DEF Leave, Types, PageTypes
  <2>4. QED
    BY <1>2, <2>1, <2>2, <2>3 DEF Leave, server, tabs, Types, ServerTypes, PageTypes, LinkTypes,
       HistoryTypes
<1>3. CASE Cut(g)
  <2>1. DownOK'
    BY <1>0, <1>3, DroppedOK DEF Cut, Types
  <2>2. UpOK'
    BY <1>0, <1>3, ShortSeq DEF Cut, Types, UpOK
  <2>3. QED
    BY <1>0, <1>3, <2>1, <2>2 DEF Cut, server, browser, tabs, Types, ServerTypes, PageTypes,
       LinkTypes, HistoryTypes
<1>4. CASE Rejoin(g)
  <2>1. PageTypes'
    BY <1>4, WhiteType DEF Rejoin, Types, PageTypes, tabs
  <2>2. QED
    BY <1>4, <2>1 DEF Rejoin, Types, DownOK, OutOK, UpOK, ServerTypes, LinkTypes, HistoryTypes
<1>5. ASSUME NEW b \in Button, GuestClick(g, b) PROVE Types'
  <2>1. UpOK'
    BY <1>0, <1>5, PlainMessages, UploadedOK DEF GuestClick, Types, UpOK
  <2>2. events' \in 0..MaxEvents
    BY <1>5, RealtimeAssumption DEF GuestClick, Types, HistoryTypes
  <2>3. QED
    BY <1>5, <2>1, <2>2 DEF GuestClick, server, browser, tabs, Types, DownOK, OutOK, ServerTypes,
       PageTypes, LinkTypes, HistoryTypes
<1>6. QED
  BY <1>1, <1>2, <1>3, <1>4, <1>5

LEMMA TypesInit == Init => Types
<1> SUFFICES ASSUME Init PROVE Types
  OBVIOUS
<1>1. DownOK /\ UpOK
  BY ShortSeq DEF Init, DownOK, OutOK, UpOK, Conn
<1>2. ServerTypes /\ PageTypes
  BY WhiteType DEF Init, ServerTypes, PageTypes
<1>3. LinkTypes /\ HistoryTypes
  BY RealtimeAssumption DEF Init, LinkTypes, HistoryTypes
<1>4. QED
  BY <1>1, <1>2, <1>3 DEF Types

LEMMA TypesStep == Types /\ [Next]_vars => Types'
<1> SUFFICES ASSUME Types, [Next]_vars PROVE Types'
  OBVIOUS
<1>1. CASE \E asking \in {{}} \cup {{t} : t \in Tab} : StartSession(asking)
  BY <1>1, SessionType
<1>2. CASE EndSession
  BY <1>2, SessionType
<1>3. CASE Restart
  BY <1>3, RestartType
<1>4. CASE \E c \in HostConn : AddHost(c)
  BY <1>4, UpgradeType
<1>5. CASE \E c \in Conn : ServerStep(c) \/ SockClose(c)
  BY <1>5, ServerStepType, SockCloseType
<1>6. CASE \E t \in Tab : TabStep(t) \/ Reload(t)
  BY <1>6, TabFetchType, TabShowsType, TabReceiveType DEF TabStep
<1>7. CASE \/ \E t \in Tab, g \in Guest, type \in {"approve", "deny"} : Decide(t, g, type)
           \/ \E t \in Tab, b \in Button : HostClick(t, b)
  BY <1>7, TabUserType
<1>8. CASE \E g \in Guest : GuestStep(g) \/ Connect(g) \/ Leave(g) \/ Cut(g) \/ Rejoin(g)
  BY <1>8, UpgradeType, GuestReceiveType, GuestPageType DEF GuestStep
<1>9. CASE \E g \in Guest, b \in Button : GuestClick(g, b)
  BY <1>9, GuestPageType
<1>10. CASE UNCHANGED vars
  BY <1>10 DEF vars, server, net, browser, tabs, Types, DownOK, OutOK, UpOK, ServerTypes,
     PageTypes, LinkTypes, HistoryTypes
<1>11. QED
  BY <1>1, <1>2, <1>3, <1>4, <1>5, <1>6, <1>7, <1>8, <1>9, <1>10 DEF Next

LEMMA TypesAlways == Spec => []Types
  BY TypesInit, TypesStep, PTL DEF Spec

(* The variables keep their types; in particular colors stay in the palette,   *)
(* and a decision or a click that arrives names a guest or a button.           *)
THEOREM TypeCorrect == Spec => []TypeOK
  BY TypesAlways, TypesGiveTypeOK, PTL

-----------------------------------------------------------------------------
(* Who is in the room *)

Colored(s) == \E i \in DOMAIN s : "colors" \in DOMAIN s[i]

(* What is always true of a guest: the map's entry goes with its socket; a page *)
(* that has not been opened has left no trace; and a guest who was approved     *)
(* before cannot be upgraded once more, so that an entry in the map is pending  *)
(* until it is approved itself. Last, OnlyAllowedSee.                           *)
Member(g) ==
  /\ g \in guests => sock[g] # "closed"
  /\ view[g] = "none" =>
       cl[g] = "closed" /\ down[g] = <<>> /\ g \notin guests /\ g \notin approved
  /\ g \in approved /\ sock[g] = "closed" /\ cl[g] = "connecting" => g \in cut
  /\ view[g] = "buttons" \/ Colored(down[g]) \/ g \in Approved => g \in allowed

Same(g) ==
  /\ sock'[g] = sock[g] /\ cl'[g] = cl[g] /\ view'[g] = view[g]
  /\ g \in cut' <=> g \in cut
  /\ g \in guests' <=> g \in guests
  /\ g \in approved' <=> g \in approved
  /\ g \in allowed' <=> g \in allowed

LEMMA ColoredConcat ==
  ASSUME NEW S, NEW s \in Seq(S), NEW t \in Seq(S), Colored(s \o t)
  PROVE  Colored(s) \/ Colored(t)
<1>1. PICK i \in DOMAIN (s \o t) : "colors" \in DOMAIN (s \o t)[i]
  BY DEF Colored
<1>2. /\ i \in 1..Len(s) + Len(t) /\ Len(s) \in Nat /\ Len(t) \in Nat
      /\ DOMAIN s = 1..Len(s) /\ DOMAIN t = 1..Len(t)
      /\ (s \o t)[i] = IF i <= Len(s) THEN s[i] ELSE t[i - Len(s)]
  OBVIOUS
<1>3. CASE i <= Len(s)
  BY <1>1, <1>2, <1>3 DEF Colored
<1>4. CASE ~(i <= Len(s))
  <2>1. i - Len(s) \in 1..Len(t)
    BY <1>2, <1>4
  <2>2. QED
    BY <1>1, <1>2, <1>4, <2>1 DEF Colored
<1>5. QED
  BY <1>3, <1>4

LEMMA ColoredTail ==
  ASSUME NEW S, NEW s \in Seq(S), s # <<>>
  PROVE  /\ Colored(Tail(s)) => Colored(s)
         /\ "colors" \in DOMAIN Head(s) => Colored(s)
<1>1. /\ Len(s) \in Nat \ {0} /\ DOMAIN s = 1..Len(s) /\ Head(s) = s[1]
      /\ DOMAIN Tail(s) = 1..Len(s) - 1 /\ \A i \in 1..Len(s) - 1 : Tail(s)[i] = s[i + 1]
  OBVIOUS
<1>2. \A i \in 1..Len(s) - 1 : i + 1 \in 1..Len(s)
  BY <1>1
<1>3. QED
  BY <1>1, <1>2 DEF Colored

LEMMA ColoredShort ==
  /\ ~Colored(<<>>)
  /\ \A a : Colored(<<a>>) => "colors" \in DOMAIN a
  /\ \A a, b : Colored(<<a, b>>) => "colors" \in DOMAIN a \/ "colors" \in DOMAIN b
<1>1. ~Colored(<<>>)
  BY DEF Colored
<1>2. \A a : Colored(<<a>>) => "colors" \in DOMAIN a
  BY DEF Colored
<1>3. \A a, b : Colored(<<a, b>>) => "colors" \in DOMAIN a \/ "colors" \in DOMAIN b
  BY DEF Colored
<1>4. QED
  BY <1>1, <1>2, <1>3

LEMMA PlainIsColorless == \A type : "colors" \notin DOMAIN Plain(type)
  BY DEF Plain

(* What is written reaches only who listens. *)
LEMMA WrittenTo ==
  ASSUME Types, NEW g \in Guest, NEW out, OutOK(out), down' = Written(out)
  PROVE  /\ ~Hears(g) => down'[g] = down[g]
         /\ Colored(down'[g]) => Colored(down[g]) \/ Colored(out[g])
<1>1. down'[g] = IF Hears(g) /\ Writable(g) THEN down[g] \o out[g] ELSE down[g]
  BY DEF Written, Conn
<1>2. down[g] \in Seq(ToGuest) /\ out[g] \in Seq(ToGuest)
  BY DEF Types, DownOK, OutOK
<1>3. QED
  BY <1>1, <1>2, ColoredConcat

(* A step that leaves g alone *)
LEMMA SameMember ==
  ASSUME NEW g, Member(g), Same(g),
         view[g] = "none" => down'[g] = <<>>,
         Colored(down'[g]) => Colored(down[g]) \/ g \in allowed
  PROVE  Member(g)'
<1>1. Colored(down[g])' = Colored(down'[g])
  BY DEF Colored
<1>2. (g \in Approved)' <=> g \in Approved
  BY DEF Same, Approved
<1>3. QED
  BY <1>1, <1>2 DEF Member, Same

(* A step that writes something without colors, or colors to who is approved *)
LEMMA WriteMember ==
  ASSUME Types, NEW g \in Guest, Member(g), Same(g), NEW out, OutOK(out), down' = Written(out),
         Colored(out[g]) => g \in Approved
  PROVE  Member(g)'
<1>1. view[g] = "none" => down'[g] = <<>>
  BY WrittenTo DEF Member, Hears
<1>2. Colored(down'[g]) => Colored(down[g]) \/ g \in allowed
  BY WrittenTo DEF Member
<1>3. QED
  BY <1>1, <1>2, SameMember

LEMMA ColorsMember ==
  ASSUME Types, NEW g \in Guest, Member(g), Same(g), NEW cs \in Colors,
         down' = Written(To(Room, ColorsMsg(cs)))
  PROVE  Member(g)'
<1>1. OutOK(To(Room, ColorsMsg(cs)))
  BY ToOK, ColorsMessages
<1>2. To(Room, ColorsMsg(cs))[g] = IF g \in Room THEN <<ColorsMsg(cs)>> ELSE <<>>
  BY DEF To, Conn
<1>3. g \in Room => g \in Approved
  BY Separate DEF Room, Types, ServerTypes
<1>4. QED
  BY <1>1, <1>2, <1>3, WriteMember, ColoredShort

LEMMA ToOthers ==
  ASSUME NEW conns, NEW m, NEW g \in Guest, g \notin conns
  PROVE  To(conns, m)[g] = <<>>
  BY DEF To, Conn

LEMMA SessionMember ==
  ASSUME Types, NEW g \in Guest, Member(g),
         EndSession \/ \E asking \in SUBSET Tab : StartSession(asking)
  PROVE  Member(g)'
<1>1. CASE EndSession
  <2> DEFINE out == [c \in Conn |-> CASE c \in hosts -> <<Plain("sessionEnded")>>
                                      [] c \in guests -> <<Plain("sessionEnded"), Close>>
                                      [] OTHER -> <<>>]
  <2>1. OutOK(out) /\ down' = Written(out)
    BY <1>1, EndOK DEF EndSession, Types
  <2>2. out[g] \in {<<Plain("sessionEnded")>>, <<Plain("sessionEnded"), Close>>, <<>>}
    BY DEF Conn
  <2> HIDE DEF out
  <2>3. ~Colored(out[g])
    BY <2>2, ColoredShort, PlainIsColorless DEF Close
  <2>4. /\ view[g] = "none" => down'[g] = <<>>
        /\ Colored(down'[g]) => Colored(down[g])
    BY <2>1, <2>3, WrittenTo DEF Member, Hears
  <2>5. sock'[g] = IF g \in guests THEN "ended" ELSE sock[g]
    BY <1>1 DEF EndSession, Conn
  <2>6. guests' = {} /\ UNCHANGED <<view, cl, cut, approved, allowed>>
    BY <1>1 DEF EndSession, browser
  <2>7. Colored(down[g])' = Colored(down'[g])
    BY DEF Colored
  <2>8. QED
    BY <2>4, <2>5, <2>6, <2>7 DEF Member, Approved
<1>2. ASSUME NEW asking \in SUBSET Tab, StartSession(asking) PROVE Member(g)'
  <2>1. Same(g)
    BY <1>2 DEF StartSession, Same
  <2>2. QED
    BY <1>2, <2>1, ColorsMember, WhiteType DEF StartSession
<1>3. QED
  BY <1>1, <1>2

LEMMA RestartMember ==
  ASSUME Types, NEW g \in Guest, Member(g), Restart
  PROVE  Member(g)'
<1> DEFINE conns == {c \in Conn : sock[c] # "closed"}
<1>1. OutOK(To(conns, Plain("lost")))
  BY ToOK, PlainMessages
<1>2. To(conns, Plain("lost"))[g] \in {<<Plain("lost")>>, <<>>}
  BY DEF To, Conn
<1>3. ~Colored(To(conns, Plain("lost"))[g])
  BY <1>2, ColoredShort, PlainIsColorless
<1>4. down' = Written(To(conns, Plain("lost")))
  BY DEF Restart
<1>5. /\ view[g] = "none" => down'[g] = <<>>
      /\ Colored(down'[g]) => Colored(down[g])
  BY <1>1, <1>3, <1>4, WrittenTo DEF Member, Hears
<1>6. guests' = {} /\ approved' = {} /\ UNCHANGED <<view, cl, allowed>>
  BY DEF Restart
<1>7. Colored(down[g])' = Colored(down'[g])
  BY DEF Colored
<1>8. QED
  BY <1>5, <1>6, <1>7 DEF Member, Approved

LEMMA UpgradeMember ==
  ASSUME Types, NEW g \in Guest, Member(g),
         \/ \E c \in HostConn : AddHost(c)
         \/ \E h \in Guest : AddGuest(h) \/ Refuse(h)
  PROVE  Member(g)'
<1>1. ASSUME NEW c \in HostConn, AddHost(c) PROVE Member(g)'
  <2>1. HostHello(colors, Pending) \in ToHost
    BY ColorsMessages DEF Types, ServerTypes, Pending
  <2>2. OutOK(To({c}, HostHello(colors, Pending)))
    BY <2>1, ToOK, Separate
  <2>3. ~Colored(To({c}, HostHello(colors, Pending))[g])
    BY ToOthers, ColoredShort, Separate
  <2>4. Same(g)
    BY <1>1, Separate DEF AddHost, Same, browser, Conn, Types, ServerTypes
  <2>5. QED
    BY <1>1, <2>2, <2>3, <2>4, WriteMember DEF AddHost
<1>2. ASSUME NEW h \in Guest, AddGuest(h) PROVE Member(g)'
  <2> DEFINE out == [c \in Conn |-> CASE c = h -> <<Plain("hello")>>
                                      [] c \in hosts -> <<About("joinRequest", h)>>
                                      [] OTHER -> <<>>]
  <2>1. \A c \in HostConn : out[c] = <<About("joinRequest", h)>> \/ out[c] = <<>>
    BY Separate DEF Conn
  <2>2. \A x \in Guest : out[x] = <<Plain("hello")>> \/ out[x] = <<>>
    BY Separate DEF Conn, Types, ServerTypes
  <2>3. down' = Written(out)
    BY <1>2 DEF AddGuest
  <2> HIDE DEF out
  <2>4. OutOK(out)
    BY <2>1, <2>2, PlainMessages, GuestMessages, ShortSeq DEF OutOK
  <2>5. ~Colored(out[g])
    BY <2>2, ColoredShort, PlainIsColorless
  <2>6. CASE g = h
    <3>1. /\ cl[g] = "connecting" /\ sock[g] = "closed" /\ g \notin cut
          /\ sock'[g] = "open" /\ UNCHANGED <<view, cl, cut, approved, allowed>>
      BY <1>2, <2>6 DEF AddGuest, Upgradable, browser, Types, ServerTypes, Conn
    <3>2. g \notin approved /\ view[g] # "none"
      BY <3>1 DEF Member
    <3>3. Colored(down'[g]) => Colored(down[g])
      BY <2>3, <2>4, <2>5, WrittenTo
    <3>4. Colored(down[g])' = Colored(down'[g])
      BY DEF Colored
    <3>5. QED
      BY <3>1, <3>2, <3>3, <3>4 DEF Member, Approved
  <2>7. CASE g # h
    <3>1. Same(g)
      BY <1>2, <2>7 DEF AddGuest, Same, browser, Conn, Types, ServerTypes
    <3>2. QED
      BY <2>3, <2>4, <2>5, <3>1, WriteMember
  <2>8. QED
    BY <2>6, <2>7
<1>3. ASSUME NEW h \in Guest, Refuse(h) PROVE Member(g)'
  <2>1. OutOK(To({h}, Plain("lost")))
    BY ToOK, PlainMessages
  <2>2. To({h}, Plain("lost"))[g] \in {<<Plain("lost")>>, <<>>}
    BY DEF To, Conn
  <2>3. ~Colored(To({h}, Plain("lost"))[g])
    BY <2>2, ColoredShort, PlainIsColorless
  <2>4. Same(g)
    BY <1>3 DEF Refuse, Same, server, browser
  <2>5. QED
    BY <1>3, <2>1, <2>3, <2>4, WriteMember DEF Refuse
<1>4. QED
  BY <1>1, <1>2, <1>3

LEMMA ServerStepMember ==
  ASSUME Types, Types', NEW g \in Guest, Member(g), NEW c \in Conn, ServerStep(c)
  PROVE  Member(g)'
<1> DEFINE m == Head(up[c])
<1>1. CASE ReceiveCycle(c)
  <2>1. Same(g) /\ down' = Written(To(Room, ColorsMsg(colors')))
    BY <1>1 DEF ReceiveCycle, Same, browser
  <2>2. colors' \in Colors
    BY DEF Types, ServerTypes
  <2>3. QED
    BY <2>1, <2>2, ColorsMember
<1>2. CASE ReceiveApprove(c)
  <2>1. m.guest \in Guest
    BY <1>2, ReceivesOK DEF ReceiveApprove, Types, ToServer
  <2> HIDE DEF m
  <2>2. UNCHANGED <<guests, sock, cut, cl, view>>
    BY <1>2 DEF ReceiveApprove, browser
  <2>3. CASE /\ m.guest \in Pending /\ approved' = approved \cup {m.guest}
             /\ down' = Written(To({m.guest}, ApprovedMsg(colors)))
             /\ allowed' = allowed \cup {m.guest}
    <3>1. OutOK(To({m.guest}, ApprovedMsg(colors)))
      BY <2>1, ToOK, ColorsMessages, Separate DEF Types, ServerTypes
    <3>2. CASE g = m.guest
      <4>1. g \in guests /\ g \in allowed'
        BY <2>3, <3>2 DEF Pending
      <4>2. QED
        BY <2>2, <4>1 DEF Member
    <3>3. CASE g # m.guest
      <4>1. Same(g)
        BY <2>2, <2>3, <3>3 DEF Same
      <4>2. ~Colored(To({m.guest}, ApprovedMsg(colors))[g])
        BY <3>3, ToOthers, ColoredShort
      <4>3. QED
        BY <2>3, <3>1, <4>1, <4>2, WriteMember
    <3>4. QED
      BY <3>2, <3>3
  <2>4. CASE UNCHANGED <<approved, down, allowed>>
    BY <2>2, <2>4, SameMember DEF Same, Member
  <2>5. QED
    BY <1>2, <2>3, <2>4 DEF ReceiveApprove, Undecided, m
<1>3. CASE ReceiveDeny(c)
  <2>1. m.guest \in Guest
    BY <1>3, ReceivesOK DEF ReceiveDeny, Types, ToServer
  <2> HIDE DEF m
  <2> DEFINE out == [d \in Conn |-> IF d = m.guest THEN <<Plain("denied"), Close>> ELSE <<>>]
  <2>2. UNCHANGED <<approved, cut, cl, view, allowed>>
    BY <1>3 DEF ReceiveDeny, browser
  <2>3. \/ /\ guests' = guests \ {m.guest} /\ sock' = [sock EXCEPT ![m.guest] = "ended"]
           /\ down' = Written(out)
        \/ UNCHANGED <<guests, sock, down>>
    BY <1>3 DEF ReceiveDeny, m
  <2>4. \A d \in HostConn : out[d] = <<>>
    BY <2>1, Separate DEF Conn
  <2>5. \A x \in Guest : out[x] = <<Plain("denied"), Close>> \/ out[x] = <<>>
    BY DEF Conn
  <2> HIDE DEF out
  <2>6. OutOK(out) /\ ~Colored(out[g])
    BY <2>4, <2>5, PlainMessages, PlainIsColorless, ShortSeq, ColoredShort DEF OutOK, Close
  <2>7. CASE /\ guests' = guests \ {m.guest} /\ sock' = [sock EXCEPT ![m.guest] = "ended"]
             /\ down' = Written(out)
    <3>1. /\ view[g] = "none" => down'[g] = <<>>
          /\ Colored(down'[g]) => Colored(down[g])
      BY <2>6, <2>7, WrittenTo DEF Member, Hears
    <3>2. sock'[g] = IF g = m.guest THEN "ended" ELSE sock[g]
      BY <2>7 DEF Types, ServerTypes, Conn
    <3>3. Colored(down[g])' = Colored(down'[g])
      BY DEF Colored
    <3>4. QED
      BY <2>2, <2>7, <3>1, <3>2, <3>3 DEF Member, Approved
  <2>8. CASE UNCHANGED <<guests, sock, down>>
    BY <2>2, <2>8, SameMember DEF Same, Member
  <2>9. QED
    BY <2>3, <2>7, <2>8
<1>4. CASE ReceiveClose(c)
  <2>1. UNCHANGED <<guests, approved, down, cut, cl, view, allowed>>
    BY <1>4 DEF ReceiveClose, browser
  <2>2. sock'[g] = "ended" \/ sock'[g] = sock[g]
    BY <1>4 DEF ReceiveClose, Types, ServerTypes, Conn
  <2>3. Colored(down[g])' = Colored(down[g])
    BY <2>1 DEF Colored
  <2>4. QED
    BY <2>1, <2>2, <2>3 DEF Member, Approved
<1>5. QED
  BY <1>1, <1>2, <1>3, <1>4 DEF ServerStep

LEMMA SockCloseMember ==
  ASSUME Types, NEW g \in Guest, Member(g), NEW c \in Conn, SockClose(c)
  PROVE  Member(g)'
<1>1. /\ view[g] = "none" => down'[g] = <<>>
      /\ Colored(down'[g]) => Colored(down[g])
  <2>1. CASE c \in guests
    <3>1. c \in Guest /\ down' = Written(To(hosts, About("guestLeft", c)))
      BY <2>1 DEF SockClose, Types, ServerTypes
    <3>2. hosts \cap Guest = {}
      BY Separate DEF Types, ServerTypes
    <3>3. OutOK(To(hosts, About("guestLeft", c))) /\ ~Colored(To(hosts, About("guestLeft", c))[g])
      BY <3>1, <3>2, ToOK, ToOthers, GuestMessages, ColoredShort
    <3>4. QED
      BY <3>1, <3>3, WrittenTo DEF Member, Hears
  <2>2. CASE c \notin guests
    BY <2>2 DEF SockClose, Member
  <2>3. QED
    BY <2>1, <2>2
<1>2. UNCHANGED <<approved, cl, view, allowed>> /\ guests' = guests \ {c}
  BY DEF SockClose, browser
<1>3. sock'[g] = IF g = c THEN "closed" ELSE sock[g]
  BY DEF SockClose, Types, ServerTypes, Conn
<1>4. g \in cut' <=> g \in cut
  BY Separate DEF SockClose
<1>5. g = c => g \in cut \/ cl[g] \in {"closing", "closed"}
  BY DEF SockClose
<1>6. Colored(down[g])' = Colored(down'[g])
  BY DEF Colored
<1>7. QED
  BY <1>1, <1>2, <1>3, <1>4, <1>5, <1>6 DEF Member, Approved

(* What tabs do concerns their own connections. *)
LEMMA TabMember ==
  ASSUME Types, NEW g \in Guest, Member(g), NEW t \in Tab,
         \/ TabStep(t) \/ Reload(t)
         \/ \E h \in Guest, type \in {"approve", "deny"} : Decide(t, h, type)
         \/ \E b \in Button : HostClick(t, b)
  PROVE  Member(g)'
<1>1. ASSUME NEW others, ClearTimers(t, others), others[g] = cl[g], DOMAIN others = Conn
      PROVE  cl'[g] = cl[g] /\ down'[g] = down[g] /\ (g \in cut' <=> g \in cut)
  <2>1. CASE ws[t] = None
    BY <1>1, <2>1 DEF ClearTimers, net
  <2>2. CASE ws[t] # None
    <3>1. ws[t] \in HostConn /\ ws[t] # g
      BY <2>2, Separate DEF Types, PageTypes
    <3>2. Shut(ws[t]) /\ cl' = [others EXCEPT ![ws[t]] = "closed"]
      BY <1>1, <2>2 DEF ClearTimers
    <3>3. cl'[g] = cl[g]
      BY <1>1, <3>1, <3>2 DEF Conn
    <3>4. down'[g] = down[g]
      BY <3>1, <3>2 DEF Shut, Types, DownOK, Conn
    <3>5. g \in cut' <=> g \in cut
      BY <3>1, <3>2 DEF Shut
    <3>6. QED
      BY <3>3, <3>4, <3>5
  <2>3. QED
    BY <2>1, <2>2
<1>2. /\ cl'[g] = cl[g] /\ down'[g] = down[g] /\ (g \in cut' <=> g \in cut)
      /\ UNCHANGED <<server, view, allowed>>
  <2>1. CASE Refresh(t) \/ Serve(t)
    BY <2>1 DEF Refresh, Serve, net
  <2>2. CASE ShowLocked(t) \/ Reload(t)
    BY <1>1, <2>2 DEF ShowLocked, Reload, Types, LinkTypes
  <2>3. CASE ShowGranted(t)
    <3>1. PICK c \in HostConn : ClearTimers(t, [cl EXCEPT ![c] = "connecting"])
      BY <2>3 DEF ShowGranted
    <3>2. /\ [cl EXCEPT ![c] = "connecting"][g] = cl[g]
          /\ DOMAIN [cl EXCEPT ![c] = "connecting"] = Conn
      BY Separate DEF Types, LinkTypes, Conn
    <3>3. QED
      BY <1>1, <2>3, <3>1, <3>2 DEF ShowGranted
  <2>4. CASE TabReceive(t)
    <3>1. ws[t] \in HostConn /\ ws[t] # g
      BY <2>4, Separate DEF TabReceive, Types, PageTypes
    <3>2. cl'[g] = cl[g]
      BY <2>4, <3>1 DEF TabReceive, Types, LinkTypes, Conn
    <3>3. down'[g] = down[g]
      BY <2>4, <3>1 DEF TabReceive, Types, DownOK, Conn
    <3>4. QED
      BY <2>4, <3>2, <3>3 DEF TabReceive
  <2>5. CASE \E h \in Guest, type \in {"approve", "deny"} : Decide(t, h, type)
    BY <2>5 DEF Decide
  <2>6. CASE \E b \in Button : HostClick(t, b)
    BY <2>6 DEF HostClick, browser
  <2>7. QED
    BY <2>1, <2>2, <2>3, <2>4, <2>5, <2>6 DEF TabStep
<1>3. QED
  BY <1>2, SameMember DEF server, Same, Member

(* What another guest does *)
LEMMA OtherGuestMember ==
  ASSUME Types, NEW g \in Guest, Member(g), NEW h \in Guest, h # g,
         \/ GuestReceive(h) \/ Connect(h) \/ Leave(h) \/ Cut(h) \/ Watchdog(h) \/ GiveUp(h)
         \/ Rejoin(h)
  PROVE  Member(g)'
<1>0. g \in Conn /\ h \in Conn
  BY DEF Conn
<1>1. down'[g] = down[g]
  BY <1>0 DEF GuestReceive, Connect, Leave, Cut, Watchdog, GiveUp, Rejoin, Shut, net, Types, DownOK
<1>2. cl'[g] = cl[g]
  BY <1>0 DEF GuestReceive, Connect, Leave, Cut, Watchdog, GiveUp, Rejoin, browser, Types, LinkTypes
<1>3. view'[g] = view[g]
  BY DEF GuestReceive, Connect, Leave, Cut, Watchdog, GiveUp, Rejoin, browser, Types, PageTypes
<1>4. g \in cut' <=> g \in cut
  BY DEF GuestReceive, Connect, Leave, Cut, Watchdog, GiveUp, Rejoin, Shut, net
<1>5. /\ UNCHANGED <<guests, sock>>
      /\ g \in approved' <=> g \in approved
      /\ g \in allowed' <=> g \in allowed
  BY DEF GuestReceive, Connect, Leave, Cut, Watchdog, GiveUp, Rejoin, server
<1>6. QED
  BY <1>1, <1>2, <1>3, <1>4, <1>5, SameMember DEF Same, Member

LEMMA GuestMember ==
  ASSUME Types, NEW g \in Guest, Member(g),
         \/ GuestReceive(g) \/ Connect(g) \/ Leave(g) \/ Cut(g) \/ Watchdog(g) \/ GiveUp(g)
         \/ Rejoin(g)
  PROVE  Member(g)'
<1>0. g \in Conn /\ down[g] \in Seq(ToGuest) /\ Colored(down[g])' = Colored(down'[g])
  BY DEF Conn, Types, DownOK, OutOK, Colored
<1>1. CASE GuestReceive(g)
  <2> DEFINE m == Head(down[g])
  <2>1. down[g] # <<>> /\ down'[g] = Tail(down[g]) /\ view'[g] = GuestViews(g, m)
        /\ cl'[g] \in {"closed", "open"}
    BY <1>0, <1>1 DEF GuestReceive, Types, DownOK, PageTypes, LinkTypes
  <2>2. m \in ToGuest
    BY <1>0, <2>1
  <2>3. Colored(down'[g]) => Colored(down[g])
    BY <1>0, <2>1, ColoredTail
  <2>4. m.type = "approved" => Colored(down[g])
    <3>1. m.type = "approved" => "colors" \in DOMAIN m
      BY <2>2 DEF ToGuest
    <3>2. QED
      BY <1>0, <2>1, <3>1, ColoredTail
  <2> HIDE DEF m
  <2>5. view[g] # "none"
    BY <2>1 DEF Member
  <2>6. view'[g] # "none" /\ (view'[g] = "buttons" => view[g] = "buttons" \/ m.type = "approved")
    BY <2>1, <2>5 DEF GuestViews
  <2>7. UNCHANGED <<guests, approved, sock, cut, allowed>>
    BY <1>1 DEF GuestReceive, server
  <2>8. QED
    BY <1>0, <2>1, <2>3, <2>4, <2>6, <2>7 DEF Member, Approved
<1>2. CASE Connect(g)
  <2>1. view[g] = "none" /\ view'[g] = "loading" /\ UNCHANGED <<server, net, allowed>>
    BY <1>2 DEF Connect, Types, PageTypes
  <2>2. QED
    BY <1>0, <2>1 DEF server, net, Member, Approved
<1>3. CASE Leave(g) \/ Watchdog(g) \/ GiveUp(g)
  <2>1. cl'[g] \in {"closing", "closed"} /\ view'[g] \in {view[g], "code", "gone"}
    BY <1>0, <1>3 DEF Leave, Watchdog, GiveUp, Types, LinkTypes, PageTypes
  <2>2. down'[g] \in {down[g], <<>>} /\ UNCHANGED <<server, allowed>>
    BY <1>0, <1>3 DEF Leave, Watchdog, GiveUp, Shut, net, Types, DownOK
  <2>3. cl[g] # "closed"
    BY <1>3 DEF Leave, Watchdog, GiveUp
  <2>4. QED
    BY <1>0, <2>1, <2>2, <2>3, ColoredShort DEF server, Member, Approved
<1>4. CASE Cut(g)
  <2>1. down'[g] = <<>> /\ g \in cut' /\ UNCHANGED <<server, view, cl, allowed>>
    BY <1>0, <1>4 DEF Cut, browser, Types, DownOK
  <2>2. QED
    BY <1>0, <2>1, ColoredShort DEF server, Member, Approved
<1>5. CASE Rejoin(g)
  <2>1. /\ cl[g] = "closed" /\ sock[g] = "closed" /\ down[g] = <<>>
        /\ UNCHANGED <<guests, sock, down, cl>> /\ view'[g] = "none"
        /\ g \notin approved' /\ g \notin allowed'
    BY <1>5 DEF Rejoin, Forgotten, Types, PageTypes
  <2>2. QED
    BY <1>0, <2>1, ColoredShort DEF Member, Approved
<1>6. QED
  BY <1>1, <1>2, <1>3, <1>4, <1>5

(* Guests are in the map only while a session is live. *)
Closed == ~live => guests = {}
Members == Closed /\ \A g \in Guest : Member(g)

LEMMA ClosedStep == Closed /\ [Next]_vars => Closed'
<1> SUFFICES ASSUME Closed, [Next]_vars PROVE Closed'
  OBVIOUS
<1>1. CASE \E asking \in {{}} \cup {{t} : t \in Tab} : StartSession(asking)
  BY <1>1 DEF StartSession, Closed
<1>2. CASE EndSession \/ Restart
  BY <1>2 DEF EndSession, Restart, Closed
<1>3. CASE \E c \in HostConn : AddHost(c)
  BY <1>3 DEF AddHost, Closed
<1>4. CASE \E c \in Conn : ServerStep(c) \/ SockClose(c)
  <2>1. guests' \subseteq guests /\ live' = live
    BY <1>4 DEF ServerStep, ReceiveCycle, ReceiveApprove, ReceiveDeny, ReceiveClose, SockClose
  <2>2. QED
    BY <2>1 DEF Closed
<1>5. CASE \E t \in Tab : TabStep(t) \/ Reload(t)
  BY <1>5 DEF TabStep, Refresh, Serve, ShowLocked, ShowGranted, TabReceive, Reload, server, Closed
<1>6. CASE \/ \E t \in Tab, g \in Guest, type \in {"approve", "deny"} : Decide(t, g, type)
           \/ \E t \in Tab, b \in Button : HostClick(t, b)
           \/ \E g \in Guest, b \in Button : GuestClick(g, b)
  BY <1>6 DEF Decide, HostClick, GuestClick, server, Closed
<1>7. CASE \E g \in Guest : AddGuest(g)
  BY <1>7 DEF AddGuest, Closed
<1>8. CASE \E g \in Guest : \/ Refuse(g) \/ GuestReceive(g) \/ Watchdog(g) \/ GiveUp(g)
                            \/ Connect(g) \/ Leave(g) \/ Cut(g) \/ Rejoin(g)
  BY <1>8 DEF Refuse, GuestReceive, Watchdog, GiveUp, Connect, Leave, Cut, Rejoin, server, Closed
<1>9. CASE UNCHANGED vars
  BY <1>9 DEF vars, server, Closed
<1>10. QED
  BY <1>1, <1>2, <1>3, <1>4, <1>5, <1>6, <1>7, <1>8, <1>9 DEF Next, GuestStep

LEMMA MembersStep == Types /\ Types' /\ Members /\ [Next]_vars => Members'
<1> SUFFICES ASSUME Types, Types', Members, [Next]_vars, NEW g \in Guest PROVE Member(g)'
  BY ClosedStep DEF Members
<1>0. Member(g)
  BY DEF Members
<1>1. CASE \E asking \in {{}} \cup {{t} : t \in Tab} : StartSession(asking)
  BY <1>0, <1>1, SessionMember
<1>2. CASE EndSession
  BY <1>0, <1>2, SessionMember
<1>3. CASE Restart
  BY <1>0, <1>3, RestartMember
<1>4. CASE \E c \in HostConn : AddHost(c)
  BY <1>0, <1>4, UpgradeMember
<1>5. CASE \E c \in Conn : ServerStep(c) \/ SockClose(c)
  BY <1>0, <1>5, ServerStepMember, SockCloseMember
<1>6. CASE \/ \E t \in Tab : TabStep(t) \/ Reload(t)
           \/ \E t \in Tab, h \in Guest, type \in {"approve", "deny"} : Decide(t, h, type)
           \/ \E t \in Tab, b \in Button : HostClick(t, b)
  BY <1>0, <1>6, TabMember
<1>7. CASE \E h \in Guest : AddGuest(h) \/ Refuse(h)
  BY <1>0, <1>7, UpgradeMember
<1>8. CASE \E h \in Guest : \/ GuestReceive(h) \/ Watchdog(h) \/ GiveUp(h)
                            \/ Connect(h) \/ Leave(h) \/ Cut(h) \/ Rejoin(h)
  BY <1>0, <1>8, OtherGuestMember, GuestMember
<1>9. CASE \E h \in Guest, b \in Button : GuestClick(h, b)
  BY <1>0, <1>9, SameMember DEF GuestClick, server, browser, Same, Member
<1>10. CASE UNCHANGED vars
  BY <1>0, <1>10, SameMember DEF vars, server, net, browser, Same, Member
<1>11. QED
  BY <1>1, <1>2, <1>3, <1>4, <1>5, <1>6, <1>7, <1>8, <1>9, <1>10 DEF Next, GuestStep

LEMMA MembersAlways == Spec => [](Types /\ Members)
<1>1. Init => Members
  BY ColoredShort DEF Init, Members, Closed, Member, Approved, Conn
<1>2. QED
  BY <1>1, TypesInit, TypesStep, MembersStep, PTL DEF Spec

(* Whoever sees the buttons, or is sent their colors, was allowed while he      *)
(* waited, through disconnections, restarts and a page that comes back.         *)
THEOREM BoardIsForTheAllowed == Spec => []OnlyAllowedSee
<1>1. Members => OnlyAllowedSee
  BY DEF Members, Member, OnlyAllowedSee, Sees, Colored
<1>2. QED
  BY <1>1, MembersAlways, PTL

(* Of two decisions the first stands: an approved guest leaves the map only     *)
(* with the session or with his connection.                                     *)
THEOREM FirstDecisionStands == Spec => AllowStands
<1> DEFINE Stands == \A g \in Approved : g \in guests' \/ ~live' \/ sock'[g] = "closed"
<1>1. Types /\ [Next]_vars => [Stands]_vars
  <2> SUFFICES ASSUME Types, [Next]_vars, NEW g \in Approved
               PROVE  g \in guests' \/ ~live' \/ sock'[g] = "closed"
    OBVIOUS
  <2>0. g \in guests /\ g \notin Pending /\ g \in Conn
    BY DEF Approved, Pending, Types, ServerTypes, Conn
  <2>1. CASE EndSession \/ Restart
    BY <2>0, <2>1 DEF EndSession, Restart
  <2>2. CASE \E c \in Conn : SockClose(c)
    <3>1. PICK c \in Conn : SockClose(c)
      BY <2>2
    <3>2. guests' = guests \ {c} /\ sock' = [sock EXCEPT ![c] = "closed"]
      BY <3>1 DEF SockClose
    <3>3. QED
      BY <2>0, <3>2 DEF Types, ServerTypes
  <2>3. CASE \E c \in Conn : ServerStep(c)
    BY <2>0, <2>3 DEF ServerStep, ReceiveCycle, ReceiveApprove, ReceiveDeny, ReceiveClose, Undecided
  <2>4. CASE \E h \in Guest : AddGuest(h)
    BY <2>0, <2>4 DEF AddGuest
  <2>5. CASE UNCHANGED guests
    BY <2>0, <2>5
  <2>6. \/ EndSession \/ Restart \/ \E c \in Conn : SockClose(c) \/ ServerStep(c)
        \/ \E h \in Guest : AddGuest(h)
        \/ UNCHANGED guests
    BY DEF Next, StartSession, AddHost, TabStep, Refresh, Serve, ShowLocked, ShowGranted,
       TabReceive, Reload, Decide, HostClick, GuestStep, Refuse, GuestReceive, Watchdog, GiveUp,
       Connect, Leave, Cut, Rejoin, GuestClick, server, vars
  <2>7. QED
    BY <2>1, <2>2, <2>3, <2>4, <2>5, <2>6
<1>2. QED
  BY <1>1, TypesAlways, PTL DEF Spec, AllowStands

-----------------------------------------------------------------------------
(* Realtime implements GuestRoom *)

RoomStep == Membership!Next \/ UNCHANGED Membership!vars

LEMMA SameRoom ==
  ASSUME live' = live, \A g \in Guest : StatusOf(g)' = StatusOf(g)
  PROVE  RoomStep
  BY DEF RoomStep, Membership!vars

(* Who goes from one status to another does so in a live session. *)
LEMMA BecomesRoom ==
  ASSUME live, live' = live, NEW h \in Guest, NEW from, NEW to,
         StatusOf(h) = from, StatusOf(h)' = to,
         \A g \in Guest : g # h => StatusOf(g)' = StatusOf(g),
         \/ from = "out" /\ to = "pending"
         \/ from = "pending" /\ to = "approved"
         \/ from \in {"pending", "approved"} /\ to = "out"
  PROVE  RoomStep
<1>1. [g \in Guest |-> StatusOf(g)]' = [[g \in Guest |-> StatusOf(g)] EXCEPT ![h] = to]
  OBVIOUS
<1>2. Membership!Becomes(h, from, to)
  BY <1>1 DEF Membership!Becomes
<1>3. QED
  BY <1>2 DEF RoomStep, Membership!Next, Membership!Join, Membership!Approve, Membership!Leave

(* A step that takes at most one guest out *)
LEMMA RemovesRoom ==
  ASSUME Members, guests \subseteq Guest, NEW h, guests' = guests \ {h},
         UNCHANGED <<live, approved>>
  PROVE  RoomStep
<1>1. CASE h \in guests
  <2>1. live /\ h \in Guest
    BY <1>1 DEF Members, Closed
  <2>2. StatusOf(h) \in {"pending", "approved"} /\ StatusOf(h)' = "out"
    BY <1>1 DEF StatusOf, Approved
  <2>3. \A g \in Guest : g # h => StatusOf(g)' = StatusOf(g)
    BY DEF StatusOf, Approved
  <2>4. QED
    BY <2>1, <2>2, <2>3, BecomesRoom
<1>2. CASE h \notin guests
  BY <1>2, SameRoom DEF StatusOf, Approved
<1>3. QED
  BY <1>1, <1>2

LEMMA ServerStepRoom ==
  ASSUME Types, Members, NEW c \in Conn, ServerStep(c)
  PROVE  RoomStep
<1> DEFINE m == Head(up[c])
<1>0. guests \subseteq Guest
  BY DEF Types, ServerTypes
<1>1. CASE ReceiveCycle(c) \/ ReceiveClose(c)
  BY <1>1, SameRoom DEF ReceiveCycle, ReceiveClose, StatusOf, Approved
<1>2. CASE ReceiveApprove(c)
  <2> HIDE DEF m
  <2>1. CASE m.guest \in Pending /\ approved' = approved \cup {m.guest}
    <3>1. m.guest \in guests /\ m.guest \notin approved /\ UNCHANGED <<live, guests>>
      BY <1>2, <2>1 DEF Pending, ReceiveApprove
    <3>2. live /\ m.guest \in Guest
      BY <1>0, <3>1 DEF Members, Closed
    <3>3. PICK h \in Guest : h = m.guest
      BY <3>2
    <3>4. StatusOf(h) = "pending" /\ StatusOf(h)' = "approved"
      BY <2>1, <3>1, <3>3 DEF StatusOf, Approved
    <3>5. \A g \in Guest : g # h => StatusOf(g)' = StatusOf(g)
      BY <2>1, <3>1, <3>3 DEF StatusOf, Approved
    <3>6. QED
      BY <3>1, <3>2, <3>4, <3>5, BecomesRoom
  <2>2. CASE UNCHANGED approved
    BY <1>2, <2>2, SameRoom DEF ReceiveApprove, StatusOf, Approved
  <2>3. QED
    BY <1>2, <2>1, <2>2 DEF ReceiveApprove, Undecided, m
<1>3. CASE ReceiveDeny(c)
  <2> HIDE DEF m
  <2>1. CASE guests' = guests \ {m.guest}
    BY <1>0, <1>3, <2>1, RemovesRoom DEF ReceiveDeny
  <2>2. CASE UNCHANGED guests
    BY <1>3, <2>2, SameRoom DEF ReceiveDeny, StatusOf, Approved
  <2>3. QED
    BY <1>3, <2>1, <2>2 DEF ReceiveDeny, m
<1>4. QED
  BY <1>1, <1>2, <1>3 DEF ServerStep

(* The upgraded guest was not in the map, and is not approved from before. *)
LEMMA AddGuestRoom ==
  ASSUME Members, NEW h \in Guest, AddGuest(h)
  PROVE  RoomStep
<1>1. h \notin guests /\ h \notin approved /\ live
  BY DEF Members, Member, AddGuest, Upgradable
<1>2. guests' = guests \cup {h} /\ UNCHANGED <<live, approved>>
  BY DEF AddGuest
<1>3. StatusOf(h) = "out" /\ StatusOf(h)' = "pending"
  BY <1>1, <1>2 DEF StatusOf, Approved
<1>4. \A g \in Guest : g # h => StatusOf(g)' = StatusOf(g)
  BY <1>2 DEF StatusOf, Approved
<1>5. QED
  BY <1>1, <1>2, <1>3, <1>4, BecomesRoom

LEMMA EmptiesRoom ==
  ASSUME guests' = {}, live' \in {live, FALSE}
  PROVE  RoomStep
<1>1. [g \in Guest |-> StatusOf(g)]' = Membership!Empty
  BY DEF StatusOf, Approved, Membership!Empty
<1>2. CASE live' = live
  BY <1>1, <1>2 DEF RoomStep, Membership!Next, Membership!Restart
<1>3. CASE live' = FALSE
  BY <1>1, <1>3 DEF RoomStep, Membership!Next, Membership!End
<1>4. QED
  BY <1>2, <1>3

LEMMA NextRoom == Types /\ Members /\ [Next]_vars => RoomStep
<1> SUFFICES ASSUME Types, Members, [Next]_vars PROVE RoomStep
  OBVIOUS
<1>1. CASE \E asking \in {{}} \cup {{t} : t \in Tab} : StartSession(asking)
  <2>1. [g \in Guest |-> StatusOf(g)]' = [g \in Guest |-> StatusOf(g)] /\ live' = TRUE
    BY <1>1 DEF StartSession, StatusOf, Approved
  <2>2. QED
    BY <2>1 DEF RoomStep, Membership!Next, Membership!Start
<1>2. CASE EndSession \/ Restart
  BY <1>2, EmptiesRoom DEF EndSession, Restart
<1>3. CASE \E c \in Conn : SockClose(c)
  BY <1>3, RemovesRoom DEF SockClose, Types, ServerTypes
<1>4. CASE \E c \in Conn : ServerStep(c)
  BY <1>4, ServerStepRoom
<1>5. CASE \E h \in Guest : AddGuest(h)
  BY <1>5, AddGuestRoom
<1>6. CASE \E h \in Guest : Rejoin(h)
  <2>1. PICK h \in Guest : Rejoin(h)
    BY <1>6
  <2>2. h \notin guests
    BY <2>1 DEF Rejoin, Forgotten, Members, Member
  <2>3. QED
    BY <2>1, <2>2, SameRoom DEF Rejoin, StatusOf, Approved
<1>7. CASE UNCHANGED <<live, guests, approved>>
  BY <1>7, SameRoom DEF StatusOf, Approved
<1>8. \/ \E asking \in {{}} \cup {{t} : t \in Tab} : StartSession(asking)
      \/ EndSession \/ Restart \/ \E c \in Conn : SockClose(c) \/ ServerStep(c)
      \/ \E h \in Guest : AddGuest(h) \/ Rejoin(h)
      \/ UNCHANGED <<live, guests, approved>>
  BY DEF Next, AddHost, TabStep, Refresh, Serve, ShowLocked, ShowGranted, TabReceive, Reload,
     Decide, HostClick, GuestStep, Refuse, GuestReceive, Watchdog, GiveUp, Connect, Leave, Cut,
     GuestClick, server, vars
<1>9. QED
  BY <1>1, <1>2, <1>3, <1>4, <1>5, <1>6, <1>7, <1>8

(* The room is a GuestRoom, the one that HostSession implements with its own    *)
(* idea of a session: who is in the map joined a live session, was pending      *)
(* before he was approved, and is out with the session or the process.          *)
THEOREM RealtimeImplementsRoom == Spec => ImplementsRoom
<1>1. Init => Membership!Init
  BY DEF Init, Membership!Init, Membership!Empty, StatusOf, Approved
<1>2. Types /\ Members /\ [Next]_vars => [Membership!Next]_(Membership!vars)
  BY NextRoom DEF RoomStep
<1>3. QED
  BY <1>1, <1>2, MembersAlways, PTL DEF Spec, ImplementsRoom, Membership!Spec
=============================================================================
