------------------------------ MODULE Realtime ------------------------------
(***************************************************************************)
(* The room of a live session: the host's browser tabs and the LAN guests,  *)
(* each on a WebSocket, and the button colors they share (realtime.mjs on   *)
(* the sockets of ws.mjs; the pages' scripts app.js and guest.js).          *)
(*                                                                          *)
(* Connections are ordered channels. A message is one frame; a "close"      *)
(* stands for the CLOSE frame with the end of the stream after it. A guest  *)
(* page opens one connection, so a guest is its connection, and its name    *)
(* stands for another once nothing is left of it (Rejoin); a tab opens a    *)
(* new one whenever it shows the session. When the session starts and ends  *)
(* is HostSession's business; here it may do either at any time.            *)
(***************************************************************************)
EXTENDS Integers, Sequences, SequencesExt

CONSTANTS
  Tab,          \* the host's tabs
  HostConn,     \* their connections, used again once they are closed
  Guest,        \* guest pages, each with its one connection
  Button,       \* the color buttons
  PaletteSize,  \* PALETTE.length
  None,         \* JavaScript's null
  MaxEvents     \* bound: clicks of a button, starts of a session and of the process

ASSUME RealtimeAssumption ==
  /\ PaletteSize \in Nat \ {0}
  /\ HostConn \cap (Guest \cup Tab) = {} /\ Guest \cap Tab = {}
  /\ None \notin HostConn \cup Guest
  /\ MaxEvents \in Nat

Conn == HostConn \cup Guest
Colors == [Button -> 0..PaletteSize - 1]
White == [b \in Button |-> 0]

VARIABLES
  (* the CLI process *)
  live,      \* a session is active
  colors,    \* colors
  hosts,     \* hosts: the connections of tabs
  guests,    \* guests: those in the map, pending or approved
  approved,  \* the guests whose object says approved; it outlives the map's entry
  sock,      \* sock[c] \in {"closed", "open", "ended"}; ended: socket.end() was called
  (* the network *)
  down, up,  \* what is on its way from and to the process on each connection
  cut,       \* connections whose other end is gone without a word
  (* the browsers *)
  cl,        \* cl[c]: readyState, "closed" also before it is opened
  page,      \* page[t] \in {"locked", "granted"}
  ws,        \* ws[t]: the tab's connection, None also when it is closed
  rows,      \* rows[t]: the devices in the list of join requests
  fetches,   \* fetches[t]: requests for the session, "asked" or with their answer
  view,      \* view[g]: "none" before the page is opened, "gone" when it is left
  shown,     \* the colors of the buttons of a tab or a guest
  (* bounds and history *)
  events,    \* how many of the bounded events there have been
  allowed    \* history: guests for whom Allow was the first decision to arrive

server == <<live, colors, hosts, guests, approved, sock>>
net == <<down, up, cut>>
tabs == <<page, ws, rows, fetches>>
browser == <<cl, tabs, view, shown>>
vars == <<server, net, browser, events, allowed>>

-----------------------------------------------------------------------------
(* Messages *)

ColorsMsg(cs) == [type |-> "colors", colors |-> cs]
ApprovedMsg(cs) == [type |-> "approved", colors |-> cs]
HostHello(cs, waiting) == [type |-> "hello", colors |-> cs, pending |-> waiting]
About(type, g) == [type |-> type, guest |-> g]        \* joinRequest, guestLeft; approve, deny
CycleMsg(b) == [type |-> "cycle", button |-> b]
Plain(type) == [type |-> type]   \* guest's hello, denied, sessionEnded, close; lost: the socket failed

Close == Plain("close")

To(conns, m) == [c \in Conn |-> IF c \in conns THEN <<m>> ELSE <<>>]

(* conn.send: what is written to an ended socket, or to a browser that does   *)
(* not listen any more, is lost.                                              *)
Hears(c) == cl[c] \in {"connecting", "open"} /\ c \notin cut
Writable(c) == sock[c] # "ended"

Written(out) == [c \in Conn |-> IF Hears(c) /\ Writable(c) THEN down[c] \o out[c] ELSE down[c]]

(* ws.send: the process reads on after it has ended its own side. *)
Uploaded(c, m) == IF c \in cut \/ sock[c] = "closed" THEN up ELSE [up EXCEPT ![c] = Append(@, m)]

-----------------------------------------------------------------------------
(* realtime.mjs *)

Approved == guests \cap approved
Pending == guests \ approved

(* The tab whose code was accepted, if it was a tab's, asks for the session. *)
Accepted(asking) ==
  /\ \A t \in asking : page[t] = "locked"
  /\ fetches' = [t \in Tab |-> IF t \in asking THEN fetches[t] \cup {"asked"} ELSE fetches[t]]

(* Faulty variants, named <definition>_<fault>, are never used by Next. *)
Room_Everybody == hosts \cup guests
StartSession_Silent(asking) ==
  /\ Accepted(asking)
  /\ events < MaxEvents
  /\ events' = events + 1
  /\ live' = TRUE
  /\ colors' = White
  /\ UNCHANGED <<hosts, guests, approved, sock, net, cl, page, ws, rows, view, shown, allowed>>

(* whom broadcastColors writes to *)
Room == hosts \cup Approved

(* handleValidate has a verified token, and answers. *)
StartSession(asking) ==
  /\ Accepted(asking)
  /\ events < MaxEvents
  /\ events' = events + 1
  /\ live' = TRUE
  /\ colors' = White
  /\ down' = Written(To(Room, ColorsMsg(White)))
  /\ UNCHANGED <<hosts, guests, approved, sock, up, cut, cl, page, ws, rows, view, shown, allowed>>

EndSession_KeepsMap ==
  /\ live
  /\ live' = FALSE
  /\ colors' = White
  /\ down' = Written([c \in Conn |-> CASE c \in hosts -> <<Plain("sessionEnded")>>
                                       [] c \in guests -> <<Plain("sessionEnded"), Close>>
                                       [] OTHER -> <<>>])
  /\ sock' = [c \in Conn |-> IF c \in guests THEN "ended" ELSE sock[c]]
  /\ UNCHANGED <<hosts, guests, approved, up, cut, browser, events, allowed>>

EndSession ==
  /\ live
  /\ live' = FALSE
  /\ colors' = White
  /\ down' = Written([c \in Conn |-> CASE c \in hosts -> <<Plain("sessionEnded")>>
                                       [] c \in guests -> <<Plain("sessionEnded"), Close>>
                                       [] OTHER -> <<>>])
  /\ sock' = [c \in Conn |-> IF c \in guests THEN "ended" ELSE sock[c]]
  /\ guests' = {}
  /\ UNCHANGED <<hosts, approved, up, cut, browser, events, allowed>>

(* The upgrade request arrives; the other end may have given up meanwhile. *)
Upgradable(c) == cl[c] = "connecting" /\ sock[c] = "closed" /\ down[c] = <<>> /\ c \notin cut

AddHost_NoPending(c) ==
  /\ Upgradable(c)
  /\ sock' = [sock EXCEPT ![c] = "open"]
  /\ hosts' = hosts \cup {c}
  /\ down' = Written(To({c}, HostHello(colors, {})))
  /\ UNCHANGED <<live, colors, guests, approved, up, cut, browser, events, allowed>>

AddHost(c) ==
  /\ Upgradable(c)
  /\ sock' = [sock EXCEPT ![c] = "open"]
  /\ hosts' = hosts \cup {c}
  /\ down' = Written(To({c}, HostHello(colors, Pending)))
  /\ UNCHANGED <<live, colors, guests, approved, up, cut, browser, events, allowed>>

AddGuest(g) ==
  /\ Upgradable(g) /\ live
  /\ sock' = [sock EXCEPT ![g] = "open"]
  /\ guests' = guests \cup {g}
  /\ down' = Written([c \in Conn |-> CASE c = g -> <<Plain("hello")>>
                                       [] c \in hosts -> <<About("joinRequest", g)>>
                                       [] OTHER -> <<>>])
  /\ UNCHANGED <<live, colors, hosts, approved, up, cut, browser, events, allowed>>

(* shouldAccept says no: 403 *)
Refuse(g) ==
  /\ Upgradable(g) /\ ~live
  /\ down' = Written(To({g}, Plain("lost")))
  /\ UNCHANGED <<server, up, cut, browser, events, allowed>>

(* A message on c, handled also after socket.end() *)
Receives(c, type) ==
  /\ up[c] # <<>> /\ Head(up[c]).type = type
  /\ up' = [up EXCEPT ![c] = Tail(@)]

Cycle_Overflows(b) == [colors EXCEPT ![b] = @ + 1]

Cycle(b) == [colors EXCEPT ![b] = (@ + 1) % PaletteSize]

ReceiveCycle(c) ==
  /\ Receives(c, "cycle")
  /\ c \in Guest => c \in approved
  /\ colors' = Cycle(Head(up[c]).button)
  /\ down' = Written(To(Room, ColorsMsg(colors')))
  /\ UNCHANGED <<live, hosts, guests, approved, sock, cut, browser, events, allowed>>

Undecided_InRoom(g) == g \in guests

(* whom a decision still concerns: g && g.state === 'pending' *)
Undecided(g) == g \in Pending

ReceiveApprove(c) ==
  /\ Receives(c, "approve")
  /\ LET g == Head(up[c]).guest IN
       IF Undecided(g)
         THEN /\ approved' = approved \cup {g}
              /\ down' = Written(To({g}, ApprovedMsg(colors)))
              /\ allowed' = IF g \in Pending THEN allowed \cup {g} ELSE allowed
         ELSE UNCHANGED <<approved, down, allowed>>
  /\ UNCHANGED <<live, colors, hosts, guests, sock, cut, browser, events>>

ReceiveDeny(c) ==
  /\ Receives(c, "deny")
  /\ LET g == Head(up[c]).guest IN
       IF Undecided(g)
         THEN /\ guests' = guests \ {g}
              /\ sock' = [sock EXCEPT ![g] = "ended"]
              /\ down' = Written([d \in Conn |-> IF d = g THEN <<Plain("denied"), Close>> ELSE <<>>])
         ELSE UNCHANGED <<guests, sock, down>>
  /\ UNCHANGED <<live, colors, hosts, approved, cut, browser, events, allowed>>

(* The browser's CLOSE frame: answered, and the socket ended *)
ReceiveClose(c) ==
  /\ Receives(c, "close")
  /\ sock' = [sock EXCEPT ![c] = "ended"]
  /\ UNCHANGED <<live, colors, hosts, guests, approved, down, cut, browser, events, allowed>>

SockClose_KeepsHost(c) ==
  /\ sock[c] # "closed" /\ up[c] = <<>>
  /\ c \in cut \/ (sock[c] = "ended" /\ cl[c] \in {"closing", "closed"})
  /\ sock' = [sock EXCEPT ![c] = "closed"]
  /\ guests' = guests \ {c}
  /\ hosts' = hosts
  /\ down' = IF c \in guests THEN Written(To(hosts, About("guestLeft", c))) ELSE down
  /\ cut' = cut \ HostConn
  /\ UNCHANGED <<live, colors, approved, up, browser, events, allowed>>

(* The socket's close event: both sides have ended, or a write failed, at the *)
(* latest that of the next ping.                                              *)
SockClose(c) ==
  /\ sock[c] # "closed" /\ up[c] = <<>>
  /\ c \in cut \/ (sock[c] = "ended" /\ cl[c] \in {"closing", "closed"})
  /\ sock' = [sock EXCEPT ![c] = "closed"]
  /\ guests' = guests \ {c}
  /\ hosts' = hosts \ {c}
  /\ down' = IF c \in guests THEN Written(To(hosts, About("guestLeft", c))) ELSE down
  /\ cut' = cut \ ({c} \cap HostConn)
  /\ UNCHANGED <<live, colors, approved, up, browser, events, allowed>>

(* The process is killed and started again; it may find its session on disk. *)
Restart ==
  /\ events < MaxEvents
  /\ events' = events + 1
  /\ live' \in {live, FALSE}
  /\ colors' = White
  /\ hosts' = {} /\ guests' = {} /\ approved' = {}
  /\ sock' = [c \in Conn |-> "closed"]
  /\ down' = Written(To({c \in Conn : sock[c] # "closed"}, Plain("lost")))
  /\ up' = [c \in Conn |-> <<>>]
  /\ cut' = cut \ HostConn
  /\ fetches' = [t \in Tab |-> fetches[t] \ {"asked"}]
  /\ UNCHANGED <<cl, page, ws, rows, view, shown, allowed>>

-----------------------------------------------------------------------------
(* The host's page, app.js *)

(* The browser closes c: its CLOSE frame goes out, or, before the connection is *)
(* established, the process finds out by itself.                                 *)
Shut(c) ==
  /\ down' = [down EXCEPT ![c] = <<>>]
  /\ up' = IF cl[c] = "open" THEN Uploaded(c, Close) ELSE up
  /\ cut' = IF cl[c] = "connecting" /\ sock[c] = "open" THEN cut \cup {c} ELSE cut

(* clearTimers closes the tab's connection; then cl is as given, but for it *)
ClearTimers(t, others) ==
  IF ws[t] = None
    THEN cl' = others /\ UNCHANGED net
    ELSE Shut(ws[t]) /\ cl' = [others EXCEPT ![ws[t]] = "closed"]

Refresh_NoPoll(t) ==
  /\ page[t] = "granted" /\ ws[t] = None
  /\ fetches' = [fetches EXCEPT ![t] = @ \cup {"asked"}]
  /\ UNCHANGED <<server, net, cl, page, ws, rows, view, shown, events, allowed>>

(* refresh asks: the poll, the expiry timer or the SSE push, all of a granted page *)
Refresh(t) ==
  /\ page[t] = "granted"
  /\ fetches' = [fetches EXCEPT ![t] = @ \cup {"asked"}]
  /\ UNCHANGED <<server, net, cl, page, ws, rows, view, shown, events, allowed>>

(* sessionBody *)
SessionBody == IF live THEN "granted" ELSE "locked"

(* GET /api/local/session *)
Serve(t) ==
  /\ "asked" \in fetches[t]
  /\ fetches' = [fetches EXCEPT ![t] = (@ \ {"asked"}) \cup {SessionBody}]
  /\ UNCHANGED <<server, net, cl, page, ws, rows, view, shown, events, allowed>>

(* The answers of two requests may arrive in either order. *)
ShowLocked(t) ==
  /\ "locked" \in fetches[t]
  /\ fetches' = [fetches EXCEPT ![t] = @ \ {"locked"}]
  /\ page' = [page EXCEPT ![t] = "locked"]
  /\ ws' = [ws EXCEPT ![t] = None]
  /\ ClearTimers(t, cl)
  /\ UNCHANGED <<server, rows, view, shown, events, allowed>>

ShowGranted(t) ==
  /\ "granted" \in fetches[t]
  /\ fetches' = [fetches EXCEPT ![t] = @ \ {"granted"}]
  /\ page' = [page EXCEPT ![t] = "granted"]
  /\ rows' = [rows EXCEPT ![t] = {}]
  /\ \E c \in HostConn :
       /\ cl[c] = "closed" /\ sock[c] = "closed"
       /\ ws' = [ws EXCEPT ![t] = c]
       /\ ClearTimers(t, [cl EXCEPT ![c] = "connecting"])
  /\ UNCHANGED <<server, view, shown, events, allowed>>

(* The page is loaded anew: refresh asks, as at the start. *)
Reload(t) ==
  /\ page' = [page EXCEPT ![t] = "locked"]
  /\ ws' = [ws EXCEPT ![t] = None]
  /\ rows' = [rows EXCEPT ![t] = {}]
  /\ fetches' = [fetches EXCEPT ![t] = {"asked"}]
  /\ shown' = [shown EXCEPT ![t] = White]
  /\ ClearTimers(t, cl)
  /\ UNCHANGED <<server, view, events, allowed>>

(* What the messages of one connection leave of the list and the colors *)
RowsAfter(listed, m) ==
  CASE m.type = "hello" -> listed \cup m.pending
    [] m.type = "joinRequest" -> listed \cup {m.guest}
    [] m.type = "guestLeft" -> listed \ {m.guest}
    [] OTHER -> listed

ColorsAfter(cs, m) == IF "colors" \in DOMAIN m THEN m.colors ELSE cs

(* ws.onmessage, and ws.onclose when the socket is lost: both may call refresh *)
TabReceive(t) ==
  /\ ws[t] # None /\ down[ws[t]] # <<>>
  /\ LET c == ws[t]
         m == Head(down[c])
     IN /\ rows' = [rows EXCEPT ![t] = RowsAfter(@, m)]
        /\ shown' = [shown EXCEPT ![t] = ColorsAfter(@, m)]
        /\ fetches' = [fetches EXCEPT ![t] =
                         IF m.type \in {"sessionEnded", "lost"} THEN @ \cup {"asked"} ELSE @]
        /\ cl' = [cl EXCEPT ![c] = IF m.type = "lost" THEN "closed" ELSE "open"]
        /\ ws' = IF m.type = "lost" THEN [ws EXCEPT ![t] = None] ELSE ws
        /\ down' = [down EXCEPT ![c] = Tail(@)]
  /\ UNCHANGED <<server, up, cut, page, view, events, allowed>>

IsOpen(c) == c # None /\ cl[c] = "open"

(* Allow or Deny: the row goes also when nothing can be sent. *)
Decide(t, g, type) ==
  /\ g \in rows[t] /\ page[t] = "granted"
  /\ rows' = [rows EXCEPT ![t] = @ \ {g}]
  /\ up' = IF IsOpen(ws[t]) THEN Uploaded(ws[t], About(type, g)) ELSE up
  /\ UNCHANGED <<server, down, cut, cl, page, ws, fetches, view, shown, events, allowed>>

HostClick(t, b) ==
  /\ IsOpen(ws[t]) /\ events < MaxEvents
  /\ events' = events + 1
  /\ up' = Uploaded(ws[t], CycleMsg(b))
  /\ UNCHANGED <<server, down, cut, browser, allowed>>

-----------------------------------------------------------------------------
(* The guest's page, guest.js *)

(* The page is served to guests while a session is active only. *)
Connect(g) ==
  /\ view[g] = "none" /\ live
  /\ view' = [view EXCEPT ![g] = "loading"]
  /\ cl' = [cl EXCEPT ![g] = "connecting"]
  /\ UNCHANGED <<server, net, tabs, shown, events, allowed>>

GuestViews_NoOnClose(g, m) ==
  CASE m.type = "approved" -> "buttons"
    [] m.type \in {"denied", "sessionEnded"} -> "code"
    [] OTHER -> view[g]

(* The view after a message; fallbackToCode after onclose *)
GuestViews(g, m) ==
  CASE m.type = "approved" -> "buttons"
    [] m.type \in {"denied", "sessionEnded", "close", "lost"} -> "code"
    [] OTHER -> view[g]

GuestReceive(g) ==
  /\ down[g] # <<>>
  /\ LET m == Head(down[g]) IN
       /\ view' = [view EXCEPT ![g] = GuestViews(g, m)]
       /\ shown' = [shown EXCEPT ![g] = ColorsAfter(@, m)]
       /\ cl' = [cl EXCEPT ![g] = IF m.type \in {"close", "lost"} THEN "closed" ELSE "open"]
       /\ up' = IF m.type = "close" THEN Uploaded(g, Close) ELSE up
  /\ down' = [down EXCEPT ![g] = Tail(@)]
  /\ UNCHANGED <<server, cut, tabs, events, allowed>>

GuestClick(g, b) ==
  /\ view[g] = "buttons" /\ cl[g] = "open" /\ events < MaxEvents
  /\ events' = events + 1
  /\ up' = Uploaded(g, CycleMsg(b))
  /\ UNCHANGED <<server, down, cut, browser, allowed>>

(* The user leaves the page. *)
Leave(g) ==
  /\ cl[g] \in {"connecting", "open"}
  /\ cl' = [cl EXCEPT ![g] = "closed"]
  /\ view' = [view EXCEPT ![g] = "gone"]
  /\ Shut(g)
  /\ UNCHANGED <<server, tabs, shown, events, allowed>>

(* The link of a guest goes dead: wifi lost, or the device asleep. *)
Cut(g) ==
  /\ cl[g] \in {"connecting", "open"} /\ g \notin cut
  /\ cut' = cut \cup {g}
  /\ down' = [down EXCEPT ![g] = <<>>]
  /\ up' = [up EXCEPT ![g] = <<>>]
  /\ UNCHANGED <<server, browser, events, allowed>>

(* No ping (pingAll) for 45 s *)
Watchdog(g) ==
  /\ g \in cut /\ cl[g] \in {"connecting", "open"}
  /\ cl' = [cl EXCEPT ![g] = "closing"]
  /\ UNCHANGED <<server, net, tabs, view, shown, events, allowed>>

(* ws.onclose, when the browser gives up waiting for the answer *)
GiveUp(g) ==
  /\ cl[g] = "closing"
  /\ cl' = [cl EXCEPT ![g] = "closed"]
  /\ view' = [view EXCEPT ![g] = "code"]
  /\ UNCHANGED <<server, net, tabs, shown, events, allowed>>

(* Nothing is left of the connection of g: its name may stand for a new one. *)
Forgotten(g) ==
  /\ cl[g] = "closed" /\ sock[g] = "closed" /\ down[g] = <<>> /\ up[g] = <<>>
  /\ \A t \in Tab : g \notin rows[t]
  /\ \A c \in HostConn : \A m \in Range(down[c]) \cup Range(up[c]) :
       /\ "guest" \in DOMAIN m => m.guest # g
       /\ "pending" \in DOMAIN m => g \notin m.pending

(* The guest's page is loaded anew: the code entered on it was accepted and has *)
(* started a session (StartSession), or the user reloads it.                   *)
Rejoin(g) ==
  /\ view[g] \in {"code", "gone"} /\ Forgotten(g)
  /\ view' = [view EXCEPT ![g] = "none"]
  /\ shown' = [shown EXCEPT ![g] = White]
  /\ approved' = approved \ {g} /\ allowed' = allowed \ {g} /\ cut' = cut \ {g}
  /\ UNCHANGED <<live, colors, hosts, guests, sock, down, up, cl, tabs, events>>

-----------------------------------------------------------------------------
Init ==
  /\ live = FALSE /\ colors = White
  /\ hosts = {} /\ guests = {} /\ approved = {}
  /\ sock = [c \in Conn |-> "closed"]
  /\ down = [c \in Conn |-> <<>>] /\ up = [c \in Conn |-> <<>>] /\ cut = {}
  /\ cl = [c \in Conn |-> "closed"]
  /\ page = [t \in Tab |-> "locked"] /\ ws = [t \in Tab |-> None]
  /\ rows = [t \in Tab |-> {}] /\ fetches = [t \in Tab |-> {"asked"}]
  /\ view = [g \in Guest |-> "none"]
  /\ shown = [x \in Tab \cup Guest |-> White]
  /\ events = 0
  /\ allowed = {}

(* What the machines do by themselves, and what people and the network may do *)
ServerStep(c) == ReceiveCycle(c) \/ ReceiveApprove(c) \/ ReceiveDeny(c) \/ ReceiveClose(c)
TabStep(t) == Refresh(t) \/ Serve(t) \/ ShowLocked(t) \/ ShowGranted(t) \/ TabReceive(t)
GuestStep(g) == AddGuest(g) \/ Refuse(g) \/ GuestReceive(g) \/ Watchdog(g) \/ GiveUp(g)

Next ==
  \/ \E asking \in {{}} \cup {{t} : t \in Tab} : StartSession(asking)
  \/ EndSession \/ Restart
  \/ \E c \in HostConn : AddHost(c)
  \/ \E c \in Conn : ServerStep(c) \/ SockClose(c)
  \/ \E t \in Tab : TabStep(t) \/ Reload(t)
  \/ \E t \in Tab, g \in Guest, type \in {"approve", "deny"} : Decide(t, g, type)
  \/ \E t \in Tab, b \in Button : HostClick(t, b)
  \/ \E g \in Guest : GuestStep(g) \/ Connect(g) \/ Leave(g) \/ Cut(g) \/ Rejoin(g)
  \/ \E g \in Guest, b \in Button : GuestClick(g, b)

Spec == Init /\ [][Next]_vars

(***************************************************************************)
(* The process handles what arrives, sockets that are dead are found out by *)
(* the pings, a granted page polls every 15 s and its requests are          *)
(* answered, and a guest's watchdog is an interval of 5 s. No person is     *)
(* made to do anything.                                                     *)
(***************************************************************************)
Fairness ==
  /\ \A c \in Conn : WF_vars(ServerStep(c)) /\ WF_vars(SockClose(c))
  /\ \A c \in HostConn : WF_vars(AddHost(c))
  /\ \A g \in Guest : WF_vars(GuestStep(g))
  /\ \A t \in Tab : /\ WF_vars(Refresh(t)) /\ WF_vars(Serve(t)) /\ WF_vars(ShowLocked(t))
                    /\ WF_vars(TabReceive(t))

FairSpec == Spec /\ Fairness

-----------------------------------------------------------------------------
(* Properties *)

Message ==
  [type : {"colors", "approved"}, colors : Colors]
    \cup [type : {"hello"}, colors : Colors, pending : SUBSET Guest]
    \cup [type : {"joinRequest", "guestLeft", "approve", "deny"}, guest : Guest]
    \cup [type : {"cycle"}, button : Button]
    \cup [type : {"hello", "denied", "sessionEnded", "close", "lost"}]

(* Types: colors stay in the palette, whoever cycles them. *)
TypeOK ==
  /\ live \in BOOLEAN /\ colors \in Colors
  /\ hosts \subseteq HostConn /\ guests \subseteq Guest /\ approved \subseteq Guest
  /\ sock \in [Conn -> {"closed", "open", "ended"}]
  /\ down \in [Conn -> Seq(Message)] /\ up \in [Conn -> Seq(Message)] /\ cut \subseteq Conn
  /\ cl \in [Conn -> {"closed", "connecting", "open", "closing"}]
  /\ page \in [Tab -> {"locked", "granted"}]
  /\ ws \in [Tab -> HostConn \cup {None}]
  /\ rows \in [Tab -> SUBSET Guest]
  /\ fetches \in [Tab -> SUBSET {"asked", "granted", "locked"}]
  /\ view \in [Guest -> {"none", "loading", "buttons", "code", "gone"}]
  /\ shown \in [Tab \cup Guest -> Colors]
  /\ events \in 0..MaxEvents
  /\ allowed \subseteq Guest

(***************************************************************************)
(* "Approved guests get a buttons-only view": whoever sees the buttons or   *)
(* is sent their colors is a guest whom a host allowed while he waited.      *)
(***************************************************************************)
Sees(g) == view[g] = "buttons" \/ \E i \in DOMAIN down[g] : "colors" \in DOMAIN down[g][i]
OnlyAllowedSee == \A g \in Guest : Sees(g) \/ g \in Approved => g \in allowed

(***************************************************************************)
(* "pending -> approved | denied (terminal)": of two decisions the first    *)
(* stands. A tab that reconnects lists a device again whose decision is     *)
(* still on its way, and may send another on its new connection; a guest    *)
(* who is approved leaves by himself or with the session all the same.      *)
(***************************************************************************)
AllowStands ==
  [][\A g \in Approved : g \in guests' \/ ~live' \/ sock'[g] = "closed"]_vars

(***************************************************************************)
(* The process keeps the promise of GuestRoom: a guest is in the map only    *)
(* while a session is live, and is approved there only after he was pending. *)
(***************************************************************************)
StatusOf(g) == IF g \in Approved THEN "approved" ELSE IF g \in guests THEN "pending" ELSE "out"
Membership == INSTANCE GuestRoom WITH status <- [g \in Guest |-> StatusOf(g)]
ImplementsRoom == Membership!Spec

(* What holds now, or comes to hold with a message of good, holds when s has   *)
(* been read: a message of bad, which undoes it, is followed by one of good.   *)
Settles(s, now, good, bad) ==
  /\ now \/ \E i \in DOMAIN s : s[i] \in good
  /\ \A i \in DOMAIN s : s[i] \in bad => \E j \in DOMAIN s : j > i /\ s[j] \in good

(***************************************************************************)
(* "Button colors sync in realtime for everyone": while a session is live,  *)
(* every connected tab and approved guest will show the process's colors    *)
(* once it has read what is on its way, whatever was clicked, approved or   *)
(* started anew in between.                                                 *)
(***************************************************************************)
Bearing == {m \in Message : "colors" \in DOMAIN m}
Right == {m \in Bearing : m.colors = colors}
Converges(x, c) == Settles(down[c], shown[x] = colors, Right, Bearing \ Right)
ColorsConverge == live =>
  /\ \A t \in Tab : ws[t] \in hosts => Converges(t, ws[t])
  /\ \A g \in Approved : Hears(g) => Converges(g, g)

(***************************************************************************)
(* No device waits unseen: a tab connected to the process lists a pending   *)
(* guest once it has read what is on its way, unless a decision about it is *)
(* on its way back - through reconnects, reloads and restarts.              *)
(***************************************************************************)
DecisionInFlight(g) ==
  \E c \in HostConn, type \in {"approve", "deny"} :
    \E i \in DOMAIN up[c] : up[c][i] = About(type, g)
Listing(g) == {m \in Message : "pending" \in DOMAIN m /\ g \in m.pending}
                \cup {About("joinRequest", g)}
WillList(t, g) ==
  Settles(down[ws[t]], g \in rows[t], Listing(g), {About("guestLeft", g)})
NobodyWaitsUnseen ==
  \A t \in Tab, g \in Pending : ws[t] \in hosts => WillList(t, g) \/ DecisionInFlight(g)

(***************************************************************************)
(* No guest is left hanging: the process counts a guest in exactly if his   *)
(* page, connected and waiting or with its buttons, will not be closed by   *)
(* what is on its way - also when sessions, denials, restarts and upgrades  *)
(* cross each other. (A dead link is for the watchdog to find out.)         *)
(***************************************************************************)
EndInFlight(g) == \E i \in DOMAIN down[g] : down[g][i].type \in {"close", "lost"}
Stays(g) == view[g] \in {"loading", "buttons"} /\ cl[g] # "closing" /\ g \notin cut
NobodyLeftHanging ==
  \A g \in Guest : Stays(g) => (g \in guests <=> ~EndInFlight(g) /\ ~Upgradable(g))

(***************************************************************************)
(* Every poll, reload and loss makes a tab open another connection. What the *)
(* process has for a host is the present one of some tab, or its end is      *)
(* written, read, or found out by the next ping: none is left behind.        *)
(***************************************************************************)
HostsAreCurrent ==
  \A c \in hosts : \/ \E t \in Tab : ws[t] = c
                   \/ sock[c] = "ended" \/ c \in cut
                   \/ \E i \in DOMAIN up[c] : up[c][i].type = "close"

(* "Approvals are per-connection, nothing persists": a guest whom the end of a *)
(* session threw out, "every guest" being forced out, has no say in the next.  *)
GoneGuestsAreMute ==
  [][\A g \in Guest : live /\ g \notin guests /\ ReceiveCycle(g) => colors' = colors]_vars

(***************************************************************************)
(* "If the socket dies for ANY reason (denied, session ended, CLI killed,   *)
(* network drop) we fall back to the code screen on our own."               *)
(***************************************************************************)
GuestFallsBack ==
  \A g \in Guest : (view[g] \in {"loading", "buttons"} /\ g \notin guests)
                     ~> (view[g] \in {"code", "gone"} \/ g \in guests)

(* "Three ways to find out the session ended": the host's page does find out,  *)
(* also when the push is missed and an old answer arrives late.                *)
PageLocks == \A t \in Tab : (page[t] = "granted" /\ ~live) ~> (page[t] = "locked" \/ live)

(* A page opens a new connection at every poll: the process forgets those that *)
(* are closed, and guests whose link is dead.                                  *)
RoomForgets ==
  \A c \in Conn : (c \in hosts \cup guests /\ (cl[c] = "closed" \/ c \in cut))
                     ~> c \notin hosts \cup guests
=============================================================================
