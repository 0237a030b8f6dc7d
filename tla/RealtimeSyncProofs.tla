------------------------- MODULE RealtimeSyncProofs -------------------------
(* What the hosts' tabs and the guests see once they have read what is on its *)
(* way to them: the process's colors, and every device that waits.            *)
EXTENDS RealtimeProofs

-----------------------------------------------------------------------------
(* What reading a channel comes to *)

(* With more messages at the end, or with the first one read *)
LEMMA SettlesLonger ==
  ASSUME NEW S, NEW s \in Seq(S), NEW out \in Seq(S), NEW now, NEW good, NEW bad,
         Settles(s, now, good, bad), \A i \in DOMAIN out : out[i] \notin bad
  PROVE  Settles(s \o out, now, good, bad)
<1>1. /\ Len(s) \in Nat /\ Len(out) \in Nat
      /\ DOMAIN s = 1..Len(s) /\ DOMAIN out = 1..Len(out) /\ DOMAIN (s \o out) = 1..Len(s) + Len(out)
      /\ \A i \in 1..Len(s) + Len(out) : (s \o out)[i] = IF i <= Len(s) THEN s[i] ELSE out[i - Len(s)]
  OBVIOUS
<1>2. \A i \in DOMAIN s : i \in DOMAIN (s \o out) /\ (s \o out)[i] = s[i]
  BY <1>1
<1>3. now \/ \E i \in DOMAIN (s \o out) : (s \o out)[i] \in good
  BY <1>2 DEF Settles
<1>4. ASSUME NEW i \in DOMAIN (s \o out), (s \o out)[i] \in bad
      PROVE  \E j \in DOMAIN (s \o out) : j > i /\ (s \o out)[j] \in good
  <2>1. CASE i <= Len(s)
    <3>1. i \in DOMAIN s /\ s[i] \in bad
      BY <1>1, <1>4, <2>1
    <3>2. PICK j \in DOMAIN s : j > i /\ s[j] \in good
      BY <3>1 DEF Settles
    <3>3. QED
      BY <1>2, <3>2
  <2>2. CASE ~(i <= Len(s))
    <3>1. i - Len(s) \in DOMAIN out /\ (s \o out)[i] = out[i - Len(s)]
      BY <1>1, <2>2
    <3>2. QED
      BY <1>4, <3>1
  <2>3. QED
    BY <2>1, <2>2
<1>5. QED
  BY <1>3, <1>4 DEF Settles

LEMMA SettlesLast ==
  ASSUME NEW S, NEW s \in Seq(S), NEW now, NEW good, NEW bad, NEW m \in S,
         m \in good, m \notin bad
  PROVE  Settles(s \o <<m>>, now, good, bad)
<1>1. /\ Len(s) \in Nat /\ DOMAIN (s \o <<m>>) = 1..Len(s) + 1 /\ (s \o <<m>>)[Len(s) + 1] = m
  OBVIOUS
<1>2. \A i \in 1..Len(s) + 1 : i = Len(s) + 1 \/ Len(s) + 1 > i
  BY <1>1
<1>3. Len(s) + 1 \in 1..Len(s) + 1
  BY <1>1
<1>4. QED
  BY <1>1, <1>2, <1>3 DEF Settles

LEMMA SettlesRead ==
  ASSUME NEW S, NEW s \in Seq(S), s # <<>>, NEW now, NEW then, NEW good, NEW bad,
         Settles(s, now, good, bad),
         Head(s) \in good => then,
         now /\ Head(s) \notin good /\ Head(s) \notin bad => then
  PROVE  Settles(Tail(s), then, good, bad)
<1>1. /\ Len(s) \in Nat \ {0} /\ DOMAIN s = 1..Len(s) /\ Head(s) = s[1]
      /\ DOMAIN Tail(s) = 1..Len(s) - 1 /\ \A i \in 1..Len(s) - 1 : Tail(s)[i] = s[i + 1]
  OBVIOUS
<1>2. \A j \in DOMAIN s : j > 1 => /\ j - 1 \in DOMAIN Tail(s) /\ Tail(s)[j - 1] = s[j]
  BY <1>1
<1>3. then \/ \E i \in DOMAIN Tail(s) : Tail(s)[i] \in good
  <2>1. CASE s[1] \in bad
    <3>1. 1 \in DOMAIN s
      BY <1>1
    <3>2. PICK j \in DOMAIN s : j > 1 /\ s[j] \in good
      BY <2>1, <3>1 DEF Settles
    <3>3. QED
      BY <1>2, <3>2
  <2>2. CASE s[1] \notin bad /\ now
    BY <1>1, <2>2
  <2>3. CASE ~now
    <3>1. PICK i \in DOMAIN s : s[i] \in good
      BY <2>3 DEF Settles
    <3>2. CASE i = 1
      BY <1>1, <3>1, <3>2
    <3>3. CASE i # 1
      <4>1. i > 1
        BY <1>1, <3>3
      <4>2. QED
        BY <1>2, <3>1, <4>1
    <3>4. QED
      BY <3>2, <3>3
  <2>4. QED
    BY <2>1, <2>2, <2>3
<1>4. ASSUME NEW i \in DOMAIN Tail(s), Tail(s)[i] \in bad
      PROVE  \E j \in DOMAIN Tail(s) : j > i /\ Tail(s)[j] \in good
  <2>1. i + 1 \in DOMAIN s /\ s[i + 1] \in bad /\ i \in Nat /\ i >= 1
    BY <1>1, <1>4
  <2>2. PICK j \in DOMAIN s : j > i + 1 /\ s[j] \in good
    BY <2>1 DEF Settles
  <2>3. j > 1 /\ j - 1 > i
    BY <1>1, <2>1, <2>2
  <2>4. QED
    BY <1>2, <2>2, <2>3
<1>5. QED
  BY <1>3, <1>4 DEF Settles

(* Colors: a browser that shows cs will show target, the channel being s. *)
Reaches(s, cs, target) ==
  Settles(s, cs = target, {m \in Bearing : m.colors = target}, {m \in Bearing : m.colors # target})

LEMMA ConvergesReaches ==
  ASSUME NEW x, NEW c
  PROVE  /\ Converges(x, c) <=> Reaches(down[c], shown[x], colors)
         /\ Converges(x, c)' <=> Reaches(down'[c], shown'[x], colors')
<1>1. Bearing \ Right = {m \in Bearing : m.colors # colors}
  BY DEF Right
<1>2. Converges(x, c) <=> Reaches(down[c], shown[x], colors)
  BY <1>1 DEF Converges, Reaches, Right
<1>3. (Bearing \ Right)' = {m \in Bearing : m.colors # colors'}
  BY DEF Right, Bearing
<1>4. Converges(x, c)' <=> Reaches(down'[c], shown'[x], colors')
  BY <1>3 DEF Converges, Reaches, Right, Settles
<1>5. QED
  BY <1>2, <1>4

(* The list: a tab that lists the devices of listed will list g. *)
Lists(s, listed, g) == Settles(s, g \in listed, Listing(g), {About("guestLeft", g)})

LEMMA WillListLists ==
  ASSUME NEW t, NEW g
  PROVE  /\ WillList(t, g) <=> Lists(down[ws[t]], rows[t], g)
         /\ WillList(t, g)' <=> Lists(down[ws[t]]', rows'[t], g)
<1>1. WillList(t, g) <=> Lists(down[ws[t]], rows[t], g)
  BY DEF WillList, Lists
<1>2. WillList(t, g)' <=> Lists(down[ws[t]]', rows'[t], g)
  BY DEF WillList, Lists, Settles
<1>3. QED
  BY <1>1, <1>2

LEMMA ReachesOther ==
  ASSUME NEW S, NEW s \in Seq(S), NEW out \in Seq(S), NEW cs, NEW target,
         Reaches(s, cs, target), ~Colored(out)
  PROVE  Reaches(s \o out, cs, target)
<1>1. \A i \in DOMAIN out : out[i] \notin Bearing
  BY DEF Colored, Bearing
<1>2. QED
  BY <1>1, SettlesLonger DEF Reaches

LEMMA ReachesColors ==
  ASSUME NEW S, NEW s \in Seq(S), NEW cs, NEW target, NEW m \in S,
         m \in Message, "colors" \in DOMAIN m, m.colors = target
  PROVE  Reaches(s \o <<m>>, cs, target)
  BY SettlesLast DEF Reaches, Bearing

LEMMA ReachesRead ==
  ASSUME NEW S, NEW s \in Seq(S), s # <<>>, NEW cs, NEW target, Reaches(s, cs, target),
         Head(s) \in Message
  PROVE  Reaches(Tail(s), ColorsAfter(cs, Head(s)), target)
<1> DEFINE m == Head(s)
           good == {n \in Bearing : n.colors = target}
           bad == {n \in Bearing : n.colors # target}
<1>1. m \in good => ColorsAfter(cs, m) = target
  BY DEF ColorsAfter, Bearing
<1>2. cs = target /\ m \notin good /\ m \notin bad => ColorsAfter(cs, m) = target
  BY DEF ColorsAfter, Bearing
<1> HIDE DEF m, good, bad
<1>3. Settles(s, cs = target, good, bad)
  BY DEF Reaches, good, bad
<1>4. Settles(Tail(s), ColorsAfter(cs, m) = target, good, bad)
  BY <1>1, <1>2, <1>3, SettlesRead DEF m
<1>5. QED
  BY <1>4 DEF Reaches, good, bad, m

LEMMA ListingMessages ==
  ASSUME NEW g \in Guest
  PROVE  /\ About("joinRequest", g) \in Listing(g)
         /\ \A cs \in Colors, waiting \in SUBSET Guest :
              g \in waiting => HostHello(cs, waiting) \in Listing(g)
         /\ About("guestLeft", g) \notin Listing(g)
  BY DEF About, HostHello, Listing, Message

LEMMA ListsOther ==
  ASSUME NEW S, NEW s \in Seq(S), NEW out \in Seq(S), NEW listed, NEW g,
         Lists(s, listed, g), \A i \in DOMAIN out : out[i] # About("guestLeft", g)
  PROVE  Lists(s \o out, listed, g)
  BY SettlesLonger DEF Lists

LEMMA ListsNew ==
  ASSUME NEW S, NEW s \in Seq(S), NEW listed, NEW g \in Guest, NEW m \in S, m \in Listing(g)
  PROVE  Lists(s \o <<m>>, listed, g)
  BY SettlesLast, ListingMessages DEF Lists

LEMMA ListsRead ==
  ASSUME NEW S, NEW s \in Seq(S), s # <<>>, NEW listed, NEW g \in Guest, Lists(s, listed, g),
         Head(s) \in ToHost
  PROVE  Lists(Tail(s), RowsAfter(listed, Head(s)), g)
<1> DEFINE m == Head(s)
<1>1. m \in Listing(g) => g \in RowsAfter(listed, m)
  BY DEF Listing, RowsAfter, About, ToHost, Message
<1>2. g \in listed /\ m \notin Listing(g) /\ m # About("guestLeft", g) => g \in RowsAfter(listed, m)
  BY DEF RowsAfter, About, ToHost
<1> HIDE DEF m
<1>3. g \in listed /\ m \notin Listing(g) /\ m \notin {About("guestLeft", g)}
        => g \in RowsAfter(listed, m)
  BY <1>2
<1>4. Settles(Tail(s), g \in RowsAfter(listed, m), Listing(g), {About("guestLeft", g)})
  BY <1>1, <1>3, SettlesRead DEF Lists, m
<1>5. QED
  BY <1>4 DEF Lists, m

-----------------------------------------------------------------------------
(* Who is connected *)

Closing(s) == \E i \in DOMAIN s : s[i].type = "close"

(* A tab's connection is its own, and alive until the tab learns otherwise;     *)
(* the list is empty until the first message.                                  *)
TabLink(t) ==
  ws[t] # None =>
    /\ cl[ws[t]] \in {"connecting", "open"} /\ ws[t] \notin cut
    /\ sock[ws[t]] # "ended" /\ ~Closing(up[ws[t]])
    /\ cl[ws[t]] = "connecting" => rows[t] = {}
OwnLinks == \A t, u \in Tab : ws[t] # None /\ ws[t] = ws[u] => t = u

(* A closed socket is forgotten, and its connection may be used again. *)
HostLink(c) == sock[c] = "closed" => up[c] = <<>> /\ c \notin cut /\ c \notin hosts

(* A guest who listens in the room has an open socket; only who listens is      *)
(* written to, and what ends his connection comes last.                        *)
GuestLink(g) ==
  /\ Hears(g) => ~Closing(up[g]) /\ (g \in guests => sock[g] = "open")
  /\ view[g] = "none" => up[g] = <<>> /\ sock[g] = "closed"
  /\ down[g] # <<>> => Hears(g)
  /\ \A i \in DOMAIN down[g] :
       down[g][i].type \in {"close", "lost"} => i = Len(down[g]) /\ sock[g] # "open"

Links ==
  /\ \A t \in Tab : TabLink(t)
  /\ OwnLinks
  /\ \A c \in HostConn : HostLink(c)
  /\ \A g \in Guest : GuestLink(g)

LEMMA ClosingEmpty == ~Closing(<<>>)
  BY DEF Closing

LEMMA ClosingAppend ==
  ASSUME NEW S, NEW s \in Seq(S), NEW m \in S, Closing(Append(s, m))
  PROVE  Closing(s) \/ m.type = "close"
<1>1. PICK i \in DOMAIN Append(s, m) : Append(s, m)[i].type = "close"
  BY DEF Closing
<1>2. (i \in DOMAIN s /\ Append(s, m)[i] = s[i]) \/ Append(s, m)[i] = m
  OBVIOUS
<1>3. QED
  BY <1>1, <1>2 DEF Closing

LEMMA ClosingTail ==
  ASSUME NEW S, NEW s \in Seq(S), s # <<>>
  PROVE  /\ Closing(Tail(s)) => Closing(s)
         /\ Head(s).type = "close" => Closing(s)
<1>1. /\ Len(s) \in Nat \ {0} /\ DOMAIN s = 1..Len(s) /\ Head(s) = s[1]
      /\ DOMAIN Tail(s) = 1..Len(s) - 1 /\ \A i \in 1..Len(s) - 1 : Tail(s)[i] = s[i + 1]
  OBVIOUS
<1>2. 1 \in DOMAIN s /\ \A i \in DOMAIN Tail(s) : i + 1 \in DOMAIN s
  BY <1>1
<1>3. QED
  BY <1>1, <1>2 DEF Closing

(* What is sent to the process *)
LEMMA UploadedUp ==
  ASSUME UpOK, NEW c \in Conn, NEW m \in ToServer, up' = Uploaded(c, m), NEW d \in Conn
  PROVE  up'[d] = IF d = c /\ c \notin cut /\ sock[c] # "closed" THEN Append(up[d], m) ELSE up[d]
  BY DEF Uploaded, UpOK

LEMMA ReceivesUp ==
  ASSUME UpOK, NEW c \in Conn, NEW type, Receives(c, type), NEW d \in Conn
  PROVE  /\ up'[d] = IF d = c THEN Tail(up[d]) ELSE up[d]
         /\ up[c] # <<>> /\ Head(up[c]).type = type /\ up[c] \in Seq(ToServer)
  BY DEF Receives, UpOK

LEMMA WrittenDown ==
  ASSUME DownOK, NEW out, OutOK(out), down' = Written(out), NEW d \in Conn
  PROVE  down'[d] = IF Hears(d) /\ Writable(d) THEN down[d] \o out[d] ELSE down[d]
  BY DEF Written

(* What a tab's page does to its old connection, and to the others *)
LEMMA ClearedLinks ==
  ASSUME Types, NEW t \in Tab, NEW others \in [Conn -> {"closed", "connecting", "open", "closing"}],
         ClearTimers(t, others), NEW d \in Conn
  PROVE  /\ d # ws[t] => /\ down'[d] = down[d] /\ up'[d] = up[d] /\ cl'[d] = others[d]
                         /\ (d \in cut' <=> d \in cut)
         /\ d = ws[t] => /\ cl'[d] = "closed"
                         /\ up'[d] = up[d] \/ (sock[d] # "closed" /\ up'[d] = Append(up[d], Close))
                         /\ d \in cut' => d \in cut \/ sock[d] = "open"
<1>1. CASE ws[t] = None
  <2>1. None \notin Conn
    BY RealtimeAssumption DEF Conn
  <2>2. QED
    BY <1>1, <2>1 DEF ClearTimers, net
<1>2. CASE ws[t] # None
  <2>1. ws[t] \in Conn
    BY <1>2 DEF Types, PageTypes, Conn
  <2>2. Shut(ws[t]) /\ cl' = [others EXCEPT ![ws[t]] = "closed"]
    BY <1>2 DEF ClearTimers
  <2>3. cl'[d] = IF d = ws[t] THEN "closed" ELSE others[d]
    BY <2>2
  <2>4. d # ws[t] => down'[d] = down[d]
    BY <2>1, <2>2 DEF Shut, Types, DownOK
  <2>5. /\ d # ws[t] => (d \in cut' <=> d \in cut)
        /\ d = ws[t] => (d \in cut' => d \in cut \/ sock[d] = "open")
    BY <2>2 DEF Shut
  <2>6. up' = Uploaded(ws[t], Close) \/ up' = up
    BY <2>2 DEF Shut
  <2>7. up'[d] = up[d] \/ (d = ws[t] /\ sock[d] # "closed" /\ up'[d] = Append(up[d], Close))
    BY <2>1, <2>6, UploadedUp, PlainMessages DEF Types
  <2>8. QED
    BY <2>3, <2>4, <2>5, <2>7
<1>3. QED
  BY <1>1, <1>2

(* Next, by who takes the step *)
ProcessActs ==
  \/ \E asking \in {{}} \cup {{t} : t \in Tab} : StartSession(asking)
  \/ EndSession \/ Restart
  \/ \E c \in HostConn : AddHost(c)
  \/ \E g \in Guest : AddGuest(g) \/ Refuse(g)
  \/ \E c \in Conn : ServerStep(c) \/ SockClose(c)
TabActs(t) ==
  \/ TabStep(t) \/ Reload(t)
  \/ \E g \in Guest, type \in {"approve", "deny"} : Decide(t, g, type)
  \/ \E b \in Button : HostClick(t, b)
GuestActs(g) ==
  \/ GuestReceive(g) \/ Watchdog(g) \/ GiveUp(g) \/ Connect(g) \/ Leave(g) \/ Cut(g) \/ Rejoin(g)
  \/ \E b \in Button : GuestClick(g, b)

LEMMA Actors ==
  ASSUME [Next]_vars
  PROVE  \/ ProcessActs
         \/ \E t \in Tab : TabActs(t)
         \/ \E g \in Guest : GuestActs(g)
         \/ UNCHANGED vars
  BY DEF Next, GuestStep, ProcessActs, TabActs, GuestActs

(* The process leaves the pages alone, and only takes from what is sent to it. *)
LEMMA ProcessFrame ==
  ASSUME Types, ProcessActs
  PROVE  /\ UNCHANGED <<cl, page, ws, rows, view, shown>>
         /\ cut' \subseteq cut /\ \A g \in Guest : g \in cut' <=> g \in cut
         /\ \A d \in Conn : \/ up'[d] = up[d] \/ up'[d] = <<>>
                            \/ up[d] # <<>> /\ up'[d] = Tail(up[d])
<1>1. UNCHANGED <<cl, page, ws, rows, view, shown>> /\ cut' \subseteq cut
  BY DEF ProcessActs, StartSession, EndSession, Restart, AddHost, AddGuest, Refuse, ServerStep,
     ReceiveCycle, ReceiveApprove, ReceiveDeny, ReceiveClose, SockClose, browser, tabs
<1>2. cut' = cut \/ \E c : cut' = cut \ (c \cap HostConn)
  BY DEF ProcessActs, StartSession, EndSession, Restart, AddHost, AddGuest, Refuse, ServerStep,
     ReceiveCycle, ReceiveApprove, ReceiveDeny, ReceiveClose, SockClose
<1>3. \/ up' = up \/ up' = [d \in Conn |-> <<>>]
      \/ \E c \in Conn : \E type : Receives(c, type)
  BY DEF ProcessActs, StartSession, EndSession, Restart, AddHost, AddGuest, Refuse, ServerStep,
     ReceiveCycle, ReceiveApprove, ReceiveDeny, ReceiveClose, SockClose
<1>4. QED
  BY <1>1, <1>2, <1>3, ReceivesUp, Separate DEF Types

(* A tab leaves the process and the other connections and pages alone. *)
LEMMA TabFrame ==
  ASSUME Types, NEW t \in Tab, TabActs(t)
  PROVE  /\ UNCHANGED <<server, view>>
         /\ \/ ws'[t] = ws[t] \/ ws'[t] = None
            \/ cl[ws'[t]] = "closed" /\ sock[ws'[t]] = "closed"
         /\ \A u \in Tab : u # t => ws'[u] = ws[u] /\ rows'[u] = rows[u]
         /\ \A x \in Tab \cup Guest : x # t => shown'[x] = shown[x]
         /\ \A d \in Conn :
              /\ d # ws[t] => /\ down'[d] = down[d] /\ up'[d] = up[d] /\ (d \in cut' <=> d \in cut)
              /\ d # ws[t] /\ d # ws'[t] => cl'[d] = cl[d]
              /\ up'[d] = up[d] \/ (sock[d] # "closed" /\ \E m : up'[d] = Append(up[d], m))
              /\ d \in cut' => d \in cut \/ sock[d] = "open"
<1>1. CASE Refresh(t) \/ Serve(t)
  BY <1>1 DEF Refresh, Serve, net
<1>2. CASE ShowLocked(t) \/ ShowGranted(t) \/ Reload(t)
  <2>1. PICK others \in [Conn -> {"closed", "connecting", "open", "closing"}] :
          /\ ClearTimers(t, others)
          /\ \A d \in Conn : d # ws'[t] => others[d] = cl[d]
    <3>1. CASE ShowLocked(t) \/ Reload(t)
      BY <3>1 DEF ShowLocked, Reload, Types, LinkTypes
    <3>2. CASE ShowGranted(t)
      <4>1. PICK c \in HostConn : /\ ws' = [ws EXCEPT ![t] = c]
                                 /\ ClearTimers(t, [cl EXCEPT ![c] = "connecting"])
        BY <3>2 DEF ShowGranted
      <4>2. ws'[t] = c /\ [cl EXCEPT ![c] = "connecting"]
                            \in [Conn -> {"closed", "connecting", "open", "closing"}]
        BY <4>1 DEF Types, PageTypes, LinkTypes
      <4>3. \A d \in Conn : d # c => [cl EXCEPT ![c] = "connecting"][d] = cl[d]
        BY DEF Types, LinkTypes
      <4>4. QED
        BY <4>1, <4>2, <4>3
    <3>3. QED
      BY <1>2, <3>1, <3>2
  <2>2. /\ UNCHANGED <<server, view>>
        /\ \/ ws'[t] = None
           \/ cl[ws'[t]] = "closed" /\ sock[ws'[t]] = "closed"
        /\ \A u \in Tab : u # t => ws'[u] = ws[u] /\ rows'[u] = rows[u]
        /\ \A x \in Tab \cup Guest : x # t => shown'[x] = shown[x]
    BY <1>2 DEF ShowLocked, ShowGranted, Reload, Types, PageTypes
  <2>3. \A d \in Conn :
          /\ d # ws[t] => /\ down'[d] = down[d] /\ up'[d] = up[d] /\ cl'[d] = others[d]
                          /\ (d \in cut' <=> d \in cut)
          /\ up'[d] = up[d] \/ (sock[d] # "closed" /\ up'[d] = Append(up[d], Close))
          /\ d \in cut' => d \in cut \/ sock[d] = "open"
    BY <2>1, ClearedLinks
  <2>4. QED
    BY <2>1, <2>2, <2>3
<1>3. CASE TabReceive(t)
  <2>1. /\ UNCHANGED <<server, view, up, cut>>
        /\ ws'[t] = ws[t] \/ ws'[t] = None
        /\ \A u \in Tab : u # t => ws'[u] = ws[u] /\ rows'[u] = rows[u]
        /\ \A x \in Tab \cup Guest : x # t => shown'[x] = shown[x]
    BY <1>3 DEF TabReceive, Types, PageTypes
  <2>2. \A d \in Conn : d # ws[t] => down'[d] = down[d] /\ cl'[d] = cl[d]
    BY <1>3 DEF TabReceive, Types, DownOK, LinkTypes
  <2>3. QED
    BY <2>1, <2>2
<1>4. CASE \/ \E g \in Guest, type \in {"approve", "deny"} : Decide(t, g, type)
           \/ \E b \in Button : HostClick(t, b)
  <2>1. /\ UNCHANGED <<server, view, down, cut, cl, ws, shown>>
        /\ \A u \in Tab : u # t => rows'[u] = rows[u]
    BY <1>4 DEF Decide, HostClick, browser, tabs, Types, PageTypes
  <2>2. \/ up' = up
        \/ ws[t] \in Conn /\ \E m \in ToServer : up' = Uploaded(ws[t], m)
    BY <1>4, GuestMessages, PlainMessages DEF Decide, HostClick, IsOpen, Types, PageTypes, Conn
  <2>3. ASSUME ws[t] \in Conn, NEW m \in ToServer, up' = Uploaded(ws[t], m), NEW d \in Conn
        PROVE  up'[d] = up[d] \/ (d = ws[t] /\ sock[d] # "closed" /\ up'[d] = Append(up[d], m))
    BY <2>3, UploadedUp DEF Types
  <2>4. \A d \in Conn :
          up'[d] = up[d] \/ (d = ws[t] /\ sock[d] # "closed" /\ \E m : up'[d] = Append(up[d], m))
    <3>1. CASE up' = up
      BY <3>1
    <3>2. CASE ws[t] \in Conn /\ \E m \in ToServer : up' = Uploaded(ws[t], m)
      BY <2>3, <3>2
    <3>3. QED
      BY <2>2, <3>1, <3>2
  <2>5. QED
    BY <2>1, <2>4
<1>5. QED
  BY <1>1, <1>2, <1>3, <1>4 DEF TabActs, TabStep

(* A guest's page leaves the process and the other connections and pages alone. *)
LEMMA GuestFrame ==
  ASSUME Types, NEW g \in Guest, GuestActs(g)
  PROVE  /\ UNCHANGED <<live, colors, hosts, guests, sock, tabs>>
         /\ \A h : h # g => (h \in approved' <=> h \in approved)
         /\ \A d \in Conn : d # g => /\ down'[d] = down[d] /\ up'[d] = up[d] /\ cl'[d] = cl[d]
                                     /\ (d \in cut' <=> d \in cut)
         /\ \A x \in Tab \cup Guest : x # g => shown'[x] = shown[x]
         /\ \A h \in Guest : h # g => view'[h] = view[h]
<1>0. g \in Conn
  BY DEF Conn
<1>1. CASE GuestReceive(g)
  <2>1. up' = up \/ up' = Uploaded(g, Close)
    BY <1>1 DEF GuestReceive
  <2>2. \A d \in Conn : d # g => up'[d] = up[d]
    BY <1>0, <2>1, UploadedUp, PlainMessages DEF Types
  <2>3. QED
    BY <1>1, <2>2 DEF GuestReceive, server, tabs, Types, DownOK, LinkTypes, PageTypes
<1>2. CASE Watchdog(g) \/ GiveUp(g) \/ Connect(g)
  BY <1>2 DEF Watchdog, GiveUp, Connect, server, net, tabs, Types, LinkTypes, PageTypes
<1>3. CASE Leave(g)
  <2>1. up' = up \/ up' = Uploaded(g, Close)
    BY <1>3 DEF Leave, Shut
  <2>2. \A d \in Conn : d # g => up'[d] = up[d]
    BY <1>0, <2>1, UploadedUp, PlainMessages DEF Types
  <2>3. QED
    BY <1>3, <2>2 DEF Leave, Shut, server, tabs, Types, DownOK, LinkTypes, PageTypes
<1>4. CASE Cut(g)
  BY <1>4 DEF Cut, server, browser, tabs, Types, DownOK, UpOK
<1>5. CASE Rejoin(g)
  BY <1>5 DEF Rejoin, tabs, Types, PageTypes
<1>6. ASSUME NEW b \in Button, GuestClick(g, b)
      PROVE  /\ UNCHANGED <<server, down, cut, browser>>
             /\ \A d \in Conn : d # g => up'[d] = up[d]
  BY <1>0, <1>6, UploadedUp, PlainMessages DEF GuestClick, Types
<1>7. QED
  BY <1>1, <1>2, <1>3, <1>4, <1>5, <1>6 DEF GuestActs, server, browser, tabs

(* Sockets of tabs: the process ends none, and those that close are empty. *)
LEMMA HostLinkStep ==
  ASSUME Types, [Next]_vars, NEW c \in HostConn, HostLink(c)
  PROVE  HostLink(c)'
<1>0. c \in Conn /\ c \notin Guest
  BY Separate DEF Conn
<1>1. CASE ProcessActs
  <2>1. /\ c \in cut' => c \in cut
        /\ up[c] = <<>> => up'[c] = <<>>
    BY <1>0, <1>1, ProcessFrame
  <2>2. CASE Restart
    BY <1>0, <2>2 DEF Restart, HostLink
  <2>3. CASE \E d \in Conn : SockClose(d)
    <3>1. PICK d \in Conn : SockClose(d)
      BY <2>3
    <3>2. /\ up' = up /\ up[d] = <<>> /\ hosts' = hosts \ {d} /\ cut' = cut \ ({d} \cap HostConn)
          /\ sock' = [sock EXCEPT ![d] = "closed"]
      BY <3>1 DEF SockClose
    <3>3. sock'[c] = IF c = d THEN "closed" ELSE sock[c]
      BY <1>0, <3>2 DEF Types, ServerTypes
    <3>4. QED
      BY <3>2, <3>3 DEF HostLink
  <2>4. CASE \E d \in HostConn : AddHost(d)
    <3>1. PICK d \in HostConn : AddHost(d)
      BY <2>4
    <3>2. hosts' = hosts \cup {d} /\ sock' = [sock EXCEPT ![d] = "open"]
      BY <3>1 DEF AddHost
    <3>3. sock'[c] = IF c = d THEN "open" ELSE sock[c]
      BY <1>0, <3>2 DEF Types, ServerTypes
    <3>4. QED
      BY <2>1, <3>2, <3>3 DEF HostLink
  <2>5. CASE sock'[c] \in {"ended", sock[c]} /\ UNCHANGED hosts
    BY <2>1, <2>5 DEF HostLink
  <2>6. CASE \/ \E asking \in {{}} \cup {{t} : t \in Tab} : StartSession(asking)
             \/ EndSession \/ \E g \in Guest : AddGuest(g) \/ Refuse(g)
    BY <1>0, <2>5, <2>6 DEF StartSession, EndSession, AddGuest, Refuse, server, Types, ServerTypes
  <2>7. CASE \E d \in Conn : ServerStep(d)
    <3>1. \/ sock' = sock \/ \E d : sock' = [sock EXCEPT ![d] = "ended"]
      BY <2>7 DEF ServerStep, ReceiveCycle, ReceiveApprove, ReceiveDeny, ReceiveClose
    <3>2. UNCHANGED hosts
      BY <2>7 DEF ServerStep, ReceiveCycle, ReceiveApprove, ReceiveDeny, ReceiveClose
    <3>3. QED
      BY <1>0, <2>5, <3>1, <3>2 DEF Types, ServerTypes
  <2>8. QED
    BY <1>1, <2>2, <2>3, <2>4, <2>6, <2>7 DEF ProcessActs
<1>2. CASE \E t \in Tab : TabActs(t)
  BY <1>0, <1>2, TabFrame DEF server, HostLink
<1>3. CASE \E g \in Guest : GuestActs(g)
  BY <1>0, <1>3, GuestFrame DEF HostLink
<1>4. CASE UNCHANGED vars
  BY <1>4 DEF vars, server, net, HostLink
<1>5. QED
  BY <1>1, <1>2, <1>3, <1>4, Actors

(* The process ends the socket of a guest, or one that it is told to close. *)
LEMMA EndedSocks ==
  ASSUME Types, ProcessActs, NEW c \in HostConn, sock[c] # "ended", ~Closing(up[c])
  PROVE  sock'[c] # "ended"
<1>0. c \in Conn /\ c \notin Guest /\ up[c] \in Seq(ToServer)
  BY Separate DEF Conn, Types, UpOK
<1>1. CASE \E d \in Conn : ReceiveClose(d)
  <2>1. PICK d \in Conn : ReceiveClose(d)
    BY <1>1
  <2>2. d # c
    BY <1>0, <2>1, ReceivesUp, ClosingTail DEF ReceiveClose, Types
  <2>3. sock'[c] = sock[c]
    BY <1>0, <2>1, <2>2 DEF ReceiveClose, Types, ServerTypes
  <2>4. QED
    BY <2>3
<1>2. CASE \E d \in Conn : ReceiveDeny(d)
  <2>1. PICK d \in Conn : ReceiveDeny(d)
    BY <1>2
  <2>2. Head(up[d]).guest \in Guest
    BY <2>1, ReceivesOK DEF ReceiveDeny, Types, ToServer
  <2>3. sock' = sock \/ \E g \in Guest : sock' = [sock EXCEPT ![g] = "ended"]
    BY <2>1, <2>2 DEF ReceiveDeny
  <2>4. sock'[c] = sock[c]
    BY <1>0, <2>3 DEF Types, ServerTypes
  <2>5. QED
    BY <2>4
<1>3. CASE EndSession
  BY <1>0, <1>3 DEF EndSession, Types, ServerTypes
<1>4. CASE Restart
  BY <1>0, <1>4 DEF Restart
<1>5. CASE UNCHANGED sock
  BY <1>5
<1>6. CASE \E d \in Conn : sock' = [sock EXCEPT ![d] = "open"] \/ sock' = [sock EXCEPT ![d] = "closed"]
  BY <1>0, <1>6 DEF Types, ServerTypes
<1>7. CASE \/ \E d \in HostConn : AddHost(d)
           \/ \E g \in Guest : AddGuest(g)
           \/ \E d \in Conn : SockClose(d)
  BY <1>6, <1>7 DEF AddHost, AddGuest, SockClose, Conn
<1>8. CASE \/ \E asking \in {{}} \cup {{t} : t \in Tab} : StartSession(asking)
           \/ \E g \in Guest : Refuse(g)
           \/ \E d \in Conn : ReceiveCycle(d) \/ ReceiveApprove(d)
  BY <1>5, <1>8 DEF StartSession, Refuse, ReceiveCycle, ReceiveApprove, server
<1>9. QED
  BY <1>1, <1>2, <1>3, <1>4, <1>7, <1>8 DEF ProcessActs, ServerStep

LEMMA TabLinkStep ==
  ASSUME Types, Types', [Next]_vars, Links, NEW t \in Tab
  PROVE  TabLink(t)'
<1> SUFFICES ASSUME ws'[t] # None PROVE TabLink(t)'
  BY DEF TabLink
<1>0. ws'[t] \in HostConn /\ ws'[t] \in Conn
  BY DEF Types, PageTypes, Conn
<1>a. TabLink(t) /\ OwnLinks
  BY DEF Links
<1>1. CASE ProcessActs
  <2>1. UNCHANGED <<cl, ws, rows>> /\ cut' \subseteq cut
    BY <1>1, ProcessFrame
  <2>2. PICK c \in HostConn : c = ws[t] /\ c = ws'[t]
    BY <1>0, <2>1
  <2>3. up[c] \in Seq(ToServer) /\ c \in Conn
    BY <2>2 DEF Types, UpOK, Conn
  <2>4. /\ cl[c] \in {"connecting", "open"} /\ c \notin cut
        /\ sock[c] # "ended" /\ ~Closing(up[c])
        /\ cl[c] = "connecting" => rows[t] = {}
    BY <1>a, <2>2 DEF TabLink
  <2>5. ~Closing(up'[c])
    <3>1. \/ up'[c] = up[c] \/ up'[c] = <<>>
          \/ up[c] # <<>> /\ up'[c] = Tail(up[c])
      BY <1>1, <2>3, ProcessFrame
    <3>2. QED
      BY <2>3, <2>4, <3>1, ClosingEmpty, ClosingTail
  <2>6. sock'[c] # "ended"
    BY <1>1, <2>4, EndedSocks
  <2>7. QED
    BY <2>1, <2>2, <2>4, <2>5, <2>6 DEF TabLink, Closing
<1>2. ASSUME ws'[t] = ws[t], rows'[t] = rows[t], UNCHANGED sock,
             \A c \in Conn : c = ws[t] => /\ cl'[c] = cl[c] /\ up'[c] = up[c]
                                          /\ (c \in cut' <=> c \in cut)
      PROVE  TabLink(t)'
  BY <1>0, <1>2, <1>a DEF TabLink, Closing
<1>3. ASSUME NEW u \in Tab, TabActs(u), u # t
      PROVE  TabLink(t)'
  <2>1. ws'[t] = ws[t] /\ rows'[t] = rows[t] /\ UNCHANGED sock
    BY <1>3, TabFrame DEF server
  <2>2. ws[t] # ws[u] /\ ws[t] \in Conn /\ cl[ws[t]] # "closed"
    BY <1>0, <1>3, <1>a, <2>1 DEF OwnLinks, TabLink
  <2>3. ws[t] # ws'[u]
    BY <1>0, <1>3, <2>1, <2>2, TabFrame
  <2>4. QED
    BY <1>2, <1>3, <2>1, <2>2, <2>3, TabFrame
<1>4. CASE TabActs(t)
  <2>1. CASE Refresh(t) \/ Serve(t)
    BY <1>2, <2>1 DEF Refresh, Serve, server, net
  <2>2. CASE ShowLocked(t) \/ Reload(t)
    BY <2>2 DEF ShowLocked, Reload, Types, PageTypes
  <2>3. CASE ShowGranted(t)
    <3>1. PICK c \in HostConn :
            /\ cl[c] = "closed" /\ sock[c] = "closed" /\ ws' = [ws EXCEPT ![t] = c]
            /\ ClearTimers(t, [cl EXCEPT ![c] = "connecting"])
      BY <2>3 DEF ShowGranted
    <3>2. /\ c \in Conn /\ ws'[t] = c /\ rows'[t] = {} /\ UNCHANGED sock
      BY <2>3, <3>1 DEF ShowGranted, server, Conn, Types, PageTypes
    <3>3. c # ws[t]
      BY <1>a, <3>1, Separate DEF TabLink
    <3>4. /\ [cl EXCEPT ![c] = "connecting"] \in [Conn -> {"closed", "connecting", "open", "closing"}]
          /\ [cl EXCEPT ![c] = "connecting"][c] = "connecting"
      BY <3>2 DEF Types, LinkTypes
    <3>5. cl'[c] = "connecting" /\ up'[c] = up[c] /\ (c \in cut' <=> c \in cut)
      BY <3>1, <3>2, <3>3, <3>4, ClearedLinks
    <3>6. up[c] = <<>> /\ c \notin cut
      BY <3>1 DEF Links, HostLink
    <3>7. QED
      BY <3>1, <3>2, <3>5, <3>6 DEF TabLink, Closing
  <2>4. CASE TabReceive(t)
    <3>1. /\ cl' = [cl EXCEPT ![ws[t]] = IF Head(down[ws[t]]).type = "lost" THEN "closed" ELSE "open"]
          /\ ws' = IF Head(down[ws[t]]).type = "lost" THEN [ws EXCEPT ![t] = None] ELSE ws
          /\ UNCHANGED <<sock, up, cut>>
      BY <2>4 DEF TabReceive, server
    <3>2. ws' = ws /\ cl'[ws[t]] = "open"
      BY <1>0, <3>1 DEF Types, LinkTypes, PageTypes
    <3>3. QED
      BY <1>a, <3>1, <3>2 DEF TabLink, Closing
  <2>5. ASSUME UNCHANGED <<sock, cut, cl, ws>>, rows'[t] \subseteq rows[t],
               \/ up' = up
               \/ \E m \in ToServer : m.type # "close" /\ up' = Uploaded(ws[t], m)
        PROVE  TabLink(t)'
    <3>1. ws[t] = ws'[t] /\ ws[t] \in Conn /\ up[ws[t]] \in Seq(ToServer)
      BY <1>0, <2>5 DEF Types, UpOK
    <3>2. \/ up'[ws[t]] = up[ws[t]]
          \/ \E m \in ToServer : m.type # "close" /\ up'[ws[t]] = Append(up[ws[t]], m)
      BY <2>5, <3>1, UploadedUp DEF Types
    <3>3. ~Closing(up[ws[t]])
      BY <1>a, <3>1 DEF TabLink
    <3>4. ~Closing(up'[ws[t]])
      BY <3>1, <3>2, <3>3, ClosingAppend
    <3>5. QED
      BY <1>a, <2>5, <3>1, <3>4 DEF TabLink, Closing
  <2>6. ASSUME NEW g \in Guest, NEW type \in {"approve", "deny"}, Decide(t, g, type)
        PROVE  TabLink(t)'
    <3>1. UNCHANGED <<sock, cut, cl, ws>> /\ rows'[t] \subseteq rows[t]
      BY <2>6 DEF Decide, server, Types, PageTypes
    <3>2. About(type, g) \in ToServer /\ About(type, g).type # "close"
      BY GuestMessages DEF About
    <3>3. up' = up \/ up' = Uploaded(ws[t], About(type, g))
      BY <2>6 DEF Decide
    <3>4. QED
      BY <2>5, <3>1, <3>2, <3>3
  <2>7. ASSUME NEW b \in Button, HostClick(t, b)
        PROVE  TabLink(t)'
    <3>1. UNCHANGED <<sock, cut, cl, ws, rows>> /\ up' = Uploaded(ws[t], CycleMsg(b))
      BY <2>7 DEF HostClick, server, browser, tabs
    <3>2. CycleMsg(b) \in ToServer /\ CycleMsg(b).type # "close"
      BY PlainMessages DEF CycleMsg
    <3>3. QED
      BY <2>5, <3>1, <3>2
  <2>8. QED
    BY <1>4, <2>1, <2>2, <2>3, <2>4, <2>6, <2>7 DEF TabActs, TabStep
<1>5. CASE \E g \in Guest : GuestActs(g)
  <2>1. PICK g \in Guest : GuestActs(g)
    BY <1>5
  <2>2. ws'[t] = ws[t] /\ rows'[t] = rows[t] /\ UNCHANGED sock
    BY <2>1, GuestFrame DEF tabs
  <2>3. ws[t] # g
    BY <1>0, <2>2, Separate
  <2>4. QED
    BY <1>2, <2>1, <2>2, <2>3, GuestFrame
<1>6. CASE UNCHANGED vars
  BY <1>2, <1>6 DEF vars, server, net, browser, tabs
<1>7. QED
  BY <1>1, <1>2, <1>3, <1>4, <1>5, <1>6, Actors

LEMMA OwnLinksStep ==
  ASSUME Types, [Next]_vars, Links
  PROVE  OwnLinks'
<1>0. OwnLinks /\ \A t \in Tab : TabLink(t)
  BY DEF Links
<1>1. CASE UNCHANGED ws
  BY <1>0, <1>1 DEF OwnLinks
<1>2. CASE \E v \in Tab : TabActs(v)
  <2>1. PICK v \in Tab : TabActs(v)
    BY <1>2
  <2>2. \A t \in Tab : t # v => ws'[t] = ws[t]
    BY <2>1, TabFrame
  <2>3. ws'[v] = ws[v] \/ ws'[v] = None \/ cl[ws'[v]] = "closed"
    BY <2>1, TabFrame
  <2>4. \A t \in Tab : ws[t] # None => cl[ws[t]] # "closed"
    BY <1>0 DEF TabLink
  <2>5. QED
    BY <1>0, <2>2, <2>3, <2>4 DEF OwnLinks
<1>3. QED
  BY <1>1, <1>2, Actors, ProcessFrame, GuestFrame DEF tabs, vars, browser

(* What ends a connection comes last, on a socket of that status. *)
Ends(s, status) ==
  \A i \in DOMAIN s : s[i].type \in {"close", "lost"} => i = Len(s) /\ status # "open"

LEMMA EndsRead ==
  ASSUME NEW S, NEW s \in Seq(S), s # <<>>, NEW status, Ends(s, status)
  PROVE  /\ Ends(Tail(s), status)
         /\ Head(s).type \in {"close", "lost"} => Tail(s) = <<>>
<1>1. /\ Len(s) \in Nat \ {0} /\ DOMAIN s = 1..Len(s) /\ Head(s) = s[1] /\ Len(Tail(s)) = Len(s) - 1
      /\ DOMAIN Tail(s) = 1..Len(s) - 1 /\ \A i \in 1..Len(s) - 1 : Tail(s)[i] = s[i + 1]
  OBVIOUS
<1>2. \A i \in DOMAIN Tail(s) : i + 1 \in DOMAIN s /\ i \in Nat
  BY <1>1
<1>3. Ends(Tail(s), status)
  BY <1>1, <1>2 DEF Ends
<1>4. Head(s).type \in {"close", "lost"} => Len(Tail(s)) = 0
  BY <1>1 DEF Ends
<1>5. Tail(s) \in Seq(S) /\ \A r \in Seq(S) : Len(r) = 0 => r = <<>>
  OBVIOUS
<1>6. QED
  BY <1>3, <1>4, <1>5

LEMMA EndsWritten ==
  ASSUME NEW S, NEW s \in Seq(S), NEW out \in Seq(S), NEW status,
         Ends(s, "open"), Ends(out, status)
  PROVE  Ends(s \o out, status)
<1>1. /\ Len(s) \in Nat /\ Len(out) \in Nat /\ Len(s \o out) = Len(s) + Len(out)
      /\ DOMAIN s = 1..Len(s) /\ DOMAIN out = 1..Len(out) /\ DOMAIN (s \o out) = 1..Len(s) + Len(out)
      /\ \A i \in 1..Len(s) + Len(out) : (s \o out)[i] = IF i <= Len(s) THEN s[i] ELSE out[i - Len(s)]
  OBVIOUS
<1>2. SUFFICES ASSUME NEW i \in DOMAIN (s \o out), (s \o out)[i].type \in {"close", "lost"}
               PROVE  i = Len(s \o out) /\ status # "open"
  BY DEF Ends
<1>3. CASE i <= Len(s)
  <2>1. i \in DOMAIN s /\ (s \o out)[i] = s[i]
    BY <1>1, <1>3
  <2>2. QED
    BY <1>2, <2>1 DEF Ends
<1>4. CASE ~(i <= Len(s))
  <2>1. i - Len(s) \in DOMAIN out /\ (s \o out)[i] = out[i - Len(s)]
    BY <1>1, <1>4
  <2>2. i - Len(s) = Len(out) /\ status # "open"
    BY <1>2, <2>1 DEF Ends
  <2>3. QED
    BY <1>1, <2>2
<1>5. QED
  BY <1>3, <1>4

LEMMA EndsShort ==
  ASSUME NEW status
  PROVE  /\ Ends(<<>>, status)
         /\ \A a : a.type \notin {"close", "lost"} \/ status # "open" => Ends(<<a>>, status)
         /\ \A a, b : a.type \notin {"close", "lost"} /\ status # "open" => Ends(<<a, b>>, status)
<1>1. Ends(<<>>, status)
  BY DEF Ends
<1>2. \A a : a.type \notin {"close", "lost"} \/ status # "open" => Ends(<<a>>, status)
  BY DEF Ends
<1>3. ASSUME NEW a, NEW b, a.type \notin {"close", "lost"}, status # "open"
      PROVE  Ends(<<a, b>>, status)
  <2>1. /\ DOMAIN <<a, b>> = 1..2 /\ Len(<<a, b>>) = 2 /\ <<a, b>>[1] = a
    OBVIOUS
  <2>2. \A i \in 1..2 : i = 1 \/ i = 2
    OBVIOUS
  <2>3. QED
    BY <1>3, <2>1, <2>2 DEF Ends
<1>4. QED
  BY <1>1, <1>2, <1>3

LEMMA GuestLinkEnds ==
  ASSUME NEW g
  PROVE  GuestLink(g) <=>
           /\ Hears(g) => ~Closing(up[g]) /\ (g \in guests => sock[g] = "open")
           /\ view[g] = "none" => up[g] = <<>> /\ sock[g] = "closed"
           /\ down[g] # <<>> => Hears(g)
           /\ Ends(down[g], sock[g])
  BY DEF GuestLink, Ends

(* A step of the process, with what it writes to a guest *)
LEMMA GuestLinkWritten ==
  ASSUME Types, NEW g \in Guest, GuestLink(g), NEW out \in Seq(ToGuest),
         UNCHANGED <<cl, view>>, g \in cut' <=> g \in cut,
         down'[g] = IF Hears(g) /\ Writable(g) THEN down[g] \o out ELSE down[g],
         \/ up'[g] = up[g] \/ up'[g] = <<>>
         \/ up[g] # <<>> /\ up'[g] = Tail(up[g]),
         view[g] = "none" => sock'[g] = "closed",
         Hears(g) /\ g \in guests' => sock'[g] = "open",
         sock'[g] = "open" => sock[g] = "open" \/ down[g] = <<>>,
         Hears(g) /\ Writable(g) => out = <<>> \/ sock[g] = "open" \/ down[g] = <<>>,
         Ends(out, sock'[g])
  PROVE  GuestLink(g)'
<1>1. down[g] \in Seq(ToGuest) /\ up[g] \in Seq(ToServer)
  BY DEF Types, DownOK, OutOK, UpOK, Conn
<1>2. Hears(g)' <=> Hears(g)
  BY DEF Hears
<1>3. /\ Hears(g) => ~Closing(up[g])
      /\ view[g] = "none" => up[g] = <<>>
      /\ down[g] # <<>> => Hears(g)
      /\ Ends(down[g], sock[g])
  BY GuestLinkEnds
<1>4. /\ Hears(g) => ~Closing(up'[g])
      /\ up[g] = <<>> => up'[g] = <<>>
  BY <1>1, <1>3, ClosingEmpty, ClosingTail
<1>5. down'[g] # <<>> => Hears(g)
  BY <1>3
<1>6. Ends(down'[g], sock'[g])
  <2>1. CASE down'[g] = down[g]
    <3>1. CASE down[g] = <<>>
      BY <2>1, <3>1, EndsShort
    <3>2. CASE down[g] # <<>>
      BY <1>3, <2>1, <3>2 DEF Ends
    <3>3. QED
      BY <3>1, <3>2
  <2>2. CASE down'[g] = down[g] \o out /\ out # <<>> /\ Hears(g) /\ Writable(g)
    <3>1. Ends(down[g], "open")
      BY <1>3, <2>2, EndsShort
    <3>2. QED
      BY <1>1, <2>2, <3>1, EndsWritten
  <2>3. down[g] \o <<>> = down[g]
    BY <1>1
  <2>4. QED
    BY <2>1, <2>2, <2>3
<1>7. GuestLink(g)' <=>
        /\ Hears(g)' => ~Closing(up'[g]) /\ (g \in guests' => sock'[g] = "open")
        /\ view'[g] = "none" => up'[g] = <<>> /\ sock'[g] = "closed"
        /\ down'[g] # <<>> => Hears(g)'
        /\ Ends(down'[g], sock'[g])
  BY DEF GuestLink, Ends, Closing
<1>8. QED
  BY <1>2, <1>3, <1>4, <1>5, <1>6, <1>7

LEMMA GuestLinkQuiet ==
  ASSUME Types, NEW g \in Guest, GuestLink(g), ProcessActs, down'[g] = down[g],
         view[g] = "none" => sock'[g] = "closed",
         Hears(g) /\ g \in guests' => sock'[g] = "open",
         sock'[g] = "open" => sock[g] = "open" \/ down[g] = <<>>
  PROVE  GuestLink(g)'
<1>1. g \in Conn /\ down[g] \in Seq(ToGuest) /\ <<>> \in Seq(ToGuest) /\ down[g] \o <<>> = down[g]
  BY DEF Types, DownOK, OutOK, Conn
<1>2. /\ UNCHANGED <<cl, view>> /\ (g \in cut' <=> g \in cut)
      /\ \/ up'[g] = up[g] \/ up'[g] = <<>>
         \/ up[g] # <<>> /\ up'[g] = Tail(up[g])
  BY <1>1, ProcessFrame
<1>3. Ends(<<>>, sock'[g])
  BY EndsShort
<1>4. QED
  BY <1>1, <1>2, <1>3, GuestLinkWritten

LEMMA GuestLinkOut ==
  ASSUME Types, NEW g \in Guest, GuestLink(g), ProcessActs, NEW out, OutOK(out),
         down' = Written(out),
         view[g] = "none" => sock'[g] = "closed",
         Hears(g) /\ g \in guests' => sock'[g] = "open",
         sock'[g] = "open" => sock[g] = "open" \/ down[g] = <<>>,
         Hears(g) /\ Writable(g) => out[g] = <<>> \/ sock[g] = "open" \/ down[g] = <<>>,
         Ends(out[g], sock'[g])
  PROVE  GuestLink(g)'
<1>1. g \in Conn /\ out[g] \in Seq(ToGuest)
  BY DEF OutOK, Conn
<1>2. /\ UNCHANGED <<cl, view>> /\ (g \in cut' <=> g \in cut)
      /\ \/ up'[g] = up[g] \/ up'[g] = <<>>
         \/ up[g] # <<>> /\ up'[g] = Tail(up[g])
  BY <1>1, ProcessFrame
<1>3. down'[g] = IF Hears(g) /\ Writable(g) THEN down[g] \o out[g] ELSE down[g]
  BY <1>1, WrittenDown DEF Types
<1>4. QED
  BY <1>1, <1>2, <1>3, GuestLinkWritten

(* Colors for the room *)
LEMMA GuestLinkColors ==
  ASSUME Types, NEW g \in Guest, GuestLink(g), ProcessActs, NEW cs \in Colors,
         down' = Written(To(Room, ColorsMsg(cs))), UNCHANGED <<guests, sock>>
  PROVE  GuestLink(g)'
<1> DEFINE out == To(Room, ColorsMsg(cs))
<1>1. OutOK(out)
  BY ToOK, ColorsMessages
<1>2. out[g] = IF g \in guests /\ g \in approved THEN <<ColorsMsg(cs)>> ELSE <<>>
  BY Separate DEF To, Conn, Room, Approved, Types, ServerTypes
<1>3. ColorsMsg(cs).type = "colors"
  BY DEF ColorsMsg
<1>4. Ends(out[g], sock'[g])
  BY <1>2, <1>3, EndsShort
<1>5. /\ Hears(g) /\ g \in guests => sock[g] = "open"
      /\ view[g] = "none" => sock[g] = "closed"
  BY DEF GuestLink
<1> HIDE DEF out
<1>6. QED
  BY <1>1, <1>2, <1>4, <1>5, GuestLinkOut DEF out

LEMMA GuestLinkProcess ==
  ASSUME Types, Types', NEW g \in Guest, Member(g), GuestLink(g), ProcessActs
  PROVE  GuestLink(g)'
<1>0. g \in Conn /\ g \notin HostConn /\ g \notin hosts
  BY Separate DEF Conn, Types, ServerTypes
<1>a. /\ Hears(g) => ~Closing(up[g]) /\ (g \in guests => sock[g] = "open")
      /\ view[g] = "none" => up[g] = <<>> /\ sock[g] = "closed" /\ cl[g] = "closed" /\ g \notin guests
  BY DEF GuestLink, Member
<1>1. CASE \E asking \in {{}} \cup {{t} : t \in Tab} : StartSession(asking)
  BY <1>1, GuestLinkColors, WhiteType DEF StartSession
<1>2. CASE EndSession
  <2> DEFINE out == [c \in Conn |-> CASE c \in hosts -> <<Plain("sessionEnded")>>
                                      [] c \in guests -> <<Plain("sessionEnded"), Close>>
                                      [] OTHER -> <<>>]
  <2>1. OutOK(out) /\ down' = Written(out)
    BY <1>2, EndOK DEF EndSession, Types
  <2>2. out[g] = IF g \in guests THEN <<Plain("sessionEnded"), Close>> ELSE <<>>
    BY <1>0
  <2> HIDE DEF out
  <2>3. sock'[g] = (IF g \in guests THEN "ended" ELSE sock[g]) /\ guests' = {}
    BY <1>0, <1>2 DEF EndSession
  <2>4. Ends(out[g], sock'[g])
    BY <2>2, <2>3, EndsShort DEF Plain
  <2>5. QED
    BY <1>a, <2>1, <2>2, <2>3, <2>4, GuestLinkOut
<1>3. CASE Restart
  <2> DEFINE out == To({c \in Conn : sock[c] # "closed"}, Plain("lost"))
  <2>1. OutOK(out) /\ down' = Written(out)
    BY <1>3, ToOK, PlainMessages DEF Restart
  <2>2. out[g] = IF sock[g] # "closed" THEN <<Plain("lost")>> ELSE <<>>
    BY <1>0 DEF To
  <2> HIDE DEF out
  <2>3. sock'[g] = "closed" /\ guests' = {}
    BY <1>0, <1>3 DEF Restart
  <2>4. Ends(out[g], sock'[g])
    BY <2>2, <2>3, EndsShort
  <2>5. Writable(g) => out[g] = <<>> \/ sock[g] = "open"
    BY <1>0, <2>2 DEF Writable, Types, ServerTypes
  <2>6. QED
    BY <1>a, <2>1, <2>3, <2>4, <2>5, GuestLinkOut
<1>4. CASE \E c \in HostConn : AddHost(c)
  <2>1. PICK c \in HostConn : AddHost(c)
    BY <1>4
  <2>2. HostHello(colors, Pending) \in ToHost
    BY ColorsMessages DEF Types, ServerTypes, Pending
  <2>3. OutOK(To({c}, HostHello(colors, Pending)))
    BY <2>2, ToOK, Separate
  <2>4. To({c}, HostHello(colors, Pending))[g] = <<>>
    BY <1>0, ToOthers
  <2>5. sock'[g] = sock[g] /\ UNCHANGED guests
    BY <1>0, <2>1 DEF AddHost, Types, ServerTypes
  <2>6. QED
    BY <1>a, <2>1, <2>3, <2>4, <2>5, GuestLinkOut, EndsShort DEF AddHost
<1>5. CASE \E h \in Guest : AddGuest(h)
  <2>1. PICK h \in Guest : AddGuest(h)
    BY <1>5
  <2> DEFINE out == [c \in Conn |-> CASE c = h -> <<Plain("hello")>>
                                      [] c \in hosts -> <<About("joinRequest", h)>>
                                      [] OTHER -> <<>>]
  <2>2. \A c \in HostConn : out[c] = <<About("joinRequest", h)>> \/ out[c] = <<>>
    BY Separate DEF Conn
  <2>3. \A x \in Guest : out[x] = IF x = h THEN <<Plain("hello")>> ELSE <<>>
    BY Separate DEF Conn, Types, ServerTypes
  <2>4. down' = Written(out)
    BY <2>1 DEF AddGuest
  <2> HIDE DEF out
  <2>5. OutOK(out)
    BY <2>2, <2>3, PlainMessages, GuestMessages, ShortSeq DEF OutOK
  <2>6. /\ sock'[g] = (IF g = h THEN "open" ELSE sock[g]) /\ guests' = guests \cup {h}
        /\ cl[h] = "connecting" /\ down[h] = <<>>
    BY <1>0, <2>1 DEF AddGuest, Upgradable, Types, ServerTypes
  <2>7. Ends(out[g], sock'[g])
    <3>1. Plain("hello").type = "hello" /\ out[g] \in {<<Plain("hello")>>, <<>>}
      BY <2>3 DEF Plain
    <3>2. QED
      BY <3>1, EndsShort
  <2>8. QED
    BY <1>a, <2>3, <2>4, <2>5, <2>6, <2>7, GuestLinkOut
<1>6. CASE \E h \in Guest : Refuse(h)
  <2>1. PICK h \in Guest : Refuse(h)
    BY <1>6
  <2>2. OutOK(To({h}, Plain("lost")))
    BY ToOK, PlainMessages
  <2>3. To({h}, Plain("lost"))[g] = IF g = h THEN <<Plain("lost")>> ELSE <<>>
    BY <1>0 DEF To
  <2>4. /\ UNCHANGED <<sock, guests>> /\ down' = Written(To({h}, Plain("lost")))
        /\ sock[h] = "closed" /\ down[h] = <<>>
    BY <2>1 DEF Refuse, server, Upgradable
  <2>5. Ends(To({h}, Plain("lost"))[g], sock'[g])
    BY <2>3, <2>4, EndsShort
  <2>6. QED
    BY <1>a, <2>2, <2>3, <2>4, <2>5, GuestLinkOut
<1>7. CASE \E c \in Conn : ReceiveCycle(c)
  <2>1. colors' \in Colors
    BY DEF Types, ServerTypes
  <2>2. QED
    BY <1>7, <2>1, GuestLinkColors DEF ReceiveCycle
<1>8. CASE \E c \in Conn : ReceiveApprove(c)
  <2>1. PICK c \in Conn : ReceiveApprove(c)
    BY <1>8
  <2>2. PICK h : h = Head(up[c]).guest
    OBVIOUS
  <2>3. h \in Guest
    BY <2>1, <2>2, ReceivesOK DEF ReceiveApprove, Types, ToServer
  <2>4. UNCHANGED <<sock, guests>>
    BY <2>1 DEF ReceiveApprove
  <2>5. CASE h \in Pending /\ down' = Written(To({h}, ApprovedMsg(colors)))
    <3>1. OutOK(To({h}, ApprovedMsg(colors)))
      BY <2>3, ToOK, ColorsMessages, Separate DEF Types, ServerTypes
    <3>2. To({h}, ApprovedMsg(colors))[g] = IF g = h THEN <<ApprovedMsg(colors)>> ELSE <<>>
      BY <1>0 DEF To
    <3>3. Ends(To({h}, ApprovedMsg(colors))[g], sock'[g])
      <4>1. ApprovedMsg(colors).type = "approved"
        BY DEF ApprovedMsg
      <4>2. QED
        BY <3>2, <4>1, EndsShort
    <3>4. g = h => g \in guests
      BY <2>5 DEF Pending
    <3>5. QED
      BY <1>a, <2>4, <2>5, <3>1, <3>2, <3>3, <3>4, GuestLinkOut
  <2>6. CASE UNCHANGED down
    BY <1>a, <2>4, <2>6, GuestLinkQuiet
  <2>7. \/ h \in Pending /\ down' = Written(To({h}, ApprovedMsg(colors)))
        \/ UNCHANGED down
    BY <2>1, <2>2 DEF ReceiveApprove, Undecided
  <2>8. QED
    BY <2>5, <2>6, <2>7
<1>9. CASE \E c \in Conn : ReceiveDeny(c)
  <2>1. PICK c \in Conn : ReceiveDeny(c)
    BY <1>9
  <2>2. PICK h : h = Head(up[c]).guest
    OBVIOUS
  <2> DEFINE out == [d \in Conn |-> IF d = h THEN <<Plain("denied"), Close>> ELSE <<>>]
  <2>3. h \in Guest /\ h \in Conn
    BY <2>1, <2>2, ReceivesOK DEF ReceiveDeny, Types, ToServer, Conn
  <2>4. \/ /\ h \in Pending /\ guests' = guests \ {h} /\ sock' = [sock EXCEPT ![h] = "ended"]
           /\ down' = Written(out)
        \/ UNCHANGED <<guests, sock, down>>
    BY <2>1, <2>2 DEF ReceiveDeny, Undecided
  <2>5. \A d \in HostConn : out[d] = <<>>
    BY <2>3, Separate DEF Conn
  <2>6. \A x \in Guest : out[x] = IF x = h THEN <<Plain("denied"), Close>> ELSE <<>>
    BY DEF Conn
  <2> HIDE DEF out
  <2>7. OutOK(out)
    BY <2>5, <2>6, PlainMessages, ShortSeq DEF OutOK
  <2>8. CASE /\ h \in Pending /\ guests' = guests \ {h} /\ sock' = [sock EXCEPT ![h] = "ended"]
             /\ down' = Written(out)
    <3>1. sock'[g] = IF g = h THEN "ended" ELSE sock[g]
      BY <1>0, <2>8 DEF Types, ServerTypes
    <3>2. Ends(out[g], sock'[g])
      BY <2>6, <3>1, EndsShort DEF Plain
    <3>3. g = h => g \in guests
      BY <2>8 DEF Pending
    <3>4. QED
      BY <1>a, <2>6, <2>7, <2>8, <3>1, <3>2, <3>3, GuestLinkOut
  <2>9. CASE UNCHANGED <<guests, sock, down>>
    BY <1>a, <2>9, GuestLinkQuiet
  <2>10. QED
    BY <2>4, <2>8, <2>9
<1>10. CASE \E c \in Conn : ReceiveClose(c)
  <2>1. PICK c \in Conn : ReceiveClose(c)
    BY <1>10
  <2>2. UNCHANGED <<guests, down>> /\ sock'[g] = IF g = c THEN "ended" ELSE sock[g]
    BY <1>0, <2>1 DEF ReceiveClose, Types, ServerTypes
  <2>3. g = c => up[g] # <<>> /\ Closing(up[g])
    BY <2>1, ReceivesUp, ClosingTail DEF ReceiveClose, Types
  <2>4. QED
    BY <1>a, <2>2, <2>3, GuestLinkQuiet
<1>11. CASE \E c \in Conn : SockClose(c)
  <2>1. PICK c \in Conn : SockClose(c)
    BY <1>11
  <2>2. /\ guests' = guests \ {c} /\ sock'[g] = IF g = c THEN "closed" ELSE sock[g]
    BY <1>0, <2>1 DEF SockClose, Types, ServerTypes
  <2>3. CASE c \in guests
    <3>1. c \in Guest /\ down' = Written(To(hosts, About("guestLeft", c)))
      BY <2>1, <2>3 DEF SockClose, Types, ServerTypes
    <3>2. OutOK(To(hosts, About("guestLeft", c)))
      BY <3>1, ToOK, GuestMessages, Separate DEF Types, ServerTypes
    <3>3. To(hosts, About("guestLeft", c))[g] = <<>>
      BY <1>0, ToOthers
    <3>4. Ends(<<>>, sock'[g])
      BY EndsShort
    <3>5. QED
      BY <1>a, <2>2, <3>1, <3>2, <3>3, <3>4, GuestLinkOut
  <2>4. CASE c \notin guests
    <3>1. UNCHANGED down
      BY <2>1, <2>4 DEF SockClose
    <3>2. QED
      BY <1>a, <2>2, <3>1, GuestLinkQuiet
  <2>5. QED
    BY <2>3, <2>4
<1>12. QED
  BY <1>1, <1>2, <1>3, <1>4, <1>5, <1>6, <1>7, <1>8, <1>9, <1>10, <1>11 DEF ProcessActs, ServerStep

(* Steps that leave a guest alone *)
LEMMA GuestLinkKept ==
  ASSUME NEW g, GuestLink(g), down'[g] = down[g], up'[g] = up[g], cl'[g] = cl[g],
         view'[g] = view[g], sock'[g] = sock[g],
         g \in cut' <=> g \in cut, g \in guests' <=> g \in guests
  PROVE  GuestLink(g)'
<1>1. Hears(g)' <=> Hears(g)
  BY DEF Hears
<1>2. GuestLink(g)' <=>
        /\ Hears(g)' => ~Closing(up'[g]) /\ (g \in guests' => sock'[g] = "open")
        /\ view'[g] = "none" => up'[g] = <<>> /\ sock'[g] = "closed"
        /\ down'[g] # <<>> => Hears(g)'
        /\ Ends(down'[g], sock'[g])
  BY DEF GuestLink, Ends, Closing
<1>3. QED
  BY <1>1, <1>2, GuestLinkEnds

LEMMA GuestLinkOwn ==
  ASSUME Types, NEW g \in Guest, Member(g), GuestLink(g), GuestActs(g)
  PROVE  GuestLink(g)'
<1>0. g \in Conn /\ down[g] \in Seq(ToGuest) /\ up[g] \in Seq(ToServer)
  BY DEF Types, DownOK, OutOK, UpOK, Conn
<1>1. GuestLink(g)' <=>
        /\ Hears(g)' => ~Closing(up'[g]) /\ (g \in guests' => sock'[g] = "open")
        /\ view'[g] = "none" => up'[g] = <<>> /\ sock'[g] = "closed"
        /\ down'[g] # <<>> => Hears(g)'
        /\ Ends(down'[g], sock'[g])
  BY DEF GuestLink, Ends, Closing
<1>2. /\ Hears(g) => ~Closing(up[g]) /\ (g \in guests => sock[g] = "open")
      /\ view[g] = "none" => /\ up[g] = <<>> /\ sock[g] = "closed" /\ cl[g] = "closed"
                             /\ down[g] = <<>> /\ g \notin guests
      /\ down[g] # <<>> => Hears(g)
      /\ Ends(down[g], sock[g])
  BY GuestLinkEnds DEF Member
<1>3. UNCHANGED <<guests, sock>> /\ Hears(g)' = (cl'[g] \in {"connecting", "open"} /\ g \notin cut')
  BY GuestFrame DEF Hears
<1>4. Ends(<<>>, sock'[g]) /\ ~Closing(<<>>)
  BY EndsShort, ClosingEmpty
<1>5. CASE GuestReceive(g)
  <2> DEFINE m == Head(down[g])
  <2>1. /\ down[g] # <<>> /\ down'[g] = Tail(down[g]) /\ UNCHANGED cut
        /\ view'[g] = GuestViews(g, m)
        /\ cl'[g] = IF m.type \in {"close", "lost"} THEN "closed" ELSE "open"
        /\ up' = IF m.type = "close" THEN Uploaded(g, Close) ELSE up
    BY <1>0, <1>5 DEF GuestReceive, Types, DownOK, PageTypes, LinkTypes
  <2>2. Ends(Tail(down[g]), sock[g]) /\ (m.type \in {"close", "lost"} => Tail(down[g]) = <<>>)
    BY <1>0, <1>2, <2>1, EndsRead
  <2> HIDE DEF m
  <2>3. view'[g] # "none"
    BY <1>2, <2>1 DEF GuestViews
  <2>4. m.type \notin {"close", "lost"} => up' = up /\ Hears(g)'
    BY <1>2, <1>3, <2>1 DEF Hears
  <2>5. m.type \in {"close", "lost"} => ~Hears(g)'
    BY <1>3, <2>1
  <2>6. QED
    BY <1>1, <1>2, <1>3, <2>1, <2>2, <2>3, <2>4, <2>5
<1>6. CASE Watchdog(g) \/ GiveUp(g)
  <2>1. /\ down[g] = <<>> /\ view[g] # "none" /\ UNCHANGED <<down, cut>>
        /\ cl'[g] \in {"closing", "closed"} /\ view'[g] \in {view[g], "code"}
    BY <1>0, <1>2, <1>6 DEF Watchdog, GiveUp, net, Hears, Types, LinkTypes, PageTypes
  <2>2. QED
    BY <1>1, <1>3, <1>4, <2>1
<1>7. CASE Connect(g)
  <2>1. view[g] = "none" /\ view'[g] = "loading" /\ UNCHANGED <<down, up>>
    BY <1>7 DEF Connect, net, Types, PageTypes
  <2>2. QED
    BY <1>1, <1>2, <1>3, <1>4, <2>1
<1>8. CASE Leave(g)
  <2>1. down'[g] = <<>> /\ cl'[g] = "closed" /\ view'[g] = "gone"
    BY <1>0, <1>8 DEF Leave, Shut, Types, DownOK, LinkTypes, PageTypes
  <2>2. QED
    BY <1>1, <1>3, <1>4, <2>1
<1>9. CASE Cut(g)
  <2>1. down'[g] = <<>> /\ g \in cut' /\ view'[g] # "none"
    BY <1>0, <1>2, <1>9 DEF Cut, browser, Types, DownOK
  <2>2. QED
    BY <1>1, <1>3, <1>4, <2>1
<1>10. CASE Rejoin(g)
  <2>1. /\ cl[g] = "closed" /\ sock[g] = "closed" /\ down[g] = <<>> /\ up[g] = <<>>
        /\ UNCHANGED <<down, up, cl>>
    BY <1>10 DEF Rejoin, Forgotten
  <2>2. QED
    BY <1>1, <1>3, <1>4, <2>1
<1>11. ASSUME NEW b \in Button, GuestClick(g, b) PROVE GuestLink(g)'
  <2>1. UNCHANGED <<down, cut, cl, view>> /\ view[g] = "buttons"
    BY <1>11 DEF GuestClick, browser
  <2>2. CycleMsg(b) \in ToServer /\ CycleMsg(b).type # "close"
    BY PlainMessages DEF CycleMsg
  <2>3. up'[g] = up[g] \/ up'[g] = Append(up[g], CycleMsg(b))
    BY <1>0, <1>11, <2>2, UploadedUp DEF GuestClick, Types
  <2>4. ~Closing(up[g]) => ~Closing(up'[g])
    BY <1>0, <2>2, <2>3, ClosingAppend
  <2>5. Hears(g)' <=> Hears(g)
    BY <1>3, <2>1 DEF Hears
  <2>6. QED
    BY <1>1, <1>2, <1>3, <2>1, <2>4, <2>5
<1>12. QED
  BY <1>5, <1>6, <1>7, <1>8, <1>9, <1>10, <1>11 DEF GuestActs

LEMMA GuestLinkStep ==
  ASSUME Types, Types', [Next]_vars, NEW g \in Guest, Member(g), GuestLink(g)
  PROVE  GuestLink(g)'
<1>0. g \in Conn
  BY DEF Conn
<1>1. CASE ProcessActs
  BY <1>1, GuestLinkProcess
<1>2. CASE \E t \in Tab : TabActs(t)
  <2>1. PICK t \in Tab : TabActs(t)
    BY <1>2
  <2>2. g # ws[t] /\ g # ws'[t]
    BY Separate, RealtimeAssumption DEF Types, PageTypes
  <2>3. QED
    BY <1>0, <2>1, <2>2, TabFrame, GuestLinkKept DEF server
<1>3. CASE \E h \in Guest : GuestActs(h)
  <2>1. PICK h \in Guest : GuestActs(h)
    BY <1>3
  <2>2. CASE h = g
    BY <2>1, <2>2, GuestLinkOwn
  <2>3. CASE h # g
    BY <1>0, <2>1, <2>3, GuestFrame, GuestLinkKept
  <2>4. QED
    BY <2>2, <2>3
<1>4. CASE UNCHANGED vars
  BY <1>4, GuestLinkKept DEF vars, server, net, browser
<1>5. QED
  BY <1>1, <1>2, <1>3, <1>4, Actors

LEMMA LinksInit == Init => Links
  BY DEF Init, Links, TabLink, OwnLinks, HostLink, GuestLink, Closing, Hears, Conn

LEMMA LinksStep == Types /\ Types' /\ Members /\ Links /\ [Next]_vars => Links'
  BY TabLinkStep, OwnLinksStep, HostLinkStep, GuestLinkStep DEF Links, Members

LEMMA LinksAlways == Spec => [](Types /\ Members /\ Links)
  BY LinksInit, LinksStep, MembersAlways, PTL DEF Spec

-----------------------------------------------------------------------------
(* What a tab is told *)

(* A tab's connection hears everything that the process writes to it. *)
LEMMA HostWritten ==
  ASSUME Types, Links, NEW t \in Tab, NEW c \in HostConn, c = ws[t],
         NEW out, OutOK(out), down' = Written(out)
  PROVE  down'[c] = down[c] \o out[c]
<1>1. c # None /\ TabLink(t) /\ c \in Conn
  BY Separate DEF Links, Conn
<1>2. Hears(c) /\ Writable(c)
  BY <1>1 DEF TabLink, Hears, Writable
<1>3. QED
  BY <1>1, <1>2, WrittenDown DEF Types

ToldColors(c) ==
  c \in hosts /\ down'[c] = down[c] \o <<ColorsMsg(colors')>> /\ UNCHANGED <<guests, approved>>
ToldAll(c) ==
  /\ down[c] = <<>> /\ down'[c] = <<HostHello(colors, Pending)>>
  /\ UNCHANGED <<live, colors, guests, approved>>
ToldJoin(c, g) ==
  /\ c \in hosts /\ down'[c] = down[c] \o <<About("joinRequest", g)>>
  /\ guests' = guests \cup {g} /\ UNCHANGED <<live, colors, approved>>
ToldLeft(c, g) ==
  /\ c \in hosts /\ down'[c] = down[c] \o <<About("guestLeft", g)>>
  /\ guests' = guests \ {g} /\ UNCHANGED <<live, colors, approved>>
ToldNothing(c) ==
  c \in hosts /\ down'[c] = down[c] /\ UNCHANGED <<live, colors>> /\ Pending' \subseteq Pending

LEMMA HostTold ==
  ASSUME Types, Types', Links, ProcessActs, NEW t \in Tab, NEW c \in HostConn, c = ws[t],
         c \in hosts'
  PROVE  \/ ToldColors(c) \/ ToldAll(c) \/ ToldNothing(c) \/ (~live' /\ guests' = {})
         \/ \E g \in Guest : ToldJoin(c, g) \/ ToldLeft(c, g)
<1>0. c \in Conn /\ c \notin Guest /\ c \notin guests /\ down[c] \in Seq(ToHost)
      /\ down[c] \o <<>> = down[c]
  BY Separate DEF Conn, Types, ServerTypes, DownOK, OutOK
<1>1. ASSUME NEW cs \in Colors, down' = Written(To(Room, ColorsMsg(cs))), cs = colors',
             UNCHANGED <<hosts, guests, approved>>
      PROVE  ToldColors(c)
  <2>1. OutOK(To(Room, ColorsMsg(cs))) /\ To(Room, ColorsMsg(cs))[c] = <<ColorsMsg(cs)>>
    BY <1>0, <1>1, ToOK, ColorsMessages DEF To, Room
  <2>2. QED
    BY <1>1, <2>1, HostWritten DEF ToldColors
<1>2. CASE \/ \E asking \in {{}} \cup {{u} : u \in Tab} : StartSession(asking)
           \/ \E d \in Conn : ReceiveCycle(d)
  <2>1. colors' \in Colors
    BY DEF Types, ServerTypes
  <2>2. /\ down' = Written(To(Room, ColorsMsg(colors'))) /\ UNCHANGED <<hosts, guests, approved>>
    BY <1>2 DEF StartSession, ReceiveCycle
  <2>3. QED
    BY <1>1, <2>1, <2>2
<1>3. CASE EndSession \/ Restart
  BY <1>3 DEF EndSession, Restart
<1>4. CASE \E d \in HostConn : AddHost(d)
  <2>1. PICK d \in HostConn : AddHost(d)
    BY <1>4
  <2>2. HostHello(colors, Pending) \in ToHost
    BY ColorsMessages DEF Types, ServerTypes, Pending
  <2>3. OutOK(To({d}, HostHello(colors, Pending)))
    BY <2>2, ToOK, Separate
  <2>4. To({d}, HostHello(colors, Pending))[c] = IF c = d THEN <<HostHello(colors, Pending)>> ELSE <<>>
    BY <1>0 DEF To
  <2>5. down'[c] = down[c] \o To({d}, HostHello(colors, Pending))[c]
    BY <2>1, <2>3, HostWritten DEF AddHost
  <2>6. UNCHANGED <<live, colors, guests, approved>> /\ hosts' = hosts \cup {d} /\ down[d] = <<>>
    BY <2>1 DEF AddHost, Upgradable
  <2>7. CASE c = d
    <3>1. \A a : <<>> \o <<a>> = <<a>>
      OBVIOUS
    <3>2. QED
      BY <2>4, <2>5, <2>6, <2>7, <3>1 DEF ToldAll
  <2>8. CASE c # d
    BY <1>0, <2>4, <2>5, <2>6, <2>8 DEF ToldNothing, Pending
  <2>9. QED
    BY <2>7, <2>8
<1>5. CASE \E g \in Guest : AddGuest(g)
  <2>1. PICK g \in Guest : AddGuest(g)
    BY <1>5
  <2> DEFINE out == [d \in Conn |-> CASE d = g -> <<Plain("hello")>>
                                      [] d \in hosts -> <<About("joinRequest", g)>>
                                      [] OTHER -> <<>>]
  <2>2. \A d \in HostConn : out[d] = IF d \in hosts THEN <<About("joinRequest", g)>> ELSE <<>>
    BY Separate DEF Conn
  <2>3. \A x \in Guest : out[x] = <<Plain("hello")>> \/ out[x] = <<>>
    BY Separate DEF Conn, Types, ServerTypes
  <2>4. down' = Written(out)
    BY <2>1 DEF AddGuest
  <2> HIDE DEF out
  <2>5. OutOK(out)
    BY <2>2, <2>3, PlainMessages, GuestMessages, ShortSeq DEF OutOK
  <2>6. /\ c \in hosts /\ guests' = guests \cup {g} /\ UNCHANGED <<live, colors, approved>>
    BY <2>1 DEF AddGuest
  <2>7. down'[c] = down[c] \o out[c]
    BY <2>4, <2>5, HostWritten
  <2>8. ToldJoin(c, g)
    BY <2>2, <2>6, <2>7 DEF ToldJoin
  <2>9. QED
    BY <2>8
<1>6. CASE \E g \in Guest : Refuse(g)
  <2>1. PICK g \in Guest : Refuse(g)
    BY <1>6
  <2>2. OutOK(To({g}, Plain("lost"))) /\ To({g}, Plain("lost"))[c] = <<>>
    BY <1>0, ToOK, PlainMessages DEF To
  <2>3. down'[c] = down[c]
    BY <1>0, <2>1, <2>2, HostWritten DEF Refuse
  <2>4. QED
    BY <2>1, <2>3 DEF Refuse, server, ToldNothing, Pending
<1>7. CASE \E d \in Conn : SockClose(d)
  <2>1. PICK d \in Conn : SockClose(d)
    BY <1>7
  <2>2. c \in hosts /\ guests' = guests \ {d} /\ UNCHANGED <<live, colors, approved>>
    BY <2>1 DEF SockClose
  <2>3. CASE d \in guests
    <3>1. d \in Guest /\ down' = Written(To(hosts, About("guestLeft", d)))
      BY <2>1, <2>3 DEF SockClose, Types, ServerTypes
    <3>2. OutOK(To(hosts, About("guestLeft", d)))
      BY <3>1, ToOK, GuestMessages, Separate DEF Types, ServerTypes
    <3>3. To(hosts, About("guestLeft", d))[c] = <<About("guestLeft", d)>>
      BY <1>0, <2>2 DEF To
    <3>4. down'[c] = down[c] \o To(hosts, About("guestLeft", d))[c]
      BY <3>1, <3>2, HostWritten
    <3>5. ToldLeft(c, d)
      BY <2>2, <3>3, <3>4 DEF ToldLeft
    <3>6. QED
      BY <3>1, <3>5
  <2>4. CASE d \notin guests
    BY <2>1, <2>2, <2>4 DEF SockClose, ToldNothing, Pending
  <2>5. QED
    BY <2>3, <2>4
<1>8. CASE \E d \in Conn : ReceiveApprove(d)
  <2>1. PICK d \in Conn : ReceiveApprove(d)
    BY <1>8
  <2>2. PICK g : g = Head(up[d]).guest
    OBVIOUS
  <2>3. g \in Guest
    BY <2>1, <2>2, ReceivesOK DEF ReceiveApprove, Types, ToServer
  <2>4. /\ c \in hosts /\ UNCHANGED <<live, colors, guests>>
        /\ \/ approved' = approved \cup {g} /\ down' = Written(To({g}, ApprovedMsg(colors)))
           \/ UNCHANGED <<approved, down>>
    BY <2>1, <2>2 DEF ReceiveApprove
  <2>5. OutOK(To({g}, ApprovedMsg(colors)))
    BY <2>3, ToOK, ColorsMessages, Separate DEF Types, ServerTypes
  <2>6. To({g}, ApprovedMsg(colors))[c] = <<>>
    BY <1>0, <2>3 DEF To
  <2>7. ASSUME down' = Written(To({g}, ApprovedMsg(colors))) PROVE down'[c] = down[c]
    BY <1>0, <2>5, <2>6, <2>7, HostWritten
  <2>8. down'[c] = down[c]
    BY <2>4, <2>7
  <2>9. QED
    BY <2>4, <2>8 DEF ToldNothing, Pending
<1>9. CASE \E d \in Conn : ReceiveDeny(d)
  <2>1. PICK d \in Conn : ReceiveDeny(d)
    BY <1>9
  <2>2. PICK g : g = Head(up[d]).guest
    OBVIOUS
  <2> DEFINE out == [e \in Conn |-> IF e = g THEN <<Plain("denied"), Close>> ELSE <<>>]
  <2>3. g \in Guest
    BY <2>1, <2>2, ReceivesOK DEF ReceiveDeny, Types, ToServer
  <2>4. /\ c \in hosts /\ UNCHANGED <<live, colors, approved>>
        /\ \/ guests' = guests \ {g} /\ down' = Written(out)
           \/ UNCHANGED <<guests, down>>
    BY <2>1, <2>2 DEF ReceiveDeny
  <2>5. \A e \in HostConn : out[e] = <<>>
    BY <2>3, Separate DEF Conn
  <2>6. \A x \in Guest : out[x] = <<Plain("denied"), Close>> \/ out[x] = <<>>
    BY DEF Conn
  <2> HIDE DEF out
  <2>7. OutOK(out)
    BY <2>5, <2>6, PlainMessages, ShortSeq DEF OutOK
  <2>8. ASSUME down' = Written(out) PROVE down'[c] = down[c]
    <3>1. down'[c] = down[c] \o out[c]
      BY <2>7, <2>8, HostWritten
    <3>2. QED
      BY <1>0, <2>5, <3>1
  <2>9. down'[c] = down[c]
    BY <2>4, <2>8
  <2>10. QED
    BY <2>4, <2>9 DEF ToldNothing, Pending
<1>10. CASE \E d \in Conn : ReceiveClose(d)
  BY <1>10 DEF ReceiveClose, ToldNothing, Pending
<1>11. QED
  BY <1>2, <1>3, <1>4, <1>5, <1>6, <1>7, <1>8, <1>9, <1>10 DEF ProcessActs, ServerStep

-----------------------------------------------------------------------------
(* The colors of a tab *)

TabShows(t) == live /\ ws[t] \in hosts => Converges(t, ws[t])

LEMMA TabShowsReaches ==
  ASSUME NEW t
  PROVE  /\ TabShows(t) <=> (live /\ ws[t] \in hosts => Reaches(down[ws[t]], shown[t], colors))
         /\ TabShows(t)' <=>
              (live' /\ ws'[t] \in hosts' => Reaches(down'[ws'[t]], shown'[t], colors'))
<1>1. Converges(t, ws[t]) <=> Reaches(down[ws[t]], shown[t], colors)
  BY ConvergesReaches
<1>2. (Bearing \ Right)' = {m \in Bearing : m.colors # colors'}
  BY DEF Right, Bearing
<1>3. Converges(t, ws[t])' <=> Reaches(down'[ws'[t]], shown'[t], colors')
  BY <1>2 DEF Converges, Reaches, Right, Settles
<1>4. QED
  BY <1>1, <1>3 DEF TabShows

LEMMA HostMessages ==
  /\ ToHost \subseteq Message
  /\ \A cs \in Colors, waiting \in SUBSET Guest :
       LET m == HostHello(cs, waiting) IN "colors" \in DOMAIN m /\ m.colors = cs
  /\ \A cs \in Colors : LET m == ColorsMsg(cs) IN "colors" \in DOMAIN m /\ m.colors = cs
  /\ \A cs \in Colors : LET m == ApprovedMsg(cs) IN "colors" \in DOMAIN m /\ m.colors = cs
  /\ \A type, g : "colors" \notin DOMAIN About(type, g)
  BY DEF ToHost, Message, HostHello, ColorsMsg, ApprovedMsg, About

LEMMA TabShowsTold ==
  ASSUME Types, Types', Links, ProcessActs, NEW t \in Tab, TabShows(t)
  PROVE  TabShows(t)'
<1> SUFFICES ASSUME live', ws'[t] \in hosts'
             PROVE  Reaches(down'[ws'[t]], shown'[t], colors')
  BY TabShowsReaches
<1>1. UNCHANGED <<ws, shown>>
  BY ProcessFrame
<1>2. PICK c \in HostConn : c = ws[t]
  BY <1>1 DEF Types, ServerTypes
<1>3. /\ c \in hosts' /\ c = ws'[t] /\ shown'[t] = shown[t]
      /\ live /\ c \in hosts => Reaches(down[c], shown[t], colors)
  BY <1>1, <1>2, TabShowsReaches
<1>4. /\ down[c] \in Seq(ToHost) /\ <<>> \in Seq(ToHost) /\ down[c] \o <<>> = down[c]
      /\ colors \in Colors /\ colors' \in Colors /\ Pending \in SUBSET Guest
  BY DEF Types, DownOK, OutOK, ServerTypes, Pending
<1>5. CASE ToldColors(c)
  <2>1. ColorsMsg(colors') \in ToHost
    BY <1>4, ColorsMessages
  <2>2. Reaches(down[c] \o <<ColorsMsg(colors')>>, shown[t], colors')
    BY <1>4, <2>1, HostMessages, ReachesColors
  <2>3. QED
    BY <1>3, <1>5, <2>2 DEF ToldColors
<1>6. CASE ToldAll(c)
  <2>1. HostHello(colors, Pending) \in ToHost
    BY <1>4, ColorsMessages
  <2>2. Reaches(<<>> \o <<HostHello(colors, Pending)>>, shown[t], colors)
    BY <1>4, <2>1, HostMessages, ReachesColors
  <2>3. \A a : <<>> \o <<a>> = <<a>>
    OBVIOUS
  <2>4. QED
    BY <1>3, <1>6, <2>2, <2>3 DEF ToldAll
<1>7. ASSUME NEW g \in Guest, ToldJoin(c, g) \/ ToldLeft(c, g)
      PROVE  Reaches(down'[ws'[t]], shown'[t], colors')
  <2>1. PICK m \in ToHost : /\ down'[c] = down[c] \o <<m>> /\ "colors" \notin DOMAIN m
                            /\ c \in hosts /\ UNCHANGED <<live, colors>>
    BY <1>7, GuestMessages, HostMessages DEF ToldJoin, ToldLeft
  <2>2. Reaches(down[c], shown[t], colors)
    BY <1>3, <2>1
  <2>3. <<m>> \in Seq(ToHost) /\ ~Colored(<<m>>)
    BY <2>1, ColoredShort
  <2>4. Reaches(down[c] \o <<m>>, shown[t], colors)
    BY <1>4, <2>2, <2>3, ReachesOther
  <2>5. QED
    BY <1>3, <2>1, <2>4
<1>8. CASE ToldNothing(c)
  BY <1>3, <1>8 DEF ToldNothing
<1>9. QED
  BY <1>2, <1>3, <1>5, <1>6, <1>7, <1>8, HostTold

(* A page that takes a step shows what it has read; the others stay as they are. *)
LEMMA TabShowsOwn ==
  ASSUME Types, Links, NEW t \in Tab, TabActs(t), TabShows(t)
  PROVE  TabShows(t)'
<1> SUFFICES ASSUME live', ws'[t] \in hosts'
             PROVE  Reaches(down'[ws'[t]], shown'[t], colors')
  BY TabShowsReaches
<1>1. UNCHANGED <<live, colors, hosts, sock>>
  BY TabFrame DEF server
<1>2. PICK c \in HostConn : c = ws'[t]
  BY <1>1 DEF Types, ServerTypes
<1>3. c \in hosts /\ sock[c] # "closed" /\ c \in Conn
  BY <1>1, <1>2 DEF Links, HostLink, Conn
<1>4. c = ws[t]
  BY <1>2, <1>3, TabFrame, Separate
<1>5. Reaches(down[c], shown[t], colors)
  BY <1>1, <1>3, <1>4, TabShowsReaches
<1>6. CASE TabReceive(t)
  <2>1. /\ down[c] # <<>> /\ down' = [down EXCEPT ![c] = Tail(@)]
        /\ shown'[t] = ColorsAfter(shown[t], Head(down[c]))
    BY <1>4, <1>6 DEF TabReceive, Types, PageTypes
  <2>2. /\ down'[c] = Tail(down[c]) /\ down[c] \in Seq(ToHost)
        /\ Head(down[c]) \in Message
    BY <1>3, <2>1, ReadOK, HostMessages DEF Types, DownOK, OutOK
  <2>3. QED
    BY <1>1, <1>2, <1>5, <2>1, <2>2, ReachesRead
<1>7. CASE ShowLocked(t) \/ Reload(t)
  BY <1>2, <1>7, Separate DEF ShowLocked, Reload, Types, PageTypes
<1>8. CASE ShowGranted(t)
  <2>1. cl[c] = "closed" \/ sock[c] = "closed"
    BY <1>2, <1>8 DEF ShowGranted, Types, PageTypes
  <2>2. cl[c] # "closed"
    BY <1>4, Separate DEF Links, TabLink
  <2>3. QED
    BY <1>3, <1>8, <2>1, <2>2, <1>2 DEF ShowGranted, Types, PageTypes
<1>9. CASE UNCHANGED <<down, shown>>
  BY <1>1, <1>2, <1>5, <1>9
<1>10. CASE \/ Refresh(t) \/ Serve(t)
            \/ \E g \in Guest, type \in {"approve", "deny"} : Decide(t, g, type)
            \/ \E b \in Button : HostClick(t, b)
  BY <1>9, <1>10 DEF Refresh, Serve, Decide, HostClick, net, browser
<1>11. QED
  BY <1>6, <1>7, <1>8, <1>10 DEF TabActs, TabStep

LEMMA TabShowsStep ==
  ASSUME Types, Types', Links, [Next]_vars, NEW t \in Tab, TabShows(t)
  PROVE  TabShows(t)'
<1>1. ASSUME UNCHANGED <<live, colors, hosts>>, ws'[t] = ws[t], shown'[t] = shown[t],
             ws[t] \in Conn => down'[ws[t]] = down[ws[t]]
      PROVE  TabShows(t)'
  BY <1>1, TabShowsReaches DEF Types, ServerTypes, Conn
<1>2. ASSUME NEW u \in Tab, TabActs(u), u # t
      PROVE  TabShows(t)'
  <2>1. UNCHANGED <<live, colors, hosts>> /\ ws'[t] = ws[t] /\ shown'[t] = shown[t]
    BY <1>2, TabFrame DEF server
  <2>2. ws[t] \in Conn => ws[t] # ws[u]
    BY <1>2, RealtimeAssumption DEF Links, OwnLinks, Conn
  <2>3. QED
    BY <1>1, <1>2, <2>1, <2>2, TabFrame
<1>3. ASSUME NEW g \in Guest, GuestActs(g)
      PROVE  TabShows(t)'
  <2>1. t # g /\ g # ws[t]
    BY RealtimeAssumption, Separate DEF Types, PageTypes
  <2>2. UNCHANGED <<live, colors, hosts>> /\ ws'[t] = ws[t] /\ shown'[t] = shown[t]
    BY <1>3, <2>1, GuestFrame DEF tabs
  <2>3. QED
    BY <1>1, <1>3, <2>1, <2>2, GuestFrame
<1>4. CASE UNCHANGED vars
  BY <1>1, <1>4 DEF vars, server, net, browser, tabs
<1>5. QED
  BY <1>2, <1>3, <1>4, Actors, TabShowsTold, TabShowsOwn

-----------------------------------------------------------------------------
(* The colors of a guest *)

GuestShows(g) == live /\ g \in Approved /\ Hears(g) => Converges(g, g)

LEMMA GuestShowsReaches ==
  ASSUME NEW g
  PROVE  /\ GuestShows(g) <=>
              (live /\ g \in Approved /\ Hears(g) => Reaches(down[g], shown[g], colors))
         /\ GuestShows(g)' <=>
              (live' /\ g \in Approved' /\ Hears(g)' => Reaches(down'[g], shown'[g], colors'))
  BY ConvergesReaches DEF GuestShows

(* What reaches an approved guest who listens: the new colors, or nothing *)
GuestColors(g) ==
  \E m \in ToGuest : down'[g] = down[g] \o <<m>> /\ "colors" \in DOMAIN m /\ m.colors = colors'
GuestNothing(g) == live /\ g \in Approved /\ colors' = colors /\ down'[g] = down[g]

LEMMA GuestTold ==
  ASSUME Types, Types', ProcessActs, NEW g \in Guest, Member(g), GuestLink(g),
         Hears(g), live', g \in guests', g \in approved'
  PROVE  GuestColors(g) \/ GuestNothing(g)
<1>0. /\ g \in Conn /\ g \notin HostConn /\ g \notin hosts /\ down[g] \in Seq(ToGuest)
      /\ down[g] \o <<>> = down[g] /\ colors' \in Colors /\ colors \in Colors
  BY Separate DEF Conn, Types, ServerTypes, DownOK, OutOK
<1>a. g \in guests => sock[g] = "open" /\ Writable(g)
  BY DEF GuestLink, Writable
<1>b. ASSUME NEW out, OutOK(out), down' = Written(out), out[g] = <<>>
      PROVE  down'[g] = down[g]
  BY <1>0, <1>b, WrittenDown DEF Types
<1>1. ASSUME UNCHANGED <<guests, approved>>, down' = Written(To(Room, ColorsMsg(colors')))
      PROVE  GuestColors(g)
  <2>1. OutOK(To(Room, ColorsMsg(colors'))) /\ ColorsMsg(colors') \in ToGuest
    BY <1>0, ToOK, ColorsMessages
  <2>2. To(Room, ColorsMsg(colors'))[g] = <<ColorsMsg(colors')>>
    BY <1>0, <1>1 DEF To, Room, Approved
  <2>3. down'[g] = down[g] \o <<ColorsMsg(colors')>>
    BY <1>0, <1>1, <1>a, <2>1, <2>2, WrittenDown DEF Types
  <2>4. "colors" \in DOMAIN ColorsMsg(colors') /\ ColorsMsg(colors').colors = colors'
    BY <1>0, HostMessages
  <2>5. QED
    BY <2>1, <2>3, <2>4 DEF GuestColors
<1>2. CASE \/ \E asking \in {{}} \cup {{u} : u \in Tab} : StartSession(asking)
           \/ \E c \in Conn : ReceiveCycle(c)
  <2>1. UNCHANGED <<guests, approved>> /\ down' = Written(To(Room, ColorsMsg(colors')))
    BY <1>2 DEF StartSession, ReceiveCycle
  <2>2. QED
    BY <1>1, <2>1
<1>3. CASE EndSession \/ Restart \/ \E h \in Guest : Refuse(h)
  BY <1>3 DEF EndSession, Restart, Refuse, server
<1>4. CASE \E c \in HostConn : AddHost(c)
  <2>1. PICK c \in HostConn : AddHost(c)
    BY <1>4
  <2>2. HostHello(colors, Pending) \in ToHost
    BY ColorsMessages DEF Types, ServerTypes, Pending
  <2>3. OutOK(To({c}, HostHello(colors, Pending))) /\ To({c}, HostHello(colors, Pending))[g] = <<>>
    BY <1>0, <2>2, ToOK, ToOthers, Separate
  <2>4. /\ down' = Written(To({c}, HostHello(colors, Pending)))
        /\ UNCHANGED <<live, colors, guests, approved>>
    BY <2>1 DEF AddHost
  <2>5. down'[g] = down[g]
    BY <1>b, <2>3, <2>4
  <2>6. QED
    BY <2>4, <2>5 DEF GuestNothing, Approved
<1>5. CASE \E h \in Guest : AddGuest(h)
  <2>1. PICK h \in Guest : AddGuest(h)
    BY <1>5
  <2>2. /\ guests' = guests \cup {h} /\ UNCHANGED <<live, colors, approved>>
        /\ cl[h] = "connecting" /\ sock[h] = "closed" /\ h \notin cut
    BY <2>1 DEF AddGuest, Upgradable
  <2>3. h # g
    BY <2>2 DEF Member
  <2> DEFINE out == [c \in Conn |-> CASE c = h -> <<Plain("hello")>>
                                      [] c \in hosts -> <<About("joinRequest", h)>>
                                      [] OTHER -> <<>>]
  <2>4. \A c \in HostConn : out[c] = <<About("joinRequest", h)>> \/ out[c] = <<>>
    BY Separate DEF Conn
  <2>5. \A x \in Guest : out[x] = IF x = h THEN <<Plain("hello")>> ELSE <<>>
    BY Separate DEF Conn, Types, ServerTypes
  <2>6. down' = Written(out)
    BY <2>1 DEF AddGuest
  <2> HIDE DEF out
  <2>7. OutOK(out)
    BY <2>4, <2>5, PlainMessages, GuestMessages, ShortSeq DEF OutOK
  <2>8. down'[g] = down[g]
    BY <1>b, <2>3, <2>5, <2>6, <2>7
  <2>9. QED
    BY <2>2, <2>3, <2>8 DEF GuestNothing, Approved
<1>6. CASE \E c \in Conn : ReceiveApprove(c)
  <2>1. PICK c \in Conn : ReceiveApprove(c)
    BY <1>6
  <2>2. PICK h : h = Head(up[c]).guest
    OBVIOUS
  <2>3. h \in Guest /\ UNCHANGED <<live, colors, guests>>
    <3>1. h \in Guest
      BY <2>1, <2>2, ReceivesOK DEF ReceiveApprove, Types, ToServer
    <3>2. UNCHANGED <<live, colors, guests>>
      BY <2>1 DEF ReceiveApprove
    <3>3. QED
      BY <3>1, <3>2
  <2>4. \/ approved' = approved \cup {h} /\ down' = Written(To({h}, ApprovedMsg(colors)))
        \/ UNCHANGED <<approved, down>>
    BY <2>1, <2>2 DEF ReceiveApprove
  <2>5. CASE approved' = approved \cup {h} /\ down' = Written(To({h}, ApprovedMsg(colors)))
    <3>1. OutOK(To({h}, ApprovedMsg(colors))) /\ ApprovedMsg(colors) \in ToGuest
      BY <1>0, <2>3, ToOK, ColorsMessages, Separate
    <3>2. CASE h = g
      <4>1. To({h}, ApprovedMsg(colors))[g] = <<ApprovedMsg(colors)>>
        BY <1>0, <3>2 DEF To
      <4>2. down'[g] = down[g] \o <<ApprovedMsg(colors)>>
        BY <1>0, <1>a, <2>3, <2>5, <3>1, <4>1, WrittenDown DEF Types
      <4>3. "colors" \in DOMAIN ApprovedMsg(colors) /\ ApprovedMsg(colors).colors = colors
        BY <1>0, HostMessages
      <4>4. QED
        BY <2>3, <3>1, <4>2, <4>3 DEF GuestColors
    <3>3. CASE h # g
      <4>1. To({h}, ApprovedMsg(colors))[g] = <<>>
        BY <3>3, ToOthers
      <4>2. down'[g] = down[g]
        BY <1>b, <2>5, <3>1, <4>1
      <4>3. QED
        BY <2>3, <2>5, <3>3, <4>2 DEF GuestNothing, Approved
    <3>4. QED
      BY <3>2, <3>3
  <2>6. CASE UNCHANGED <<approved, down>>
    BY <2>3, <2>6 DEF GuestNothing, Approved
  <2>7. QED
    BY <2>4, <2>5, <2>6
<1>7. CASE \E c \in Conn : ReceiveDeny(c)
  <2>1. PICK c \in Conn : ReceiveDeny(c)
    BY <1>7
  <2>2. PICK h : h = Head(up[c]).guest
    OBVIOUS
  <2> DEFINE out == [d \in Conn |-> IF d = h THEN <<Plain("denied"), Close>> ELSE <<>>]
  <2>3. h \in Guest /\ UNCHANGED <<live, colors, approved>>
    <3>1. h \in Guest
      BY <2>1, <2>2, ReceivesOK DEF ReceiveDeny, Types, ToServer
    <3>2. UNCHANGED <<live, colors, approved>>
      BY <2>1 DEF ReceiveDeny
    <3>3. QED
      BY <3>1, <3>2
  <2>4. \/ guests' = guests \ {h} /\ down' = Written(out)
        \/ UNCHANGED <<guests, down>>
    BY <2>1, <2>2 DEF ReceiveDeny
  <2>5. \A d \in HostConn : out[d] = <<>>
    BY <2>3, Separate DEF Conn
  <2>6. \A x \in Guest : out[x] = IF x = h THEN <<Plain("denied"), Close>> ELSE <<>>
    BY DEF Conn
  <2> HIDE DEF out
  <2>7. OutOK(out)
    BY <2>5, <2>6, PlainMessages, ShortSeq DEF OutOK
  <2>8. ASSUME guests' = guests \ {h}, down' = Written(out) PROVE down'[g] = down[g]
    BY <1>b, <2>6, <2>7, <2>8
  <2>9. QED
    BY <2>3, <2>4, <2>8 DEF GuestNothing, Approved
<1>8. CASE \E c \in Conn : ReceiveClose(c)
  BY <1>8 DEF ReceiveClose, GuestNothing, Approved
<1>9. CASE \E c \in Conn : SockClose(c)
  <2>1. PICK c \in Conn : SockClose(c)
    BY <1>9
  <2>2. guests' = guests \ {c} /\ UNCHANGED <<live, colors, approved>>
    BY <2>1 DEF SockClose
  <2>3. down'[g] = down[g]
    <3>1. CASE c \in guests
      <4>1. c \in Guest /\ down' = Written(To(hosts, About("guestLeft", c)))
        BY <2>1, <3>1 DEF SockClose, Types, ServerTypes
      <4>2. OutOK(To(hosts, About("guestLeft", c)))
        BY <4>1, ToOK, GuestMessages, Separate DEF Types, ServerTypes
      <4>3. To(hosts, About("guestLeft", c))[g] = <<>>
        BY <1>0, ToOthers
      <4>4. QED
        BY <1>b, <4>1, <4>2, <4>3
    <3>2. CASE c \notin guests
      BY <2>1, <3>2 DEF SockClose
    <3>3. QED
      BY <3>1, <3>2
  <2>4. QED
    BY <2>2, <2>3 DEF GuestNothing, Approved
<1>10. QED
  BY <1>2, <1>3, <1>4, <1>5, <1>6, <1>7, <1>8, <1>9 DEF ProcessActs, ServerStep

LEMMA GuestShowsTold ==
  ASSUME Types, Types', ProcessActs, NEW g \in Guest, Member(g), GuestLink(g), GuestShows(g)
  PROVE  GuestShows(g)'
<1> SUFFICES ASSUME live', g \in Approved', Hears(g)'
             PROVE  Reaches(down'[g], shown'[g], colors')
  BY GuestShowsReaches
<1>1. shown' = shown /\ Hears(g) /\ g \in guests' /\ g \in approved'
  BY ProcessFrame DEF Hears, Approved
<1>2. down[g] \in Seq(ToGuest) /\ ToGuest \subseteq Message
  BY DEF Types, DownOK, OutOK, ToGuest, Message
<1>3. CASE GuestColors(g)
  <2>1. PICK m \in ToGuest : down'[g] = down[g] \o <<m>> /\ "colors" \in DOMAIN m /\ m.colors = colors'
    BY <1>3 DEF GuestColors
  <2>2. Reaches(down[g] \o <<m>>, shown[g], colors')
    BY <1>2, <2>1, ReachesColors
  <2>3. QED
    BY <1>1, <2>1, <2>2
<1>4. CASE GuestNothing(g)
  <2>1. Reaches(down[g], shown[g], colors)
    BY <1>1, <1>4, GuestShowsReaches DEF GuestNothing
  <2>2. QED
    BY <1>1, <1>4, <2>1 DEF GuestNothing
<1>5. QED
  BY <1>1, <1>3, <1>4, GuestTold

LEMMA GuestShowsOwn ==
  ASSUME Types, NEW g \in Guest, Member(g), GuestLink(g), GuestActs(g), GuestShows(g)
  PROVE  GuestShows(g)'
<1> SUFFICES ASSUME live', g \in Approved', Hears(g)'
             PROVE  Reaches(down'[g], shown'[g], colors')
  BY GuestShowsReaches
<1>1. UNCHANGED <<live, colors, guests, sock>> /\ g \in guests /\ g \in Conn
  BY GuestFrame DEF Approved, Conn
<1>2. sock[g] # "closed" /\ view[g] # "none"
  BY <1>1 DEF Member
<1>3. CASE GuestReceive(g)
  <2>1. /\ down[g] # <<>> /\ down' = [down EXCEPT ![g] = Tail(@)] /\ UNCHANGED approved
        /\ shown'[g] = ColorsAfter(shown[g], Head(down[g]))
    BY <1>3 DEF GuestReceive, Types, PageTypes, server
  <2>2. /\ down'[g] = Tail(down[g]) /\ down[g] \in Seq(ToGuest)
        /\ Head(down[g]) \in ToGuest /\ ToGuest \subseteq Message
    BY <1>1, <2>1, ReadOK DEF Types, DownOK, OutOK, ToGuest, Message
  <2>3. Reaches(down[g], shown[g], colors)
    BY <1>1, <2>1, GuestShowsReaches DEF Approved, GuestLink
  <2>4. QED
    BY <1>1, <2>1, <2>2, <2>3, ReachesRead
<1>4. CASE Watchdog(g) \/ GiveUp(g) \/ Leave(g) \/ Cut(g)
  BY <1>1, <1>4 DEF Watchdog, GiveUp, Leave, Cut, Hears, Types, LinkTypes
<1>5. CASE Connect(g) \/ Rejoin(g)
  BY <1>2, <1>5 DEF Connect, Rejoin, Forgotten
<1>6. CASE \E b \in Button : GuestClick(g, b)
  <2>1. UNCHANGED <<approved, down, cut, cl, shown>>
    BY <1>6 DEF GuestClick, server, browser
  <2>2. QED
    BY <1>1, <2>1, GuestShowsReaches DEF Approved, Hears
<1>7. QED
  BY <1>3, <1>4, <1>5, <1>6 DEF GuestActs

LEMMA GuestShowsStep ==
  ASSUME Types, Types', Links, [Next]_vars, NEW g \in Guest, Member(g), GuestShows(g)
  PROVE  GuestShows(g)'
<1>0. GuestLink(g) /\ g \in Conn
  BY DEF Links, Conn
<1>1. ASSUME UNCHANGED <<live, colors>>, g \in Approved' <=> g \in Approved, cl'[g] = cl[g],
             g \in cut' <=> g \in cut, shown'[g] = shown[g], down'[g] = down[g]
      PROVE  GuestShows(g)'
  BY <1>1, GuestShowsReaches DEF Hears
<1>2. ASSUME NEW t \in Tab, TabActs(t)
      PROVE  GuestShows(g)'
  <2>1. g # ws[t] /\ g # ws'[t] /\ g # t
    BY Separate, RealtimeAssumption DEF Types, PageTypes
  <2>2. UNCHANGED <<live, colors, guests, approved>> /\ shown'[g] = shown[g]
    BY <1>2, <2>1, TabFrame DEF server
  <2>3. QED
    BY <1>0, <1>1, <1>2, <2>1, <2>2, TabFrame DEF Approved
<1>3. ASSUME NEW h \in Guest, GuestActs(h), h # g
      PROVE  GuestShows(g)'
  BY <1>0, <1>1, <1>3, GuestFrame DEF Approved
<1>4. CASE UNCHANGED vars
  BY <1>1, <1>4 DEF vars, server, net, browser, Approved
<1>5. QED
  BY <1>0, <1>2, <1>3, <1>4, Actors, GuestShowsTold, GuestShowsOwn

Shows ==
  /\ \A t \in Tab : TabShows(t)
  /\ \A g \in Guest : GuestShows(g)

LEMMA ShowsInit == Init => Shows
  BY DEF Init, Shows, TabShows, GuestShows

LEMMA ShowsStep ==
  Types /\ Types' /\ Members /\ Links /\ [Next]_vars /\ Shows => Shows'
  BY TabShowsStep, GuestShowsStep DEF Shows, Members

(***************************************************************************)
(* "Button colors sync in realtime for everyone": while a session is live,  *)
(* a connected tab and an approved guest will show the process's colors      *)
(* once they have read what is on its way (broadcastColors, and the colors   *)
(* in hello and approved).                                                  *)
(***************************************************************************)
THEOREM ColorsReachEveryone == Spec => []ColorsConverge
<1>1. Types /\ Shows => ColorsConverge
  BY DEF Shows, TabShows, GuestShows, ColorsConverge, Types, ServerTypes, Approved
<1>2. QED
  BY <1>1, ShowsInit, ShowsStep, LinksAlways, PTL DEF Spec

-----------------------------------------------------------------------------
(* The devices that wait *)

Seen(t, g) == g \in Pending /\ ws[t] \in hosts => WillList(t, g) \/ DecisionInFlight(g)

LEMMA SeenLists ==
  ASSUME NEW t, NEW g
  PROVE  /\ Seen(t, g) <=>
              (g \in Pending /\ ws[t] \in hosts
                 => Lists(down[ws[t]], rows[t], g) \/ DecisionInFlight(g))
         /\ Seen(t, g)' <=>
              (g \in Pending' /\ ws'[t] \in hosts'
                 => Lists(down'[ws'[t]], rows'[t], g) \/ DecisionInFlight(g)')
<1>1. Seen(t, g) <=> (g \in Pending /\ ws[t] \in hosts
                        => Lists(down[ws[t]], rows[t], g) \/ DecisionInFlight(g))
  BY WillListLists DEF Seen
<1>2. Seen(t, g)' <=> (g \in Pending' /\ ws'[t] \in hosts'
                         => Lists(down'[ws'[t]], rows'[t], g) \/ DecisionInFlight(g)')
  BY WillListLists DEF Seen
<1>3. QED
  BY <1>1, <1>2

(* A decision on its way stays there while the connections only get longer, ... *)
LEMMA DecisionLonger ==
  ASSUME Types, NEW g, DecisionInFlight(g),
         \A c \in HostConn : up'[c] = up[c] \/ \E m : up'[c] = Append(up[c], m)
  PROVE  DecisionInFlight(g)'
<1>1. PICK c \in HostConn, type \in {"approve", "deny"} :
        \E i \in DOMAIN up[c] : up[c][i] = About(type, g)
  BY DEF DecisionInFlight
<1>2. PICK i \in DOMAIN up[c] : up[c][i] = About(type, g)
  BY <1>1
<1>3. up[c] \in Seq(ToServer)
  BY DEF Types, UpOK, Conn
<1>4. \E j \in DOMAIN up'[c] : up'[c][j] = About(type, g)
  <2>1. CASE up'[c] = up[c]
    BY <1>2, <2>1
  <2>2. ASSUME NEW m, up'[c] = Append(up[c], m)
        PROVE  \E j \in DOMAIN up'[c] : up'[c][j] = About(type, g)
    <3>1. up[c] \in Seq(ToServer \cup {m}) /\ m \in ToServer \cup {m}
      BY <1>3, SeqOfMore
    <3>2. i \in DOMAIN Append(up[c], m) /\ Append(up[c], m)[i] = up[c][i]
      BY <3>1
    <3>3. QED
      BY <1>2, <2>2, <3>2
  <2>3. QED
    BY <2>1, <2>2
<1>5. QED
  BY <1>4 DEF DecisionInFlight, About

(* ... and until the process takes it, which leaves nothing to decide. *)
LEMMA DecisionTaken ==
  ASSUME Types, ProcessActs, NEW g \in Pending, g \in Pending', DecisionInFlight(g)
  PROVE  DecisionInFlight(g)'
<1>1. CASE UNCHANGED up
  BY <1>1, DecisionLonger
<1>2. CASE Restart
  BY <1>2 DEF Restart, Pending
<1>3. ASSUME NEW d \in Conn, NEW kind, Receives(d, kind),
             Head(up[d]) # About("approve", g), Head(up[d]) # About("deny", g)
      PROVE  DecisionInFlight(g)'
  <2>1. PICK c \in HostConn, type \in {"approve", "deny"} :
          \E i \in DOMAIN up[c] : up[c][i] = About(type, g)
    BY DEF DecisionInFlight
  <2>2. PICK i \in DOMAIN up[c] : up[c][i] = About(type, g)
    BY <2>1
  <2>3. c \in Conn /\ up[c] \in Seq(ToServer) /\ up'[c] = IF c = d THEN Tail(up[d]) ELSE up[c]
    BY <1>3, ReceivesUp DEF Types, UpOK, Conn
  <2>4. \E j \in DOMAIN up'[c] : up'[c][j] = About(type, g)
    <3>1. CASE c = d
      <4>1. up[c] # <<>>
        BY <1>3, <3>1 DEF Receives
      <4>2. /\ Len(up[c]) \in Nat \ {0} /\ DOMAIN up[c] = 1..Len(up[c]) /\ Head(up[c]) = up[c][1]
            /\ DOMAIN Tail(up[c]) = 1..Len(up[c]) - 1
            /\ \A j \in 1..Len(up[c]) - 1 : Tail(up[c])[j] = up[c][j + 1]
        BY <2>3, <4>1
      <4>3. Head(up[c]) # About(type, g)
        BY <1>3, <2>1, <3>1
      <4>4. i # 1
        BY <2>2, <4>2, <4>3
      <4>5. i - 1 \in DOMAIN Tail(up[c]) /\ Tail(up[c])[i - 1] = up[c][i]
        BY <4>2, <4>4
      <4>6. QED
        BY <2>2, <2>3, <3>1, <4>5
    <3>2. CASE c # d
      BY <2>2, <2>3, <3>2
    <3>3. QED
      BY <3>1, <3>2
  <2>5. QED
    BY <2>4 DEF DecisionInFlight, About
<1>4. About("approve", g).type = "approve" /\ About("deny", g).type = "deny"
      /\ \A type : About(type, g).guest = g
  BY DEF About
<1>5. ASSUME NEW d \in Conn, ReceiveCycle(d) \/ ReceiveClose(d)
      PROVE  DecisionInFlight(g)'
  <2>1. \E kind \in {"cycle", "close"} : Receives(d, kind)
    BY <1>5 DEF ReceiveCycle, ReceiveClose
  <2>2. QED
    BY <1>3, <1>4, <2>1, ReceivesUp DEF Types
<1>6. ASSUME NEW d \in Conn, ReceiveApprove(d)
      PROVE  DecisionInFlight(g)'
  <2>1. Receives(d, "approve") /\ Head(up[d]).type = "approve"
    BY <1>6, ReceivesUp DEF ReceiveApprove, Types
  <2>2. Head(up[d]).guest # g
    BY <1>6 DEF ReceiveApprove, Undecided, Pending
  <2>3. QED
    BY <1>3, <1>4, <2>1, <2>2
<1>7. ASSUME NEW d \in Conn, ReceiveDeny(d)
      PROVE  DecisionInFlight(g)'
  <2>1. Receives(d, "deny") /\ Head(up[d]).type = "deny"
    BY <1>7, ReceivesUp DEF ReceiveDeny, Types
  <2>2. Head(up[d]).guest # g
    BY <1>7 DEF ReceiveDeny, Undecided, Pending
  <2>3. QED
    BY <1>3, <1>4, <2>1, <2>2
<1>8. CASE \/ \E asking \in {{}} \cup {{u} : u \in Tab} : StartSession(asking)
           \/ EndSession \/ \E c \in HostConn : AddHost(c)
           \/ \E h \in Guest : AddGuest(h) \/ Refuse(h)
           \/ \E c \in Conn : SockClose(c)
  BY <1>1, <1>8 DEF StartSession, EndSession, AddHost, AddGuest, Refuse, SockClose
<1>9. QED
  BY <1>2, <1>5, <1>6, <1>7, <1>8 DEF ProcessActs, ServerStep

LEMMA SeenTold ==
  ASSUME Types, Types', Links, ProcessActs, NEW t \in Tab, NEW g \in Guest, Seen(t, g)
  PROVE  Seen(t, g)'
<1> SUFFICES ASSUME g \in Pending', ws'[t] \in hosts'
             PROVE  Lists(down'[ws'[t]], rows'[t], g) \/ DecisionInFlight(g)'
  BY SeenLists
<1>1. UNCHANGED <<ws, rows>>
  BY ProcessFrame
<1>2. PICK c \in HostConn : c = ws[t]
  BY <1>1 DEF Types, ServerTypes
<1>3. /\ c \in hosts' /\ c = ws'[t] /\ rows'[t] = rows[t]
      /\ g \in Pending /\ c \in hosts => Lists(down[c], rows[t], g) \/ DecisionInFlight(g)'
  BY <1>1, <1>2, SeenLists, DecisionTaken
<1>4. /\ down[c] \in Seq(ToHost) /\ colors \in Colors /\ colors' \in Colors
      /\ Pending \in SUBSET Guest
  BY DEF Types, DownOK, OutOK, ServerTypes, Pending
<1>5. ASSUME NEW m \in ToHost, down'[c] = down[c] \o <<m>>, m # About("guestLeft", g),
             g \in Pending, c \in hosts
      PROVE  Lists(down'[ws'[t]], rows'[t], g) \/ DecisionInFlight(g)'
  <2>1. <<m>> \in Seq(ToHost) /\ \A i \in DOMAIN <<m>> : <<m>>[i] # About("guestLeft", g)
    BY <1>5
  <2>2. Lists(down[c], rows[t], g) => Lists(down[c] \o <<m>>, rows[t], g)
    BY <1>4, <2>1, ListsOther
  <2>3. QED
    BY <1>3, <1>5, <2>2
<1>6. CASE ToldColors(c)
  <2>1. ColorsMsg(colors') \in ToHost /\ ColorsMsg(colors') # About("guestLeft", g)
    BY <1>4, ColorsMessages DEF ColorsMsg, About
  <2>2. QED
    BY <1>5, <1>6, <2>1 DEF ToldColors, Pending
<1>7. CASE ToldAll(c)
  <2>1. g \in Pending
    BY <1>7 DEF ToldAll, Pending
  <2>2. HostHello(colors, Pending) \in ToHost /\ HostHello(colors, Pending) \in Listing(g)
    BY <1>4, <2>1, ColorsMessages, ListingMessages
  <2>3. <<>> \in Seq(ToHost) /\ \A a : <<>> \o <<a>> = <<a>>
    OBVIOUS
  <2>4. Lists(<<HostHello(colors, Pending)>>, rows[t], g)
    BY <2>2, <2>3, ListsNew
  <2>5. QED
    BY <1>3, <1>7, <2>4 DEF ToldAll
<1>8. ASSUME NEW h \in Guest, ToldJoin(c, h)
      PROVE  Lists(down'[ws'[t]], rows'[t], g) \/ DecisionInFlight(g)'
  <2>1. About("joinRequest", h) \in ToHost /\ About("joinRequest", h) # About("guestLeft", g)
    BY GuestMessages DEF About
  <2>2. CASE h = g
    <3>1. Lists(down[c] \o <<About("joinRequest", h)>>, rows[t], g)
      BY <1>4, <2>1, <2>2, ListingMessages, ListsNew
    <3>2. QED
      BY <1>3, <1>8, <3>1 DEF ToldJoin
  <2>3. CASE h # g
    BY <1>5, <1>8, <2>1, <2>3 DEF ToldJoin, Pending
  <2>4. QED
    BY <2>2, <2>3
<1>9. ASSUME NEW h \in Guest, ToldLeft(c, h)
      PROVE  Lists(down'[ws'[t]], rows'[t], g) \/ DecisionInFlight(g)'
  <2>1. h # g /\ g \in Pending
    BY <1>9 DEF ToldLeft, Pending
  <2>2. About("guestLeft", h) \in ToHost /\ About("guestLeft", h) # About("guestLeft", g)
    BY <2>1, GuestMessages DEF About
  <2>3. QED
    BY <1>5, <1>9, <2>1, <2>2 DEF ToldLeft
<1>10. CASE ToldNothing(c)
  BY <1>3, <1>10 DEF ToldNothing
<1>11. CASE guests' = {}
  BY <1>11 DEF Pending
<1>12. QED
  BY <1>2, <1>3, <1>6, <1>7, <1>8, <1>9, <1>10, <1>11, HostTold

LEMMA SeenOwn ==
  ASSUME Types, Links, NEW t \in Tab, TabActs(t), NEW g \in Guest, Seen(t, g)
  PROVE  Seen(t, g)'
<1> SUFFICES ASSUME g \in Pending', ws'[t] \in hosts'
             PROVE  Lists(down'[ws'[t]], rows'[t], g) \/ DecisionInFlight(g)'
  BY SeenLists
<1>1. UNCHANGED <<hosts, sock, guests, approved>>
  BY TabFrame DEF server
<1>2. PICK c \in HostConn : c = ws'[t]
  BY <1>1 DEF Types, ServerTypes
<1>3. c \in hosts /\ sock[c] # "closed" /\ c \in Conn /\ g \in Pending
  BY <1>1, <1>2 DEF Links, HostLink, Conn, Pending
<1>4. c = ws[t]
  BY <1>2, <1>3, TabFrame, Separate
<1>5. TabLink(t) /\ c # None
  BY Separate DEF Links
<1>6. DecisionInFlight(g) => DecisionInFlight(g)'
  <2>1. \A d \in HostConn : up'[d] = up[d] \/ \E m : up'[d] = Append(up[d], m)
    BY TabFrame DEF Conn
  <2>2. QED
    BY <2>1, DecisionLonger
<1>7. Lists(down[c], rows[t], g) \/ DecisionInFlight(g)'
  BY <1>3, <1>4, <1>6, SeenLists
<1>8. CASE TabReceive(t)
  <2>1. /\ down[c] # <<>> /\ down' = [down EXCEPT ![c] = Tail(@)]
        /\ rows'[t] = RowsAfter(rows[t], Head(down[c]))
    BY <1>4, <1>8 DEF TabReceive, Types, PageTypes
  <2>2. down'[c] = Tail(down[c]) /\ down[c] \in Seq(ToHost) /\ Head(down[c]) \in ToHost
    BY <1>3, <2>1, ReadOK DEF Types, DownOK, OutOK
  <2>3. QED
    BY <1>2, <1>7, <2>1, <2>2, ListsRead
<1>9. CASE ShowLocked(t) \/ Reload(t)
  BY <1>2, <1>9, Separate DEF ShowLocked, Reload, Types, PageTypes
<1>10. CASE ShowGranted(t)
  <2>1. cl[c] = "closed"
    BY <1>2, <1>10 DEF ShowGranted, Types, PageTypes
  <2>2. QED
    BY <1>4, <1>5, <2>1 DEF TabLink
<1>11. ASSUME NEW h \in Guest, NEW type \in {"approve", "deny"}, Decide(t, h, type)
       PROVE  Lists(down'[ws'[t]], rows'[t], g) \/ DecisionInFlight(g)'
  <2>1. /\ h \in rows[t] /\ rows'[t] = rows[t] \ {h} /\ UNCHANGED down
        /\ up' = IF IsOpen(c) THEN Uploaded(c, About(type, h)) ELSE up
    BY <1>4, <1>11 DEF Decide, Types, PageTypes
  <2>2. CASE h = g
    <3>1. IsOpen(c) /\ c \notin cut
      BY <1>4, <1>5, <2>1 DEF TabLink, IsOpen
    <3>2. About(type, g) \in ToServer /\ up[c] \in Seq(ToServer)
      BY <1>3, GuestMessages DEF Types, UpOK
    <3>3. up'[c] = Append(up[c], About(type, g))
      BY <1>3, <2>1, <2>2, <3>1, <3>2, UploadedUp DEF Types
    <3>4. \E i \in DOMAIN up'[c] : up'[c][i] = About(type, g)
      BY <3>2, <3>3
    <3>5. QED
      BY <3>4 DEF DecisionInFlight, About
  <2>3. CASE h # g
    <3>1. g \in rows'[t] <=> g \in rows[t]
      BY <2>1, <2>3
    <3>2. Lists(down[c], rows[t], g) => Lists(down[c], rows'[t], g)
      BY <3>1 DEF Lists, Settles
    <3>3. QED
      BY <1>2, <1>7, <2>1, <3>2
  <2>4. QED
    BY <2>2, <2>3
<1>12. CASE UNCHANGED <<down, rows>>
  BY <1>2, <1>7, <1>12
<1>13. CASE Refresh(t) \/ Serve(t) \/ \E b \in Button : HostClick(t, b)
  BY <1>12, <1>13 DEF Refresh, Serve, HostClick, net, browser, tabs
<1>14. QED
  BY <1>8, <1>9, <1>10, <1>11, <1>13 DEF TabActs, TabStep

LEMMA SeenStep ==
  ASSUME Types, Types', Links, [Next]_vars, NEW t \in Tab, NEW g \in Guest, Member(g), Seen(t, g)
  PROVE  Seen(t, g)'
<1>1. ASSUME UNCHANGED hosts, g \in Pending' => g \in Pending, ws'[t] = ws[t], rows'[t] = rows[t],
             ws[t] \in Conn => down'[ws[t]] = down[ws[t]],
             \A c \in HostConn : up'[c] = up[c] \/ \E m : up'[c] = Append(up[c], m)
      PROVE  Seen(t, g)'
  <2>1. DecisionInFlight(g) => DecisionInFlight(g)'
    BY <1>1, DecisionLonger
  <2>2. ws[t] \in hosts => ws[t] \in Conn
    BY DEF Types, ServerTypes, Conn
  <2>3. QED
    BY <1>1, <2>1, <2>2, SeenLists
<1>2. ASSUME NEW u \in Tab, TabActs(u), u # t
      PROVE  Seen(t, g)'
  <2>1. /\ UNCHANGED hosts /\ (g \in Pending' => g \in Pending)
        /\ ws'[t] = ws[t] /\ rows'[t] = rows[t]
    BY <1>2, TabFrame DEF server, Pending
  <2>2. ws[t] \in Conn => ws[t] # ws[u]
    BY <1>2, RealtimeAssumption DEF Links, OwnLinks, Conn
  <2>3. ws[t] \in Conn => down'[ws[t]] = down[ws[t]]
    BY <1>2, <2>2, TabFrame
  <2>4. \A c \in HostConn : up'[c] = up[c] \/ \E m : up'[c] = Append(up[c], m)
    BY <1>2, TabFrame DEF Conn
  <2>5. QED
    BY <1>1, <2>1, <2>3, <2>4
<1>3. ASSUME NEW h \in Guest, GuestActs(h)
      PROVE  Seen(t, g)'
  <2>1. h # ws[t] /\ \A c \in HostConn : c # h /\ c \in Conn
    BY Separate, RealtimeAssumption DEF Types, PageTypes, Conn
  <2>2. \A d \in Conn : d # h => down'[d] = down[d] /\ up'[d] = up[d]
    BY <1>3, GuestFrame
  <2>3. UNCHANGED hosts /\ ws'[t] = ws[t] /\ rows'[t] = rows[t]
    BY <1>3, GuestFrame DEF tabs
  <2>4. /\ ws[t] \in Conn => down'[ws[t]] = down[ws[t]]
        /\ \A c \in HostConn : up'[c] = up[c]
    BY <2>1, <2>2
  <2>5. g \in Pending' => g \in Pending
    <3>1. UNCHANGED approved \/ (approved' = approved \ {h} /\ sock[h] = "closed")
      BY <1>3 DEF GuestActs, GuestReceive, Watchdog, GiveUp, Connect, Leave, Cut, Rejoin, Forgotten,
         GuestClick, server
    <3>2. UNCHANGED guests
      BY <1>3, GuestFrame
    <3>3. QED
      BY <3>1, <3>2 DEF Pending, Member
  <2>6. QED
    BY <1>1, <2>3, <2>4, <2>5
<1>4. CASE UNCHANGED vars
  BY <1>1, <1>4 DEF vars, server, net, browser, tabs, Pending
<1>5. QED
  BY <1>2, <1>3, <1>4, Actors, SeenTold, SeenOwn

(***************************************************************************)
(* No device waits unseen: whatever reconnects, reloads or restarts come in  *)
(* between, a connected tab will list every pending guest (addHost's list,   *)
(* addGuest's joinRequest) unless a decision about it is on its way.         *)
(***************************************************************************)
THEOREM NobodyIsOverlooked == Spec => []NobodyWaitsUnseen
<1> DEFINE AllSeen == \A t \in Tab, g \in Guest : Seen(t, g)
<1>1. Init => AllSeen
  BY DEF Init, Seen, Pending
<1>2. Types /\ Types' /\ Members /\ Links /\ [Next]_vars /\ AllSeen => AllSeen'
  BY SeenStep DEF Members
<1>3. Types /\ AllSeen => NobodyWaitsUnseen
  BY DEF Seen, NobodyWaitsUnseen, Pending, Types, ServerTypes
<1> HIDE DEF AllSeen
<1>4. QED
  BY <1>1, <1>2, <1>3, LinksAlways, PTL DEF Spec

-----------------------------------------------------------------------------
(* No guest is left hanging *)

Ending(s) == \E i \in DOMAIN s : s[i].type \in {"close", "lost"}

(* A guest who listens is counted in, or the end of his connection is on its    *)
(* way, or he has not been upgraded; and a page that stays does listen. (A page *)
(* that shows the code screen already, before its socket is closed, is included: *)
(* it could still read that it is approved.)                                    *)
Counted(g) ==
  /\ Stays(g) => Hears(g)
  /\ Hears(g) => (g \in guests <=> ~Ending(down[g]) /\ ~Upgradable(g))

LEMMA EndingConcat ==
  ASSUME NEW S, NEW s \in Seq(S), NEW out \in Seq(S)
  PROVE  Ending(s \o out) <=> Ending(s) \/ Ending(out)
<1>1. /\ Len(s) \in Nat /\ Len(out) \in Nat
      /\ DOMAIN s = 1..Len(s) /\ DOMAIN out = 1..Len(out) /\ DOMAIN (s \o out) = 1..Len(s) + Len(out)
      /\ \A i \in 1..Len(s) + Len(out) : (s \o out)[i] = IF i <= Len(s) THEN s[i] ELSE out[i - Len(s)]
  OBVIOUS
<1>2. ASSUME NEW i \in DOMAIN s
      PROVE  i \in DOMAIN (s \o out) /\ (s \o out)[i] = s[i]
  BY <1>1
<1>3. ASSUME NEW i \in DOMAIN out
      PROVE  Len(s) + i \in DOMAIN (s \o out) /\ (s \o out)[Len(s) + i] = out[i]
  BY <1>1
<1>4. ASSUME NEW i \in DOMAIN (s \o out)
      PROVE  \/ i \in DOMAIN s /\ (s \o out)[i] = s[i]
             \/ i - Len(s) \in DOMAIN out /\ (s \o out)[i] = out[i - Len(s)]
  BY <1>1
<1>5. QED
  BY <1>2, <1>3, <1>4 DEF Ending

LEMMA EndingTail ==
  ASSUME NEW S, NEW s \in Seq(S), s # <<>>
  PROVE  Ending(s) <=> Head(s).type \in {"close", "lost"} \/ Ending(Tail(s))
<1>1. /\ Len(s) \in Nat \ {0} /\ DOMAIN s = 1..Len(s) /\ Head(s) = s[1]
      /\ DOMAIN Tail(s) = 1..Len(s) - 1 /\ \A i \in 1..Len(s) - 1 : Tail(s)[i] = s[i + 1]
  OBVIOUS
<1>2. /\ 1 \in DOMAIN s /\ \A i \in DOMAIN Tail(s) : i + 1 \in DOMAIN s /\ Tail(s)[i] = s[i + 1]
      /\ \A i \in DOMAIN s : i = 1 \/ (i - 1 \in DOMAIN Tail(s) /\ Tail(s)[i - 1] = s[i])
  BY <1>1
<1>3. QED
  BY <1>1, <1>2 DEF Ending

LEMMA EndingShort ==
  /\ ~Ending(<<>>)
  /\ \A m : Ending(<<m>>) <=> m.type \in {"close", "lost"}
  /\ \A m : Ending(<<m, Close>>)
<1>1. ~Ending(<<>>)
  BY DEF Ending
<1>2. ASSUME NEW m PROVE Ending(<<m>>) <=> m.type \in {"close", "lost"}
  BY DEF Ending
<1>3. ASSUME NEW m PROVE Ending(<<m, Close>>)
  <2>1. 2 \in DOMAIN <<m, Close>> /\ <<m, Close>>[2] = Close
    OBVIOUS
  <2>2. Close.type = "close"
    BY DEF Close, Plain
  <2>3. QED
    BY <2>1, <2>2 DEF Ending
<1>4. QED
  BY <1>1, <1>2, <1>3

(* What a step of the process may do to a guest who stays connected: nothing, *)
(* write to him in the room, take him in, or send him away.                    *)
Outcome(g) ==
  \/ (g \in guests' <=> g \in guests) /\ sock'[g] = sock[g] /\ down'[g] = down[g]
  \/ /\ g \in guests /\ g \in guests' /\ sock'[g] = sock[g]
     /\ \E out \in Seq(ToGuest) : ~Ending(out) /\ down'[g] = down[g] \o out
  \/ g \in guests' /\ sock'[g] = "open" /\ ~Ending(down'[g])
  \/ g \notin guests' /\ Ending(down'[g])

LEMMA CountedOutcome ==
  ASSUME Types, NEW g \in Guest, GuestLink(g), Counted(g), UNCHANGED <<cl, view>>,
         g \in cut' <=> g \in cut, Hears(g) => Outcome(g)
  PROVE  Counted(g)'
<1>1. (Hears(g)' <=> Hears(g)) /\ (Stays(g)' <=> Stays(g))
  BY DEF Hears, Stays
<1>2. SUFFICES ASSUME Hears(g), Outcome(g), g \in guests <=> ~Ending(down[g]) /\ ~Upgradable(g)
               PROVE  g \in guests' <=> ~Ending(down[g])' /\ ~Upgradable(g)'
  BY <1>1 DEF Counted
<1>3. down[g] \in Seq(ToGuest)
  BY DEF Types, DownOK, OutOK
<1>4. CASE (g \in guests' <=> g \in guests) /\ sock'[g] = sock[g] /\ down'[g] = down[g]
  BY <1>2, <1>4 DEF Ending, Upgradable
<1>5. CASE g \in guests /\ g \in guests' /\ sock'[g] = sock[g]
           /\ \E out \in Seq(ToGuest) : ~Ending(out) /\ down'[g] = down[g] \o out
  <2>1. ~Ending(down'[g])
    BY <1>2, <1>3, <1>5, EndingConcat
  <2>2. sock'[g] = "open"
    BY <1>2, <1>5 DEF GuestLink
  <2>3. QED
    BY <1>2, <1>5, <2>1, <2>2 DEF Ending, Upgradable
<1>6. CASE g \in guests' /\ sock'[g] = "open" /\ ~Ending(down'[g])
  BY <1>2, <1>6 DEF Ending, Upgradable
<1>7. CASE g \notin guests' /\ Ending(down'[g])
  BY <1>2, <1>7 DEF Ending, Upgradable
<1>8. QED
  BY <1>2, <1>4, <1>5, <1>6, <1>7 DEF Outcome

(* What the process writes to a guest who stays *)
LEMMA OutcomeWritten ==
  ASSUME Types, NEW g \in Guest, GuestLink(g), Counted(g), Hears(g),
         NEW out, OutOK(out), down' = Written(out),
         \/ out[g] = <<>> /\ (g \in guests' <=> g \in guests) /\ sock'[g] = sock[g]
         \/ g \in guests /\ g \in guests' /\ sock'[g] = sock[g] /\ ~Ending(out[g])
         \/ g \notin guests' /\ Ending(out[g]) /\ sock[g] # "ended"
  PROVE  Outcome(g)
<1>1. g \in Conn /\ out[g] \in Seq(ToGuest) /\ down[g] \in Seq(ToGuest)
  BY DEF OutOK, Conn, Types, DownOK
<1>2. g \in guests => sock[g] = "open"
  BY DEF GuestLink
<1>3. down'[g] = IF Writable(g) THEN down[g] \o out[g] ELSE down[g]
  BY <1>1, <1>2, WrittenDown DEF Types
<1>4. CASE out[g] = <<>> /\ (g \in guests' <=> g \in guests) /\ sock'[g] = sock[g]
  <2>1. down[g] \o <<>> = down[g]
    BY <1>1
  <2>2. QED
    BY <1>3, <1>4, <2>1 DEF Outcome
<1>5. CASE g \in guests /\ g \in guests' /\ sock'[g] = sock[g] /\ ~Ending(out[g])
  <2>1. Writable(g)
    BY <1>2, <1>5 DEF Writable
  <2>2. QED
    BY <1>1, <1>3, <1>5, <2>1 DEF Outcome
<1>6. CASE g \notin guests' /\ Ending(out[g]) /\ sock[g] # "ended"
  <2>1. down'[g] = down[g] \o out[g]
    BY <1>3, <1>6 DEF Writable
  <2>2. Ending(down[g] \o out[g])
    BY <1>1, <1>6, EndingConcat
  <2>3. Ending(down'[g])
    BY <2>1, <2>2
  <2>4. QED
    BY <1>6, <2>3 DEF Outcome
<1>7. QED
  BY <1>4, <1>5, <1>6

(* Colors for the room leave everybody where he is. *)
LEMMA OutcomeColors ==
  ASSUME Types, NEW g \in Guest, GuestLink(g), Counted(g), Hears(g), NEW cs \in Colors,
         down' = Written(To(Room, ColorsMsg(cs))), UNCHANGED <<guests, sock>>
  PROVE  Outcome(g)
<1> DEFINE out == To(Room, ColorsMsg(cs))
<1>1. OutOK(out)
  BY ToOK, ColorsMessages
<1>2. out[g] = IF g \in guests /\ g \in approved THEN <<ColorsMsg(cs)>> ELSE <<>>
  BY Separate DEF To, Conn, Room, Approved, Types, ServerTypes
<1>3. ~Ending(<<ColorsMsg(cs)>>)
  BY EndingShort DEF ColorsMsg
<1> HIDE DEF out
<1>4. QED
  BY <1>1, <1>2, <1>3, OutcomeWritten DEF out

LEMMA OutcomeStep ==
  ASSUME Types, Types', NEW g \in Guest, GuestLink(g), Counted(g), Hears(g), ProcessActs
  PROVE  Outcome(g)
<1>0. g \in Conn /\ g \notin HostConn /\ g \notin hosts
  BY Separate DEF Conn, Types, ServerTypes
<1>a. /\ ~Closing(up[g]) /\ (g \in guests => sock[g] = "open")
      /\ cl[g] \in {"connecting", "open"} /\ g \notin cut
      /\ g \in guests <=> ~Ending(down[g]) /\ ~Upgradable(g)
  BY DEF Counted, Hears, GuestLink
<1>1. CASE \E asking \in {{}} \cup {{t} : t \in Tab} : StartSession(asking)
  BY <1>1, OutcomeColors, WhiteType DEF StartSession
<1>2. CASE EndSession
  <2> DEFINE out == [c \in Conn |-> CASE c \in hosts -> <<Plain("sessionEnded")>>
                                      [] c \in guests -> <<Plain("sessionEnded"), Close>>
                                      [] OTHER -> <<>>]
  <2>1. OutOK(out) /\ down' = Written(out)
    BY <1>2, EndOK DEF EndSession, Types
  <2>2. out[g] = IF g \in guests THEN <<Plain("sessionEnded"), Close>> ELSE <<>>
    BY <1>0
  <2> HIDE DEF out
  <2>3. sock'[g] = (IF g \in guests THEN "ended" ELSE sock[g]) /\ guests' = {}
    BY <1>0, <1>2 DEF EndSession
  <2>4. QED
    BY <1>a, <2>1, <2>2, <2>3, EndingShort, OutcomeWritten
<1>3. CASE Restart
  <2> DEFINE out == To({c \in Conn : sock[c] # "closed"}, Plain("lost"))
  <2>1. OutOK(out) /\ down' = Written(out)
    BY <1>3, ToOK, PlainMessages DEF Restart
  <2>2. out[g] = IF sock[g] # "closed" THEN <<Plain("lost")>> ELSE <<>>
    BY <1>0 DEF To
  <2> HIDE DEF out
  <2>3. sock'[g] = "closed" /\ guests' = {}
    BY <1>0, <1>3 DEF Restart
  <2>4. CASE sock[g] = "ended"
    <3>1. g \notin guests /\ Ending(down[g])
      BY <1>a, <2>4 DEF Upgradable
    <3>2. down'[g] = down[g]
      BY <1>0, <2>1, <2>4, WrittenDown DEF Writable, Types
    <3>3. QED
      BY <2>3, <3>1, <3>2 DEF Outcome
  <2>5. CASE sock[g] # "ended"
    <3>1. Ending(<<Plain("lost")>>)
      BY EndingShort DEF Plain
    <3>2. QED
      BY <1>a, <2>1, <2>2, <2>3, <2>5, <3>1, OutcomeWritten
  <2>6. QED
    BY <2>4, <2>5
<1>4. CASE \E c \in HostConn : AddHost(c)
  <2>1. PICK c \in HostConn : AddHost(c)
    BY <1>4
  <2>2. HostHello(colors, Pending) \in ToHost
    BY ColorsMessages DEF Types, ServerTypes, Pending
  <2>3. OutOK(To({c}, HostHello(colors, Pending)))
    BY <2>2, ToOK, Separate
  <2>4. To({c}, HostHello(colors, Pending))[g] = <<>>
    BY <1>0, ToOthers
  <2>5. sock'[g] = sock[g] /\ UNCHANGED guests
    BY <1>0, <2>1 DEF AddHost, Types, ServerTypes
  <2>6. QED
    BY <2>1, <2>3, <2>4, <2>5, OutcomeWritten DEF AddHost
<1>5. CASE \E k \in Guest : AddGuest(k)
  <2>1. PICK k \in Guest : AddGuest(k)
    BY <1>5
  <2> DEFINE out == [c \in Conn |-> CASE c = k -> <<Plain("hello")>>
                                      [] c \in hosts -> <<About("joinRequest", k)>>
                                      [] OTHER -> <<>>]
  <2>2. \A c \in HostConn : out[c] = <<About("joinRequest", k)>> \/ out[c] = <<>>
    BY Separate DEF Conn
  <2>3. \A x \in Guest : out[x] = IF x = k THEN <<Plain("hello")>> ELSE <<>>
    BY Separate DEF Conn, Types, ServerTypes
  <2>4. down' = Written(out)
    BY <2>1 DEF AddGuest
  <2> HIDE DEF out
  <2>5. OutOK(out)
    BY <2>2, <2>3, PlainMessages, GuestMessages, ShortSeq DEF OutOK
  <2>6. /\ sock'[g] = (IF g = k THEN "open" ELSE sock[g]) /\ guests' = guests \cup {k}
        /\ sock[k] = "closed" /\ down[k] = <<>>
    BY <1>0, <2>1 DEF AddGuest, Upgradable, Types, ServerTypes
  <2>7. CASE g = k
    <3>1. down'[g] = <<>> \o <<Plain("hello")>> \/ down'[g] = <<>>
      BY <1>0, <2>3, <2>4, <2>5, <2>6, <2>7, WrittenDown DEF Types
    <3>2. <<>> \o <<Plain("hello")>> = <<Plain("hello")>>
      OBVIOUS
    <3>3. ~Ending(<<Plain("hello")>>) /\ ~Ending(<<>>)
      BY EndingShort DEF Plain
    <3>4. QED
      BY <2>6, <2>7, <3>1, <3>2, <3>3 DEF Outcome
  <2>8. CASE g # k
    BY <2>3, <2>4, <2>5, <2>6, <2>8, OutcomeWritten
  <2>9. QED
    BY <2>7, <2>8
<1>6. CASE \E k \in Guest : Refuse(k)
  <2>1. PICK k \in Guest : Refuse(k)
    BY <1>6
  <2>2. OutOK(To({k}, Plain("lost")))
    BY ToOK, PlainMessages
  <2>3. To({k}, Plain("lost"))[g] = IF g = k THEN <<Plain("lost")>> ELSE <<>>
    BY <1>0 DEF To
  <2>4. /\ UNCHANGED <<sock, guests>> /\ down' = Written(To({k}, Plain("lost")))
        /\ sock[k] = "closed"
    BY <2>1 DEF Refuse, server, Upgradable
  <2>5. Ending(<<Plain("lost")>>)
    BY EndingShort DEF Plain
  <2>6. QED
    BY <1>a, <2>2, <2>3, <2>4, <2>5, OutcomeWritten
<1>7. CASE \E c \in Conn : ReceiveCycle(c)
  <2>1. colors' \in Colors
    BY DEF Types, ServerTypes
  <2>2. QED
    BY <1>7, <2>1, OutcomeColors DEF ReceiveCycle
<1>8. CASE \E c \in Conn : ReceiveApprove(c)
  <2>1. PICK c \in Conn : ReceiveApprove(c)
    BY <1>8
  <2>2. PICK k : k = Head(up[c]).guest
    OBVIOUS
  <2>3. k \in Guest
    BY <2>1, <2>2, ReceivesOK DEF ReceiveApprove, Types, ToServer
  <2>4. UNCHANGED <<sock, guests>>
    BY <2>1 DEF ReceiveApprove
  <2>5. CASE k \in Pending /\ down' = Written(To({k}, ApprovedMsg(colors)))
    <3>1. OutOK(To({k}, ApprovedMsg(colors)))
      BY <2>3, ToOK, ColorsMessages, Separate DEF Types, ServerTypes
    <3>2. To({k}, ApprovedMsg(colors))[g] = IF g = k THEN <<ApprovedMsg(colors)>> ELSE <<>>
      BY <1>0 DEF To
    <3>3. ~Ending(<<ApprovedMsg(colors)>>)
      BY EndingShort DEF ApprovedMsg
    <3>4. g = k => g \in guests
      BY <2>5 DEF Pending
    <3>5. QED
      BY <2>4, <2>5, <3>1, <3>2, <3>3, <3>4, OutcomeWritten
  <2>6. CASE UNCHANGED down
    BY <2>4, <2>6 DEF Outcome
  <2>7. \/ k \in Pending /\ down' = Written(To({k}, ApprovedMsg(colors)))
        \/ UNCHANGED down
    BY <2>1, <2>2 DEF ReceiveApprove, Undecided
  <2>8. QED
    BY <2>5, <2>6, <2>7
<1>9. CASE \E c \in Conn : ReceiveDeny(c)
  <2>1. PICK c \in Conn : ReceiveDeny(c)
    BY <1>9
  <2>2. PICK k : k = Head(up[c]).guest
    OBVIOUS
  <2> DEFINE out == [d \in Conn |-> IF d = k THEN <<Plain("denied"), Close>> ELSE <<>>]
  <2>3. k \in Guest /\ k \in Conn
    BY <2>1, <2>2, ReceivesOK DEF ReceiveDeny, Types, ToServer, Conn
  <2>4. \/ /\ k \in Pending /\ guests' = guests \ {k} /\ sock' = [sock EXCEPT ![k] = "ended"]
           /\ down' = Written(out)
        \/ UNCHANGED <<guests, sock, down>>
    BY <2>1, <2>2 DEF ReceiveDeny, Undecided
  <2>5. \A d \in HostConn : out[d] = <<>>
    BY <2>3, Separate DEF Conn
  <2>6. \A x \in Guest : out[x] = IF x = k THEN <<Plain("denied"), Close>> ELSE <<>>
    BY DEF Conn
  <2> HIDE DEF out
  <2>7. OutOK(out)
    BY <2>5, <2>6, PlainMessages, ShortSeq DEF OutOK
  <2>8. CASE /\ k \in Pending /\ guests' = guests \ {k} /\ sock' = [sock EXCEPT ![k] = "ended"]
             /\ down' = Written(out)
    <3>1. sock'[g] = IF g = k THEN "ended" ELSE sock[g]
      BY <1>0, <2>8 DEF Types, ServerTypes
    <3>2. g = k => g \in guests
      BY <2>8 DEF Pending
    <3>3. QED
      BY <1>a, <2>6, <2>7, <2>8, <3>1, <3>2, EndingShort, OutcomeWritten
  <2>9. CASE UNCHANGED <<guests, sock, down>>
    BY <2>9 DEF Outcome
  <2>10. QED
    BY <2>4, <2>8, <2>9
<1>10. CASE \E c \in Conn : ReceiveClose(c)
  <2>1. PICK c \in Conn : ReceiveClose(c)
    BY <1>10
  <2>2. UNCHANGED <<guests, down>> /\ sock'[g] = IF g = c THEN "ended" ELSE sock[g]
    BY <1>0, <2>1 DEF ReceiveClose, Types, ServerTypes
  <2>3. g # c
    BY <1>a, <2>1, ReceivesUp, ClosingTail DEF ReceiveClose, Types
  <2>4. QED
    BY <2>2, <2>3 DEF Outcome
<1>11. CASE \E c \in Conn : SockClose(c)
  <2>1. PICK c \in Conn : SockClose(c)
    BY <1>11
  <2>2. g # c
    BY <1>a, <2>1 DEF SockClose
  <2>3. guests' = guests \ {c} /\ sock'[g] = sock[g]
    BY <1>0, <2>1, <2>2 DEF SockClose, Types, ServerTypes
  <2>4. CASE c \in guests
    <3>1. c \in Guest /\ down' = Written(To(hosts, About("guestLeft", c)))
      BY <2>1, <2>4 DEF SockClose, Types, ServerTypes
    <3>2. OutOK(To(hosts, About("guestLeft", c)))
      BY <3>1, ToOK, GuestMessages, Separate DEF Types, ServerTypes
    <3>3. To(hosts, About("guestLeft", c))[g] = <<>>
      BY <1>0, ToOthers
    <3>4. QED
      BY <2>2, <2>3, <3>1, <3>2, <3>3, OutcomeWritten
  <2>5. CASE c \notin guests
    <3>1. UNCHANGED down
      BY <2>1, <2>5 DEF SockClose
    <3>2. QED
      BY <2>2, <2>3, <3>1 DEF Outcome
  <2>6. QED
    BY <2>4, <2>5
<1>12. QED
  BY <1>1, <1>2, <1>3, <1>4, <1>5, <1>6, <1>7, <1>8, <1>9, <1>10, <1>11 DEF ProcessActs, ServerStep

LEMMA CountedKept ==
  ASSUME NEW g, Counted(g), down'[g] = down[g], cl'[g] = cl[g], view'[g] = view[g],
         sock'[g] = sock[g], g \in cut' <=> g \in cut, g \in guests' <=> g \in guests
  PROVE  Counted(g)'
  BY DEF Counted, Stays, Hears, Ending, Upgradable

(* A guest's page reads what is sent to it in order, the end last. *)
LEMMA CountedOwn ==
  ASSUME Types, NEW g \in Guest, Member(g), GuestLink(g), Counted(g), GuestActs(g)
  PROVE  Counted(g)'
<1>0. g \in Conn /\ down[g] \in Seq(ToGuest) /\ UNCHANGED <<guests, sock>>
  BY GuestFrame DEF Types, DownOK, OutOK, Conn
<1>1. Counted(g)' <=>
        /\ Stays(g)' => Hears(g)'
        /\ Hears(g)' => (g \in guests' <=> ~Ending(down'[g]) /\ ~Upgradable(g)')
  BY DEF Counted, Ending
<1>2. CASE GuestReceive(g)
  <2> DEFINE m == Head(down[g])
  <2>1. /\ down[g] # <<>> /\ down'[g] = Tail(down[g]) /\ UNCHANGED cut
        /\ view'[g] = GuestViews(g, m)
        /\ cl'[g] = IF m.type \in {"close", "lost"} THEN "closed" ELSE "open"
    BY <1>0, <1>2 DEF GuestReceive, Types, DownOK, PageTypes, LinkTypes
  <2>2. Ending(down[g]) <=> m.type \in {"close", "lost"} \/ Ending(Tail(down[g]))
    BY <1>0, <2>1, EndingTail
  <2>3. Hears(g)
    BY <2>1 DEF GuestLink
  <2> HIDE DEF m
  <2>4. CASE m.type \in {"close", "lost"}
    <3>1. view'[g] = "code" /\ cl'[g] = "closed"
      BY <2>1, <2>4 DEF GuestViews
    <3>2. QED
      BY <1>1, <3>1 DEF Stays, Hears
  <2>5. CASE m.type \notin {"close", "lost"}
    <3>1. cl'[g] = "open" /\ Hears(g)' /\ ~Upgradable(g) /\ ~Upgradable(g)'
      BY <2>1, <2>3, <2>5 DEF Hears, Upgradable
    <3>2. QED
      BY <1>0, <1>1, <2>1, <2>2, <2>3, <2>5, <3>1 DEF Counted
  <2>6. QED
    BY <2>4, <2>5
<1>3. CASE Watchdog(g)
  BY <1>0, <1>1, <1>3 DEF Watchdog, Stays, Hears, Types, LinkTypes
<1>4. CASE GiveUp(g) \/ Leave(g)
  <2>1. cl'[g] = "closed" /\ view'[g] \in {"code", "gone"}
    BY <1>0, <1>4 DEF GiveUp, Leave, Types, LinkTypes, PageTypes
  <2>2. QED
    BY <1>1, <2>1 DEF Stays, Hears
<1>5. CASE Connect(g)
  <2>1. /\ view[g] = "none" /\ cl'[g] = "connecting" /\ UNCHANGED <<down, cut>>
        /\ down[g] = <<>> /\ sock[g] = "closed" /\ g \notin guests
    BY <1>0, <1>5 DEF Connect, net, Types, LinkTypes, Member, GuestLink
  <2>2. ~Ending(<<>>)
    BY EndingShort
  <2>3. QED
    BY <1>0, <1>1, <2>1, <2>2 DEF Stays, Hears, Upgradable
<1>6. CASE Cut(g)
  <2>1. g \in cut'
    BY <1>6 DEF Cut
  <2>2. QED
    BY <1>1, <2>1 DEF Stays, Hears
<1>7. CASE Rejoin(g)
  <2>1. view'[g] = "none" /\ cl'[g] = "closed"
    BY <1>7 DEF Rejoin, Forgotten, Types, PageTypes
  <2>2. QED
    BY <1>1, <2>1 DEF Stays, Hears
<1>8. ASSUME NEW b \in Button, GuestClick(g, b) PROVE Counted(g)'
  BY <1>0, <1>8, CountedKept DEF GuestClick, browser
<1>9. QED
  BY <1>2, <1>3, <1>4, <1>5, <1>6, <1>7, <1>8 DEF GuestActs

LEMMA CountedStep ==
  ASSUME Types, Types', [Next]_vars, NEW g \in Guest, Member(g), GuestLink(g), Counted(g)
  PROVE  Counted(g)'
<1>0. g \in Conn
  BY DEF Conn
<1>1. CASE ProcessActs
  <2>1. UNCHANGED <<cl, view>> /\ (g \in cut' <=> g \in cut)
    BY <1>1, ProcessFrame
  <2>2. Hears(g) => Outcome(g)
    BY <1>1, OutcomeStep
  <2>3. QED
    BY <2>1, <2>2, CountedOutcome
<1>2. CASE \E t \in Tab : TabActs(t)
  <2>1. PICK t \in Tab : TabActs(t)
    BY <1>2
  <2>2. g # ws[t] /\ g # ws'[t]
    BY Separate, RealtimeAssumption DEF Types, PageTypes
  <2>3. QED
    BY <1>0, <2>1, <2>2, TabFrame, CountedKept DEF server
<1>3. CASE \E k \in Guest : GuestActs(k)
  <2>1. PICK k \in Guest : GuestActs(k)
    BY <1>3
  <2>2. CASE k = g
    BY <2>1, <2>2, CountedOwn
  <2>3. CASE k # g
    BY <1>0, <2>1, <2>3, GuestFrame, CountedKept
  <2>4. QED
    BY <2>2, <2>3
<1>4. CASE UNCHANGED vars
  BY <1>4, CountedKept DEF vars, server, net, browser
<1>5. QED
  BY <1>1, <1>2, <1>3, <1>4, Actors

(***************************************************************************)
(* No guest is left hanging: whatever sessions, decisions, restarts and      *)
(* upgrades cross each other, a page that stays on the waiting screen or the *)
(* buttons is in the map, or is being closed, or will be upgraded; and no    *)
(* guest in the map is being closed.                                         *)
(***************************************************************************)
THEOREM NobodyIsLeftHanging == Spec => []NobodyLeftHanging
<1> DEFINE AllCounted == \A g \in Guest : Counted(g)
<1>1. Init => AllCounted
  BY DEF Init, Counted, Stays, Hears, Conn
<1>2. Types /\ Types' /\ Members /\ Links /\ [Next]_vars /\ AllCounted => AllCounted'
  BY CountedStep DEF Members, Links
<1>3. AllCounted => NobodyLeftHanging
  BY DEF Counted, NobodyLeftHanging, EndInFlight, Ending
<1> HIDE DEF AllCounted
<1>4. QED
  BY <1>1, <1>2, <1>3, LinksAlways, PTL DEF Spec

-----------------------------------------------------------------------------
(* The process keeps no connection of a host that no tab uses *)

Owned(c) == \E t \in Tab : ws[t] = c

(* An open connection is a tab's; one that the process has and no tab uses is   *)
(* about to end; and who is told that it was lost is not in the room.          *)
HostKept(c) ==
  /\ cl[c] # "closed" => Owned(c)
  /\ c \in hosts => Owned(c) \/ sock[c] = "ended" \/ c \in cut \/ Closing(up[c])
  /\ Ending(down[c]) => c \notin hosts

LEMMA EndingLonger ==
  ASSUME NEW S, NEW s \in Seq(S), NEW m, m.type \notin {"close", "lost"}, ~Ending(s)
  PROVE  ~Ending(s \o <<m>>)
<1>1. s \in Seq(S \cup {m}) /\ <<m>> \in Seq(S \cup {m})
  BY SeqOfMore
<1>2. QED
  BY <1>1, EndingConcat, EndingShort

LEMMA ClosingKept ==
  ASSUME NEW S, NEW s \in Seq(S), s # <<>>, Closing(s), Head(s).type # "close"
  PROVE  Closing(Tail(s))
<1>1. /\ Len(s) \in Nat \ {0} /\ DOMAIN s = 1..Len(s) /\ Head(s) = s[1]
      /\ DOMAIN Tail(s) = 1..Len(s) - 1 /\ \A i \in 1..Len(s) - 1 : Tail(s)[i] = s[i + 1]
  OBVIOUS
<1>2. PICK i \in DOMAIN s : s[i].type = "close"
  BY DEF Closing
<1>3. i - 1 \in DOMAIN Tail(s) /\ Tail(s)[i - 1] = s[i]
  BY <1>1, <1>2
<1>4. QED
  BY <1>2, <1>3 DEF Closing

LEMMA ClosingSent ==
  ASSUME NEW S, NEW s \in Seq(S), NEW m \in S, m.type = "close"
  PROVE  Closing(Append(s, m))
<1>1. Len(s) + 1 \in DOMAIN Append(s, m) /\ Append(s, m)[Len(s) + 1] = m
  OBVIOUS
<1>2. QED
  BY <1>1 DEF Closing

(* What the process writes to a host does not end his connection. *)
LEMMA HostsAreTold ==
  ASSUME Types, ProcessActs, NEW c \in HostConn, ~Ending(down[c])
  PROVE  Restart \/ ~Ending(down'[c])
<1>0. c \in Conn /\ c \notin Guest /\ down[c] \in Seq(ToHost) /\ down[c] \o <<>> = down[c]
  <2>1. c \in Conn /\ c \notin Guest /\ down[c] \in Seq(ToHost)
    BY Separate DEF Conn, Types, DownOK, OutOK
  <2>2. QED
    BY <2>1
<1>1. ASSUME NEW out, down' = Written(out),
             out[c] = <<>> \/ \E m : out[c] = <<m>> /\ m.type \notin {"close", "lost"}
      PROVE  ~Ending(down'[c])
  <2>1. down'[c] = down[c] \/ down'[c] = down[c] \o out[c]
    BY <1>0, <1>1 DEF Written
  <2>2. QED
    BY <1>0, <1>1, <2>1, EndingLonger
<1>2. ASSUME NEW conns, NEW m, m.type \notin {"close", "lost"}, down' = Written(To(conns, m))
      PROVE  ~Ending(down'[c])
  BY <1>0, <1>1, <1>2 DEF To
<1>3. CASE EndSession
  <2> DEFINE out == [d \in Conn |-> CASE d \in hosts -> <<Plain("sessionEnded")>>
                                      [] d \in guests -> <<Plain("sessionEnded"), Close>>
                                      [] OTHER -> <<>>]
  <2>1. down' = Written(out)
    BY <1>3 DEF EndSession
  <2>2. out[c] = <<Plain("sessionEnded")>> \/ out[c] = <<>>
    BY <1>0 DEF Types, ServerTypes
  <2>3. Plain("sessionEnded").type \notin {"close", "lost"}
    BY DEF Plain
  <2> HIDE DEF out
  <2>4. QED
    BY <1>1, <2>1, <2>2, <2>3
<1>4. CASE \E k \in Guest : AddGuest(k)
  <2>1. PICK k \in Guest : AddGuest(k)
    BY <1>4
  <2> DEFINE out == [d \in Conn |-> CASE d = k -> <<Plain("hello")>>
                                      [] d \in hosts -> <<About("joinRequest", k)>>
                                      [] OTHER -> <<>>]
  <2>2. down' = Written(out)
    BY <2>1 DEF AddGuest
  <2>3. out[c] = <<About("joinRequest", k)>> \/ out[c] = <<>>
    BY <1>0, <2>1
  <2>4. About("joinRequest", k).type \notin {"close", "lost"}
    BY DEF About
  <2> HIDE DEF out
  <2>5. QED
    BY <1>1, <2>2, <2>3, <2>4
<1>5. CASE \E k \in Guest : Refuse(k)
  <2>1. PICK k \in Guest : Refuse(k)
    BY <1>5
  <2>2. To({k}, Plain("lost"))[c] = <<>>
    BY <1>0, <2>1 DEF To
  <2>3. QED
    BY <1>1, <2>1, <2>2 DEF Refuse
<1>6. CASE \E d \in Conn : ReceiveDeny(d)
  <2>1. PICK d \in Conn : ReceiveDeny(d)
    BY <1>6
  <2>2. PICK g : g = Head(up[d]).guest
    OBVIOUS
  <2>3. g \in Guest
    BY <2>1, <2>2, ReceivesOK DEF ReceiveDeny, Types, ToServer
  <2> DEFINE out == [x \in Conn |-> IF x = g THEN <<Plain("denied"), Close>> ELSE <<>>]
  <2>4. down' = down \/ down' = Written(out)
    BY <2>1, <2>2 DEF ReceiveDeny
  <2>5. out[c] = <<>>
    BY <1>0, <2>3
  <2> HIDE DEF out
  <2>6. QED
    BY <1>1, <2>4, <2>5
<1>7. CASE \/ \E asking \in {{}} \cup {{t} : t \in Tab} : StartSession(asking)
           \/ \E d \in Conn : ReceiveCycle(d)
  <2>1. \E cs : down' = Written(To(Room, ColorsMsg(cs)))
    BY <1>7 DEF StartSession, ReceiveCycle
  <2>2. \A cs : ColorsMsg(cs).type \notin {"close", "lost"}
    BY DEF ColorsMsg
  <2>3. QED
    BY <1>2, <2>1, <2>2
<1>8. CASE \E d \in HostConn : AddHost(d)
  <2>1. HostHello(colors, Pending).type \notin {"close", "lost"}
    BY DEF HostHello
  <2>2. QED
    BY <1>2, <1>8, <2>1 DEF AddHost
<1>9. CASE \E d \in Conn : ReceiveApprove(d)
  <2>1. ApprovedMsg(colors).type \notin {"close", "lost"}
    BY DEF ApprovedMsg
  <2>2. down' = down \/ \E g : down' = Written(To({g}, ApprovedMsg(colors)))
    BY <1>9 DEF ReceiveApprove
  <2>3. QED
    BY <1>2, <2>1, <2>2
<1>10. CASE \E d \in Conn : ReceiveClose(d)
  BY <1>10 DEF ReceiveClose
<1>11. CASE \E d \in Conn : SockClose(d)
  <2>1. \A g : About("guestLeft", g).type \notin {"close", "lost"}
    BY DEF About
  <2>2. down' = down \/ \E g : down' = Written(To(hosts, About("guestLeft", g)))
    BY <1>11 DEF SockClose
  <2>3. QED
    BY <1>2, <2>1, <2>2
<1>12. QED
  BY <1>3, <1>4, <1>5, <1>6, <1>7, <1>8, <1>9, <1>10, <1>11 DEF ProcessActs, ServerStep
(* Of the hosts, the process forgets who is closed, and adds who is connecting; *)
(* it forgets what is sent to it only by reading it.                            *)
LEMMA HostKeptRead ==
  ASSUME Types, ProcessActs, NEW c \in HostConn, c \in hosts,
         sock[c] = "ended" \/ c \in cut \/ Closing(up[c])
  PROVE  c \in hosts' => sock'[c] = "ended" \/ c \in cut' \/ Closing(up'[c])
<1>0. c \in Conn /\ c \notin Guest /\ up[c] \in Seq(ToServer) /\ sock \in [Conn -> {"closed", "open", "ended"}]
  BY Separate DEF Conn, Types, UpOK, ServerTypes
<1>1. CASE Restart
  BY <1>1 DEF Restart
<1>2. CASE \E d \in Conn : SockClose(d)
  <2>1. PICK d \in Conn : SockClose(d)
    BY <1>2
  <2>2. c \in hosts' => d # c
    BY <2>1 DEF SockClose
  <2>3. c \in hosts' => sock'[c] = sock[c] /\ up' = up /\ (c \in cut => c \in cut')
    BY <1>0, <2>1, <2>2 DEF SockClose
  <2>4. QED
    BY <2>3
<1>3. CASE \E d \in Conn : ServerStep(d)
  <2>1. PICK d \in Conn : ServerStep(d)
    BY <1>3
  <2>2. PICK type \in {"cycle", "approve", "deny", "close"} : Receives(d, type)
    BY <2>1 DEF ServerStep, ReceiveCycle, ReceiveApprove, ReceiveDeny, ReceiveClose
  <2>3. UNCHANGED cut
    BY <2>1 DEF ServerStep, ReceiveCycle, ReceiveApprove, ReceiveDeny, ReceiveClose
  <2>4. sock' = sock \/ \E x : sock' = [sock EXCEPT ![x] = "ended"]
    BY <2>1 DEF ServerStep, ReceiveCycle, ReceiveApprove, ReceiveDeny, ReceiveClose
  <2>5. sock[c] = "ended" => sock'[c] = "ended"
    BY <1>0, <2>4
  <2>6. CASE Closing(up[c]) /\ (d # c \/ type # "close")
    <3>1. up'[c] = up[c] \/ (up[c] # <<>> /\ Head(up[c]).type # "close" /\ up'[c] = Tail(up[c]))
      BY <1>0, <2>2, <2>6, ReceivesUp DEF Types
    <3>2. QED
      BY <1>0, <2>6, <3>1, ClosingKept
  <2>7. CASE d = c /\ type = "close"
    <3>1. Head(up[c]).type = "close"
      BY <2>2, <2>7 DEF Receives
    <3>2. ReceiveClose(c)
      BY <2>1, <2>7, <3>1
      DEF ServerStep, ReceiveCycle, ReceiveApprove, ReceiveDeny, ReceiveClose, Receives
    <3>3. sock'[c] = "ended"
      BY <1>0, <3>2 DEF ReceiveClose
    <3>4. QED
      BY <3>3
  <2>8. QED
    BY <2>3, <2>5, <2>6, <2>7
<1>4. CASE \E d \in HostConn : AddHost(d)
  <2>1. PICK d \in HostConn : AddHost(d)
    BY <1>4
  <2>2. UNCHANGED <<up, cut>> /\ sock' = [sock EXCEPT ![d] = "open"] /\ sock[d] = "closed"
    BY <2>1 DEF AddHost, Upgradable
  <2>3. sock[c] = "ended" => sock'[c] = "ended"
    BY <1>0, <2>2
  <2>4. QED
    BY <2>2, <2>3
<1>5. CASE \/ \E asking \in {{}} \cup {{t} : t \in Tab} : StartSession(asking)
           \/ EndSession \/ \E g \in Guest : AddGuest(g) \/ Refuse(g)
  <2>1. UNCHANGED <<up, cut>>
    BY <1>5 DEF StartSession, EndSession, AddGuest, Refuse
  <2>2. sock'[c] = sock[c]
    BY <1>0, <1>5 DEF StartSession, EndSession, AddGuest, Refuse, server, Types, ServerTypes
  <2>3. QED
    BY <2>1, <2>2
<1>6. QED
  BY <1>1, <1>2, <1>3, <1>4, <1>5 DEF ProcessActs

LEMMA HostKeptProcess ==
  ASSUME Types, ProcessActs, NEW c \in HostConn, HostKept(c)
  PROVE  HostKept(c)'
<1>0. c \in Conn
  BY DEF Conn
<1>1. UNCHANGED <<cl, ws>>
  BY ProcessFrame
<1>2. CASE Restart
  <2>1. hosts' = {}
    BY <1>2 DEF Restart
  <2>2. QED
    BY <1>1, <2>1 DEF HostKept, Owned
<1>3. CASE ~Restart /\ c \in hosts
  <2>1. ~Ending(down'[c])
    BY <1>3, HostsAreTold DEF HostKept
  <2>2. Owned(c)' <=> Owned(c)
    BY <1>1 DEF Owned
  <2>3. c \in hosts' => Owned(c) \/ sock'[c] = "ended" \/ c \in cut' \/ Closing(up'[c])
    BY <1>3, HostKeptRead DEF HostKept
  <2>4. QED
    BY <1>1, <2>1, <2>2, <2>3 DEF HostKept, Ending, Closing
<1>4. CASE ~Restart /\ c \notin hosts
  <2>1. CASE AddHost(c)
    <3>1. cl[c] = "connecting" /\ down[c] = <<>>
      BY <2>1 DEF AddHost, Upgradable
    <3>2. Owned(c)'
      BY <1>1, <3>1 DEF HostKept, Owned
    <3>3. ~Ending(down'[c])
      BY <1>4, <3>1, HostsAreTold, EndingShort
    <3>4. QED
      BY <3>2, <3>3 DEF HostKept, Ending
  <2>2. CASE ~AddHost(c)
    <3>1. c \notin hosts'
      BY <1>4, <2>2 DEF ProcessActs, StartSession, EndSession, Restart, AddHost, AddGuest, Refuse, ServerStep,
         ReceiveCycle, ReceiveApprove, ReceiveDeny, ReceiveClose, SockClose, server
    <3>2. QED
      BY <1>1, <3>1 DEF HostKept, Owned
  <2>3. QED
    BY <2>1, <2>2
<1>5. QED
  BY <1>2, <1>3, <1>4

(* A tab that gives up its connection closes it, or has learnt of its end. *)
LEMMA HostKeptOwn ==
  ASSUME Types, Links, NEW t \in Tab, TabActs(t), NEW c \in HostConn, c = ws[t], ws'[t] # c, HostKept(c)
  PROVE  HostKept(c)'
<1>0. /\ c \in Conn /\ c # None /\ up[c] \in Seq(ToServer)
      /\ sock[c] \in {"closed", "open", "ended"}
      /\ hosts' = hosts /\ sock' = sock
  BY TabFrame, RealtimeAssumption DEF Conn, Types, UpOK, ServerTypes, server
<1>1. /\ cl[c] \in {"connecting", "open"} /\ c \notin cut
      /\ c \in hosts => sock[c] = "open"
  BY <1>0 DEF Links, TabLink, HostLink
<1>2. CASE ShowLocked(t) \/ ShowGranted(t) \/ Reload(t)
  <2>1. Shut(c) /\ cl'[c] = "closed"
    <3>1. PICK others \in [Conn -> {"closed", "connecting", "open", "closing"}] : ClearTimers(t, others)
      <4>1. CASE ShowLocked(t) \/ Reload(t)
        BY <4>1 DEF ShowLocked, Reload, Types, LinkTypes
      <4>2. CASE ShowGranted(t)
        <5>1. PICK d \in HostConn : ClearTimers(t, [cl EXCEPT ![d] = "connecting"])
          BY <4>2 DEF ShowGranted
        <5>2. [cl EXCEPT ![d] = "connecting"] \in [Conn -> {"closed", "connecting", "open", "closing"}]
          BY DEF Types, LinkTypes
        <5>3. QED
          BY <5>1, <5>2
      <4>3. QED
        BY <1>2, <4>1, <4>2
    <3>2. QED
      BY <1>0, <3>1 DEF ClearTimers
  <2>2. down'[c] = <<>>
    BY <1>0, <2>1 DEF Shut, Types, DownOK
  <2>3. ~Ending(down'[c])
    BY <2>2, EndingShort
  <2>4. CASE cl[c] = "open" /\ c \in hosts
    <3>1. up'[c] = Append(up[c], Close)
      BY <1>0, <1>1, <2>1, <2>4, UploadedUp, PlainMessages DEF Shut, Types
    <3>2. Closing(up'[c])
      BY <1>0, <3>1, ClosingSent, PlainMessages DEF Close, Plain
    <3>3. QED
      BY <2>1, <2>3, <3>2 DEF HostKept, Ending, Closing
  <2>5. CASE cl[c] = "connecting" /\ c \in hosts
    <3>1. c \in cut'
      BY <1>1, <2>1, <2>5 DEF Shut
    <3>2. QED
      BY <2>1, <2>3, <3>1 DEF HostKept, Ending
  <2>6. CASE c \notin hosts
    BY <1>0, <2>1, <2>6 DEF HostKept
  <2>7. QED
    BY <1>1, <2>4, <2>5, <2>6
<1>3. CASE TabReceive(t)
  <2>1. /\ down[c] # <<>> /\ down[c] \in Seq(ToHost)
        /\ ws' = IF Head(down[c]).type = "lost" THEN [ws EXCEPT ![t] = None] ELSE ws
        /\ cl' = [cl EXCEPT ![c] = IF Head(down[c]).type = "lost" THEN "closed" ELSE "open"]
    BY <1>3 DEF TabReceive, Types, DownOK, OutOK
  <2>2. Head(down[c]).type = "lost" /\ cl'[c] = "closed"
    BY <1>0, <2>1 DEF Types, LinkTypes
  <2>3. c \notin hosts
    BY <2>1, <2>2, EndingTail DEF HostKept
  <2>4. QED
    BY <1>0, <2>2, <2>3 DEF HostKept
<1>4. CASE UNCHANGED ws
  BY <1>4
<1>5. QED
  BY <1>2, <1>3, <1>4 DEF TabActs, TabStep, Refresh, Serve, Decide, HostClick, browser, tabs

LEMMA HostKeptTab ==
  ASSUME Types, Links, NEW t \in Tab, TabActs(t), NEW c \in HostConn, HostKept(c)
  PROVE  HostKept(c)'
<1>0. c \in Conn /\ c # None /\ down[c] \in Seq(ToHost) /\ hosts' = hosts /\ sock' = sock
  BY TabFrame, RealtimeAssumption DEF Conn, Types, DownOK, OutOK, server
<1>1. CASE ws'[t] # c /\ ws[t] = c
  BY <1>1, HostKeptOwn
<1>2. CASE ws'[t] # c /\ ws[t] # c
  <2>1. down'[c] = down[c] /\ up'[c] = up[c] /\ (c \in cut' <=> c \in cut) /\ cl'[c] = cl[c]
    BY <1>0, <1>2, TabFrame
  <2>2. Owned(c) => Owned(c)'
    BY <1>2, TabFrame DEF Owned
  <2>3. QED
    BY <1>0, <2>1, <2>2 DEF HostKept, Ending, Closing
<1>3. CASE ws'[t] = c
  <2>1. Owned(c)'
    BY <1>3 DEF Owned
  <2>2. down'[c] = down[c] \/ (down[c] # <<>> /\ down'[c] = Tail(down[c]))
    <3>1. CASE ws[t] # c
      BY <1>0, <3>1, TabFrame
    <3>2. CASE ws[t] = c /\ (ShowLocked(t) \/ ShowGranted(t) \/ Reload(t))
      <4>1. ws'[t] = None \/ cl[ws'[t]] = "closed"
        BY <3>2 DEF ShowLocked, ShowGranted, Reload, Types, PageTypes
      <4>2. cl[c] # "closed"
        BY <1>0, <3>2 DEF Links, TabLink
      <4>3. QED
        BY <1>0, <1>3, <4>1, <4>2
    <3>3. CASE ws[t] = c /\ TabReceive(t)
      <4>1. down[c] # <<>> /\ down' = [down EXCEPT ![c] = Tail(@)]
        BY <3>3 DEF TabReceive
      <4>2. QED
        BY <1>0, <4>1 DEF Types, DownOK
    <3>4. CASE UNCHANGED down
      BY <3>4
    <3>5. QED
      BY <3>1, <3>2, <3>3, <3>4 DEF TabActs, TabStep, Refresh, Serve, Decide, HostClick, net
  <2>3. Ending(down'[c]) => Ending(down[c])
    BY <1>0, <2>2, EndingTail
  <2>4. QED
    BY <1>0, <2>1, <2>3 DEF HostKept, Ending
<1>4. QED
  BY <1>1, <1>2, <1>3

LEMMA HostKeptStep ==
  ASSUME Types, Links, [Next]_vars, NEW c \in HostConn, HostKept(c)
  PROVE  HostKept(c)'
<1>1. CASE ProcessActs
  BY <1>1, HostKeptProcess
<1>2. CASE \E t \in Tab : TabActs(t)
  BY <1>2, HostKeptTab
<1>3. CASE \E g \in Guest : GuestActs(g)
  <2>1. PICK g \in Guest : GuestActs(g)
    BY <1>3
  <2>2. c \in Conn /\ c # g
    BY Separate DEF Conn
  <2>3. /\ down'[c] = down[c] /\ up'[c] = up[c] /\ (c \in cut' <=> c \in cut) /\ cl'[c] = cl[c]
        /\ UNCHANGED <<hosts, sock, ws>>
    BY <2>1, <2>2, GuestFrame DEF tabs
  <2>4. QED
    BY <2>3 DEF HostKept, Owned, Ending, Closing
<1>4. CASE UNCHANGED vars
  BY <1>4 DEF vars, server, net, browser, tabs, HostKept, Owned, Ending, Closing
<1>5. QED
  BY <1>1, <1>2, <1>3, <1>4, Actors

(* Whatever the polls, reloads, losses and restarts, of a connection that no tab *)
(* uses any more the process has the end before it, or has forgotten it.         *)
THEOREM NoHostIsLeftBehind == Spec => []HostsAreCurrent
<1> DEFINE AllKept == \A c \in HostConn : HostKept(c)
<1>1. Init => AllKept
  BY DEF Init, HostKept, Ending, Conn
<1>2. Types /\ Links /\ [Next]_vars /\ AllKept => AllKept'
  BY HostKeptStep
<1>3. Types /\ AllKept => HostsAreCurrent
  BY DEF Types, ServerTypes, HostKept, Owned, Closing, HostsAreCurrent
<1> HIDE DEF AllKept
<1>4. QED
  BY <1>1, <1>2, <1>3, LinksAlways, PTL DEF Spec
=============================================================================
