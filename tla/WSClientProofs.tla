--------------------------- MODULE WSClientProofs ---------------------------
(***************************************************************************)
(* That the WebSocket client loses no connection, for any users and URLs,  *)
(* whatever is dialled, lost, found dead or closed at the same time.       *)
(*                                                                         *)
(* What makes it true is that c.mu is held from the lookup to the end of   *)
(* getConnection: a user that pings finds in the table what it pings, one  *)
(* that dials finds nothing under its URL, and nobody else is at either.   *)
(* That no connection is listed under two URLs is needed because closing   *)
(* it removes one entry only.                                              *)
(***************************************************************************)
EXTENDS WSClient, TLAPS, SequenceTheorems

(* What is asked of the constants.                                         *)
Bounds ==
  /\ URLs # {}
  /\ MaxRequests \in Nat /\ MaxDials \in Nat /\ MaxInbox \in Nat

OneEach ==
  \A x, y \in DOMAIN connections : connections[x] = connections[y] => x = y

RequestOK(w) ==
  LET r == requests[w]
  IN  /\ r.pc \in {"ping", "dial"} => mu = {w}
      /\ r.pc = "ping" =>
           r.url \in DOMAIN connections /\ r.conn = connections[r.url]
      /\ r.pc = "dial" => r.url \notin DOMAIN connections
      /\ r.pc \in {"connected", "write", "wait"} => r.conn \in Conns
      /\ r.pc \notin {"idle", "wait"} => Len(readers[w]) < MaxRequests
      /\ r.pc = "wait" => Len(readers[w]) > 0

ReadersOK ==
  \A w \in Users : \A i \in DOMAIN readers[w] : readers[w][i].conn \in Conns

TableInv == OpenAreListed /\ OneEach

Inv ==
  /\ TypeOK /\ TableInv /\ ReadersOK
  /\ \A w \in Users : RequestOK(w)

LEMMA ConstantTypes ==
  ASSUME Bounds
  PROVE  /\ Idle \in Request /\ Idle.pc = "idle"
         /\ Dialled \in ConnState /\ Dialled.state = "up"
         /\ ClosedConn \in ConnState /\ ClosedConn.state = "closed"
<1>1. (CHOOSE url \in URLs : TRUE) \in URLs
  BY DEF Bounds
<1>2. Idle \in Request /\ Idle.pc = "idle"
  BY <1>1 DEF Bounds, Idle, Request
<1>3. Dialled \in ConnState /\ Dialled.state = "up"
  BY DEF Bounds, Dialled, ConnState
<1>4. ClosedConn \in ConnState /\ ClosedConn.state = "closed"
  <2> HIDE DEF Dialled
  <2> QED BY <1>3 DEF ClosedConn, ConnState
<1> QED BY <1>2, <1>3, <1>4

LEMMA InitInv == Bounds /\ Init => Inv
<1> SUFFICES ASSUME Bounds, Init PROVE Inv
  OBVIOUS
<1>1. TypeOK
  <2>1. requests \in [Users -> Request]
    BY ConstantTypes DEF Init
  <2>2. conns \in Seq(ConnState) /\ Len(conns) = 0
    BY DEF Init
  <2>3. /\ readers \in [Users -> Seq(Reader)]
        /\ \A u \in Users : Len(readers[u]) = 0
    BY DEF Init
  <2>4. DOMAIN connections = {} /\ mu = {} /\ ended = {} /\ expired = {}
    BY DEF Init
  <2>5. crashed \in BOOLEAN
    BY DEF Init
  <2> QED BY <2>1, <2>2, <2>3, <2>4, <2>5 DEF Bounds, TypeOK
<1>2. TableInv
  BY DEF Init, TableInv, OpenAreListed, OneEach, Conns
<1>3. ReadersOK
  BY DEF Init, ReadersOK
<1>4. \A w \in Users : RequestOK(w)
  BY ConstantTypes DEF Init, RequestOK
<1> QED BY <1>1, <1>2, <1>3, <1>4 DEF Inv
-----------------------------------------------------------------------------
(* What the steps do to the sequences.                                     *)
LEMMA ConnChanged ==
  ASSUME TypeOK, NEW c \in Conns, NEW k \in ConnState,
         conns' = [conns EXCEPT ![c] = k]
  PROVE  /\ conns' \in Seq(ConnState) /\ Len(conns') = Len(conns)
         /\ Conns' = Conns
         /\ \A d \in Conns : conns'[d] = IF d = c THEN k ELSE conns[d]
BY ExceptSeq, LenProperties DEF TypeOK, Conns

LEMMA StateKept ==
  ASSUME TypeOK, NEW c \in Conns, NEW k \in ConnState,
         k.state = conns[c].state, conns' = [conns EXCEPT ![c] = k]
  PROVE  /\ conns' \in Seq(ConnState) /\ Len(conns') = Len(conns)
         /\ Conns' = Conns
         /\ \A d \in Conns : conns'[d].state = conns[d].state
<1>1. /\ conns' \in Seq(ConnState) /\ Len(conns') = Len(conns)
      /\ Conns' = Conns
      /\ \A d \in Conns : conns'[d] = IF d = c THEN k ELSE conns[d]
  BY ConnChanged
<1> QED BY <1>1

(* What a write does to a connection keeps it open, or closed.             *)
LEMMA DisturbedType ==
  ASSUME NEW c, NEW k \in ConnState
  PROVE  Disturbed(c, k) \in ConnState /\ Disturbed(c, k).state = k.state
<1>1. PICK b \in BOOLEAN : b = (k.disturbed \/ Writing(c) # {})
  OBVIOUS
<1>2. Disturbed(c, k) = [k EXCEPT !.disturbed = b]
  BY <1>1 DEF Disturbed
<1> QED BY <1>2 DEF ConnState

LEMMA DeadlineType ==
  ASSUME NEW u \in Users, NEW k \in ConnState
  PROVE  /\ WithDeadline(u, k) \in ConnState
         /\ WithDeadline(u, k).state = k.state
<1>1. {u} \in SUBSET Users
  OBVIOUS
<1> QED BY <1>1 DEF WithDeadline, ConnState

LEMMA ReaderChanged ==
  ASSUME TypeOK, NEW u \in Users, NEW i \in DOMAIN readers[u],
         NEW pc \in {"loop", "read", "message", "error", "returned"},
         ReaderGoto(u, i, pc)
  PROVE  /\ readers' \in [Users -> Seq(Reader)]
         /\ \A w \in Users :
              /\ Len(readers'[w]) = Len(readers[w])
              /\ DOMAIN readers'[w] = DOMAIN readers[w]
              /\ \A j \in DOMAIN readers[w] :
                   /\ readers'[w][j].conn = readers[w][j].conn
                   /\ readers'[w][j].pc =
                        IF w = u /\ j = i THEN pc ELSE readers[w][j].pc
<1>1. readers \in [Users -> Seq(Reader)] /\ readers[u] \in Seq(Reader)
  BY DEF TypeOK
<1> DEFINE r == [readers[u][i] EXCEPT !.pc = pc]
           row == [readers[u] EXCEPT ![i] = r]
<1>2. i \in 1..Len(readers[u]) /\ readers[u][i] \in Reader
  BY <1>1
<1>3. r \in Reader /\ r.conn = readers[u][i].conn /\ r.pc = pc
  BY <1>2 DEF Reader
<1>4. /\ row \in Seq(Reader) /\ Len(row) = Len(readers[u])
      /\ \A j \in 1..Len(readers[u]) :
           row[j] = IF j = i THEN r ELSE readers[u][j]
  <2> HIDE DEF r
  <2> QED BY <1>1, <1>2, <1>3, ExceptSeq
<1>5. readers' = [readers EXCEPT ![u] = row]
  BY DEF ReaderGoto
<1>6. DOMAIN row = 1..Len(row) /\ DOMAIN readers[u] = 1..Len(readers[u])
  BY <1>1, <1>4, LenProperties
<1> HIDE DEF row, r
<1> QED BY <1>1, <1>3, <1>4, <1>5, <1>6

LEMMA ReaderStarted ==
  ASSUME TypeOK, NEW u \in Users, requests[u].conn \in Conns, StartReader(u)
  PROVE  /\ readers' \in [Users -> Seq(Reader)]
         /\ Len(readers'[u]) = Len(readers[u]) + 1
         /\ \A w \in Users \ {u} : readers'[w] = readers[w]
         /\ \A i \in DOMAIN readers'[u] :
              \/ readers'[u][i].conn = requests[u].conn
              \/ /\ i \in DOMAIN readers[u]
                 /\ readers'[u][i].conn = readers[u][i].conn
         /\ readers'[u][Len(readers'[u])].pc = "loop"
<1>1. readers \in [Users -> Seq(Reader)] /\ readers[u] \in Seq(Reader)
  BY DEF TypeOK
<1> DEFINE r == [pc |-> "loop", conn |-> requests[u].conn]
           row == Append(readers[u], r)
<1>2. requests[u].conn \in 1..MaxDials
  BY DEF TypeOK, Conns, Request
<1>3. r \in Reader /\ r.conn = requests[u].conn /\ r.pc = "loop"
  BY <1>2 DEF Reader
<1>4. /\ row \in Seq(Reader) /\ Len(row) = Len(readers[u]) + 1
      /\ \A j \in 1..Len(readers[u]) : row[j] = readers[u][j]
      /\ row[Len(readers[u]) + 1] = r
  <2> HIDE DEF r
  <2> QED BY <1>1, <1>3, AppendProperties
<1>5. readers' = [readers EXCEPT ![u] = row]
  BY DEF StartReader
<1>6. DOMAIN row = 1..Len(row) /\ DOMAIN readers[u] = 1..Len(readers[u])
  BY <1>1, <1>4, LenProperties
<1>7. Len(readers[u]) \in Nat
  BY <1>1
<1> HIDE DEF row, r
<1> QED BY <1>1, <1>3, <1>4, <1>5, <1>6, <1>7
-----------------------------------------------------------------------------
(* Steps that neither open nor close a connection nor change the table.    *)
LEMMA TableFrame ==
  ASSUME TableInv, UNCHANGED connections, Conns' = Conns,
         \A c \in Conns : conns'[c].state = "closed"
                           <=> conns[c].state = "closed"
  PROVE  TableInv'
BY DEF TableInv, OpenAreListed, OneEach

(* Steps that leave the call of user w alone.                              *)
LEMMA RequestFrame ==
  ASSUME NEW w \in Users, RequestOK(w), requests'[w] = requests[w],
         Len(readers'[w]) = Len(readers[w]), Conns \subseteq Conns',
         requests[w].pc \in {"ping", "dial"} => UNCHANGED <<mu, connections>>
  PROVE  RequestOK(w)'
BY DEF RequestOK

(* Steps of user u, or of its readers, that leave the table alone.         *)
LEMMA UserFrame ==
  ASSUME Inv, NEW u \in Users,
         UNCHANGED <<connections, ended, expired>>,
         (mu' = mu) \/ (mu = {} /\ mu' = {u}) \/ (mu = {u} /\ mu' = {}),
         conns' \in Seq(ConnState), Len(conns') = Len(conns), Conns' = Conns,
         \A c \in Conns : conns'[c].state = "closed"
                           <=> conns[c].state = "closed",
         requests' \in [Users -> Request],
         \A w \in Users \ {u} : requests'[w] = requests[w],
         readers' \in [Users -> Seq(Reader)],
         \A w \in Users \ {u} : Len(readers'[w]) = Len(readers[w]),
         Len(readers'[u]) <= MaxRequests, ReadersOK',
         RequestOK(u)', crashed' \in BOOLEAN
  PROVE  Inv'
<1>1. TableInv'
  BY TableFrame DEF Inv
<1>2. ASSUME NEW w \in Users \ {u} PROVE RequestOK(w)'
  <2>1. requests[w].pc \in {"ping", "dial"} => mu' = mu
    BY DEF Inv, RequestOK
  <2> QED BY <2>1, RequestFrame DEF Inv
<1>3. TypeOK'
  <2>1. mu' = {} \/ \E v \in Users : mu' = {v}
    BY DEF Inv, TypeOK
  <2>2. \A w \in Users : Len(readers'[w]) <= MaxRequests
    BY DEF Inv, TypeOK
  <2>3. \A url \in DOMAIN connections' : connections'[url] \in Conns'
    BY DEF Inv, TypeOK
  <2>4. crashed' \in BOOLEAN
    OBVIOUS
  <2> QED BY <2>1, <2>2, <2>3, <2>4 DEF Inv, TypeOK
<1> QED BY <1>1, <1>2, <1>3 DEF Inv

(* The same, when the readers and the connections stay as they are.        *)
LEMMA CallFrame ==
  ASSUME Inv, NEW u \in Users,
         UNCHANGED <<connections, conns, readers, ended, expired>>,
         (mu' = mu) \/ (mu = {} /\ mu' = {u}) \/ (mu = {u} /\ mu' = {}),
         requests' \in [Users -> Request],
         \A w \in Users \ {u} : requests'[w] = requests[w],
         RequestOK(u)', crashed' \in BOOLEAN
  PROVE  Inv'
<1>1. Conns' = Conns
  BY DEF Conns
<1>2. ReadersOK'
  BY <1>1 DEF Inv, ReadersOK
<1> QED BY <1>1, <1>2, UserFrame DEF Inv, TypeOK

LEMMA GotoType ==
  ASSUME TypeOK, NEW u \in Users,
         NEW pc \in {"dial", "connected", "write", "wait"}, Goto(u, pc)
  PROVE  /\ requests' \in [Users -> Request]
         /\ \A w \in Users \ {u} : requests'[w] = requests[w]
         /\ requests'[u].pc = pc
         /\ requests'[u].conn = requests[u].conn
         /\ requests'[u].url = requests[u].url
<1>1. requests \in [Users -> Request]
  BY DEF TypeOK
<1>2. [requests[u] EXCEPT !.pc = pc] \in Request
  BY <1>1 DEF Request
<1>3. requests' = [requests EXCEPT ![u] = [requests[u] EXCEPT !.pc = pc]]
  BY DEF Goto
<1> QED BY <1>1, <1>2, <1>3 DEF Request

LEMMA ReturnType ==
  ASSUME Bounds, TypeOK, NEW u \in Users, Return(u)
  PROVE  /\ requests' \in [Users -> Request]
         /\ \A w \in Users \ {u} : requests'[w] = requests[w]
         /\ requests'[u].pc = "idle"
BY ConstantTypes DEF TypeOK, Return

LEMMA MayCrashType ==
  ASSUME TypeOK, NEW c, MayCrash(c)
  PROVE  crashed' \in BOOLEAN
BY DEF TypeOK, MayCrash
-----------------------------------------------------------------------------
LEMMA ExecuteInv ==
  ASSUME Inv, NEW u \in Users, NEW url \in URLs, Execute(u, url)
  PROVE  Inv'
<1>1. /\ requests' \in [Users -> Request]
      /\ \A w \in Users \ {u} : requests'[w] = requests[w]
      /\ requests'[u].pc = "lock"
  BY DEF Execute, Inv, TypeOK, Request
<1>2. RequestOK(u)'
  BY <1>1 DEF Execute, RequestOK
<1>3. crashed' \in BOOLEAN
  BY DEF Execute, Inv, TypeOK
<1>4. UNCHANGED <<connections, conns, readers, ended, expired>> /\ mu' = mu
  BY DEF Execute
<1> QED BY <1>1, <1>2, <1>3, <1>4, CallFrame

LEMMA PingConns ==
  ASSUME TypeOK, NEW c \in Conns, conns' = [conns EXCEPT ![c] = Disturbed(c, @)]
  PROVE  /\ conns' \in Seq(ConnState) /\ Len(conns') = Len(conns)
         /\ Conns' = Conns
         /\ \A d \in Conns : conns'[d].state = conns[d].state
<1>1. PICK h \in ConnState : h = conns[c]
  BY DEF TypeOK, Conns
<1>2. PICK k \in ConnState : k = Disturbed(c, h) /\ k.state = h.state
  BY DisturbedType
<1>3. conns' = [conns EXCEPT ![c] = k]
  BY <1>1, <1>2
<1> QED BY <1>1, <1>2, <1>3, StateKept

LEMMA LockInv ==
  ASSUME Bounds, Inv, NEW u \in Users, Lock(u)
  PROVE  Inv'
<1> DEFINE url == requests[u].url
<1>1. mu = {} /\ mu' = {u} /\ Len(readers[u]) < MaxRequests
  BY DEF Lock, Inv, RequestOK
<1>2. UNCHANGED <<connections, readers, ended, expired>>
  BY DEF Lock
<1>3. CASE url \in DOMAIN connections
  <2>1. PICK c \in Conns : c = connections[url]
    BY <1>3 DEF Inv, TypeOK
  <2>2. Ping(u, c)
    BY <1>3, <2>1 DEF Lock
  <2>3. c \in 0..MaxDials
    BY LenProperties DEF Bounds, Inv, TypeOK, Conns
  <2>4. /\ requests' \in [Users -> Request]
        /\ \A w \in Users \ {u} : requests'[w] = requests[w]
        /\ requests'[u].pc = "ping" /\ requests'[u].url = url
        /\ requests'[u].conn = connections[url]
    BY <2>1, <2>2, <2>3 DEF Ping, Inv, TypeOK, Request
  <2>5. /\ conns' \in Seq(ConnState) /\ Len(conns') = Len(conns)
        /\ Conns' = Conns
        /\ \A d \in Conns : conns'[d].state = conns[d].state
    BY <2>2, PingConns DEF Ping, Inv
  <2>6. RequestOK(u)'
    BY <1>1, <1>2, <1>3, <2>4 DEF RequestOK
  <2>7. crashed' \in BOOLEAN
    BY <2>2, MayCrashType DEF Ping, Inv
  <2>8. ReadersOK'
    BY <1>2, <2>5 DEF Inv, ReadersOK
  <2>9. /\ readers' \in [Users -> Seq(Reader)]
        /\ Len(readers'[u]) <= MaxRequests
        /\ \A w \in Users \ {u} : Len(readers'[w]) = Len(readers[w])
    BY <1>2 DEF Inv, TypeOK
  <2> QED BY <1>1, <1>2, <2>4, <2>5, <2>6, <2>7, <2>8, <2>9, UserFrame
<1>4. CASE url \notin DOMAIN connections
  <2>1. Goto(u, "dial") /\ UNCHANGED <<conns, crashed>>
    BY <1>4 DEF Lock
  <2>2. /\ requests' \in [Users -> Request]
        /\ \A w \in Users \ {u} : requests'[w] = requests[w]
        /\ requests'[u].pc = "dial" /\ requests'[u].url = url
    BY <2>1, GotoType DEF Inv
  <2>3. RequestOK(u)'
    BY <1>1, <1>2, <1>4, <2>2 DEF RequestOK
  <2>4. crashed' \in BOOLEAN
    BY <2>1 DEF Inv, TypeOK
  <2> QED BY <1>1, <1>2, <2>1, <2>2, <2>3, <2>4, CallFrame
<1> QED BY <1>3, <1>4

LEMMA PingOKInv ==
  ASSUME Inv, NEW u \in Users, PingOK(u)
  PROVE  Inv'
<1>1. mu = {u} /\ mu' = {}
  BY DEF PingOK, Inv, RequestOK
<1>2. crashed' \in BOOLEAN
  BY DEF PingOK, Inv, TypeOK
<1>3. Goto(u, "connected")
  BY DEF PingOK
<1>4. /\ requests' \in [Users -> Request]
      /\ \A w \in Users \ {u} : requests'[w] = requests[w]
      /\ requests'[u].pc = "connected"
      /\ requests'[u].conn = requests[u].conn
  BY <1>3, GotoType DEF Inv
<1>5. requests[u].conn \in Conns
  BY DEF PingOK, Inv, RequestOK, TypeOK
<1>6. RequestOK(u)'
  BY <1>4, <1>5 DEF PingOK, Inv, RequestOK, Conns
<1>7. UNCHANGED <<connections, conns, readers, ended, expired>>
  BY DEF PingOK
<1> QED BY <1>1, <1>2, <1>4, <1>6, <1>7, CallFrame

LEMMA DialFailsInv ==
  ASSUME Bounds, Inv, NEW u \in Users, DialFails(u)
  PROVE  Inv'
<1>1. mu = {u} /\ mu' = {}
  BY DEF DialFails, Inv, RequestOK
<1>2. crashed' \in BOOLEAN
  BY DEF DialFails, Inv, TypeOK
<1>3. /\ requests' \in [Users -> Request]
      /\ \A w \in Users \ {u} : requests'[w] = requests[w]
      /\ requests'[u].pc = "idle"
  BY ReturnType DEF DialFails, Inv
<1>4. RequestOK(u)'
  BY <1>3 DEF RequestOK
<1>5. UNCHANGED <<connections, conns, readers, ended, expired>>
  BY DEF DialFails
<1> QED BY <1>1, <1>2, <1>3, <1>4, <1>5, CallFrame

LEMMA AbandonInv ==
  ASSUME Bounds, Inv, NEW u \in Users, Abandon(u)
  PROVE  Inv'
<1>1. crashed' \in BOOLEAN
  BY DEF Abandon, Inv, TypeOK
<1>3. /\ requests' \in [Users -> Request]
      /\ \A w \in Users \ {u} : requests'[w] = requests[w]
      /\ requests'[u].pc = "idle"
  BY ReturnType DEF Abandon, Inv
<1>4. RequestOK(u)'
  BY <1>3 DEF RequestOK
<1>5. UNCHANGED <<connections, conns, readers, ended, expired>>
  BY DEF Abandon
<1>6. mu' = mu
  BY DEF Abandon
<1> QED BY <1>1, <1>3, <1>4, <1>5, <1>6, CallFrame
-----------------------------------------------------------------------------
LEMMA DeadlineConns ==
  ASSUME TypeOK, NEW u \in Users, NEW c \in Conns,
         \/ conns' = [conns EXCEPT ![c] = WithDeadline(u, @)]
         \/ conns' = [conns EXCEPT ![c] = Disturbed(c, WithDeadline(u, @))]
  PROVE  /\ conns' \in Seq(ConnState) /\ Len(conns') = Len(conns)
         /\ Conns' = Conns
         /\ \A d \in Conns : conns'[d].state = conns[d].state
<1>1. PICK h \in ConnState : h = conns[c]
  BY DEF TypeOK, Conns
<1>2. PICK k \in ConnState : k = WithDeadline(u, h) /\ k.state = h.state
  BY DeadlineType
<1>3. PICK l \in ConnState : l = Disturbed(c, k) /\ l.state = k.state
  BY DisturbedType
<1>4. \/ conns' = [conns EXCEPT ![c] = k]
      \/ conns' = [conns EXCEPT ![c] = l]
  BY <1>1, <1>2, <1>3
<1> QED BY <1>1, <1>2, <1>3, <1>4, StateKept

(* A request that goes on to wait for the reader it has started.           *)
LEMMA WaitInv ==
  ASSUME Bounds, Inv, NEW u \in Users, StartReader(u),
         requests[u].pc \in {"connected", "write"},
         UNCHANGED <<connections, mu, ended, expired, crashed>>,
         conns' \in Seq(ConnState), Len(conns') = Len(conns), Conns' = Conns,
         \A c \in Conns : conns'[c].state = conns[c].state
  PROVE  Inv'
<1>1. requests[u].conn \in Conns /\ Len(readers[u]) < MaxRequests
  BY DEF Inv, RequestOK
<1>2. TypeOK
  BY DEF Inv
<1>3. /\ readers' \in [Users -> Seq(Reader)]
      /\ Len(readers'[u]) = Len(readers[u]) + 1
      /\ \A w \in Users \ {u} : readers'[w] = readers[w]
      /\ \A i \in DOMAIN readers'[u] :
           \/ readers'[u][i].conn = requests[u].conn
           \/ /\ i \in DOMAIN readers[u]
              /\ readers'[u][i].conn = readers[u][i].conn
  BY <1>1, <1>2, ReaderStarted
<1>4. /\ requests' \in [Users -> Request]
      /\ \A w \in Users \ {u} : requests'[w] = requests[w]
      /\ requests'[u].pc = "wait" /\ requests'[u].conn = requests[u].conn
  BY <1>2, GotoType DEF StartReader
<1>5. Len(readers[u]) \in Nat
  BY <1>2 DEF TypeOK
<1>6. ReadersOK'
  <2>1. ASSUME NEW w \in Users, NEW i \in DOMAIN readers'[w]
        PROVE  readers'[w][i].conn \in Conns
    <3>1. CASE w = u
      BY <1>1, <1>3, <3>1 DEF Inv, ReadersOK
    <3>2. CASE w # u
      <4>1. readers'[w] = readers[w]
        BY <1>3, <3>2
      <4> QED BY <4>1 DEF Inv, ReadersOK
    <3> QED BY <3>1, <3>2
  <2> QED BY <2>1 DEF ReadersOK
<1>7. RequestOK(u)'
  BY <1>1, <1>3, <1>4, <1>5 DEF RequestOK
<1>8. Len(readers'[u]) <= MaxRequests
  BY <1>1, <1>3, <1>5 DEF Bounds
<1>9. crashed' \in BOOLEAN
  BY <1>2 DEF TypeOK
<1>10. UNCHANGED <<connections, ended, expired>> /\ mu' = mu
  OBVIOUS
<1>11. \A w \in Users \ {u} : Len(readers'[w]) = Len(readers[w])
  BY <1>3
<1> QED BY <1>3, <1>4, <1>6, <1>7, <1>8, <1>9, <1>10, <1>11, UserFrame

LEMMA SendNothingInv ==
  ASSUME Bounds, Inv, NEW u \in Users, SendNothing(u)
  PROVE  Inv'
<1>1. requests[u].pc = "connected" /\ requests[u].conn \in Conns
  BY DEF SendNothing, Inv, RequestOK
<1>2. /\ conns' \in Seq(ConnState) /\ Len(conns') = Len(conns)
      /\ Conns' = Conns
      /\ \A c \in Conns : conns'[c].state = conns[c].state
  BY <1>1, DeadlineConns DEF SendNothing, Inv
<1>3. StartReader(u) /\ UNCHANGED <<connections, mu, ended, expired, crashed>>
  BY DEF SendNothing
<1> QED BY <1>1, <1>2, <1>3, WaitInv

LEMMA BeginWriteInv ==
  ASSUME Inv, NEW u \in Users, BeginWrite(u)
  PROVE  Inv'
<1>1. requests[u].pc = "connected" /\ requests[u].conn \in Conns
  BY DEF BeginWrite, Inv, RequestOK
<1>2. /\ conns' \in Seq(ConnState) /\ Len(conns') = Len(conns)
      /\ Conns' = Conns
      /\ \A c \in Conns : conns'[c].state = conns[c].state
  BY <1>1, DeadlineConns DEF BeginWrite, Inv
<1>3. /\ requests' \in [Users -> Request]
      /\ \A w \in Users \ {u} : requests'[w] = requests[w]
      /\ requests'[u].pc = "write" /\ requests'[u].conn = requests[u].conn
  BY GotoType DEF BeginWrite, Inv
<1>4. UNCHANGED <<connections, readers, ended, expired>> /\ mu' = mu
  BY DEF BeginWrite
<1>5. crashed' \in BOOLEAN
  BY MayCrashType DEF BeginWrite, Inv
<1>6. RequestOK(u)'
  BY <1>1, <1>2, <1>3, <1>4 DEF Inv, RequestOK
<1>7. ReadersOK'
  BY <1>2, <1>4 DEF Inv, ReadersOK
<1>8. /\ readers' \in [Users -> Seq(Reader)]
      /\ Len(readers'[u]) <= MaxRequests
      /\ \A w \in Users \ {u} : Len(readers'[w]) = Len(readers[w])
  BY <1>4 DEF Inv, TypeOK
<1> QED BY <1>2, <1>3, <1>4, <1>5, <1>6, <1>7, <1>8, UserFrame

LEMMA EndWriteInv ==
  ASSUME Bounds, Inv, NEW u \in Users, EndWrite(u)
  PROVE  Inv'
<1>1. /\ requests[u].pc = "write"
      /\ UNCHANGED <<connections, mu, conns, ended, expired, crashed>>
  BY DEF EndWrite
<1>2. CASE StartReader(u)
  BY <1>1, <1>2, WaitInv DEF Inv, TypeOK, Conns
<1>3. CASE Return(u) /\ UNCHANGED readers
  <2>1. /\ requests' \in [Users -> Request]
        /\ \A w \in Users \ {u} : requests'[w] = requests[w]
        /\ requests'[u].pc = "idle"
    BY <1>3, ReturnType DEF Inv
  <2>2. RequestOK(u)'
    BY <2>1 DEF RequestOK
  <2>3. crashed' \in BOOLEAN
    BY <1>1 DEF Inv, TypeOK
  <2>4. UNCHANGED <<connections, conns, readers, ended, expired>> /\ mu' = mu
    BY <1>1, <1>3
  <2> QED BY <2>1, <2>2, <2>3, <2>4, CallFrame
<1> QED BY <1>2, <1>3 DEF EndWrite
-----------------------------------------------------------------------------
(* A reader goes on; the call it belongs to may return with it.            *)
LEMMA ReaderInv ==
  ASSUME Bounds, Inv, NEW u \in Users, NEW i \in DOMAIN readers[u],
         NEW pc \in {"loop", "read", "message", "error", "returned"},
         ReaderGoto(u, i, pc), UNCHANGED requests \/ Return(u),
         UNCHANGED <<connections, mu, ended, expired, crashed>>,
         conns' \in Seq(ConnState), Len(conns') = Len(conns), Conns' = Conns,
         \A c \in Conns : conns'[c].state = conns[c].state
  PROVE  Inv'
<1>1. TypeOK
  BY DEF Inv
<1>2. /\ readers' \in [Users -> Seq(Reader)]
      /\ \A w \in Users :
           /\ Len(readers'[w]) = Len(readers[w])
           /\ DOMAIN readers'[w] = DOMAIN readers[w]
           /\ \A j \in DOMAIN readers[w] :
                readers'[w][j].conn = readers[w][j].conn
  BY <1>1, ReaderChanged
<1>3. ReadersOK'
  BY <1>2 DEF Inv, ReadersOK
<1>4. /\ requests' \in [Users -> Request]
      /\ \A w \in Users \ {u} : requests'[w] = requests[w]
      /\ requests'[u] = requests[u] \/ requests'[u].pc = "idle"
  <2>1. CASE UNCHANGED requests
    BY <1>1, <2>1 DEF TypeOK
  <2>2. CASE Return(u)
    BY <1>1, <2>2, ReturnType
  <2> QED BY <2>1, <2>2
<1>5. RequestOK(u)'
  <2>1. CASE requests'[u] = requests[u]
    BY <1>2, <2>1, RequestFrame DEF Inv
  <2>2. CASE requests'[u].pc = "idle"
    BY <2>2 DEF RequestOK
  <2> QED BY <1>4, <2>1, <2>2
<1>6. crashed' \in BOOLEAN
  BY <1>1 DEF TypeOK
<1>7. UNCHANGED <<connections, ended, expired>> /\ mu' = mu
  OBVIOUS
<1>8. /\ Len(readers'[u]) <= MaxRequests
      /\ \A w \in Users \ {u} : Len(readers'[w]) = Len(readers[w])
  BY <1>1, <1>2 DEF TypeOK
<1> QED BY <1>2, <1>3, <1>4, <1>5, <1>6, <1>7, <1>8, UserFrame

LEMMA SameConns ==
  ASSUME Inv, UNCHANGED conns
  PROVE  /\ conns' \in Seq(ConnState) /\ Len(conns') = Len(conns)
         /\ Conns' = Conns
         /\ \A c \in Conns : conns'[c].state = conns[c].state
BY DEF Inv, TypeOK, Conns

LEMMA TakeInv ==
  ASSUME Bounds, Inv, NEW u \in Users, TakeMessage(u) \/ TakeError(u)
  PROVE  Inv'
<1>1. Own(u) \in DOMAIN readers[u]
  BY DEF TakeMessage, TakeError, Own, Inv, TypeOK, RequestOK
<1>2. /\ ReaderGoto(u, Own(u), "loop") \/ ReaderGoto(u, Own(u), "returned")
      /\ Return(u)
      /\ UNCHANGED <<connections, mu, conns, ended, expired, crashed>>
  BY DEF TakeMessage, TakeError
<1>3. PICK i \in DOMAIN readers[u] : i = Own(u)
  BY <1>1
<1>4. CASE ReaderGoto(u, i, "loop")
  BY <1>2, <1>4, SameConns, ReaderInv
<1>5. CASE ReaderGoto(u, i, "returned")
  BY <1>2, <1>5, SameConns, ReaderInv
<1> QED BY <1>2, <1>3, <1>4, <1>5

LEMMA ReaderStepInv ==
  ASSUME Bounds, Inv, NEW u \in Users, NEW i \in DOMAIN readers[u],
         ReaderStep(u, i)
  PROVE  Inv'
<1>1. UNCHANGED <<connections, mu, requests, ended, expired, crashed>>
  BY DEF ReaderStep, ReaderLoop, ReadMessage, ReadFails, GiveUp
<1>2. ReaderLoop(u, i) \/ GiveUp(u, i) => UNCHANGED conns
  BY DEF ReaderLoop, GiveUp
<1>3. CASE ReaderLoop(u, i)
  <2>1. ReaderGoto(u, i, "returned") \/ ReaderGoto(u, i, "read")
    BY <1>3 DEF ReaderLoop
  <2>2. CASE ReaderGoto(u, i, "returned")
    BY <1>1, <1>2, <1>3, <2>2, SameConns, ReaderInv
  <2>3. CASE ReaderGoto(u, i, "read")
    BY <1>1, <1>2, <1>3, <2>3, SameConns, ReaderInv
  <2> QED BY <2>1, <2>2, <2>3
<1>4. CASE GiveUp(u, i)
  <2>1. ReaderGoto(u, i, "returned")
    BY <1>4 DEF GiveUp
  <2> QED BY <1>1, <1>2, <1>4, <2>1, SameConns, ReaderInv
<1>5. PICK c \in Conns : c = readers[u][i].conn
  BY DEF Inv, ReadersOK
<1>6. TypeOK /\ conns[c] \in ConnState
  BY DEF Inv, TypeOK, Conns
<1>7. CASE ReadMessage(u, i)
  <2>1. PICK k \in ConnState : k = [conns[c] EXCEPT !.inbox = @ - 1]
    BY <1>5, <1>6, <1>7 DEF ReadMessage, ConnState, Bounds
  <2>2. k.state = conns[c].state
    BY <1>6, <2>1 DEF ConnState
  <2>3. conns' = [conns EXCEPT ![c] = k] /\ ReaderGoto(u, i, "message")
    BY <1>5, <1>7, <2>1 DEF ReadMessage
  <2>4. /\ conns' \in Seq(ConnState) /\ Len(conns') = Len(conns)
        /\ Conns' = Conns
        /\ \A d \in Conns : conns'[d].state = conns[d].state
    BY <1>6, <2>2, <2>3, StateKept
  <2> QED BY <1>1, <2>3, <2>4, ReaderInv
<1>8. CASE ReadFails(u, i)
  <2>0. 0 \in 0..MaxInbox
    BY DEF Bounds
  <2>1. PICK k \in ConnState :
          k = [conns[c] EXCEPT !.unreadable = TRUE, !.inbox = 0]
    BY <1>6, <2>0 DEF ConnState
  <2>2. k.state = conns[c].state
    BY <1>6, <2>1 DEF ConnState
  <2>3. conns' = [conns EXCEPT ![c] = k] /\ ReaderGoto(u, i, "error")
    BY <1>5, <1>8, <2>1 DEF ReadFails
  <2>4. /\ conns' \in Seq(ConnState) /\ Len(conns') = Len(conns)
        /\ Conns' = Conns
        /\ \A d \in Conns : conns'[d].state = conns[d].state
    BY <1>6, <2>2, <2>3, StateKept
  <2> QED BY <1>1, <2>3, <2>4, ReaderInv
<1> QED BY <1>3, <1>4, <1>7, <1>8 DEF ReaderStep

LEMMA PongInv ==
  ASSUME Inv, NEW u \in Users, NEW i \in DOMAIN readers[u], Pong(u, i)
  PROVE  Inv'
<1>1. PICK c \in Conns : c = readers[u][i].conn
  BY DEF Inv, ReadersOK
<1>2. /\ conns' = [conns EXCEPT ![c] = Disturbed(c, @)] /\ MayCrash(c)
      /\ UNCHANGED <<connections, requests, readers, ended, expired>>
      /\ mu' = mu
  BY <1>1 DEF Pong
<1>3. crashed' \in BOOLEAN
  BY <1>2, MayCrashType DEF Inv
<1>4. /\ conns' \in Seq(ConnState) /\ Len(conns') = Len(conns)
      /\ Conns' = Conns
      /\ \A d \in Conns : conns'[d].state = conns[d].state
  BY <1>2, PingConns DEF Inv
<1>5. RequestOK(u)'
  BY <1>2, <1>4 DEF Inv, RequestOK
<1>6. ReadersOK'
  BY <1>2, <1>4 DEF Inv, ReadersOK
<1>7. /\ requests' \in [Users -> Request] /\ readers' \in [Users -> Seq(Reader)]
      /\ Len(readers'[u]) <= MaxRequests
      /\ \A w \in Users \ {u} : Len(readers'[w]) = Len(readers[w])
      /\ \A w \in Users \ {u} : requests'[w] = requests[w]
  BY <1>2 DEF Inv, TypeOK
<1> QED BY <1>2, <1>3, <1>4, <1>5, <1>6, <1>7, UserFrame
-----------------------------------------------------------------------------
(* The steps that change the table.  Neither these nor what happens to the *)
(* connections from outside touches the readers.                           *)
LEMMA ReadersStay ==
  ASSUME ReadersOK, UNCHANGED readers, Conns \subseteq Conns'
  PROVE  ReadersOK'
BY DEF ReadersOK

LEMMA PingFailsInv ==
  ASSUME Bounds, Inv, NEW u \in Users, PingFails(u)
  PROVE  Inv'
<1> DEFINE url == requests[u].url
           c == requests[u].conn
<1>1. /\ TypeOK /\ TableInv /\ mu = {u}
      /\ url \in DOMAIN connections /\ c = connections[url] /\ c \in Conns
  BY DEF PingFails, Inv, RequestOK, TypeOK
<1>2. /\ conns' \in Seq(ConnState) /\ Len(conns') = Len(conns)
      /\ Conns' = Conns
      /\ \A d \in Conns :
           conns'[d] = IF d = c THEN ClosedConn ELSE conns[d]
  BY <1>1, ConstantTypes, ConnChanged DEF PingFails
<1>3. /\ requests' \in [Users -> Request]
      /\ \A w \in Users \ {u} : requests'[w] = requests[w]
      /\ requests'[u].pc = "dial" /\ requests'[u].url = url
  BY <1>1, GotoType DEF PingFails
<1>4. /\ DOMAIN connections' = DOMAIN connections \ {url}
      /\ \A v \in DOMAIN connections \ {url} :
           connections'[v] = connections[v]
  BY DEF PingFails, Delete
<1>5. UNCHANGED <<mu, readers, ended, expired, crashed>>
  BY DEF PingFails
<1>6. TypeOK'
  <2>1. /\ DOMAIN connections' \subseteq URLs
        /\ \A v \in DOMAIN connections' : connections'[v] \in Conns'
    BY <1>1, <1>2, <1>4 DEF TypeOK
  <2> QED BY <1>1, <1>2, <1>3, <1>5, <2>1 DEF TypeOK
<1>7. TableInv'
  <2>1. OneEach'
    BY <1>1, <1>4 DEF TableInv, OneEach
  <2>2. \A d \in Conns : conns'[d].state # "closed"
                          <=> d # c /\ conns[d].state # "closed"
    BY <1>2, ConstantTypes
  <2>3. ASSUME NEW d \in Conns
        PROVE  d # c /\ conns[d].state # "closed"
                <=> \E v \in DOMAIN connections \ {url} : connections[v] = d
    BY <1>1 DEF TableInv, OneEach, OpenAreListed
  <2>4. OpenAreListed'
    BY <1>2, <1>4, <1>6, <2>2, <2>3 DEF OpenAreListed, TypeOK
  <2> QED BY <2>1, <2>4 DEF TableInv
<1>8. ASSUME NEW w \in Users PROVE RequestOK(w)'
  <2>1. CASE w = u
    BY <1>1, <1>3, <1>4, <1>5, <2>1 DEF PingFails, Inv, RequestOK
  <2>2. CASE w # u
    <3>1. requests[w].pc \notin {"ping", "dial"}
      BY <1>1, <2>2 DEF Inv, RequestOK
    <3> QED BY <1>2, <1>3, <1>5, <2>2, <3>1, RequestFrame DEF Inv
  <2> QED BY <2>1, <2>2
<1>9. ReadersOK'
  BY <1>2, <1>5, ReadersStay DEF Inv
<1> QED BY <1>6, <1>7, <1>8, <1>9 DEF Inv

LEMMA DialInv ==
  ASSUME Bounds, Inv, NEW u \in Users, Dial(u)
  PROVE  Inv'
<1> DEFINE url == requests[u].url
           c == Len(conns) + 1
<1>1. /\ TypeOK /\ TableInv /\ mu = {u} /\ url \in URLs
      /\ url \notin DOMAIN connections /\ Len(readers[u]) < MaxRequests
  BY DEF Dial, Inv, RequestOK, TypeOK, Request
<1>2. /\ conns \in Seq(ConnState) /\ Len(conns) \in Nat /\ c <= MaxDials
      /\ Conns = 1..Len(conns)
  BY <1>1, LenProperties DEF Dial, TypeOK, Conns
<1>3. /\ conns' \in Seq(ConnState) /\ Len(conns') = c
      /\ Conns' = Conns \cup {c} /\ c \notin Conns
      /\ conns'[c] = Dialled
      /\ \A d \in Conns : conns'[d] = conns[d]
  <2>1. conns' = Append(conns, Dialled)
    BY DEF Dial
  <2>2. Dialled \in ConnState
    BY ConstantTypes
  <2>3. /\ conns' \in Seq(ConnState) /\ Len(conns') = c
        /\ \A d \in 1..Len(conns) : conns'[d] = conns[d]
        /\ conns'[c] = Dialled
    BY <1>2, <2>1, <2>2, AppendProperties
  <2>4. Conns' = 1..c
    BY <2>3, LenProperties DEF Conns
  <2> QED BY <1>2, <2>3, <2>4
<1>4. /\ requests' \in [Users -> Request]
      /\ \A w \in Users \ {u} : requests'[w] = requests[w]
      /\ requests'[u].pc = "connected" /\ requests'[u].conn = c
  <2>1. c \in 0..MaxDials
    BY <1>2 DEF Bounds
  <2>2. requests' = [requests EXCEPT ![u].pc = "connected", ![u].conn = c]
    BY DEF Dial
  <2> HIDE DEF c
  <2> QED BY <1>1, <2>1, <2>2 DEF TypeOK, Request
<1>5. /\ DOMAIN connections' = DOMAIN connections \cup {url}
      /\ connections'[url] = c
      /\ \A v \in DOMAIN connections : connections'[v] = connections[v]
  BY <1>1 DEF Dial, Store
<1>6. UNCHANGED <<readers, ended, expired, crashed>> /\ mu' = {}
  BY <1>1 DEF Dial
<1> HIDE DEF url, c
<1>7. TypeOK'
  <2>1. /\ DOMAIN connections' \subseteq URLs
        /\ \A v \in DOMAIN connections' : connections'[v] \in Conns'
    BY <1>1, <1>3, <1>5 DEF TypeOK
  <2>2. Len(conns') <= MaxDials
    BY <1>2, <1>3
  <2> QED BY <1>1, <1>3, <1>4, <1>6, <2>1, <2>2 DEF TypeOK
<1>8. TableInv'
  <2>1. \A v \in DOMAIN connections : connections[v] \in Conns
    BY <1>1 DEF TypeOK
  <2>2. OneEach'
    BY <1>1, <1>3, <1>5, <2>1 DEF TableInv, OneEach
  <2>3. OpenAreListed'
    <3>1. {d \in Conns' : conns'[d].state # "closed"}
            = {d \in Conns : conns[d].state # "closed"} \cup {c}
      BY <1>3, ConstantTypes
    <3>2. {connections'[v] : v \in DOMAIN connections'}
            = {connections[v] : v \in DOMAIN connections} \cup {c}
      BY <1>1, <1>5
    <3> QED BY <1>1, <3>1, <3>2 DEF TableInv, OpenAreListed
  <2> QED BY <2>2, <2>3 DEF TableInv
<1>9. ASSUME NEW w \in Users PROVE RequestOK(w)'
  <2>1. CASE w = u
    BY <1>1, <1>3, <1>4, <1>6, <2>1 DEF RequestOK
  <2>2. CASE w # u
    <3>1. requests[w].pc \notin {"ping", "dial"}
      BY <1>1, <2>2 DEF Inv, RequestOK
    <3> QED BY <1>3, <1>4, <1>6, <2>2, <3>1, RequestFrame DEF Inv
  <2> QED BY <2>1, <2>2
<1>10. ReadersOK'
  BY <1>3, <1>6, ReadersStay DEF Inv
<1> QED BY <1>7, <1>8, <1>9, <1>10 DEF Inv

LEMMA CloseInv ==
  ASSUME Bounds, Inv, NEW urls \in SUBSET URLs, Close(urls)
  PROVE  Inv'
<1> DEFINE gone == {connections[url] : url \in urls \cap DOMAIN connections}
<1>1. /\ TypeOK /\ TableInv /\ mu = {}
      /\ UNCHANGED <<mu, requests, readers, ended, expired, crashed>>
  BY DEF Close, Inv
<1>2. /\ conns' \in Seq(ConnState) /\ Len(conns') = Len(conns)
      /\ Conns' = Conns
      /\ \A c \in Conns :
           conns'[c] = IF c \in gone THEN ClosedConn ELSE conns[c]
  <2>1. conns \in Seq(ConnState) /\ Len(conns) \in Nat /\ Conns = 1..Len(conns)
    BY <1>1, LenProperties DEF TypeOK, Conns
  <2>2. /\ conns' = [c \in Conns |->
                       IF c \in gone THEN ClosedConn ELSE conns[c]]
        /\ \A c \in Conns : conns[c] \in ConnState
    BY <2>1 DEF Close
  <2> HIDE DEF gone
  <2>3. conns' \in [1..Len(conns) -> ConnState]
    BY <2>1, <2>2, ConstantTypes
  <2>4. conns' \in Seq(ConnState)
    BY <2>1, <2>3, SeqDef
  <2>5. Len(conns') = Len(conns)
    BY <2>1, <2>3, <2>4, LenProperties
  <2> QED BY <2>1, <2>2, <2>3, <2>4, <2>5 DEF Conns
<1>3. /\ DOMAIN connections' = DOMAIN connections \ urls
      /\ \A v \in DOMAIN connections \ urls : connections'[v] = connections[v]
  BY DEF Close
<1>4. TypeOK'
  <2>1. /\ DOMAIN connections' \subseteq URLs
        /\ \A v \in DOMAIN connections' : connections'[v] \in Conns'
    BY <1>1, <1>2, <1>3 DEF TypeOK
  <2> QED BY <1>1, <1>2, <2>1 DEF TypeOK
<1>5. TableInv'
  <2>1. OneEach'
    BY <1>1, <1>3 DEF TableInv, OneEach
  <2>2. \A d \in Conns : conns'[d].state # "closed"
                          <=> d \notin gone /\ conns[d].state # "closed"
    <3> HIDE DEF gone
    <3> QED BY <1>2, ConstantTypes
  <2>3. ASSUME NEW d \in Conns
        PROVE  d \notin gone /\ conns[d].state # "closed"
                <=> \E v \in DOMAIN connections \ urls : connections[v] = d
    BY <1>1 DEF TableInv, OneEach, OpenAreListed
  <2>4. OpenAreListed'
    <3>1. {d \in Conns : conns'[d].state # "closed"}
            = {connections[v] : v \in DOMAIN connections \ urls}
      <4> HIDE DEF gone
      <4> QED BY <1>1, <2>2, <2>3 DEF TypeOK
    <3>2. {connections'[v] : v \in DOMAIN connections'}
            = {connections[v] : v \in DOMAIN connections \ urls}
      BY <1>3
    <3> QED BY <1>2, <3>1, <3>2 DEF OpenAreListed
  <2> QED BY <2>1, <2>4 DEF TableInv
<1>6. ASSUME NEW w \in Users PROVE RequestOK(w)'
  <2>1. requests[w].pc \notin {"ping", "dial"}
    BY <1>1 DEF Inv, RequestOK
  <2> QED BY <1>1, <1>2, <2>1, RequestFrame DEF Inv
<1>7. ReadersOK'
  BY <1>1, <1>2, ReadersStay DEF Inv
<1> QED BY <1>4, <1>5, <1>6, <1>7 DEF Inv
-----------------------------------------------------------------------------
LEMMA ContextInv ==
  ASSUME Inv, NEW u \in Users, Cancel(u) \/ Expire(u)
  PROVE  Inv'
<1>1. /\ UNCHANGED <<connections, mu, conns, requests, readers, crashed>>
      /\ ended' \subseteq Users /\ expired' \subseteq ended'
  BY DEF Cancel, Expire, Inv, TypeOK
<1>2. Conns' = Conns
  BY <1>1 DEF Conns
<1>3. TypeOK'
  BY <1>1, <1>2 DEF Inv, TypeOK
<1>4. TableInv'
  BY <1>1, <1>2, TableFrame DEF Inv
<1>5. \A w \in Users : RequestOK(w)'
  BY <1>1, <1>2, RequestFrame DEF Inv
<1>6. ReadersOK'
  BY <1>1, <1>2, ReadersStay DEF Inv
<1> QED BY <1>3, <1>4, <1>5, <1>6 DEF Inv

LEMMA PeerInv ==
  ASSUME Bounds, Inv, NEW c \in Conns, PeerStep(c)
  PROVE  Inv'
<1>1. UNCHANGED <<connections, mu, requests, readers, ended, expired, crashed>>
  BY DEF PeerStep, Receive, Stall, Resume, Lose
<1>2. TypeOK /\ conns[c] \in ConnState /\ conns[c].state # "closed"
  BY DEF PeerStep, Receive, Stall, Resume, Lose, Alive, Inv, TypeOK, Conns
<1>3. \E k \in ConnState :
        k.state # "closed" /\ conns' = [conns EXCEPT ![c] = k]
  <2>1. CASE Receive(c)
    <3> DEFINE k == [conns[c] EXCEPT !.inbox = @ + 1]
    <3>1. conns' = [conns EXCEPT ![c] = k] /\ conns[c].inbox < MaxInbox
      BY <2>1 DEF Receive
    <3>2. conns[c].inbox + 1 \in 0..MaxInbox
      BY <1>2, <3>1 DEF ConnState, Bounds
    <3>3. k \in ConnState /\ k.state # "closed"
      BY <1>2, <3>2 DEF ConnState
    <3> QED BY <3>1, <3>3
  <2>2. CASE Stall(c) \/ Resume(c) \/ Lose(c)
    <3>1. PICK to \in {"stalled", "up", "lost"} :
            conns' = [conns EXCEPT ![c].state = to]
      BY <2>2 DEF Stall, Resume, Lose
    <3> DEFINE k == [conns[c] EXCEPT !.state = to]
    <3>2. conns' = [conns EXCEPT ![c] = k]
      BY <3>1
    <3>3. k \in ConnState /\ k.state # "closed"
      BY <1>2 DEF ConnState
    <3> QED BY <3>2, <3>3
  <2> QED BY <2>1, <2>2 DEF PeerStep
<1>4. PICK k \in ConnState :
        k.state # "closed" /\ conns' = [conns EXCEPT ![c] = k]
  BY <1>3
<1>5. /\ conns' \in Seq(ConnState) /\ Len(conns') = Len(conns)
      /\ Conns' = Conns
      /\ \A d \in Conns : conns'[d] = IF d = c THEN k ELSE conns[d]
  BY <1>2, <1>4, ConnChanged
<1>6. \A d \in Conns : conns'[d].state = "closed" <=> conns[d].state = "closed"
  BY <1>2, <1>4, <1>5
<1>7. TypeOK'
  BY <1>1, <1>2, <1>5 DEF TypeOK
<1>8. TableInv'
  BY <1>1, <1>5, <1>6, TableFrame DEF Inv
<1>9. \A w \in Users : RequestOK(w)'
  BY <1>1, <1>5, RequestFrame DEF Inv
<1>10. ReadersOK'
  BY <1>1, <1>5, ReadersStay DEF Inv
<1> QED BY <1>7, <1>8, <1>9, <1>10 DEF Inv
-----------------------------------------------------------------------------
LEMMA NextInv ==
  ASSUME Bounds, Inv, [Next]_vars
  PROVE  Inv'
<1>1. CASE UNCHANGED vars
  <2>1. /\ UNCHANGED <<connections, mu, conns, requests, readers, crashed>>
        /\ UNCHANGED <<ended, expired>>
    BY <1>1 DEF vars
  <2>2. Conns' = Conns
    BY <2>1 DEF Conns
  <2>3. TypeOK'
    BY <2>1, <2>2 DEF Inv, TypeOK
  <2>4. TableInv'
    BY <2>1, <2>2, TableFrame DEF Inv
  <2>5. \A w \in Users : RequestOK(w)'
    BY <2>1, <2>2, RequestFrame DEF Inv
  <2>6. ReadersOK'
    BY <2>1, <2>2, ReadersStay DEF Inv
  <2> QED BY <2>3, <2>4, <2>5, <2>6 DEF Inv
<1>2. CASE \E u \in Users : \E url \in URLs : Execute(u, url)
  BY <1>2, ExecuteInv
<1>3. CASE \E u \in Users : UserStep(u)
  <2>1. PICK u \in Users : UserStep(u)
    BY <1>3
  <2>2. CASE Lock(u) \/ PingOK(u) \/ PingFails(u) \/ Dial(u) \/ DialFails(u)
    BY <2>2, LockInv, PingOKInv, PingFailsInv, DialInv, DialFailsInv
  <2>3. CASE SendNothing(u) \/ BeginWrite(u) \/ EndWrite(u)
    BY <2>3, SendNothingInv, BeginWriteInv, EndWriteInv
  <2>4. CASE Abandon(u) \/ TakeMessage(u) \/ TakeError(u)
    BY <2>4, AbandonInv, TakeInv
  <2> QED BY <2>1, <2>2, <2>3, <2>4 DEF UserStep
<1>4. CASE \E u \in Users : \E i \in DOMAIN readers[u] :
             ReaderStep(u, i) \/ Pong(u, i)
  BY <1>4, ReaderStepInv, PongInv
<1>5. CASE \E u \in Users : Cancel(u) \/ Expire(u)
  BY <1>5, ContextInv
<1>6. CASE \E urls \in SUBSET URLs : Close(urls)
  BY <1>6, CloseInv
<1>7. CASE \E c \in Conns : PeerStep(c)
  BY <1>7, PeerInv
<1> QED BY <1>1, <1>2, <1>3, <1>4, <1>5, <1>6, <1>7 DEF Next

(* Whom a request waits for.  A reader that has returned without its       *)
(* context being done has handed over an error, and with it the request    *)
(* has returned.                                                           *)
LEMMA NotWaiting ==
  ASSUME Attended, UNCHANGED readers, ended \subseteq ended',
         \A w \in Users : requests'[w].pc = "wait" => requests[w].pc = "wait"
  PROVE  Attended'
BY DEF Attended, Own

LEMMA CallAttended ==
  ASSUME Bounds, Inv, Attended, NEW u \in Users,
         NEW pc \in {"dial", "connected", "write"},
         Goto(u, pc) \/ Return(u), UNCHANGED <<readers, ended>>
  PROVE  Attended'
<1>1. \A w \in Users : requests'[w].pc = "wait" => requests[w].pc = "wait"
  BY GotoType, ReturnType DEF Inv
<1> QED BY <1>1, NotWaiting

LEMMA StartAttended ==
  ASSUME Inv, Attended, NEW u \in Users, StartReader(u), UNCHANGED ended,
         requests[u].pc \in {"connected", "write"}
  PROVE  Attended'
<1>1. /\ \A w \in Users \ {u} : readers'[w] = readers[w]
      /\ readers'[u][Len(readers'[u])].pc = "loop"
  BY ReaderStarted DEF Inv, RequestOK
<1>2. \A w \in Users \ {u} : requests'[w] = requests[w]
  BY GotoType DEF StartReader, Inv
<1>3. ASSUME NEW w \in Users, requests'[w].pc = "wait"
      PROVE  w \in ended' \/ readers'[w][Len(readers'[w])].pc # "returned"
  <2>1. CASE w = u
    BY <1>1, <2>1
  <2>2. CASE w # u
    <3>1. requests'[w] = requests[w] /\ readers'[w] = readers[w]
      BY <1>1, <1>2, <2>2
    <3> QED BY <1>3, <3>1 DEF Attended, Own
  <2> QED BY <2>1, <2>2
<1> QED BY <1>3 DEF Attended, Own

(* A reader returns when its context is done, or with the request.         *)
LEMMA ReaderAttended ==
  ASSUME Bounds, Inv, Attended, NEW u \in Users, NEW i \in DOMAIN readers[u],
         NEW pc \in {"loop", "read", "message", "error", "returned"},
         ReaderGoto(u, i, pc), UNCHANGED requests \/ Return(u),
         UNCHANGED ended, pc = "returned" => u \in ended \/ Return(u)
  PROVE  Attended'
<1>1. \A w \in Users :
        /\ Len(readers'[w]) = Len(readers[w])
        /\ \A j \in DOMAIN readers[w] :
             readers'[w][j].pc =
               IF w = u /\ j = i THEN pc ELSE readers[w][j].pc
  BY ReaderChanged DEF Inv
<1>2. \A w \in Users : requests'[w].pc = "wait" => requests[w].pc = "wait"
  BY ReturnType DEF Inv
<1>3. Return(u) => requests'[u].pc # "wait"
  BY ReturnType DEF Inv
<1>4. ASSUME NEW w \in Users, requests'[w].pc = "wait"
      PROVE  w \in ended \/ readers'[w][Len(readers'[w])].pc # "returned"
  <2>1. requests[w].pc = "wait"
    BY <1>2, <1>4
  <2>2. Len(readers[w]) \in DOMAIN readers[w]
    BY <2>1 DEF Inv, RequestOK, TypeOK
  <2>3. readers'[w][Len(readers'[w])].pc =
          IF w = u /\ Len(readers[w]) = i
          THEN pc ELSE readers[w][Len(readers[w])].pc
    BY <1>1, <2>2
  <2>4. w \in ended \/ readers[w][Len(readers[w])].pc # "returned"
    BY <2>1 DEF Attended, Own
  <2> QED BY <1>3, <1>4, <2>3, <2>4
<1> QED BY <1>4 DEF Attended, Own

LEMMA TakeAttended ==
  ASSUME Bounds, Inv, Attended, NEW u \in Users,
         TakeMessage(u) \/ TakeError(u)
  PROVE  Attended'
<1>1. Own(u) \in DOMAIN readers[u]
  BY DEF TakeMessage, TakeError, Own, Inv, TypeOK, RequestOK
<1>2. /\ ReaderGoto(u, Own(u), "loop") \/ ReaderGoto(u, Own(u), "returned")
      /\ Return(u) /\ UNCHANGED ended
  BY DEF TakeMessage, TakeError
<1>3. PICK i \in DOMAIN readers[u] : i = Own(u)
  BY <1>1
<1>4. CASE ReaderGoto(u, i, "loop")
  BY <1>2, <1>4, ReaderAttended
<1>5. CASE ReaderGoto(u, i, "returned")
  BY <1>2, <1>5, ReaderAttended
<1> QED BY <1>2, <1>3, <1>4, <1>5

LEMMA ReaderStepAttended ==
  ASSUME Bounds, Inv, Attended, NEW u \in Users, NEW i \in DOMAIN readers[u],
         ReaderStep(u, i)
  PROVE  Attended'
<1>1. UNCHANGED <<requests, ended>>
  BY DEF ReaderStep, ReaderLoop, ReadMessage, ReadFails, GiveUp
<1>2. CASE ReaderLoop(u, i)
  <2>1. CASE u \in ended
    <3>1. ReaderGoto(u, i, "returned")
      BY <1>2, <2>1 DEF ReaderLoop
    <3> QED BY <1>1, <2>1, <3>1, ReaderAttended
  <2>2. CASE u \notin ended
    <3>1. ReaderGoto(u, i, "read")
      BY <1>2, <2>2 DEF ReaderLoop
    <3> QED BY <1>1, <3>1, ReaderAttended
  <2> QED BY <2>1, <2>2
<1>3. CASE ReadMessage(u, i)
  <2>1. ReaderGoto(u, i, "message")
    BY <1>3 DEF ReadMessage
  <2> QED BY <1>1, <2>1, ReaderAttended
<1>4. CASE ReadFails(u, i)
  <2>1. ReaderGoto(u, i, "error")
    BY <1>4 DEF ReadFails
  <2> QED BY <1>1, <2>1, ReaderAttended
<1>5. CASE GiveUp(u, i)
  <2>1. ReaderGoto(u, i, "returned") /\ u \in ended
    BY <1>5 DEF GiveUp
  <2> QED BY <1>1, <2>1, ReaderAttended
<1> QED BY <1>2, <1>3, <1>4, <1>5 DEF ReaderStep

LEMMA UserStepAttended ==
  ASSUME Bounds, Inv, Attended, NEW u \in Users, UserStep(u)
  PROVE  Attended'
<1>1. CASE Lock(u)
  <2>1. \A w \in Users : requests'[w].pc = "wait" => requests[w].pc = "wait"
    BY <1>1 DEF Lock, Ping, Goto, Inv, TypeOK, Request
  <2> QED BY <1>1, <2>1, NotWaiting DEF Lock
<1>2. CASE PingOK(u)
  BY <1>2, CallAttended DEF PingOK
<1>3. CASE PingFails(u)
  BY <1>3, CallAttended DEF PingFails
<1>4. CASE Dial(u)
  <2>1. \A w \in Users : requests'[w].pc = "wait" => requests[w].pc = "wait"
    BY <1>4 DEF Dial, Inv, TypeOK, Request
  <2> QED BY <1>4, <2>1, NotWaiting DEF Dial
<1>5. CASE DialFails(u)
  BY <1>5, CallAttended DEF DialFails
<1>6. CASE SendNothing(u)
  BY <1>6, StartAttended DEF SendNothing
<1>7. CASE BeginWrite(u)
  BY <1>7, CallAttended DEF BeginWrite
<1>8. CASE EndWrite(u)
  <2>1. CASE StartReader(u)
    BY <1>8, <2>1, StartAttended DEF EndWrite
  <2>2. CASE Return(u) /\ UNCHANGED readers
    BY <1>8, <2>2, CallAttended DEF EndWrite
  <2> QED BY <1>8, <2>1, <2>2 DEF EndWrite
<1>9. CASE Abandon(u)
  BY <1>9, CallAttended DEF Abandon
<1>10. CASE TakeMessage(u) \/ TakeError(u)
  BY <1>10, TakeAttended
<1> QED BY <1>1, <1>2, <1>3, <1>4, <1>5, <1>6, <1>7, <1>8, <1>9, <1>10
        DEF UserStep

LEMMA InitAttended == Bounds /\ Init => Attended
BY ConstantTypes DEF Init, Attended

LEMMA NextAttended ==
  ASSUME Bounds, Inv, Attended, [Next]_vars
  PROVE  Attended'
<1>1. CASE UNCHANGED vars
  BY <1>1, NotWaiting DEF vars
<1>2. CASE \E u \in Users : \E url \in URLs : Execute(u, url)
  <2>1. PICK u \in Users, url \in URLs : Execute(u, url)
    BY <1>2
  <2>2. \A w \in Users : requests'[w].pc = "wait" => requests[w].pc = "wait"
    BY <2>1 DEF Execute, Inv, TypeOK, Request
  <2> QED BY <2>1, <2>2, NotWaiting DEF Execute
<1>3. CASE \E u \in Users : UserStep(u)
  BY <1>3, UserStepAttended
<1>4. CASE \E u \in Users : \E i \in DOMAIN readers[u] : ReaderStep(u, i)
  BY <1>4, ReaderStepAttended
<1>5. CASE \/ \E u \in Users : \E i \in DOMAIN readers[u] : Pong(u, i)
           \/ \E u \in Users : Cancel(u) \/ Expire(u)
           \/ \E urls \in SUBSET URLs : Close(urls)
           \/ \E c \in Conns : PeerStep(c)
  <2>1. UNCHANGED <<requests, readers>> /\ ended \subseteq ended'
    BY <1>5
       DEF Pong, Cancel, Expire, Close, PeerStep, Receive, Stall, Resume, Lose
  <2> QED BY <2>1, NotWaiting
<1> QED BY <1>1, <1>2, <1>3, <1>4, <1>5 DEF Next

(* The variables of the client stay within their types: in particular the  *)
(* table never holds a connection that was not dialled, the mutex has one  *)
(* owner at most, and only contexts that are done have expired.            *)
THEOREM TypeCorrect == Bounds => (Spec => []TypeOK)
<1>1. ASSUME Bounds PROVE Init => Inv
  BY <1>1, InitInv
<1>2. ASSUME Bounds PROVE Inv /\ [Next]_vars => Inv'
  BY <1>2, NextInv
<1>3. Inv => TypeOK
  BY DEF Inv
<1>4. Bounds => (Bounds)'
  BY DEF Bounds
<1> QED BY <1>1, <1>2, <1>3, <1>4, PTL DEF Spec

(* The client loses no connection: what it has not closed is in the table, *)
(* where Close finds it, and what it has closed is not (getConnection,     *)
(* CloseConnection and Close of ws.go, under c.mu).                        *)
THEOREM NothingLeaks == Bounds => (Spec => []OpenAreListed)
<1>1. ASSUME Bounds PROVE Init => Inv
  BY <1>1, InitInv
<1>2. ASSUME Bounds PROVE Inv /\ [Next]_vars => Inv'
  BY <1>2, NextInv
<1>3. Inv => OpenAreListed
  BY DEF Inv, TableInv
<1>4. Bounds => (Bounds)'
  BY DEF Bounds
<1> QED BY <1>1, <1>2, <1>3, <1>4, PTL DEF Spec

(* A request that waits has a reader to hear from, unless its context is   *)
(* done: whatever a reader gets, an error too, it keeps until the request  *)
(* or the context takes it (the select on done, errCh and msgCh of         *)
(* Execute, and the sends of the goroutine it starts).                     *)
THEOREM NoneLeftWaiting == Bounds => (Spec => []Attended)
<1>1. ASSUME Bounds PROVE Init => Inv /\ Attended
  BY <1>1, InitInv, InitAttended
<1>2. ASSUME Bounds PROVE Inv /\ Attended /\ [Next]_vars => (Inv /\ Attended)'
  BY <1>2, NextInv, NextAttended
<1>4. Bounds => (Bounds)'
  BY DEF Bounds
<1> QED BY <1>1, <1>2, <1>4, PTL DEF Spec
=============================================================================
