------------------------------ MODULE WSClient ------------------------------
(***************************************************************************)
(* The WebSocket client, pkg/protocol/ws.go, which all virtual users of a  *)
(* worker share.  c.connections has one connection for each URL; c.mu is   *)
(* held while one is looked up, pinged and dialled, and no longer: users   *)
(* write to and read from a connection at the same time.                   *)
(*                                                                         *)
(* Every request starts a goroutine that reads the connection on its       *)
(* behalf (its reader).  Execute may return without it, and nothing but    *)
(* the context of the request or an error ends a reader.                   *)
(*                                                                         *)
(* Of github.com/gorilla/websocket this takes: a failed read is final, all *)
(* later reads of the connection fail as well, while writes still succeed; *)
(* two writes at once may panic, which ends the process, or make each      *)
(* other fail; two reads at once may break the reading side.  A write has  *)
(* no deadline and looks at no context: while the peer does not read, it   *)
(* ends when the network has room for it, which may be never.  Messages    *)
(* are only counted.                                                       *)
(***************************************************************************)
EXTENDS Integers, Sequences

CONSTANTS
  Users,        \* the virtual users, each under one context
  URLs,         \* the URLs of their requests
  MaxRequests,  \* bound: the requests of a user that get to reading
  MaxDials,     \* bound: the connections dialled
  MaxInbox      \* bound: the messages that wait in a connection

VARIABLES
  connections,  \* c.connections: URL -> connection
  mu,           \* who holds c.mu
  conns,        \* the connections dialled so far, and their state
  requests,     \* what each user's call of Execute is at
  readers,      \* the readers each user has started, oldest first
  ended,        \* the users whose context is done
  expired,      \* of these, the ones whose context's deadline has passed
  crashed       \* did a write panic?

vars ==
  <<connections, mu, conns, requests, readers, ended, expired, crashed>>

Conns == DOMAIN conns

(* A connection is up; or stalled, its peer being there but not reading;   *)
(* or lost to its peer; or closed by the client.  "unreadable" is          *)
(* gorilla's readErr; "disturbed" is whether two writes have met on it,    *)
(* after which any write may fail; "deadline" is whose deadline reading is *)
(* subject to, if any.                                                     *)
ConnState ==
  [state : {"up", "stalled", "lost", "closed"},
   unreadable : BOOLEAN, disturbed : BOOLEAN,
   deadline : SUBSET Users, inbox : 0..MaxInbox]

Dialled ==
  [state |-> "up", unreadable |-> FALSE, disturbed |-> FALSE,
   deadline |-> {}, inbox |-> 0]

ClosedConn == [Dialled EXCEPT !.state = "closed", !.unreadable = TRUE]

Request ==
  [pc : {"idle", "lock", "ping", "dial", "connected", "write", "wait"},
   url : URLs, conn : 0..MaxDials]

Reader ==
  [pc : {"loop", "read", "message", "error", "returned"}, conn : 1..MaxDials]

TypeOK ==
  /\ DOMAIN connections \subseteq URLs
  /\ \A url \in DOMAIN connections : connections[url] \in Conns
  /\ mu = {} \/ \E u \in Users : mu = {u}
  /\ conns \in Seq(ConnState) /\ Len(conns) <= MaxDials
  /\ requests \in [Users -> Request]
  /\ readers \in [Users -> Seq(Reader)]
  /\ \A u \in Users : Len(readers[u]) <= MaxRequests
  /\ ended \subseteq Users /\ expired \subseteq ended
  /\ crashed \in BOOLEAN

Idle == [pc |-> "idle", url |-> CHOOSE url \in URLs : TRUE, conn |-> 0]

Init ==
  /\ connections = [url \in {} |-> 0]
  /\ mu = {}
  /\ conns = <<>>
  /\ requests = [u \in Users |-> Idle]
  /\ readers = [u \in Users |-> <<>>]
  /\ ended = {} /\ expired = {}
  /\ crashed = FALSE
-----------------------------------------------------------------------------
Goto(u, pc) == requests' = [requests EXCEPT ![u].pc = pc]

Return(u) == requests' = [requests EXCEPT ![u] = Idle]

Delete(table, url) == [v \in DOMAIN table \ {url} |-> table[v]]

Store(table, url, c) ==
  [v \in DOMAIN table \cup {url} |-> IF v = url THEN c ELSE table[v]]

Alive(c) == conns[c].state \in {"up", "stalled"}

(* The users who write to connection c, a ping or a message.               *)
Writing(c) ==
  {u \in Users : requests[u].pc \in {"ping", "write"} /\ requests[u].conn = c}

(* A write to c meets those under way: it may panic, and any may fail.     *)
MayCrash(c) == UNCHANGED crashed \/ (Writing(c) # {} /\ crashed' = TRUE)

Disturbed(c, conn) == [conn EXCEPT !.disturbed = @ \/ Writing(c) # {}]

WriteMayFail(c) == ~ Alive(c) \/ conns[c].disturbed

(* Execute is called.                                                      *)
Execute(u, url) ==
  /\ requests[u].pc = "idle"
  /\ Len(readers[u]) < MaxRequests
  /\ requests' = [requests EXCEPT ![u].pc = "lock", ![u].url = url]
  /\ UNCHANGED <<connections, mu, conns, readers, ended, expired, crashed>>

Ping(u, c) ==
  /\ requests' = [requests EXCEPT ![u].pc = "ping", ![u].conn = c]
  /\ conns' = [conns EXCEPT ![c] = Disturbed(c, @)]
  /\ MayCrash(c)

(* Mutant: the table is not locked (as in grpc.go, which has no mutex).    *)
Lock_Shared(u) ==
  LET url == requests[u].url
  IN  /\ requests[u].pc = "lock"
      /\ IF url \in DOMAIN connections
         THEN Ping(u, connections[url])
         ELSE Goto(u, "dial") /\ UNCHANGED <<conns, crashed>>
      /\ UNCHANGED <<connections, mu, readers, ended, expired>>

(* getConnection takes c.mu and looks the URL up; it pings the connection  *)
(* it finds, ...                                                           *)
Lock(u) ==
  LET url == requests[u].url
  IN  /\ requests[u].pc = "lock" /\ mu = {}
      /\ mu' = {u}
      /\ IF url \in DOMAIN connections
         THEN Ping(u, connections[url])
         ELSE Goto(u, "dial") /\ UNCHANGED <<conns, crashed>>
      /\ UNCHANGED <<connections, readers, ended, expired>>

(* ... takes it if it could write, which an unread one may not let it do   *)
(* for ever, with the mutex held, ...                                      *)
PingOK(u) ==
  /\ requests[u].pc = "ping" /\ conns[requests[u].conn].state # "closed"
  /\ Goto(u, "connected")
  /\ mu' = mu \ {u}
  /\ UNCHANGED <<connections, conns, readers, ended, expired, crashed>>

(* ... or else removes and closes it ...                                   *)
PingFails(u) ==
  LET c == requests[u].conn
  IN  /\ requests[u].pc = "ping" /\ WriteMayFail(c)
      /\ connections' = Delete(connections, requests[u].url)
      /\ conns' = [conns EXCEPT ![c] = ClosedConn]
      /\ Goto(u, "dial")
      /\ UNCHANGED <<mu, readers, ended, expired, crashed>>

(* ... and dials, with the mutex held.                                     *)
Dial(u) ==
  LET c == Len(conns) + 1
  IN  /\ requests[u].pc = "dial" /\ c <= MaxDials
      /\ conns' = Append(conns, Dialled)
      /\ connections' = Store(connections, requests[u].url, c)
      /\ requests' = [requests EXCEPT ![u].pc = "connected", ![u].conn = c]
      /\ mu' = mu \ {u}
      /\ UNCHANGED <<readers, ended, expired, crashed>>

(* Mutant: an early return forgets the mutex.                              *)
DialFails_Locked(u) ==
  /\ requests[u].pc = "dial"
  /\ Return(u)
  /\ UNCHANGED <<connections, mu, conns, readers, ended, expired, crashed>>

(* The dial fails, or takes longer than the HandshakeTimeout; Execute      *)
(* returns the error.                                                      *)
DialFails(u) ==
  /\ requests[u].pc = "dial"
  /\ Return(u)
  /\ mu' = mu \ {u}
  /\ UNCHANGED <<connections, conns, readers, ended, expired, crashed>>
-----------------------------------------------------------------------------
StartReader(u) ==
  /\ readers' = [readers EXCEPT ![u] =
                   Append(@, [pc |-> "loop", conn |-> requests[u].conn])]
  /\ Goto(u, "wait")

(* The connection's read deadline becomes the one of this user's context.  *)
WithDeadline(u, conn) ==
  IF conn.state = "closed" THEN conn ELSE [conn EXCEPT !.deadline = {u}]

(* A request without a body goes on to read at once.                       *)
SendNothing(u) ==
  /\ requests[u].pc = "connected"
  /\ conns' = [conns EXCEPT ![requests[u].conn] = WithDeadline(u, @)]
  /\ StartReader(u)
  /\ UNCHANGED <<connections, mu, ended, expired, crashed>>

(* One with a body writes it ...                                           *)
BeginWrite(u) ==
  LET c == requests[u].conn
  IN  /\ requests[u].pc = "connected"
      /\ conns' = [conns EXCEPT ![c] = Disturbed(c, WithDeadline(u, @))]
      /\ Goto(u, "write")
      /\ MayCrash(c)
      /\ UNCHANGED <<connections, mu, readers, ended, expired>>

(* ... and reads if that succeeded; else Execute returns the error.        *)
EndWrite(u) ==
  LET c == requests[u].conn
  IN  /\ requests[u].pc = "write"
      /\ \/ conns[c].state # "closed" /\ StartReader(u)
         \/ WriteMayFail(c) /\ Return(u) /\ UNCHANGED readers
      /\ UNCHANGED <<connections, mu, conns, ended, expired, crashed>>

(* The reader of the request that user u waits for.                        *)
Own(u) == Len(readers[u])

ReaderGoto(u, i, pc) == readers' = [readers EXCEPT ![u][i].pc = pc]

(* Execute returns: the context is done or the ThinkTime is over (it may   *)
(* be 0), and the reader is left behind; ...                               *)
Abandon(u) ==
  /\ requests[u].pc = "wait"
  /\ Return(u)
  /\ UNCHANGED <<connections, mu, conns, readers, ended, expired, crashed>>

(* ... or the reader has a message, and goes on reading; ...               *)
TakeMessage(u) ==
  /\ requests[u].pc = "wait" /\ readers[u][Own(u)].pc = "message"
  /\ ReaderGoto(u, Own(u), "loop")
  /\ Return(u)
  /\ UNCHANGED <<connections, mu, conns, ended, expired, crashed>>

(* ... or it has an error.                                                 *)
TakeError(u) ==
  /\ requests[u].pc = "wait" /\ readers[u][Own(u)].pc = "error"
  /\ ReaderGoto(u, Own(u), "returned")
  /\ Return(u)
  /\ UNCHANGED <<connections, mu, conns, ended, expired, crashed>>

UserStep(u) ==
  \/ Lock(u) \/ PingOK(u) \/ PingFails(u) \/ Dial(u) \/ DialFails(u)
  \/ SendNothing(u) \/ BeginWrite(u) \/ EndWrite(u)
  \/ Abandon(u) \/ TakeMessage(u) \/ TakeError(u)
-----------------------------------------------------------------------------
(* The reader looks at its context between two messages only.              *)
ReaderLoop(u, i) ==
  /\ readers[u][i].pc = "loop"
  /\ ReaderGoto(u, i, IF u \in ended THEN "returned" ELSE "read")
  /\ UNCHANGED <<connections, mu, conns, requests, ended, expired, crashed>>

(* ReadMessage returns a message.                                          *)
ReadMessage(u, i) ==
  LET c == readers[u][i].conn
  IN  /\ readers[u][i].pc = "read"
      /\ ~ conns[c].unreadable /\ conns[c].inbox > 0
      /\ conns' = [conns EXCEPT ![c].inbox = @ - 1]
      /\ ReaderGoto(u, i, "message")
      /\ UNCHANGED <<connections, mu, requests, ended, expired, crashed>>

(* Other goroutines read connection c as well.                             *)
SharedRead(c) ==
  \E r, s \in Users \X (1..MaxRequests) :
    /\ r # s
    /\ \A x \in {r, s} :
         /\ x[2] \in DOMAIN readers[x[1]]
         /\ readers[x[1]][x[2]].conn = c /\ readers[x[1]][x[2]].pc = "read"

ReadMayFail(c) ==
  \/ conns[c].unreadable \/ WriteMayFail(c)
  \/ conns[c].deadline \cap expired # {}
  \/ SharedRead(c)

(* Mutant: an error ends the reader, and nobody is told.                   *)
ReadFails_Silent(u, i) ==
  LET c == readers[u][i].conn
  IN  /\ readers[u][i].pc = "read" /\ ReadMayFail(c)
      /\ conns' = [conns EXCEPT ![c].unreadable = TRUE, ![c].inbox = 0]
      /\ ReaderGoto(u, i, "returned")
      /\ UNCHANGED <<connections, mu, requests, ended, expired, crashed>>

(* ReadMessage fails, for good: the connection was lost or closed, its     *)
(* read deadline has passed, another reader got in the way, or a ping of   *)
(* the peer could not be answered.                                         *)
ReadFails(u, i) ==
  LET c == readers[u][i].conn
  IN  /\ readers[u][i].pc = "read" /\ ReadMayFail(c)
      /\ conns' = [conns EXCEPT ![c].unreadable = TRUE, ![c].inbox = 0]
      /\ ReaderGoto(u, i, "error")
      /\ UNCHANGED <<connections, mu, requests, ended, expired, crashed>>

(* The reader answers a ping of the peer while somebody else writes.       *)
Pong(u, i) ==
  LET c == readers[u][i].conn
  IN  /\ readers[u][i].pc = "read" /\ Alive(c)
      /\ Writing(c) # {}
      /\ conns' = [conns EXCEPT ![c] = Disturbed(c, @)]
      /\ MayCrash(c)
      /\ UNCHANGED <<connections, mu, requests, readers, ended, expired>>

(* A reader with a message gives up when its context is done; one with an  *)
(* error does not.                                                         *)
GiveUp(u, i) ==
  /\ readers[u][i].pc = "message" /\ u \in ended
  /\ ReaderGoto(u, i, "returned")
  /\ UNCHANGED <<connections, mu, conns, requests, ended, expired, crashed>>

ReaderStep(u, i) ==
  \/ ReaderLoop(u, i) \/ ReadMessage(u, i) \/ ReadFails(u, i) \/ GiveUp(u, i)
-----------------------------------------------------------------------------
(* Close, or CloseConnection for each of some URLs.                        *)
Close(urls) ==
  /\ mu = {}
  /\ LET gone == {connections[url] : url \in urls \cap DOMAIN connections}
     IN  conns' = [c \in Conns |-> IF c \in gone THEN ClosedConn ELSE conns[c]]
  /\ connections' = [url \in DOMAIN connections \ urls |-> connections[url]]
  /\ UNCHANGED <<mu, requests, readers, ended, expired, crashed>>

(* The context of a user is done: cancelled, or its deadline has passed.   *)
Cancel(u) ==
  /\ u \notin ended
  /\ ended' = ended \cup {u}
  /\ UNCHANGED <<connections, mu, conns, requests, readers, expired, crashed>>

Expire(u) ==
  /\ u \notin expired
  /\ expired' = expired \cup {u}
  /\ ended' = ended \cup {u}
  /\ UNCHANGED <<connections, mu, conns, requests, readers, crashed>>

(* The peer sends a message, ...                                           *)
Receive(c) ==
  /\ Alive(c) /\ ~ conns[c].unreadable
  /\ conns[c].inbox < MaxInbox
  /\ conns' = [conns EXCEPT ![c].inbox = @ + 1]
  /\ UNCHANGED <<connections, mu, requests, readers, ended, expired, crashed>>

(* ... no longer reads what it is sent, reads again, or is lost.           *)
Stall(c) ==
  /\ conns[c].state = "up"
  /\ conns' = [conns EXCEPT ![c].state = "stalled"]
  /\ UNCHANGED <<connections, mu, requests, readers, ended, expired, crashed>>

Resume(c) ==
  /\ conns[c].state = "stalled"
  /\ conns' = [conns EXCEPT ![c].state = "up"]
  /\ UNCHANGED <<connections, mu, requests, readers, ended, expired, crashed>>

Lose(c) ==
  /\ Alive(c)
  /\ conns' = [conns EXCEPT ![c].state = "lost"]
  /\ UNCHANGED <<connections, mu, requests, readers, ended, expired, crashed>>

PeerStep(c) == Receive(c) \/ Stall(c) \/ Resume(c) \/ Lose(c)

Next ==
  /\ ~ crashed
  /\ \/ \E u \in Users :
          \/ \E url \in URLs : Execute(u, url)
          \/ UserStep(u)
          \/ \E i \in DOMAIN readers[u] : ReaderStep(u, i) \/ Pong(u, i)
          \/ Cancel(u) \/ Expire(u)
     \/ \E urls \in SUBSET URLs : Close(urls)
     \/ \E c \in Conns : PeerStep(c)

(* User u writes what the peer does not read: nothing bounds the wait.     *)
Stuck(u) ==
  /\ requests[u].pc \in {"ping", "write"}
  /\ conns[requests[u].conn].state = "stalled"

(* Dials end in time, think times pass, writes end while the peer reads or *)
(* once it is gone, and Go runs every goroutine.  A mutex that is free     *)
(* again and again is not withheld from a goroutine that waits: sync.Mutex *)
(* hands it over when one has waited for too long.  Nothing is asked of    *)
(* peers and clients.                                                      *)
Fairness ==
  \A u \in Users :
    /\ WF_vars(~ crashed /\ ~ Stuck(u) /\ UserStep(u))
    /\ SF_vars(~ crashed /\ Lock(u))

Spec == Init /\ [][Next]_vars /\ Fairness
-----------------------------------------------------------------------------
(* The client loses no connection: whatever users dial, lose, find dead    *)
(* and dial again at the same time, a connection it has not closed is in   *)
(* the table, where Close finds it, and one it has closed is not.          *)
OpenAreListed ==
  {c \in Conns : conns[c].state # "closed"}
    = {connections[url] : url \in DOMAIN connections}

(* A request that waits has a reader to hear from, unless its context is   *)
(* done: errors and messages are handed over, never kept by the reader.    *)
Attended ==
  \A u \in Users :
    requests[u].pc = "wait" =>
      u \in ended \/ readers[u][Own(u)].pc # "returned"

(* User u waits for a write the peer does not read: its own, or the ping   *)
(* of whoever holds c.mu.                                                  *)
HeldUp(u) == \E v \in {u} \cup mu : Stuck(v)

(* Execute returns, though it may wait for c.mu while others dial, unless  *)
(* peers hold it up again and again, or for ever, by not reading.  One who *)
(* stalls and reads on delays it only.                                     *)
ExecuteReturns ==
  \A u \in Users :
    <>[](~ HeldUp(u)) =>
      (requests[u].pc # "idle" ~> requests[u].pc = "idle" \/ crashed)

(* "Check if we already have a valid connection" with "a ping to verify    *)
(* connection is still alive": a request is not given a connection that    *)
(* can no longer be read.                                                  *)
GivenValid ==
  [][\A u \in Users :
       PingOK(u) => ~ conns[requests[u].conn].unreadable]_vars
=============================================================================
