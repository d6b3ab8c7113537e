-------------------------------- MODULE Net --------------------------------
(***************************************************************************)
(* Sockets: the calls of syscall_net on TCP and UDP sockets, the table of  *)
(* listening ports, and the loopback interface.  Tasks are the threads of  *)
(* one process.  A step ends where a task may wait for a lock.  What       *)
(* smoltcp does with a socket and a packet is external.                    *)
(***************************************************************************)
EXTENDS Integers, Sequences, FiniteSets, SequencesExt, TLC

CONSTANTS
  Tasks,
  Programs,           \* what each task calls, one after the other
  Port,               \* the ports; 0 is no port
  PORT_START, PORT_END,
  LISTEN_QUEUE_SIZE,
  FdLimit,
  Sockets,            \* names for the sockets of the calls, numbered
  Handles,            \* names for the sockets of smoltcp, numbered
  TxLen,              \* what a socket takes before it is sent
  Signalled           \* the tasks that a signal may interrupt

VARIABLES
  fd_table,           \* descriptor -> Socket, 0 for none
  socks,              \* the sockets: TcpSocket, UdpSocket
  SOCKET_SET,         \* handle -> the socket of smoltcp
  LISTEN_TABLE,       \* port -> ListenTableEntry
  queue,              \* LoopbackDev::queue
  CURR, UDP_CURR,     \* the next port that get_ephemeral_port tries
  locks,              \* who has the socket set, an interface or an entry of the table
  at, my,             \* where a task is, and its variables
  todo, ret,
  written, got,       \* what has been sent and received, from port to port
  panicked

vars == <<fd_table, socks, SOCKET_SET, LISTEN_TABLE, queue, CURR, UDP_CURR, locks, at, my, todo, ret, written, got, panicked>>

None == "none"
NoAddr == "0.0.0.0"
UNSPECIFIED == [addr |-> NoAddr, port |-> 0]

Without(f, x) == [y \in DOMAIN f \ {x} |-> f[y]]

----------------------------------------------------------------------------
(* smoltcp (external). *)

SmolNew(kind) == [kind |-> kind, st |-> "Closed", bound |-> None, lport |-> 0, rport |-> 0, conn |-> <<0, 0>>, rx |-> <<>>, out |-> <<>>]

is_active(s) == s.st \notin {"Closed", "TimeWait", "Listen"}
may_send(s) == s.st \in {"Established", "CloseWait"}
may_recv(s) == s.st \in {"Established", "FinWait"} \/ s.rx # <<>>
can_recv(s) == s.rx # <<>>
can_send(s) == (s.kind = "tcp" => may_send(s)) /\ Len(s.out) < TxLen

SmolConnect(s, bound, remote) ==
  [s EXCEPT !.st = "SynSent", !.bound = bound.addr, !.lport = bound.port, !.rport = remote, !.conn = <<bound.port, remote>>,
            !.rx = <<>>, !.out = <<[kind |-> "syn", data |-> <<>>]>>]

Ctl(kind) == <<[kind |-> kind, data |-> <<>>]>>

SmolAbort(s) == IF s.lport = 0 THEN s ELSE [s EXCEPT !.st = "Closed", !.out = Ctl("rst")]

SmolClose(s) ==
  CASE s.kind = "udp" -> [SmolNew("udp") EXCEPT !.st = "Closed"]
    [] s.st = "Listen" -> [s EXCEPT !.st = "Closed", !.lport = 0]
    [] s.st = "SynSent" -> SmolAbort(s)
    [] s.st \in {"SynReceived", "Established"} -> [s EXCEPT !.st = "FinWait", !.out = @ \o Ctl("fin")]
    [] s.st = "CloseWait" -> [s EXCEPT !.st = "LastAck", !.out = @ \o Ctl("fin")]
    [] OTHER -> s

\* The socket that takes a packet.
Accepts(s, p) ==
  CASE p.kind = "udp" -> s.kind = "udp" /\ s.st = "Open" /\ s.lport = p.to
    [] s.st = "Listen" -> s.kind = "tcp" /\ p.kind = "syn" /\ s.lport = p.to
    [] OTHER -> s.kind = "tcp" /\ s.st # "Closed" /\ s.lport = p.to /\ s.rport = p.from

Takers(set, p) == {h \in DOMAIN set : Accepts(set[h], p)}

\* The segment p at the socket s.
Process(s, p) ==
  CASE p.kind = "udp" -> [s EXCEPT !.rx = Append(@, [from |-> p.from, data |-> p.data])]
    [] p.kind = "syn" /\ s.st = "Listen" ->
         [s EXCEPT !.st = "SynReceived", !.rport = p.from, !.conn = <<p.to, p.from>>, !.out = @ \o Ctl("synack")]
    [] p.kind = "synack" /\ s.st = "SynSent" -> [s EXCEPT !.st = "Established", !.out = @ \o Ctl("ack")]
    [] p.kind = "ack" /\ s.st = "SynReceived" -> [s EXCEPT !.st = "Established"]
    [] p.kind = "data" /\ s.st \in {"Established", "FinWait"} -> [s EXCEPT !.rx = @ \o p.data]
    [] p.kind = "fin" /\ s.st \in {"Established", "SynReceived"} -> [s EXCEPT !.st = "CloseWait", !.out = @ \o Ctl("finack")]
    [] p.kind = "fin" /\ s.st = "FinWait" -> [s EXCEPT !.st = "TimeWait", !.out = @ \o Ctl("finack")]
    [] p.kind = "finack" /\ s.st = "LastAck" -> [s EXCEPT !.st = "Closed", !.lport = 0, !.rport = 0]
    [] p.kind = "rst" /\ s.st = "SynReceived" -> [s EXCEPT !.st = "Listen", !.rport = 0, !.out = <<>>]
    [] p.kind = "rst" /\ s.st # "SynReceived" -> [s EXCEPT !.st = "Closed", !.lport = 0, !.rport = 0, !.out = <<>>]
    [] OTHER -> s

Reset(p) == IF p.kind \in {"rst", "udp"} THEN <<>> ELSE <<[kind |-> "rst", data |-> <<>>, from |-> p.to, to |-> p.from]>>

\* What a socket sends; a datagram has its own destination.
Segments(s) ==
  [i \in DOMAIN s.out |->
     [kind |-> s.out[i].kind, data |-> s.out[i].data, from |-> s.lport,
      to |-> IF s.kind = "udp" THEN s.out[i].to ELSE s.rport]]

Sent(s) ==
  IF s.kind = "tcp" /\ s.st = "Closed" THEN [s EXCEPT !.out = <<>>, !.lport = 0, !.rport = 0] ELSE [s EXCEPT !.out = <<>>]

\* SocketSet::add takes the first free place.
Lowest(hs) == CHOOSE h \in hs : \A k \in hs : h <= k

Slot == Lowest(Handles \ DOMAIN SOCKET_SET)

----------------------------------------------------------------------------
(* Locks.  A lock that is not free is waited for, except in a destructor,  *)
(* which is polled once and given up: Once.                                *)

SET == -1
LO == -2
ETH == -3

Free(l) == locks[l] = 0
Take(t, l) == Free(l) /\ locks' = [locks EXCEPT ![l] = t]
ReleaseAll(t) == locks' = [l \in DOMAIN locks |-> IF locks[l] = t THEN 0 ELSE locks[l]]

Idle == [call |-> [op |-> None], s |-> 0, also |-> 0, h |-> 0, port |-> 0, i |-> 0, nb |-> FALSE, then |-> None, once |-> FALSE]

Go(t, where) == at' = [at EXCEPT ![t] = where]
GoWith(t, where, m) == Go(t, where) /\ my' = [my EXCEPT ![t] = m]

Sock(t) == socks[my[t].s]
SetSock(t, s) == socks' = [socks EXCEPT ![my[t].s] = s]
InSet(h, s) == SOCKET_SET' = [SOCKET_SET EXCEPT ![h] = s]

Others(t, s, fds) == {f \in DOMAIN fds : fds[f] = s} \cup {u \in Tasks \ {t} : s \in {my[u].s, my[u].also}}

\* The socket is let go; without another reference to it it is dropped.
LetGo(t, s, fds, also) ==
  IF s # 0 /\ Others(t, s, fds) = {} THEN GoWith(t, "drop", [Idle EXCEPT !.s = s, !.also = also, !.once = TRUE])
  ELSE IF also # 0 /\ Others(t, also, fds) = {} THEN GoWith(t, "drop", [Idle EXCEPT !.s = also, !.once = TRUE])
  ELSE GoWith(t, "idle", Idle)

\* The call returns v: the error of the socket, of which bind and listen make -1.
End(t, v) ==
  /\ ret' = [ret EXCEPT ![t] = v]
  /\ todo' = [todo EXCEPT ![t] = Tail(@)]
  /\ LetGo(t, my[t].s, fd_table, 0)

goVars == <<ret, todo, fd_table>>
logVars == <<written, got>>
netVars == <<SOCKET_SET, LISTEN_TABLE, queue, CURR, UDP_CURR>>

----------------------------------------------------------------------------
(* poll_interfaces: the loopback, with the sockets, then the card.         *)

PollLo(t) == at[t] = "poll" /\ Take(t, LO) /\ Go(t, "poll_lo") /\ UNCHANGED <<my, socks, goVars, netVars, logVars, panicked>>

PollSet(t) == at[t] = "poll_lo" /\ Take(t, SET) /\ Go(t, "run") /\ UNCHANGED <<my, socks, goVars, netVars, logVars, panicked>>

\* incoming_tcp_packet: a listening socket for a first packet.  The entry is tried once: if
\* its lock is taken the packet goes on without.
Incoming(p) ==
  IF p.kind = "syn" /\ p.to \in DOMAIN LISTEN_TABLE /\ Free(p.to) /\ LISTEN_TABLE[p.to].addr \in {None, "127.0.0.1"}
     /\ Len(LISTEN_TABLE[p.to].syn_queue) < LISTEN_QUEUE_SIZE
  THEN [set |-> SOCKET_SET @@ (Slot :> [SmolNew("tcp") EXCEPT !.st = "Listen", !.lport = p.to]),
        table |-> [LISTEN_TABLE EXCEPT ![p.to].syn_queue = Append(@, Slot)]]
  ELSE [set |-> SOCKET_SET, table |-> LISTEN_TABLE]

Deliver(p, in, takers) ==
  /\ LISTEN_TABLE' = in.table
  /\ IF takers = {} THEN SOCKET_SET' = in.set /\ queue' = Tail(queue) \o Reset(p)
     ELSE /\ SOCKET_SET' = [in.set EXCEPT ![Lowest(takers)] = Process(@, p)]
          /\ queue' = Tail(queue)

Ingress(t) ==
  /\ at[t] = "run" /\ queue # <<>>
  /\ \E in \in {Incoming(Head(queue))} : Deliver(Head(queue), in, Takers(in.set, Head(queue)))
  /\ UNCHANGED <<at, my, socks, locks, CURR, UDP_CURR, goVars, logVars, panicked>>

Sending == {h \in DOMAIN SOCKET_SET : SOCKET_SET[h].out # <<>>}

Egress(t) ==
  /\ at[t] = "run" /\ queue = <<>> /\ Sending # {}
  /\ queue' = Segments(SOCKET_SET[Lowest(Sending)])
  /\ InSet(Lowest(Sending), Sent(SOCKET_SET[Lowest(Sending)]))
  /\ UNCHANGED <<at, my, socks, locks, LISTEN_TABLE, CURR, UDP_CURR, goVars, logVars, panicked>>

PollLoDone(t) ==
  /\ at[t] = "run" /\ queue = <<>> /\ Sending = {}
  /\ ReleaseAll(t) /\ Go(t, "poll_eth")
  /\ UNCHANGED <<my, socks, goVars, netVars, logVars, panicked>>

PollEth(t) == at[t] = "poll_eth" /\ Take(t, ETH) /\ Go(t, "poll_eth_set") /\ UNCHANGED <<my, socks, goVars, netVars, logVars, panicked>>

\* A name server may answer.
PollEthSet(t) ==
  /\ at[t] = "poll_eth_set" /\ Free(SET)
  /\ \E answer \in {"Asked", "Answered", "Failed"} :
       SOCKET_SET' = [h \in DOMAIN SOCKET_SET |->
         IF SOCKET_SET[h].st = "Asked" THEN [SOCKET_SET[h] EXCEPT !.st = answer] ELSE SOCKET_SET[h]]
  /\ ReleaseAll(t) /\ Go(t, my[t].then)
  /\ UNCHANGED <<my, socks, goVars, LISTEN_TABLE, queue, CURR, UDP_CURR, logVars, panicked>>

----------------------------------------------------------------------------
(* block_on. *)

\* The first attempt: at once if the socket does not block, else after a poll.
Attempt(t, m) ==
  IF Sock(t).nonblock THEN GoWith(t, "try", [m EXCEPT !.nb = TRUE]) ELSE GoWith(t, "loop", [m EXCEPT !.nb = FALSE])

Interrupted(t) ==
  /\ at[t] = "loop" /\ t \in Signalled
  /\ End(t, "EINTR")
  /\ UNCHANGED <<fd_table, socks, locks, netVars, logVars, panicked>>

Loop(t) ==
  /\ at[t] = "loop"
  /\ GoWith(t, "poll", [my[t] EXCEPT !.then = "try"])
  /\ UNCHANGED <<socks, locks, goVars, netVars, logVars, panicked>>

\* WouldBlock: read and write of a file start again, as their futures are made anew.
Again(t, err) ==
  IF my[t].nb THEN End(t, err) /\ UNCHANGED fd_table
  ELSE /\ IF my[t].call.op \in {"read", "write"} THEN GoWith(t, "start", [Idle EXCEPT !.call = my[t].call, !.s = my[t].s])
          ELSE Go(t, "loop") /\ UNCHANGED my
       /\ UNCHANGED goVars

----------------------------------------------------------------------------
(* The start of a call.  Its file is looked up, and kept until it ends.    *)

Op(t) == Head(todo[t]).op
Call(t) == my[t].call
FreeFds == {f \in DOMAIN fd_table : fd_table[f] = 0}

NewSocket(kind, state, h, local, peer, nb) ==
  [kind |-> kind, state |-> state, handle |-> h, local |-> local, peer |-> peer, nonblock |-> nb, reuse |-> FALSE,
   binding |-> FALSE, connecting |-> FALSE]

\* A new socket gets a descriptor, or is dropped.
Install(t, s, sock, err, also) ==
  /\ socks' = socks @@ (s :> sock)
  /\ todo' = [todo EXCEPT ![t] = Tail(@)]
  /\ IF FreeFds = {} THEN ret' = [ret EXCEPT ![t] = err] /\ LetGo(t, s, fd_table, also) /\ UNCHANGED fd_table
     ELSE /\ fd_table' = [fd_table EXCEPT ![Lowest(FreeFds)] = s]
          /\ ret' = [ret EXCEPT ![t] = Lowest(FreeFds)]
          /\ LetGo(t, also, fd_table, 0)

NextSock == Lowest(Sockets \ DOMAIN socks)

socket(t) ==
  /\ at[t] = "idle" /\ todo[t] # <<>> /\ Op(t) = "socket"
  /\ IF Head(todo[t]).kind = "tcp"
     THEN Install(t, NextSock, NewSocket("tcp", "CLOSED", 0, UNSPECIFIED, UNSPECIFIED, Head(todo[t]).nb), "EMFILE", 0) /\ UNCHANGED SOCKET_SET
     ELSE /\ Free(SET)
          /\ SOCKET_SET' = SOCKET_SET @@ (Slot :> SmolNew("udp"))
          /\ Install(t, NextSock, NewSocket("udp", "CLOSED", Slot, UNSPECIFIED, UNSPECIFIED, Head(todo[t]).nb), "EMFILE", 0)
  /\ UNCHANGED <<LISTEN_TABLE, queue, CURR, UDP_CURR, locks, logVars, panicked>>

Begin(t) ==
  /\ at[t] = "idle" /\ todo[t] # <<>> /\ Op(t) \notin {"socket", "close", "dns"}
  /\ IF fd_table[Head(todo[t]).fd] = 0 THEN End(t, "EBADF")
     ELSE GoWith(t, "start", [Idle EXCEPT !.call = Head(todo[t]), !.s = fd_table[Head(todo[t]).fd]]) /\ UNCHANGED <<ret, todo>>
  /\ UNCHANGED <<fd_table, socks, locks, netVars, logVars, panicked>>

close(t) ==
  /\ at[t] = "idle" /\ todo[t] # <<>> /\ Op(t) = "close"
  /\ todo' = [todo EXCEPT ![t] = Tail(@)]
  /\ IF fd_table[Head(todo[t]).fd] = 0 THEN ret' = [ret EXCEPT ![t] = "EBADF"] /\ UNCHANGED <<at, my, fd_table>>
     ELSE \E f \in {Head(todo[t]).fd} :
            /\ ret' = [ret EXCEPT ![t] = 0]
            /\ fd_table' = [fd_table EXCEPT ![f] = 0]
            /\ LetGo(t, fd_table[f], [fd_table EXCEPT ![f] = 0], 0)
  /\ UNCHANGED <<socks, locks, netVars, logVars, panicked>>

Starts(t, op, kind) == at[t] = "start" /\ Call(t).op = op /\ Sock(t).kind = kind

\* set_status of fcntl, and the options: those whose setters are not awaited have no effect.
SetOption(t) ==
  /\ at[t] = "start" /\ Call(t).op \in {"set_status", "setsockopt"}
  /\ SetSock(t, CASE Call(t).op = "set_status" -> [Sock(t) EXCEPT !.nonblock = Call(t).on]
                   [] Call(t).op = "setsockopt" /\ Call(t).opt \in {"SO_REUSEADDR", "SO_DONTROUTE"} -> [Sock(t) EXCEPT !.reuse = Call(t).on]
                   [] OTHER -> Sock(t))
  /\ End(t, 0)
  /\ UNCHANGED <<fd_table, locks, netVars, logVars, panicked>>

\* local_addr and peer_addr are known.
local_addr(s) ==
  IF s.kind = "tcp" THEN s.state \in {"CONNECTED", "LISTENING", "CLOSED"} ELSE ~s.binding /\ s.local # UNSPECIFIED

peer_addr(s) == IF s.kind = "tcp" THEN s.state \in {"CONNECTED", "LISTENING"} ELSE ~s.connecting /\ s.peer # UNSPECIFIED

GetName(t) ==
  /\ at[t] = "start" /\ Call(t).op \in {"getsockname", "getpeername"}
  /\ End(t, IF Call(t).op = "getsockname" THEN (IF local_addr(Sock(t)) THEN Sock(t).local.port ELSE "EPERM")
            ELSE IF peer_addr(Sock(t)) THEN Sock(t).peer.port ELSE "ENOTCONN")
  /\ UNCHANGED <<fd_table, socks, locks, netVars, logVars, panicked>>

----------------------------------------------------------------------------
(* TcpSocket.  update_state(expect, new, f) is BUSY while f runs.          *)

\* get_ephemeral_port of TCP: the next port on which nobody listens.
PortsFrom(p) == [i \in 1..(PORT_END - PORT_START + 1) |-> PORT_START + ((p - PORT_START + i - 1) % (PORT_END - PORT_START + 1))]
FreePorts(p) == SelectSeq(PortsFrom(p), LAMBDA x : x \notin DOMAIN LISTEN_TABLE)
After(p) == IF p = PORT_END THEN PORT_START ELSE p + 1

bound_addr(local) == IF local.addr = NoAddr THEN None ELSE local.addr

\* A port for local, and what CURR is then.
bound_port(local) ==
  IF local.port # 0 THEN [port |-> local.port, curr |-> CURR]
  ELSE [port |-> IF FreePorts(CURR) = <<>> THEN 0 ELSE FreePorts(CURR)[1],
        curr |-> IF FreePorts(CURR) = <<>> THEN CURR ELSE After(FreePorts(CURR)[1])]

\* The function has failed: the state is as before.
Fail(t, state, err) == SetSock(t, [Sock(t) EXCEPT !.state = state]) /\ End(t, err)

connect(t) ==
  /\ Starts(t, "connect", "tcp")
  /\ IF Sock(t).state # "CLOSED" THEN End(t, "EISCONN") /\ UNCHANGED socks
     ELSE SetSock(t, [Sock(t) EXCEPT !.state = "BUSY"]) /\ GoWith(t, "conn_add", my[t]) /\ UNCHANGED <<ret, todo>>
  /\ UNCHANGED <<fd_table, locks, netVars, logVars, panicked>>

\* The handle, added if there is none, and the local port.
ConnAdd(t) ==
  /\ at[t] = "conn_add"
  /\ IF Sock(t).handle # 0 THEN UNCHANGED SOCKET_SET ELSE Free(SET) /\ SOCKET_SET' = SOCKET_SET @@ (Slot :> SmolNew("tcp"))
  /\ \E b \in {bound_port(Sock(t).local)} :
       /\ CURR' = b.curr
       /\ IF b.port = 0 THEN Fail(t, "CLOSED", "ECONNREFUSED")
          ELSE /\ GoWith(t, "conn_set", [my[t] EXCEPT !.port = b.port, !.h = IF Sock(t).handle # 0 THEN Sock(t).handle ELSE Slot])
               /\ UNCHANGED <<socks, ret, todo>>
  /\ UNCHANGED <<fd_table, locks, LISTEN_TABLE, queue, UDP_CURR, logVars, panicked>>

ConnSet(t) == at[t] = "conn_set" /\ Take(t, SET) /\ Go(t, "conn_iface") /\ UNCHANGED <<my, socks, goVars, netVars, logVars, panicked>>

\* With the sockets locked the interface is, too.
ConnIface(t) ==
  /\ at[t] = "conn_iface" /\ Free(LO) /\ ReleaseAll(t)
  /\ IF SOCKET_SET[my[t].h].st \notin {"Closed", "TimeWait"} THEN Fail(t, "CLOSED", "ECONNREFUSED") /\ UNCHANGED SOCKET_SET
     ELSE /\ InSet(my[t].h, SmolConnect(SOCKET_SET[my[t].h], [addr |-> bound_addr(Sock(t).local), port |-> my[t].port], Call(t).port))
          /\ SetSock(t, [Sock(t) EXCEPT !.state = "CONNECTING", !.handle = my[t].h, !.local.port = my[t].port,
                                        !.local.addr = "127.0.0.1", !.peer = [addr |-> "127.0.0.1", port |-> Call(t).port]])
          /\ IF Sock(t).nonblock THEN End(t, "EINPROGRESS") ELSE Attempt(t, my[t]) /\ UNCHANGED <<ret, todo>>
  /\ UNCHANGED <<fd_table, LISTEN_TABLE, queue, CURR, UDP_CURR, logVars, panicked>>

\* poll_connect: what the state of the connection makes of the socket.
PollConnect(s) ==
  CASE SOCKET_SET[s.handle].st = "SynSent" -> s
    [] SOCKET_SET[s.handle].st = "Established" -> [s EXCEPT !.state = "CONNECTED"]
    [] OTHER -> [s EXCEPT !.state = "CLOSED", !.local = UNSPECIFIED, !.peer = UNSPECIFIED]

TryConnect(t) ==
  /\ at[t] = "try" /\ Call(t).op = "connect" /\ Free(SET)
  /\ \E s \in {PollConnect(Sock(t))} :
       /\ SetSock(t, s)
       /\ CASE SOCKET_SET[s.handle].st = "SynSent" -> Again(t, "EINPROGRESS")
            [] s.state = "CONNECTED" -> End(t, 0) /\ UNCHANGED fd_table
            [] OTHER -> End(t, "ECONNREFUSED") /\ UNCHANGED fd_table
  /\ UNCHANGED <<locks, netVars, logVars, panicked>>

----------------------------------------------------------------------------
bind(t) ==
  /\ Starts(t, "bind", "tcp")
  /\ IF Sock(t).state # "CLOSED" THEN End(t, "EINVAL") /\ UNCHANGED <<socks, CURR>>
     ELSE \E b \in {bound_port([addr |-> Call(t).addr, port |-> Call(t).port])} :
            /\ CURR' = b.curr
            /\ IF b.port = 0 \/ Sock(t).local # UNSPECIFIED THEN End(t, "EINVAL") /\ UNCHANGED socks
               ELSE /\ SetSock(t, [Sock(t) EXCEPT !.state = "BUSY", !.local = [addr |-> Call(t).addr, port |-> b.port]])
                    /\ Go(t, "bind_add") /\ UNCHANGED <<my, ret, todo>>
  /\ UNCHANGED <<fd_table, locks, SOCKET_SET, LISTEN_TABLE, queue, UDP_CURR, logVars, panicked>>

\* A handle that is added here is not kept in the socket.
BindAdd(t) ==
  /\ at[t] = "bind_add" /\ Free(SET)
  /\ \E h \in {IF Sock(t).handle # 0 THEN Sock(t).handle ELSE Slot} :
       /\ SOCKET_SET' = IF Sock(t).handle # 0 THEN SOCKET_SET ELSE SOCKET_SET @@ (Slot :> SmolNew("tcp"))
       /\ GoWith(t, "bind_set", [my[t] EXCEPT !.h = h])
  /\ UNCHANGED <<goVars, socks, locks, LISTEN_TABLE, queue, CURR, UDP_CURR, logVars, panicked>>

BindSet(t) ==
  /\ at[t] = "bind_set" /\ Free(SET)
  /\ InSet(my[t].h, [SOCKET_SET[my[t].h] EXCEPT !.bound = bound_addr(Sock(t).local)])
  /\ Go(t, "bind_check")
  /\ UNCHANGED <<my, goVars, socks, locks, LISTEN_TABLE, queue, CURR, UDP_CURR, logVars, panicked>>

bind_check(addr) == \A h \in DOMAIN SOCKET_SET : SOCKET_SET[h].bound # addr

BindCheck(t) ==
  /\ at[t] = "bind_check" /\ (Sock(t).reuse \/ Free(SET))
  /\ Fail(t, "CLOSED", IF Sock(t).reuse \/ bind_check(Sock(t).local.addr) THEN 0 ELSE "EADDRINUSE")
  /\ UNCHANGED <<fd_table, locks, netVars, logVars, panicked>>

\* Simultaneous calls are ignored.
listen(t) ==
  /\ Starts(t, "listen", "tcp")
  /\ IF Sock(t).state # "CLOSED" THEN End(t, 0) /\ UNCHANGED <<socks, CURR>>
     ELSE \E b \in {bound_port(Sock(t).local)} :
            /\ CURR' = b.curr
            /\ IF b.port = 0 THEN End(t, "EADDRINUSE") /\ UNCHANGED socks
               ELSE /\ SetSock(t, [Sock(t) EXCEPT !.state = "BUSY", !.local.port = b.port])
                    /\ GoWith(t, "listen_table", [my[t] EXCEPT !.port = b.port]) /\ UNCHANGED <<ret, todo>>
  /\ UNCHANGED <<fd_table, locks, SOCKET_SET, LISTEN_TABLE, queue, UDP_CURR, logVars, panicked>>

ListenTable(t) ==
  /\ at[t] = "listen_table" /\ Free(my[t].port)
  /\ IF my[t].port \in DOMAIN LISTEN_TABLE THEN Fail(t, "CLOSED", "EADDRINUSE") /\ UNCHANGED LISTEN_TABLE
     ELSE /\ LISTEN_TABLE' = LISTEN_TABLE @@ (my[t].port :> [addr |-> bound_addr(Sock(t).local), syn_queue |-> <<>>])
          /\ Fail(t, "LISTENING", 0)
  /\ UNCHANGED <<fd_table, locks, SOCKET_SET, queue, CURR, UDP_CURR, logVars, panicked>>

----------------------------------------------------------------------------
(* accept.  The entry is locked while the sockets are looked at, one after *)
(* the other, each with the lock of the set.                               *)

accept(t) ==
  /\ Starts(t, "accept", "tcp")
  /\ IF Sock(t).state # "LISTENING" THEN End(t, "EINVAL")
     ELSE Attempt(t, [my[t] EXCEPT !.port = Sock(t).local.port]) /\ UNCHANGED <<ret, todo>>
  /\ UNCHANGED <<fd_table, socks, locks, netVars, logVars, panicked>>

TryAccept(t) ==
  /\ at[t] = "try" /\ Call(t).op = "accept" /\ Free(my[t].port)
  /\ IF my[t].port \notin DOMAIN LISTEN_TABLE THEN End(t, "EINVAL") /\ UNCHANGED locks
     ELSE Take(t, my[t].port) /\ GoWith(t, "acc_scan", [my[t] EXCEPT !.i = 1]) /\ UNCHANGED <<ret, todo>>
  /\ UNCHANGED <<fd_table, socks, netVars, logVars, panicked>>

SynQueue(t) == LISTEN_TABLE[my[t].port].syn_queue

is_connected(h) == SOCKET_SET[h].st \notin {"Listen", "SynReceived"}

\* A queue that keeps what is accepted.
KeepFront(q, i) == q

\* The first takes the place of the one that is removed.
swap_remove_front(q, i) == Tail([q EXCEPT ![i] = q[1]])

AccScan(t) ==
  /\ at[t] = "acc_scan"
  /\ IF my[t].i > Len(SynQueue(t)) THEN ReleaseAll(t) /\ Again(t, "EAGAIN") /\ UNCHANGED LISTEN_TABLE
     ELSE /\ Free(SET) /\ UNCHANGED <<goVars, locks>>
          /\ IF ~is_connected(SynQueue(t)[my[t].i]) THEN GoWith(t, "acc_scan", [my[t] EXCEPT !.i = @ + 1]) /\ UNCHANGED LISTEN_TABLE
             ELSE /\ GoWith(t, "acc_closed", [my[t] EXCEPT !.h = SynQueue(t)[my[t].i]])
                  /\ LISTEN_TABLE' = [LISTEN_TABLE EXCEPT ![my[t].port].syn_queue = swap_remove_front(@, my[t].i)]
  /\ UNCHANGED <<socks, SOCKET_SET, queue, CURR, UDP_CURR, logVars, panicked>>

AccClosed(t) ==
  /\ at[t] = "acc_closed" /\ Free(SET)
  /\ IF SOCKET_SET[my[t].h].st = "Closed" THEN ReleaseAll(t) /\ End(t, "ECONNABORTED")
     ELSE Go(t, "acc_addr") /\ UNCHANGED <<my, locks, ret, todo>>
  /\ UNCHANGED <<fd_table, socks, netVars, logVars, panicked>>

\* get_addr_tuple unwraps the ends of the connection.
AccAddr(t) ==
  /\ at[t] = "acc_addr" /\ Free(SET)
  /\ \E c \in {SOCKET_SET[my[t].h]} :
       IF c.lport = 0 THEN panicked' = TRUE /\ UNCHANGED <<at, my, locks, socks, goVars>>
       ELSE /\ ReleaseAll(t)
            /\ Install(t, NextSock, NewSocket("tcp", "CONNECTED", my[t].h, [addr |-> "127.0.0.1", port |-> c.lport],
                                              [addr |-> "127.0.0.1", port |-> c.rport], Call(t).nb), "ENFILE", my[t].s)
            /\ UNCHANGED panicked
  /\ UNCHANGED <<netVars, logVars>>

----------------------------------------------------------------------------
(* Bytes and datagrams. *)

Log(log, kind, from, to, v) ==
  IF <<kind, from, to>> \in DOMAIN log THEN [log EXCEPT ![<<kind, from, to>>] = @ \o v] ELSE log @@ (<<kind, from, to>> :> v)

Least(m, n) == IF m < n THEN m ELSE n

\* sendto is for a socket that is not closed; send is for one that is connected.
StartTcp(t) ==
  /\ at[t] = "start" /\ Sock(t).kind = "tcp" /\ Call(t).op \in {"sendto", "write", "recvfrom", "read"}
  /\ CASE Call(t).op = "sendto" /\ Sock(t).state = "CLOSED" -> End(t, "EPIPE")
       [] Call(t).op = "recvfrom" /\ Sock(t).state \notin {"CONNECTED", "LISTENING"} -> End(t, "ENOTCONN")
       [] Sock(t).state = "CONNECTING" -> End(t, "EAGAIN")
       [] Sock(t).state = "CONNECTED" -> Attempt(t, [my[t] EXCEPT !.h = Sock(t).handle]) /\ UNCHANGED <<ret, todo>>
       [] OTHER -> End(t, "ENOTCONN")
  /\ UNCHANGED <<fd_table, socks, locks, netVars, logVars, panicked>>


RxLeft(c, n) == SubSeq(c.rx, n + 1, Len(c.rx))

TryRecv(t) ==
  /\ at[t] = "try" /\ Sock(t).kind = "tcp" /\ Call(t).op \in {"recvfrom", "read"} /\ Free(SET)
  /\ \E c \in {SOCKET_SET[my[t].h]} : \E n \in {Least(Call(t).n, Len(SOCKET_SET[my[t].h].rx))} :
       CASE c.rx # <<>> ->
              /\ InSet(my[t].h, [c EXCEPT !.rx = RxLeft(c, n)])
              /\ got' = Log(got, "tcp", c.conn[2], c.conn[1], SubSeq(c.rx, 1, n))
              /\ End(t, n) /\ UNCHANGED fd_table
         [] c.rx = <<>> /\ ~is_active(c) -> End(t, "ECONNREFUSED") /\ UNCHANGED <<fd_table, got, SOCKET_SET>>
         [] c.rx = <<>> /\ is_active(c) /\ ~may_recv(c) ->
              /\ got' = Log(got, "eof", c.conn[2], c.conn[1], <<>>)
              /\ End(t, 0) /\ UNCHANGED <<fd_table, SOCKET_SET>>
         [] OTHER -> Again(t, "EAGAIN") /\ UNCHANGED <<got, SOCKET_SET>>
  /\ UNCHANGED <<socks, locks, LISTEN_TABLE, queue, CURR, UDP_CURR, written, panicked>>

TrySend(t) ==
  /\ at[t] = "try" /\ Sock(t).kind = "tcp" /\ Call(t).op \in {"sendto", "write"} /\ Free(SET)
  /\ \E c \in {SOCKET_SET[my[t].h]} :
       CASE ~may_send(c) -> End(t, "EPIPE") /\ UNCHANGED <<fd_table, written, SOCKET_SET>>
         [] may_send(c) /\ can_send(c) ->
              /\ InSet(my[t].h, [c EXCEPT !.out = Append(@, [kind |-> "data", data |-> Call(t).data])])
              /\ written' = Log(written, "tcp", c.conn[1], c.conn[2], Call(t).data)
              /\ End(t, Len(Call(t).data)) /\ UNCHANGED fd_table
         [] OTHER -> Again(t, "EAGAIN") /\ UNCHANGED <<written, SOCKET_SET>>
  /\ UNCHANGED <<socks, locks, LISTEN_TABLE, queue, CURR, UDP_CURR, got, panicked>>

\* shutdown(fd, SHUT_WR) closes the connection, and the interfaces are polled; with SHUT_RDWR
\* it is aborted.
shutdown(t) ==
  /\ Starts(t, "shutdown", "tcp")
  /\ CASE Call(t).how = "rd" \/ Sock(t).handle = 0 -> End(t, 0) /\ UNCHANGED SOCKET_SET
       [] Call(t).how = "wr" /\ Sock(t).handle # 0 ->
            /\ Free(SET) /\ InSet(Sock(t).handle, SmolClose(SOCKET_SET[Sock(t).handle]))
            /\ GoWith(t, "poll", [my[t] EXCEPT !.then = "shut"]) /\ UNCHANGED <<ret, todo>>
       [] OTHER -> Free(SET) /\ InSet(Sock(t).handle, SmolAbort(SOCKET_SET[Sock(t).handle])) /\ End(t, 0)
  /\ UNCHANGED <<fd_table, socks, locks, LISTEN_TABLE, queue, CURR, UDP_CURR, logVars, panicked>>

Shut(t) == at[t] = "shut" /\ End(t, 0) /\ UNCHANGED <<fd_table, socks, locks, netVars, logVars, panicked>>

----------------------------------------------------------------------------
(* UdpSocket.  Its local address is locked while it is bound, its peer     *)
(* while it is connected.                                                  *)

UdpOps == {"bind", "connect", "sendto", "write", "recvfrom", "read"}

\* bind, by itself or in connect or sendto.
UdpBind(t, addr, port) ==
  /\ ~Sock(t).binding
  /\ UDP_CURR' = IF port = 0 THEN After(UDP_CURR) ELSE UDP_CURR
  /\ IF Sock(t).local # UNSPECIFIED
     THEN IF Call(t).op = "sendto" THEN panicked' = TRUE /\ UNCHANGED <<at, my, socks, ret, todo>>
          ELSE End(t, "EINVAL") /\ UNCHANGED panicked /\ SetSock(t, [Sock(t) EXCEPT !.connecting = FALSE])
     ELSE /\ SetSock(t, [Sock(t) EXCEPT !.binding = TRUE, !.connecting = Call(t).op = "connect"])
          /\ GoWith(t, "ubind", [my[t] EXCEPT !.port = IF port = 0 THEN UDP_CURR ELSE port, !.then = addr])
          /\ UNCHANGED <<panicked, ret, todo>>

UdpConnected(t, s) == [s EXCEPT !.peer = [addr |-> "127.0.0.1", port |-> Call(t).port], !.connecting = FALSE]

StartUdp(t) ==
  /\ at[t] = "start" /\ Sock(t).kind = "udp" /\ Call(t).op \in UdpOps
  /\ CASE Call(t).op = "bind" -> UdpBind(t, Call(t).addr, Call(t).port)
       [] Call(t).op = "connect" ->
            /\ ~Sock(t).connecting /\ ~Sock(t).binding
            /\ IF Sock(t).local = UNSPECIFIED THEN UdpBind(t, NoAddr, 0)
               ELSE SetSock(t, UdpConnected(t, Sock(t))) /\ End(t, 0) /\ UNCHANGED <<UDP_CURR, panicked>>
       [] Call(t).op = "sendto" /\ ~local_addr(Sock(t)) -> UdpBind(t, NoAddr, 0)
       [] OTHER -> Go(t, "ustart") /\ UNCHANGED <<my, socks, ret, todo, UDP_CURR, panicked>>
  /\ UNCHANGED <<fd_table, locks, SOCKET_SET, LISTEN_TABLE, queue, CURR, logVars>>

\* The address is checked, and the socket bound, each with the lock of the set.
UdpBindCheck(t) ==
  /\ at[t] = "ubind" /\ (Sock(t).reuse \/ Free(SET))
  /\ IF Sock(t).reuse \/ bind_check(my[t].then) THEN Go(t, "ubind_set") /\ UNCHANGED <<my, socks, ret, todo, panicked>>
     ELSE IF Call(t).op = "sendto" THEN panicked' = TRUE /\ UNCHANGED <<at, my, socks, ret, todo>>
     ELSE SetSock(t, [Sock(t) EXCEPT !.binding = FALSE, !.connecting = FALSE]) /\ End(t, "EADDRINUSE") /\ UNCHANGED panicked
  /\ UNCHANGED <<fd_table, locks, netVars, logVars>>

UdpBindSet(t) ==
  /\ at[t] = "ubind_set" /\ Free(SET)
  /\ \E local \in {[addr |-> my[t].then, port |-> my[t].port]} :
       /\ InSet(Sock(t).handle, [SOCKET_SET[Sock(t).handle] EXCEPT !.st = "Open", !.lport = my[t].port, !.bound = bound_addr(local)])
       /\ \E s \in {[Sock(t) EXCEPT !.binding = FALSE, !.local = local]} :
            CASE Call(t).op = "bind" -> SetSock(t, s) /\ End(t, 0)
              [] Call(t).op = "connect" -> SetSock(t, UdpConnected(t, s)) /\ End(t, 0)
              [] OTHER -> SetSock(t, s) /\ Go(t, "ustart") /\ UNCHANGED <<my, ret, todo>>
  /\ UNCHANGED <<fd_table, locks, LISTEN_TABLE, queue, CURR, UDP_CURR, logVars, panicked>>

UsesPeer(t) == Call(t).op \in {"read", "write"} \/ (Call(t).op = "sendto" /\ Call(t).port = 0)

\* The port to send to, or to receive from: 0 for any.
UdpStart(t) ==
  /\ at[t] = "ustart" /\ ~Sock(t).binding
  /\ IF (UsesPeer(t) /\ ~peer_addr(Sock(t))) \/ Sock(t).local = UNSPECIFIED THEN End(t, "ENOTCONN")
     ELSE /\ Attempt(t, [my[t] EXCEPT !.port = IF UsesPeer(t) THEN Sock(t).peer.port
                                               ELSE IF Call(t).op = "sendto" THEN Call(t).port ELSE 0])
          /\ UNCHANGED <<ret, todo>>
  /\ UNCHANGED <<fd_table, socks, locks, netVars, logVars, panicked>>

TryUdpSend(t) ==
  /\ at[t] = "try" /\ Sock(t).kind = "udp" /\ Call(t).op \in {"sendto", "write"} /\ Free(SET)
  /\ \E c \in {SOCKET_SET[Sock(t).handle]} :
       CASE c.st # "Open" -> End(t, "ENOTCONN") /\ UNCHANGED <<fd_table, written, SOCKET_SET>>
         [] c.st = "Open" /\ can_send(c) ->
              /\ InSet(Sock(t).handle, [c EXCEPT !.out = Append(@, [kind |-> "udp", data |-> Call(t).data, to |-> my[t].port])])
              /\ written' = Log(written, "udp", c.lport, my[t].port, <<Call(t).data>>)
              /\ End(t, Len(Call(t).data)) /\ UNCHANGED fd_table
         [] OTHER -> Again(t, "EAGAIN") /\ UNCHANGED <<written, SOCKET_SET>>
  /\ UNCHANGED <<socks, locks, LISTEN_TABLE, queue, CURR, UDP_CURR, got, panicked>>

\* A datagram that is not from the peer is gone.
TryUdpRecv(t) ==
  /\ at[t] = "try" /\ Sock(t).kind = "udp" /\ Call(t).op \in {"recvfrom", "read"} /\ Free(SET)
  /\ \E c \in {SOCKET_SET[Sock(t).handle]} :
       CASE c.st # "Open" -> End(t, "ENOTCONN") /\ UNCHANGED <<fd_table, got, SOCKET_SET>>
         [] c.st = "Open" /\ c.rx # <<>> ->
              /\ InSet(Sock(t).handle, [c EXCEPT !.rx = RxLeft(c, 1)])
              /\ IF my[t].port \notin {0, Head(c.rx).from} THEN Again(t, "EAGAIN") /\ UNCHANGED got
                 ELSE /\ got' = Log(got, "udp", Head(c.rx).from, c.lport, <<Head(c.rx).data>>)
                      /\ End(t, Head(c.rx).from) /\ UNCHANGED fd_table
         [] OTHER -> Again(t, "EAGAIN") /\ UNCHANGED <<got, SOCKET_SET>>
  /\ UNCHANGED <<socks, locks, LISTEN_TABLE, queue, CURR, UDP_CURR, written, panicked>>

UdpShutdown(t) ==
  /\ Starts(t, "shutdown", "udp")
  /\ IF Call(t).how = "rd" THEN End(t, 0) ELSE GoWith(t, "poll", [my[t] EXCEPT !.then = "uclose"]) /\ UNCHANGED <<ret, todo>>
  /\ UNCHANGED <<fd_table, socks, locks, netVars, logVars, panicked>>

UdpClose(t) ==
  /\ at[t] = "uclose" /\ Free(SET)
  /\ InSet(Sock(t).handle, SmolClose(SOCKET_SET[Sock(t).handle]))
  /\ IF my[t].once THEN Go(t, "drop_remove") /\ UNCHANGED <<my, ret, todo>> ELSE End(t, 0)
  /\ UNCHANGED <<fd_table, socks, locks, LISTEN_TABLE, queue, CURR, UDP_CURR, logVars, panicked>>

\* UDP sockets do not listen.
UdpUnsupported(t) ==
  /\ at[t] = "start" /\ Sock(t).kind = "udp" /\ Call(t).op \in {"listen", "accept"}
  /\ End(t, "EOPNOTSUPP")
  /\ UNCHANGED <<fd_table, socks, locks, netVars, logVars, panicked>>

----------------------------------------------------------------------------
(* readable and writable: the interfaces are polled, then the socket.      *)

Ready(t) ==
  /\ at[t] = "start" /\ Call(t).op = "poll"
  /\ GoWith(t, "poll", [my[t] EXCEPT !.then = "look"])
  /\ UNCHANGED <<goVars, socks, locks, netVars, logVars, panicked>>

\* What the state asks for; it is not looked at again.
Look(t) ==
  /\ at[t] = "look"
  /\ CASE Sock(t).kind = "udp" -> ~Sock(t).binding /\ IF Sock(t).local = UNSPECIFIED THEN End(t, {}) ELSE Go(t, "look_stream") /\ UNCHANGED <<my, ret, todo>>
       [] Sock(t).kind = "tcp" /\ Sock(t).state = "CONNECTING" -> Go(t, "look_connect") /\ UNCHANGED <<my, ret, todo>>
       [] Sock(t).kind = "tcp" /\ Sock(t).state = "CONNECTED" -> Go(t, "look_stream") /\ UNCHANGED <<my, ret, todo>>
       [] Sock(t).kind = "tcp" /\ Sock(t).state = "LISTENING" ->
            GoWith(t, "look_listen", [my[t] EXCEPT !.port = Sock(t).local.port]) /\ UNCHANGED <<ret, todo>>
       [] OTHER -> End(t, {})
  /\ UNCHANGED <<fd_table, socks, locks, netVars, logVars, panicked>>

LookConnect(t) ==
  /\ at[t] = "look_connect" /\ Free(SET)
  /\ SetSock(t, PollConnect(Sock(t)))
  /\ End(t, IF SOCKET_SET[Sock(t).handle].st = "SynSent" THEN {} ELSE {"out"})
  /\ UNCHANGED <<fd_table, locks, netVars, logVars, panicked>>

Readable(c) == IF c.kind = "udp" THEN c.rx # <<>> ELSE ~may_recv(c) \/ can_recv(c)
Writable(c) == can_send(c) \/ (c.kind = "tcp" /\ ~may_send(c))

LookStream(t) ==
  /\ at[t] = "look_stream" /\ Free(SET)
  /\ \E c \in {SOCKET_SET[Sock(t).handle]} :
       End(t, (IF Readable(c) THEN {"in"} ELSE {}) \cup (IF Writable(c) THEN {"out"} ELSE {}))
  /\ UNCHANGED <<fd_table, socks, locks, netVars, logVars, panicked>>

\* can_accept, with the entry locked.
LookListen(t) ==
  /\ at[t] = "look_listen" /\ Free(my[t].port)
  /\ IF my[t].port \notin DOMAIN LISTEN_TABLE THEN End(t, {}) /\ UNCHANGED locks
     ELSE Take(t, my[t].port) /\ GoWith(t, "look_scan", [my[t] EXCEPT !.i = 1]) /\ UNCHANGED <<ret, todo>>
  /\ UNCHANGED <<fd_table, socks, netVars, logVars, panicked>>

LookScan(t) ==
  /\ at[t] = "look_scan"
  /\ CASE my[t].i > Len(SynQueue(t)) -> ReleaseAll(t) /\ End(t, {})
       [] my[t].i <= Len(SynQueue(t)) /\ is_connected(SynQueue(t)[my[t].i]) -> Free(SET) /\ ReleaseAll(t) /\ End(t, {"in"})
       [] OTHER -> Free(SET) /\ GoWith(t, "look_scan", [my[t] EXCEPT !.i = @ + 1]) /\ UNCHANGED <<locks, ret, todo>>
  /\ UNCHANGED <<fd_table, socks, netVars, logVars, panicked>>

----------------------------------------------------------------------------
(* dns_query. *)

dns_query(t) ==
  /\ at[t] = "idle" /\ todo[t] # <<>> /\ Op(t) = "dns" /\ Free(SET)
  /\ SOCKET_SET' = SOCKET_SET @@ (Slot :> SmolNew("dns"))
  /\ GoWith(t, "dns_set", [Idle EXCEPT !.h = Slot, !.then = "dns_try"])
  /\ UNCHANGED <<goVars, socks, locks, LISTEN_TABLE, queue, CURR, UDP_CURR, logVars, panicked>>

DnsSet(t) == at[t] = "dns_set" /\ Take(t, SET) /\ Go(t, "dns_iface") /\ UNCHANGED <<my, goVars, socks, netVars, logVars, panicked>>

\* start_query may refuse the name.
DnsIface(t) ==
  /\ at[t] = "dns_iface" /\ Free(ETH) /\ ReleaseAll(t)
  /\ \/ InSet(my[t].h, [SOCKET_SET[my[t].h] EXCEPT !.st = "Asked"]) /\ Go(t, "poll") /\ UNCHANGED <<my, ret>>
     \/ GoWith(t, "dns_drop", [my[t] EXCEPT !.once = TRUE]) /\ ret' = [ret EXCEPT ![t] = "EINVAL"] /\ UNCHANGED SOCKET_SET
  /\ UNCHANGED <<fd_table, todo, socks, LISTEN_TABLE, queue, CURR, UDP_CURR, logVars, panicked>>

DnsTry(t) ==
  /\ at[t] = "dns_try" /\ Free(SET)
  /\ IF SOCKET_SET[my[t].h].st = "Asked" THEN Go(t, "poll") /\ UNCHANGED <<my, ret>>
     ELSE /\ ret' = [ret EXCEPT ![t] = IF SOCKET_SET[my[t].h].st = "Answered" THEN 0 ELSE "ECONNREFUSED"]
          /\ GoWith(t, "dns_drop", [my[t] EXCEPT !.once = TRUE])
  /\ UNCHANGED <<fd_table, todo, socks, locks, netVars, logVars, panicked>>

DnsDrop(t) ==
  /\ at[t] = "dns_drop"
  /\ SOCKET_SET' = IF Free(SET) THEN Without(SOCKET_SET, my[t].h) ELSE SOCKET_SET
  /\ GoWith(t, "idle", Idle) /\ todo' = [todo EXCEPT ![t] = Tail(@)]
  /\ UNCHANGED <<fd_table, ret, socks, locks, LISTEN_TABLE, queue, CURR, UDP_CURR, logVars, panicked>>

----------------------------------------------------------------------------
(* Drop: shutdown, and the handle is removed. *)

drop(t) ==
  /\ at[t] = "drop"
  /\ CASE Sock(t).kind = "udp" -> GoWith(t, "poll", [my[t] EXCEPT !.then = "uclose"]) /\ UNCHANGED socks
       [] Sock(t).kind = "tcp" /\ Sock(t).state = "CONNECTED" -> SetSock(t, [Sock(t) EXCEPT !.state = "BUSY"]) /\ Go(t, "drop_close") /\ UNCHANGED my
       [] Sock(t).kind = "tcp" /\ Sock(t).state = "LISTENING" ->
            /\ SetSock(t, [Sock(t) EXCEPT !.state = "BUSY", !.local = UNSPECIFIED])
            /\ GoWith(t, "drop_unlisten", [my[t] EXCEPT !.port = Sock(t).local.port])
       [] OTHER -> Go(t, "drop_remove") /\ UNCHANGED <<my, socks>>
  /\ UNCHANGED <<goVars, locks, netVars, logVars, panicked>>

DropClose(t) ==
  /\ at[t] = "drop_close" /\ Free(SET)
  /\ InSet(Sock(t).handle, SmolClose(SOCKET_SET[Sock(t).handle]))
  /\ SetSock(t, [Sock(t) EXCEPT !.local = UNSPECIFIED])
  /\ GoWith(t, "poll", [my[t] EXCEPT !.then = "drop_remove"])
  /\ UNCHANGED <<goVars, locks, LISTEN_TABLE, queue, CURR, UDP_CURR, logVars, panicked>>

\* The entry goes, and the sockets in its queue; these are left if the set is locked.
DropUnlisten(t) ==
  /\ at[t] = "drop_unlisten" /\ Free(my[t].port)
  /\ SOCKET_SET' = IF Free(SET) /\ my[t].port \in DOMAIN LISTEN_TABLE
                   THEN [h \in DOMAIN SOCKET_SET \ ToSet(SynQueue(t)) |-> SOCKET_SET[h]] ELSE SOCKET_SET
  /\ LISTEN_TABLE' = Without(LISTEN_TABLE, my[t].port)
  /\ GoWith(t, "poll", [my[t] EXCEPT !.then = "drop_remove"])
  /\ UNCHANGED <<goVars, socks, locks, queue, CURR, UDP_CURR, logVars, panicked>>

Dropped(t) == socks' = Without(socks, my[t].s) /\ LetGo(t, 0, fd_table, my[t].also)

DropRemove(t) ==
  /\ at[t] = "drop_remove"
  /\ IF Sock(t).handle = 0 THEN UNCHANGED SOCKET_SET ELSE Free(SET) /\ SOCKET_SET' = Without(SOCKET_SET, Sock(t).handle)
  /\ Dropped(t)
  /\ UNCHANGED <<goVars, locks, LISTEN_TABLE, queue, CURR, UDP_CURR, logVars, panicked>>

\* The lock that a destructor needs next.
Needs(t) ==
  CASE at[t] \in {"drop_close", "drop_remove", "uclose", "poll_lo", "poll_eth_set"} -> SET
    [] at[t] = "poll" -> LO
    [] at[t] = "poll_eth" -> ETH
    [] at[t] = "drop_unlisten" -> my[t].port

\* Somebody has it: the destructor ends where it is.
GiveUp(t) ==
  /\ my[t].once /\ at[t] \in {"drop_close", "drop_remove", "uclose", "poll", "poll_lo", "poll_eth", "poll_eth_set", "drop_unlisten"}
  /\ at[t] = "drop_remove" => Sock(t).handle # 0
  /\ ~Free(Needs(t))
  /\ ReleaseAll(t) /\ Dropped(t)
  /\ UNCHANGED <<goVars, netVars, logVars, panicked>>

----------------------------------------------------------------------------
Start(program) ==
  /\ fd_table = [f \in 1..FdLimit |-> 0]
  /\ socks = <<>> /\ SOCKET_SET = <<>> /\ LISTEN_TABLE = <<>> /\ queue = <<>>
  /\ CURR = PORT_START /\ UDP_CURR = PORT_START
  /\ locks = [l \in {SET, LO, ETH, 0} \cup Port |-> 0]
  /\ at = [t \in Tasks |-> "idle"] /\ my = [t \in Tasks |-> Idle]
  /\ todo = program
  /\ ret = [t \in Tasks |-> None]
  /\ written = <<>> /\ got = <<>>
  /\ panicked = FALSE

Init == \E program \in Programs : Start(program)

Polling(t) == PollLo(t) \/ PollSet(t) \/ Ingress(t) \/ Egress(t) \/ PollLoDone(t) \/ PollEth(t) \/ PollEthSet(t)

Tcp(t) ==
  \/ connect(t) \/ ConnAdd(t) \/ ConnSet(t) \/ ConnIface(t) \/ TryConnect(t)
  \/ bind(t) \/ BindAdd(t) \/ BindSet(t) \/ BindCheck(t) \/ listen(t) \/ ListenTable(t)
  \/ accept(t) \/ TryAccept(t) \/ AccScan(t) \/ AccClosed(t) \/ AccAddr(t)
  \/ StartTcp(t) \/ TryRecv(t) \/ TrySend(t) \/ shutdown(t) \/ Shut(t)

Udp(t) ==
  \/ StartUdp(t) \/ UdpBindCheck(t) \/ UdpBindSet(t) \/ UdpStart(t) \/ TryUdpSend(t) \/ TryUdpRecv(t)
  \/ UdpShutdown(t) \/ UdpClose(t) \/ UdpUnsupported(t)

Looking(t) == Ready(t) \/ Look(t) \/ LookConnect(t) \/ LookStream(t) \/ LookListen(t) \/ LookScan(t)

Dns(t) == dns_query(t) \/ DnsSet(t) \/ DnsIface(t) \/ DnsTry(t) \/ DnsDrop(t)

Drop(t) == drop(t) \/ DropClose(t) \/ DropUnlisten(t) \/ DropRemove(t) \/ GiveUp(t)

Step(t) ==
  /\ ~panicked
  /\ \/ socket(t) \/ Begin(t) \/ close(t) \/ SetOption(t) \/ GetName(t)
     \/ Polling(t) \/ Interrupted(t) \/ Loop(t) \/ Tcp(t) \/ Udp(t) \/ Looking(t) \/ Dns(t) \/ Drop(t)

Next == \E t \in Tasks : Step(t)

Spec == Init /\ [][Next]_vars

----------------------------------------------------------------------------
(* Properties. *)

\* Who refers to a socket of smoltcp: a socket, the queue of a port, a task that accepts.
Owners(h) ==
  {<<"sock", s>> : s \in {s \in DOMAIN socks : socks[s].handle = h}}
    \cup UNION {{<<"queue", p, i>> : i \in {i \in DOMAIN LISTEN_TABLE[p].syn_queue : LISTEN_TABLE[p].syn_queue[i] = h}} : p \in DOMAIN LISTEN_TABLE}
    \cup {<<"task", t>> : t \in {t \in Tasks : my[t].h = h /\ (at[t] \in {"acc_closed", "acc_addr"})}}

\* A handle is never used by two, and none is left to one whose socket was removed:
\* SocketSet gives its place to another, or panics.
HandlesOwned ==
  /\ \A h \in Handles : Cardinality(Owners(h)) <= 1
  /\ \A h \in Handles : Owners(h) # {} => h \in DOMAIN SOCKET_SET

\* x without some of its elements.
IsSubSeq(x, y) == \E k \in SUBSET DOMAIN y : x = [i \in 1..Cardinality(k) |-> y[SetToSortSeq(k, <)[i]]]

Flow(log, f) == IF f \in DOMAIN log THEN log[f] ELSE <<>>

\* TCP: what is received is what was sent, in its order, and after the end nothing comes.
\* UDP: a datagram is received once at most, whole, by the socket it was sent to.
InOrder ==
  \A f \in DOMAIN got :
    CASE f[1] = "tcp" -> IsPrefix(got[f], Flow(written, f))
      [] f[1] = "eof" -> Flow(got, <<"tcp", f[2], f[3]>>) = Flow(written, <<"tcp", f[2], f[3]>>)
      [] OTHER -> IsSubSeq(got[f], Flow(written, f))
============================================================================
