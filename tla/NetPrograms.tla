---------------------------- MODULE NetPrograms ----------------------------
(***************************************************************************)
(* What two tasks call on sockets, one call after the other: the instances *)
(* that Net is checked on.                                                 *)
(***************************************************************************)
EXTENDS Sequences

NoAddr == "0.0.0.0"
fd(op, x) == [op |-> op, fd |-> x]
tcp(nb) == [op |-> "socket", kind |-> "tcp", nb |-> nb]
udp == [op |-> "socket", kind |-> "udp", nb |-> FALSE]
bnd(x, addr, p) == [op |-> "bind", fd |-> x, addr |-> addr, port |-> p]
acc(x) == [op |-> "accept", fd |-> x, nb |-> FALSE]
con(x, p) == [op |-> "connect", fd |-> x, port |-> p]
snd(x, v, p) == [op |-> "sendto", fd |-> x, data |-> v, port |-> p]
wr(x, v) == [op |-> "write", fd |-> x, data |-> v]
rcv(x, k) == [op |-> "recvfrom", fd |-> x, n |-> k]
rd(x, k) == [op |-> "read", fd |-> x, n |-> k]
shut(x, how) == [op |-> "shutdown", fd |-> x, how |-> how]
opt(x, o) == [op |-> "setsockopt", fd |-> x, opt |-> o, on |-> TRUE]

Server(rest) == <<tcp(FALSE), bnd(1, NoAddr, 1), fd("listen", 1), acc(1)>> \o rest

Client(rest) == <<tcp(FALSE), con(2, 1)>> \o rest

\* A connection between two tasks, and how its ends are closed.
Connections == {
  <<Server(<<rd(3, 2), wr(3, <<3>>), fd("close", 3), fd("close", 1)>>), Client(<<wr(2, <<1, 2>>), rd(2, 1), fd("close", 2)>>)>>,
  <<Server(<<snd(3, <<3>>, 0), shut(3, "wr"), rcv(3, 1), rcv(3, 1)>>), Client(<<wr(2, <<1>>), shut(2, "rdwr"), rcv(2, 1)>>)>>,
  <<Server(<<fd("close", 1), fd("poll", 3), rcv(3, 2)>>), Client(<<shut(2, "rd"), fd("close", 2)>>)>>,
  <<Server(<<fd("close", 1), rcv(3, 2)>>), Client(<<snd(2, <<1>>, 0), shut(2, "wr"), rcv(2, 1)>>)>>}

\* Sockets that do not block.
NonBlocking == {
  <<Server(<<acc(1), fd("close", 1)>>), <<tcp(TRUE), con(2, 1), fd("poll", 2), con(2, 1), rd(2, 1), wr(2, <<1>>), snd(2, <<2>>, 0), fd("close", 2)>> >>,
  << <<tcp(TRUE), bnd(1, NoAddr, 1), fd("listen", 1), fd("poll", 1), acc(1), fd("close", 1)>>, <<tcp(FALSE), con(2, 1), rcv(2, 1)>> >>,
  \* two threads and a connection that is refused
  << <<tcp(TRUE), con(1, 2), fd("poll", 1), con(1, 2), fd("getsockname", 1)>>, <<fd("poll", 1), fd("poll", 1), rcv(1, 1)>> >>,
  << <<tcp(TRUE), con(1, 2), fd("poll", 1), bnd(1, NoAddr, 1), fd("listen", 1), acc(1)>>, <<fd("poll", 1), con(1, 2), fd("close", 1)>> >> }

Binding == {
  << <<tcp(FALSE), bnd(1, "127.0.0.1", 1), bnd(1, NoAddr, 2), fd("listen", 1), fd("getsockname", 1), fd("getpeername", 1), fd("close", 1)>>,
     <<tcp(FALSE), opt(2, "SO_REUSEADDR"), bnd(2, "127.0.0.1", 1), fd("listen", 2), fd("listen", 2), fd("close", 2)>> >>,
  << <<tcp(FALSE), fd("listen", 1), tcp(FALSE), fd("listen", 2), tcp(FALSE), fd("listen", 3), tcp(FALSE), fd("close", 1)>>,
     <<tcp(FALSE), fd("listen", 2), bnd(3, NoAddr, 0), con(3, 1), opt(3, "SO_RCVTIMEO")>> >> }

Datagrams == {
  << <<udp, bnd(1, NoAddr, 1), rcv(1, 1), rcv(1, 1), fd("close", 1)>>, <<udp, snd(2, <<1>>, 1), con(2, 1), wr(2, <<2>>), shut(2, "wr"), wr(2, <<2>>)>> >>,
  << <<udp, bnd(1, "127.0.0.1", 1), con(1, 2), rd(1, 1), fd("getpeername", 1)>>,
     <<udp, bnd(2, "127.0.0.1", 2), opt(2, "SO_REUSEADDR"), bnd(2, "127.0.0.1", 2), snd(2, <<1>>, 1), udp, snd(3, <<2>>, 1), fd("poll", 2)>> >>,
  << <<udp, snd(1, <<1>>, 2), fd("listen", 1), acc(1), wr(1, <<1>>), shut(1, "rd")>>, <<snd(1, <<2>>, 2), rcv(1, 1), bnd(1, NoAddr, 1), con(1, 1)>> >> }

Names == {
  << <<[op |-> "dns"], tcp(FALSE), con(1, 2), fd("close", 1)>>, <<[op |-> "dns"], rcv(3, 1), snd(3, <<1>>, 1), fd("close", 2)>> >>,
  << <<udp, [op |-> "set_status", fd |-> 1, on |-> TRUE], rcv(1, 1), bnd(1, NoAddr, 1), rcv(1, 1), fd("poll", 1), fd("close", 1)>>, <<[op |-> "dns"]>> >> }

Programs == Connections \cup NonBlocking \cup Binding \cup Datagrams \cup Names
=============================================================================
