----------------------------- MODULE SocketLib -----------------------------
(***************************************************************************)
(* The functions of my_socket.c that the UDP programs call, each as the    *)
(* set of what it may do, one member for every way its system calls can    *)
(* end.  An outcome is what the function returns and what the socket is    *)
(* then; -1 is the error return.                                           *)
(*                                                                         *)
(* Of a socket only what the programs rely on is kept: whether it is       *)
(* connected and the sizes of its buffers, ints.                           *)
(***************************************************************************)
EXTENDS Integers

CONSTANTS
    MinBuf, MaxBuf,   \* the kernel's bounds: least size set, most asked for
    DefaultBuf        \* size of a new socket's buffers

ASSUME BufAssumption ==
    /\ MinBuf \in Nat /\ MaxBuf \in Nat /\ DefaultBuf \in Nat

Outcome(r, s) == [ret |-> r, sock |-> s]

\* An error return; the socket is s.
Fails(s) == Outcome(-1, s)

NewSocket ==
    [connected |-> FALSE, rcvbuf |-> DefaultBuf, sndbuf |-> DefaultBuf]

\* The kernel keeps within its bounds and doubles what it is asked for.
Granted(size) ==
    LET asked == IF size > MaxBuf THEN MaxBuf ELSE size
    IN IF 2 * asked < MinBuf THEN MinBuf ELSE 2 * asked

\* A new socket, or none.
udp_socket == {Outcome(0, NewSocket), Fails(NewSocket)}

\* The name may not be resolved; the kernel may refuse the address.
connect_udp(s) == {Outcome(0, [s EXCEPT !.connected = TRUE]), Fails(s)}

\* connect() itself, without a name to resolve.
connect_back(s) == {Outcome(0, [s EXCEPT !.connected = TRUE]), Fails(s)}

\* The address of the server's own side; another process may have the port.
my_bind(s) == {Outcome(0, s), Fails(s)}

get_so_rcvbuf(s) == {Outcome(s.rcvbuf, s), Fails(s)}
get_so_sndbuf(s) == {Outcome(s.sndbuf, s), Fails(s)}

\* In epoll-client's copy of the file whatever the kernel makes of the size is
\* taken.
epoll_set_so_rcvbuf(s, size) ==
    LET set == [s EXCEPT !.rcvbuf = Granted(size)]
    IN {Fails(s), Fails(set)} \cup get_so_rcvbuf(set)

\* Set, read back, read back again, and compare with twice the size.  A
\* setting that is then reported as an error stays.
set_so_rcvbuf(s, size) ==
    LET set == [s EXCEPT !.rcvbuf = Granted(size)]
    IN {Fails(s), Fails(set)}
          \cup {o \in get_so_rcvbuf(set) : o.ret = 2 * size}

set_so_sndbuf(s, size) ==
    LET set == [s EXCEPT !.sndbuf = Granted(size)]
    IN {Fails(s), Fails(set)}
          \cup {o \in get_so_sndbuf(set) : o.ret = 2 * size}
=============================================================================
