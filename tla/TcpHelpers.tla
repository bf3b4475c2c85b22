----------------------------- MODULE TcpHelpers -----------------------------
(***************************************************************************)
(* The functions of my_socket.c and host_info.c that none of the programs  *)
(* calls yet: connect_tcp, connect_tcp_timeout, tcp_listen,                *)
(* accept_connection, connect_to_server and those about socket options,    *)
(* one action per system call, each of which may fail, called in any order *)
(* by a caller that closes what it was given.                              *)
(*                                                                         *)
(* Of a socket its send timeout and whether it is connected are kept.      *)
(***************************************************************************)
EXTENDS Integers

CONSTANTS
    Fds,        \* descriptors the process may have
    Timeouts    \* send timeouts

ASSUME FdAssumption == Fds \subseteq Nat /\ Timeouts # {}

VARIABLES
    hpc,        \* the system call that is next; "idle" outside a function
    fn,         \* the function called
    open,       \* open descriptors
    held,       \* those the caller was given
    sndtimeo, connected,    \* of each descriptor; "no", "trying" or "yes"
    cur,        \* sockfd or listenfd of the function, -1 for none
    timeout, orig,          \* timeout_sec, orig_tm_out
    ret,        \* what the last function returned
    mine,       \* history: the timeout the caller gave a descriptor
    stuck,      \* history: descriptors whose timeout could not be set back
    lost        \* history: descriptors no function returned

kernel == <<open, sndtimeo, connected>>
locals_h == <<cur, timeout, orig>>
hvars == <<hpc, fn, kernel, held, locals_h, ret, mine, stuck, lost>>

NoFd == -1

HInit ==
    /\ hpc = "idle" /\ fn = "none"
    /\ open = {} /\ held = {}
    /\ sndtimeo \in [Fds -> Timeouts] /\ mine = sndtimeo
    /\ connected = [f \in Fds |-> "no"]
    /\ cur = NoFd
    /\ timeout \in Timeouts /\ orig = timeout
    /\ ret = 0
    /\ stuck = {} /\ lost = {}

\* socket() or accept() gives a descriptor that was not open.
NewFd(f, conn) ==
    /\ f \in Fds \ open
    /\ open' = open \cup {f}
    /\ connected' = [connected EXCEPT ![f] = conn]
    /\ \E t \in Timeouts : /\ sndtimeo' = [sndtimeo EXCEPT ![f] = t]
                           /\ mine' = [mine EXCEPT ![f] = t]

Return(r) == hpc' = "idle" /\ ret' = r

-----------------------------------------------------------------------------
\* tcp_socket: a socket or an error.
TcpSocket ==
    /\ hpc = "idle"
    /\ fn' = "tcp_socket"
    /\ \/ \E f \in Fds : NewFd(f, "no") /\ held' = held \cup {f} /\ Return(f)
       \/ Return(-1) /\ UNCHANGED <<kernel, held, mine>>
    /\ UNCHANGED <<locals_h, stuck, lost>>

\* The caller closes a descriptor of its own.
CloseOwn ==
    /\ hpc = "idle"
    /\ \E f \in held :
          open' = open \ {f} /\ held' = held \ {f} /\ stuck' = stuck \ {f}
    /\ UNCHANGED <<hpc, fn, sndtimeo, connected, locals_h, ret, mine, lost>>

\* connect_tcp has no timeout to save: it goes straight to the name.
CallConnect ==
    /\ hpc = "idle"
    /\ cur' \in {f \in held : connected[f] # "yes"}
    /\ \/ fn' = "connect_tcp_timeout" /\ hpc' = "save" /\ timeout' \in Timeouts
       \/ fn' = "connect_tcp" /\ hpc' = "resolve" /\ timeout' = timeout
    /\ UNCHANGED <<kernel, held, orig, ret, mine, stuck, lost>>

SaveTimeout ==
    /\ hpc = "save"
    /\ \/ hpc' = "resolve" /\ orig' = sndtimeo[cur] /\ ret' = ret
       \/ Return(-1) /\ orig' = orig
    /\ UNCHANGED <<fn, kernel, held, cur, timeout, mine, stuck, lost>>

Resolve ==
    /\ hpc = "resolve"
    /\ \/ hpc' = (IF fn = "connect_tcp" THEN "connect" ELSE "set") /\ ret' = ret
       \/ Return(-1)
    /\ UNCHANGED <<fn, kernel, held, locals_h, mine, stuck, lost>>

SetTimeout ==
    /\ hpc = "set"
    /\ \/ /\ hpc' = "connect" /\ ret' = ret
          /\ sndtimeo' = [sndtimeo EXCEPT ![cur] = timeout]
       \/ Return(-1) /\ sndtimeo' = sndtimeo
    /\ UNCHANGED <<fn, open, connected, held, locals_h, mine, stuck, lost>>

\* A mistake: a connection that fails leaves the timeout behind.
ConnectForgets ==
    /\ hpc = "connect"
    /\ \/ /\ connected' = [connected EXCEPT ![cur] = "yes"]
          /\ \/ fn = "connect_tcp" /\ Return(0)
             \/ fn # "connect_tcp" /\ hpc' = "restore" /\ ret' = ret
       \/ /\ connected' \in {connected, [connected EXCEPT ![cur] = "trying"]}
          /\ Return(-1)
    /\ UNCHANGED <<fn, open, sndtimeo, held, locals_h, mine, stuck, lost>>

\* connect(); with a timeout, both ways lead to setting it back.  One that ran
\* out of time is still being tried by the kernel.
Connect ==
    /\ hpc = "connect"
    /\ \/ /\ connected' = [connected EXCEPT ![cur] = "yes"]
          /\ \/ fn = "connect_tcp" /\ Return(0)
             \/ fn # "connect_tcp" /\ hpc' = "restore" /\ ret' = ret
       \/ /\ connected' \in {connected, [connected EXCEPT ![cur] = "trying"]}
          /\ \/ fn = "connect_tcp" /\ Return(-1)
             \/ fn # "connect_tcp" /\ hpc' = "restore_failed" /\ ret' = ret
    /\ UNCHANGED <<fn, open, sndtimeo, held, locals_h, mine, stuck, lost>>

\* The kernel completes a connection that connect() no longer waits for.
LateConnection ==
    /\ hpc # "exited"
    /\ \E f \in open : /\ connected[f] = "trying"
                       /\ connected' = [connected EXCEPT ![f] = "yes"]
    /\ UNCHANGED <<hpc, fn, open, sndtimeo, held, locals_h, ret, mine, stuck,
                   lost>>

\* Setting it back may fail: after a connection that is an error return.
Restore ==
    /\ hpc \in {"restore", "restore_failed"}
    /\ \/ /\ sndtimeo' = [sndtimeo EXCEPT ![cur] = orig]
          /\ stuck' = stuck
          /\ Return(IF hpc = "restore" THEN 0 ELSE -1)
       \/ /\ sndtimeo' = sndtimeo
          /\ stuck' = stuck \cup {cur}
          /\ Return(-1)
    /\ UNCHANGED <<fn, open, connected, held, locals_h, mine, lost>>

-----------------------------------------------------------------------------
\* tcp_listen, or accept_connection, which calls it first.  That tcp_socket
\* may have failed is not looked at.
CallListen ==
    /\ hpc = "idle"
    /\ fn' \in {"tcp_listen", "accept_connection"}
    /\ hpc' = "reuse"
    /\ \/ \E f \in Fds : NewFd(f, "no") /\ cur' = f
       \/ cur' = NoFd /\ UNCHANGED <<kernel, mine>>
    /\ UNCHANGED <<held, timeout, orig, ret, stuck, lost>>

\* What an error return of tcp_listen leaves behind.
ListenFails ==
    /\ Return(-1)
    /\ lost' = lost \cup ({cur} \ {NoFd})

\* SO_REUSEADDR, bind, listen: without a descriptor the first one fails.
PrepareListen ==
    /\ hpc \in {"reuse", "bind", "listen"}
    /\ \/ /\ cur # NoFd
          /\ \/ hpc = "reuse" /\ hpc' = "bind" /\ UNCHANGED <<ret, held>>
             \/ hpc = "bind" /\ hpc' = "listen" /\ UNCHANGED <<ret, held>>
             \/ /\ hpc = "listen" /\ fn = "tcp_listen"
                /\ Return(cur) /\ held' = held \cup {cur}
             \/ /\ hpc = "listen" /\ fn = "accept_connection"
                /\ hpc' = "accept" /\ UNCHANGED <<ret, held>>
          /\ lost' = lost
       \/ ListenFails /\ held' = held
    /\ UNCHANGED <<fn, kernel, locals_h, mine, stuck>>

\* A mistake: the listening socket is returned instead of the connection.
AcceptWrong ==
    /\ hpc = "accept"
    /\ \/ \E f \in Fds : NewFd(f, "yes") /\ Return(cur) /\ held' = held \cup {cur}
       \/ Return(-1) /\ UNCHANGED <<kernel, held, mine>>
    /\ lost' = lost \cup {cur}
    /\ UNCHANGED <<fn, locals_h, stuck>>

\* accept_connection returns the connection, or -1; the listening socket is
\* left open in either case.
Accept ==
    /\ hpc = "accept"
    /\ \/ \E f \in Fds : NewFd(f, "yes") /\ Return(f) /\ held' = held \cup {f}
       \/ Return(-1) /\ UNCHANGED <<kernel, held, mine>>
    /\ lost' = lost \cup {cur}
    /\ UNCHANGED <<fn, locals_h, stuck>>

-----------------------------------------------------------------------------
\* connect_to_server: a socket with a receive timeout, connected; whatever
\* fails, an address that is none included, ends the program.
CallToServer ==
    /\ hpc = "idle"
    /\ fn' = "connect_to_server"
    /\ \/ \E f \in Fds : NewFd(f, "no") /\ cur' = f /\ hpc' = "rcvtimeo"
       \/ hpc' = "exited" /\ cur' = NoFd /\ UNCHANGED <<kernel, mine>>
    /\ UNCHANGED <<held, timeout, orig, ret, stuck, lost>>

ReachServer ==
    /\ \/ /\ hpc = "rcvtimeo" /\ hpc' = "reach"
          /\ UNCHANGED <<connected, held, ret>>
       \/ /\ hpc = "reach" /\ Return(0)
          /\ connected' = [connected EXCEPT ![cur] = "yes"]
          /\ held' = held \cup {cur}
       \/ /\ hpc \in {"rcvtimeo", "reach"} /\ hpc' = "exited"
          /\ UNCHANGED <<connected, held, ret>>
    /\ UNCHANGED <<fn, open, sndtimeo, locals_h, mine, stuck, lost>>

-----------------------------------------------------------------------------
\* The functions that set, or read, something of a socket that decides nothing
\* here: each is one system call, and -1 when that fails.
OptionFns == {"set_so_nodelay", "set_so_quickack", "get_so_rcvlowat"}
InfoFns   == {"get_port_num", "set_so_rcvtimeout"}

SocketOption ==
    /\ hpc = "idle" /\ held # {}
    /\ fn' \in OptionFns \cup InfoFns
    /\ ret' \in {-1, 0}
    /\ UNCHANGED <<hpc, kernel, held, locals_h, mine, stuck, lost>>

\* get_bytes_in_rcvbuf has no error return: when ioctl fails it returns an int
\* that nothing was written to.
BytesQueued ==
    /\ hpc = "idle" /\ held # {}
    /\ fn' = "get_bytes_in_rcvbuf"
    /\ ret' \in {-1, 0, 1}
    /\ UNCHANGED <<hpc, kernel, held, locals_h, mine, stuck, lost>>

-----------------------------------------------------------------------------
HNext ==
    \/ TcpSocket \/ CloseOwn \/ CallConnect \/ SaveTimeout \/ Resolve
    \/ SetTimeout \/ Connect \/ LateConnection \/ Restore
    \/ CallListen \/ PrepareListen \/ Accept \/ CallToServer \/ ReachServer
    \/ SocketOption \/ BytesQueued

HSpec == HInit /\ [][HNext]_hvars

-----------------------------------------------------------------------------
\* Whatever call fails on the way, connect_tcp_timeout leaves a socket with
\* the send timeout it had, unless setting it back was what failed; and when
\* one of the connecting functions returns 0 the socket is connected.
TimeoutKept ==
    hpc = "idle" =>
        /\ \A f \in open : sndtimeo[f] = mine[f] \/ f \in stuck
        /\ fn \in {"connect_tcp", "connect_tcp_timeout", "connect_to_server"}
              /\ cur \in held /\ ret = 0 => connected[cur] = "yes"

\* Outside the functions every open descriptor is the caller's or was lost by
\* an error return of tcp_listen or by accept_connection, and never both.
DescriptorsAccounted ==
    hpc = "idle" => open = held \cup lost /\ held \cap lost = {}
=============================================================================
