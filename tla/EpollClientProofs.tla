------------------------- MODULE EpollClientProofs -------------------------
(***************************************************************************)
(* epoll-client's list, events and counters, for any number of arguments   *)
(* and whatever the servers send.                                          *)
(***************************************************************************)
EXTENDS EpollClient, FiniteSetTheorems, TLAPS

-----------------------------------------------------------------------------
(***************************************************************************)
(* Sequences and sets of hosts.                                            *)
(***************************************************************************)

\* Every set of hosts is finite, and a host more or less changes its size by
\* one.
LEMMA HostsFinite ==
    ASSUME NEW T \in SUBSET Hosts
    PROVE  /\ IsFiniteSet(T) /\ Cardinality(T) \in Nat
           /\ \A h \in Hosts \ T : Cardinality(T \cup {h}) = Cardinality(T) + 1
           /\ \A h \in T : Cardinality(T \ {h}) = Cardinality(T) - 1
           /\ Cardinality(T) = 0 <=> T = {}
<1>1. IsFiniteSet(Hosts)
  BY EpollAssumption, FS_Interval DEF Hosts
<1>2. IsFiniteSet(T)
  BY <1>1, FS_Subset
<1>3. Cardinality(T) \in Nat
  BY <1>2, FS_CardinalityType
<1> QED
  BY <1>2, <1>3, FS_AddElement, FS_RemoveElement, FS_EmptySet

\* What is left of a sequence without repetitions has none.
LEMMA TailInjective ==
    ASSUME NEW S, NEW q \in Seq(S), q # <<>>, IsInjective(q)
    PROVE  /\ Head(q) \in S /\ Head(q) = q[1]
           /\ Tail(q) \in Seq(S) /\ IsInjective(Tail(q))
           /\ Len(q) \in Nat \ {0} /\ Len(Tail(q)) = Len(q) - 1
           /\ DOMAIN q = 1 .. Len(q) /\ DOMAIN Tail(q) = 1 .. Len(q) - 1
           /\ \A k \in DOMAIN Tail(q) :
                 /\ k + 1 \in DOMAIN q /\ Tail(q)[k] = q[k + 1]
                 /\ Tail(q)[k] # Head(q) /\ Tail(q)[k] \in S
<1>1. /\ Head(q) \in S /\ Head(q) = q[1]
      /\ Tail(q) \in Seq(S)
      /\ Len(q) \in Nat \ {0} /\ Len(Tail(q)) = Len(q) - 1
      /\ DOMAIN q = 1 .. Len(q) /\ DOMAIN Tail(q) = 1 .. Len(q) - 1
  OBVIOUS
<1>2. \A k \in DOMAIN Tail(q) :
         k + 1 \in DOMAIN q /\ Tail(q)[k] = q[k + 1] /\ Tail(q)[k] \in S
  BY <1>1
<1>3. \A k \in DOMAIN Tail(q) : k + 1 # 1 /\ 1 \in DOMAIN q
  BY <1>1
<1>4. \A k \in DOMAIN Tail(q) : Tail(q)[k] # Head(q)
  BY <1>1, <1>2, <1>3 DEF IsInjective
<1>5. IsInjective(Tail(q))
  BY <1>1, <1>2 DEF IsInjective
<1> QED
  BY <1>1, <1>2, <1>4, <1>5

\* A host of a greater number makes the list longer without a repetition.
LEMMA AppendLater ==
    ASSUME NEW q \in Seq(Hosts), IsInjective(q), NEW n \in Hosts,
           \A k \in DOMAIN q : q[k] < n,
           NEW r, r = q \o <<n>>
    PROVE  /\ r \in Seq(Hosts) /\ IsInjective(r) /\ Len(r) = Len(q) + 1
           /\ \A k \in DOMAIN r : r[k] < n + 1
<1>1. /\ r \in Seq(Hosts) /\ Len(q) \in Nat /\ Len(r) = Len(q) + 1
      /\ DOMAIN r = 1 .. Len(q) + 1 /\ DOMAIN q = 1 .. Len(q)
      /\ \A k \in 1 .. Len(q) : r[k] = q[k] /\ q[k] \in Hosts
      /\ r[Len(q) + 1] = n
  OBVIOUS
<1>2. n \in Nat /\ \A h \in Hosts : h \in Nat
  BY EpollAssumption DEF Hosts
<1>3. \A k \in 1 .. Len(q) + 1 : k \in 1 .. Len(q) \/ k = Len(q) + 1
  BY <1>1
<1>4. IsInjective(r)
  <2> SUFFICES ASSUME NEW a \in 1 .. Len(q) + 1, NEW b \in 1 .. Len(q) + 1,
                      r[a] = r[b]
               PROVE  a = b
    BY <1>1 DEF IsInjective
  <2>1. CASE a \in 1 .. Len(q) /\ b \in 1 .. Len(q)
    BY <1>1, <2>1 DEF IsInjective
  <2>2. CASE a \in 1 .. Len(q) /\ b = Len(q) + 1
    BY <1>1, <1>2, <2>2
  <2>3. CASE b \in 1 .. Len(q) /\ a = Len(q) + 1
    BY <1>1, <1>2, <2>3
  <2> QED
    BY <1>3, <2>1, <2>2, <2>3
<1>5. \A k \in DOMAIN r : r[k] < n + 1
  <2> SUFFICES ASSUME NEW k \in 1 .. Len(q) + 1 PROVE r[k] < n + 1
    BY <1>1
  <2>1. CASE k \in 1 .. Len(q)
    <3>1. r[k] = q[k] /\ q[k] < n /\ q[k] \in Nat
      BY <1>1, <1>2, <2>1
    <3> QED
      BY <1>2, <3>1
  <2>2. CASE k = Len(q) + 1
    BY <1>1, <1>2, <2>2
  <2> QED
    BY <1>3, <2>1, <2>2
<1> QED
  BY <1>1, <1>4, <1>5

\* The events of one epoll_wait: some of the ready sockets, each once.
LEMMA SomeEvents ==
    ASSUME NEW T \in SUBSET Hosts, T # {}, NEW s \in SetToSeqs(T),
           NEW n \in Nat \ {0},
           NEW ev, ev = SubSeq(s, 1, IF Len(s) <= n THEN Len(s) ELSE n)
    PROVE  /\ ev \in Seq(Hosts) /\ ev # <<>> /\ IsInjective(ev)
           /\ \A k \in DOMAIN ev : ev[k] \in T
<1> DEFINE c == Cardinality(T)
           m == IF c <= n THEN c ELSE n
<1>1. c \in Nat \ {0}
  BY HostsFinite
<1> HIDE DEF c
<1>2. /\ s \in [1 .. c -> T]
      /\ \A i, j \in 1 .. c : i # j => s[i] # s[j]
  BY DEF SetToSeqs, c
<1>3. s \in Seq(T) /\ Len(s) = c
  BY <1>1, <1>2
<1>4. m \in 1 .. c /\ ev = SubSeq(s, 1, m)
  BY <1>1, <1>3
<1> HIDE DEF m
<1>5. /\ ev \in Seq(T) /\ Len(ev) = m
      /\ \A k \in 1 .. m : ev[k] = s[k]
  BY <1>1, <1>3, <1>4
<1>6. DOMAIN ev = 1 .. m /\ ev # <<>>
  <2>1. DOMAIN ev = 1 .. m
    BY <1>1, <1>4, <1>5
  <2>2. m # 0 /\ Len(<<>>) = 0
    BY <1>1, <1>4
  <2> QED
    BY <1>5, <2>1, <2>2
<1>7. \A k \in 1 .. m : k \in 1 .. c /\ ev[k] \in T
  BY <1>1, <1>2, <1>4, <1>5
<1>8. IsInjective(ev)
  BY <1>2, <1>5, <1>6, <1>7 DEF IsInjective
<1>9. ev \in Seq(Hosts)
  BY <1>5
<1> QED
  BY <1>6, <1>7, <1>8, <1>9

-----------------------------------------------------------------------------
(***************************************************************************)
(* The inductive invariant, in parts.                                      *)
(***************************************************************************)

\* The first n hosts of the list.
First(n) == {host_list[k] : k \in 1 .. n}

\* The list has each argument at most once, and the loops stay within it.
ListInv ==
    /\ IsInjective(host_list) /\ Len(host_list) <= NHosts
    /\ epc = "hosts" => /\ Len(host_list) <= ei - 1
                        /\ \A k \in DOMAIN host_list : host_list[k] < ei
    /\ epc \in Stages \ {"hosts"} => ei <= Len(host_list) + 1

\* Which sockets are open, and which of them are in the epoll set.
SockInv ==
    /\ epc = "hosts" => OpenHosts = {}
    /\ epc = "sockets" =>
          OpenHosts = First(ei - 1) /\ Cardinality(OpenHosts) = ei - 1
    /\ epc \in {"rcvbuf", "connect", "add", "request"} =>
          /\ OpenHosts = Listed
          /\ Cardinality(OpenHosts) = Len(host_list)
    /\ epc \in Stages => n_server = NHosts

WatchInv ==
    /\ epc \in {"hosts", "sockets", "rcvbuf", "connect"} => watched = {}
    /\ epc = "add" => watched = First(ei - 1)
    /\ epc \in {"request"} \cup Looping => watched = OpenHosts

EInv == /\ ETypeOK /\ ListInv /\ SockInv /\ WatchInv
        /\ ServersCounted /\ NoStaleEvent

\* One host more of the list.
LEMMA FirstStep ==
    ASSUME ETypeOK, ListInv
    PROVE  /\ First(0) = {} /\ First(Len(host_list)) = Listed
           /\ Listed \subseteq Hosts /\ Len(host_list) \in Nat
           /\ \A n \in Nat : n + 1 <= Len(host_list) =>
                 /\ First(n + 1) = First(n) \cup {host_list[n + 1]}
                 /\ host_list[n + 1] \notin First(n)
                 /\ host_list[n + 1] \in Hosts
                 /\ First(n) \subseteq Hosts
<1>1. /\ host_list \in Seq(Hosts) /\ Len(host_list) \in Nat
      /\ DOMAIN host_list = 1 .. Len(host_list)
      /\ \A k \in 1 .. Len(host_list) : host_list[k] \in Hosts
  BY DEF ETypeOK
<1>2. First(0) = {}
  BY DEF First
<1>3. First(Len(host_list)) = Listed
  BY <1>1 DEF First, Listed, Range
<1>4. Listed \subseteq Hosts
  BY <1>1 DEF Listed, Range
<1>5. ASSUME NEW n \in Nat, n + 1 <= Len(host_list)
      PROVE  /\ First(n + 1) = First(n) \cup {host_list[n + 1]}
             /\ host_list[n + 1] \notin First(n)
             /\ host_list[n + 1] \in Hosts
             /\ First(n) \subseteq Hosts
  <2>1. /\ \A k \in 1 .. n + 1 : k \in 1 .. n \/ k = n + 1
        /\ \A k \in 1 .. n : k \in 1 .. n + 1 /\ k # n + 1
        /\ n + 1 \in 1 .. n + 1
        /\ \A k \in 1 .. n + 1 : k \in 1 .. Len(host_list)
    BY <1>1, <1>5
  <2>2. First(n + 1) = First(n) \cup {host_list[n + 1]}
    BY <2>1 DEF First
  <2>3. host_list[n + 1] \notin First(n)
    BY <1>1, <2>1 DEF First, ListInv, IsInjective
  <2>4. host_list[n + 1] \in Hosts /\ First(n) \subseteq Hosts
    BY <1>1, <2>1 DEF First
  <2> QED
    BY <2>2, <2>3, <2>4
<1> QED
  BY <1>1, <1>2, <1>3, <1>4, <1>5

\* The invariant holds at the start.
LEMMA EInvInit == EInit => EInv
<1> SUFFICES ASSUME EInit PROVE EInv
  OBVIOUS
<1>1. ETypeOK
  <2>1. NHosts \in Nat \ {0} /\ CountValues \in Nat \ {0} /\ Room \in Nat
    BY EpollAssumption
  <2>2. 0 \in 0 .. Room /\ 0 \in 0 .. CountValues - 1
    BY <2>1
  <2>3. n_server \in 0 .. NHosts /\ ei \in 1 .. NHosts + 1
    BY <2>1 DEF EInit
  <2> QED
    BY <2>2, <2>3 DEF EInit, ETypeOK, Stages
<1>2. OpenHosts = {}
  BY DEF EInit, OpenHosts
<1>3. ListInv
  <2>1. host_list = <<>> /\ epc = "hosts" /\ ei = 1
    BY DEF EInit
  <2>2. Len(host_list) = 0 /\ DOMAIN host_list = {}
    BY <2>1
  <2> QED
    BY <2>1, <2>2, EpollAssumption DEF ListInv, IsInjective
<1> QED
  BY <1>1, <1>2, <1>3
     DEF EInit, EInv, SockInv, WatchInv, ServersCounted, NoStaleEvent, Looping

\* The arguments become a list.
LEMMA ListSteps ==
    ASSUME EInv, NewHost
    PROVE  EInv'
<1>1. /\ epc = "hosts" /\ epc' = "hosts" /\ ei <= NHosts /\ ei' = ei + 1
      /\ UNCHANGED <<setup, sock, n_server, watched, ev_ret, counts, asked,
                     sockets>>
  BY DEF NewHost
<1>2. ei \in Hosts /\ ei \in Nat /\ NHosts \in Nat
  BY <1>1, EpollAssumption DEF EInv, ETypeOK, Hosts
<1>3. host_list' = host_list \/ host_list' = host_list \o <<ei>>
  <2>1. host_list \in Seq(Hosts)
    BY DEF EInv, ETypeOK
  <2>2. host_list \o <<>> = host_list
    BY <2>1
  <2> QED
    BY <2>2 DEF NewHost, new_host, addend
<1>4. /\ host_list' \in Seq(Hosts) /\ IsInjective(host_list')
      /\ Len(host_list') <= ei' - 1 /\ Len(host_list') <= NHosts
      /\ \A k \in DOMAIN host_list' : host_list'[k] < ei'
  <2>1. /\ host_list \in Seq(Hosts) /\ IsInjective(host_list)
        /\ Len(host_list) \in Nat /\ Len(host_list) <= ei - 1
        /\ \A k \in DOMAIN host_list :
              host_list[k] < ei
    BY <1>1 DEF EInv, ETypeOK, ListInv
  <2>2. CASE host_list' = host_list
    <3>1. \A k \in DOMAIN host_list : host_list[k] \in Nat
      <4>1. \A k \in DOMAIN host_list : host_list[k] \in Hosts
        BY <2>1
      <4> QED
        BY <4>1, EpollAssumption DEF Hosts
    <3>2. \A k \in DOMAIN host_list : host_list[k] < ei + 1
      BY <1>2, <2>1, <3>1
    <3>3. Len(host_list) <= ei' - 1 /\ Len(host_list) <= NHosts
      BY <1>1, <1>2, <2>1
    <3> QED
      BY <1>1, <2>1, <2>2, <3>2, <3>3
  <2>3. CASE host_list' = host_list \o <<ei>>
    <3>1. /\ host_list' \in Seq(Hosts) /\ IsInjective(host_list')
          /\ Len(host_list') = Len(host_list) + 1
          /\ \A k \in DOMAIN host_list' : host_list'[k] < ei + 1
      BY <1>2, <2>1, <2>3, AppendLater
    <3> QED
      BY <1>1, <1>2, <2>1, <3>1
  <2> QED
    BY <1>3, <2>2, <2>3
<1>5. ETypeOK'
  BY <1>1, <1>2, <1>4
     DEF EInv, ETypeOK, setup, counts, sockets
<1>6. ListInv'
  BY <1>1, <1>4 DEF ListInv
<1> QED
  BY <1>1, <1>5, <1>6
     DEF EInv, SockInv, WatchInv, ServersCounted, NoStaleEvent, OpenHosts,
     Looping, Stages

\* One loop over, the next one starts at the head of the list.
LEMMA StageSteps ==
    ASSUME EInv, NextStage
    PROVE  EInv'
<1>1. /\ ei' = 1 /\ epc \in Stages
      /\ UNCHANGED <<setup, host_list, sock, n_server>>
      /\ UNCHANGED <<watched, ev_ret, counts, asked, sockets>>
      /\ epc = "hosts" => epc' = "sockets" /\ ei > NHosts
      /\ epc = "sockets" => epc' = "rcvbuf"
      /\ epc = "rcvbuf" => epc' = "connect"
      /\ epc = "connect" => epc' = "add"
      /\ epc = "add" => epc' = "request"
      /\ epc = "request" => epc' = "wait"
      /\ epc # "hosts" => ei > Len(host_list)
  BY DEF NextStage, Stages
<1>2. /\ NHosts \in Nat \ {0} /\ ei \in Nat /\ Len(host_list) \in Nat
      /\ First(0) = {} /\ First(Len(host_list)) = Listed
  BY EpollAssumption, FirstStep DEF EInv, ETypeOK
<1>3. epc \in Stages \ {"hosts"} => ei - 1 = Len(host_list)
  BY <1>1, <1>2 DEF EInv, ListInv
<1>4. ETypeOK'
  BY <1>1, <1>2
     DEF EInv, ETypeOK, setup, counts, sockets, Stages, Looping
<1>5. ListInv'
  BY <1>1, <1>2 DEF EInv, ListInv, Stages
<1>6. OpenHosts' = OpenHosts /\ Listed' = Listed /\ First(ei - 1)' = {}
  BY <1>1 DEF OpenHosts, Listed, First
<1>7. Cardinality({}) = 0
  BY FS_EmptySet
<1>8. SockInv'
  <2>1. CASE epc = "hosts"
    BY <1>1, <1>6, <1>7, <2>1 DEF EInv, SockInv, Stages
  <2>2. CASE epc = "sockets"
    BY <1>1, <1>2, <1>3, <1>6, <2>2 DEF EInv, SockInv, Stages
  <2>3. CASE epc \in {"rcvbuf", "connect", "add", "request"}
    BY <1>1, <1>6, <2>3 DEF EInv, SockInv, Stages
  <2> QED
    BY <1>1, <2>1, <2>2, <2>3 DEF Stages
<1>9. WatchInv'
  <2>1. CASE epc \in {"hosts", "sockets", "rcvbuf", "connect"}
    BY <1>1, <1>6, <2>1 DEF EInv, WatchInv, Stages, Looping
  <2>2. CASE epc = "add"
    BY <1>1, <1>2, <1>3, <1>6, <2>2
       DEF EInv, SockInv, WatchInv, Stages, Looping
  <2>3. CASE epc = "request"
    BY <1>1, <1>6, <2>3 DEF EInv, WatchInv, Stages, Looping
  <2> QED
    BY <1>1, <2>1, <2>2, <2>3 DEF Stages
<1>10. ServersCounted'
  BY <1>1, <1>2, <1>6 DEF EInv, SockInv, ServersCounted, Stages, Looping
<1>11. NoStaleEvent'
  BY <1>1 DEF NoStaleEvent, Stages
<1> QED
  BY <1>4, <1>5, <1>8, <1>9, <1>10, <1>11 DEF EInv

\* The loops over the list.
LEMMA LoopSteps ==
    ASSUME EInv, OpenOne \/ BufferOne \/ ConnectOne \/ WatchOne \/ AskOne
    PROVE  EInv'
<1>1. /\ epc \in Stages \ {"hosts"} /\ epc' = epc /\ ei' = ei + 1
      /\ ei <= Len(host_list)
      /\ UNCHANGED <<setup, host_list, n_server, ev_ret, counts, sockets>>
      /\ epc # "sockets" => sock' = sock
      /\ epc # "add" => watched' = watched
      /\ asked' = asked \/ asked' = asked \cup {host_list[ei]}
      /\ epc = "sockets" => sock' = [sock EXCEPT ![host_list[ei]] = "open"]
      /\ epc = "add" => watched' = watched \cup {host_list[ei]}
  BY DEF OpenOne, BufferOne, ConnectOne, WatchOne, AskOne, Stages
<1>2. ei \in Nat \ {0} /\ Len(host_list) \in Nat /\ NHosts \in Nat
  BY EpollAssumption, FirstStep DEF EInv, ETypeOK
<1>3. /\ First(ei) = First(ei - 1) \cup {host_list[ei]}
      /\ host_list[ei] \notin First(ei - 1) /\ host_list[ei] \in Hosts
      /\ First(ei - 1) \subseteq Hosts
  <2>1. ei - 1 \in Nat /\ (ei - 1) + 1 = ei
    BY <1>2
  <2> QED
    BY <1>1, <2>1, FirstStep DEF EInv
<1>4. First(ei - 1)' = First(ei) /\ Listed' = Listed
  <2>1. ei' - 1 = ei /\ host_list' = host_list
    BY <1>1, <1>2
  <2> QED
    BY <2>1 DEF First, Listed
<1>5. sock' \in [Hosts -> {"none", "open", "closed"}]
      /\ watched' \subseteq Hosts
  BY <1>1, <1>3 DEF EInv, ETypeOK
<1>6. ETypeOK'
  <2>1. ei' \in 1 .. NHosts + 1
    BY <1>1, <1>2 DEF EInv, ListInv
  <2>2. asked' \subseteq Hosts
    BY <1>1, <1>3 DEF EInv, ETypeOK
  <2> QED
    BY <1>1, <1>5, <2>1, <2>2 DEF EInv, ETypeOK, setup, counts, sockets
<1>7. ListInv'
  BY <1>1, <1>2 DEF EInv, ListInv
<1>8. /\ epc = "sockets" => OpenHosts' = OpenHosts \cup {host_list[ei]}
      /\ epc # "sockets" => OpenHosts' = OpenHosts
  <2>1. CASE epc = "sockets"
    <3>1. /\ sock \in [Hosts -> {"none", "open", "closed"}]
          /\ sock' = [sock EXCEPT ![host_list[ei]] = "open"]
      BY <1>1, <2>1 DEF EInv, ETypeOK
    <3>2. \A h \in Hosts :
             sock'[h] = "open" <=> sock[h] = "open" \/ h = host_list[ei]
      BY <1>3, <3>1
    <3>3. OpenHosts' = {h \in Hosts : sock'[h] = "open"}
      BY DEF OpenHosts
    <3> QED
      BY <1>3, <2>1, <3>2, <3>3 DEF OpenHosts
  <2>2. CASE epc # "sockets"
    BY <1>1, <2>2 DEF OpenHosts
  <2> QED
    BY <2>1, <2>2
<1>9. SockInv'
  <2>1. CASE epc = "sockets"
    <3>1. OpenHosts = First(ei - 1) /\ Cardinality(OpenHosts) = ei - 1
      BY <2>1 DEF EInv, SockInv
    <3>2. OpenHosts' = First(ei) /\ Cardinality(First(ei)) = ei
      BY <1>2, <1>3, <1>8, <2>1, <3>1, HostsFinite
    <3>3. Cardinality(OpenHosts') = ei' - 1 /\ OpenHosts' = First(ei - 1)'
      BY <1>1, <1>2, <1>4, <3>2
    <3> QED
      BY <1>1, <2>1, <3>3 DEF EInv, SockInv, Stages
  <2>2. CASE epc # "sockets"
    BY <1>1, <1>4, <1>8, <2>2 DEF EInv, SockInv, Stages
  <2> QED
    BY <2>1, <2>2
<1>10. WatchInv'
  <2>1. CASE epc = "add"
    BY <1>1, <1>3, <1>4, <2>1 DEF EInv, WatchInv, Looping
  <2>2. CASE epc # "add"
    BY <1>1, <1>8, <2>2 DEF EInv, WatchInv, Looping, Stages
  <2> QED
    BY <2>1, <2>2
<1> QED
  BY <1>1, <1>6, <1>7, <1>9, <1>10
     DEF EInv, ServersCounted, NoStaleEvent, Looping, Stages

\* A failure or a signal leaves the program where nothing more is promised.
LEMMA LastSteps ==
    ASSUME EInv, SetupFails \/ EReadFails \/ ESigInt
    PROVE  EInv'
<1>1. /\ epc' \in EEnded
      /\ UNCHANGED <<setup, ei, host_list, sock, n_server, watched>>
      /\ UNCHANGED <<ev_ret, counts, asked, sockets>>
  BY DEF SetupFails, EReadFails, ESigInt, EEnded
<1>2. ETypeOK'
  BY <1>1 DEF EInv, ETypeOK, setup, counts, sockets
<1> QED
  BY <1>1, <1>2
     DEF EInv, ListInv, SockInv, WatchInv, ServersCounted, NoStaleEvent,
     EEnded, Stages, Looping

\* epoll_wait returns events about open sockets, each once.
LEMMA WaitSteps ==
    ASSUME EInv, EpollWait
    PROVE  EInv'
<1>1. /\ epc = "wait" /\ epc' = "event" /\ Ready # {}
      /\ UNCHANGED <<setup, ei, host_list, sock, n_server, watched>>
      /\ UNCHANGED <<counts, asked, sockets>>
  BY DEF EpollWait
<1>2. watched = OpenHosts /\ n_server \in Nat \ {0}
  BY <1>1 DEF EInv, ETypeOK, WatchInv, ServersCounted, Looping
<1>3. Ready \in SUBSET Hosts
  BY DEF EInv, ETypeOK, Ready
<1>4. PICK s \in SetToSeqs(Ready) :
         ev_ret' = SubSeq(s, 1, IF Len(s) <= n_server THEN Len(s) ELSE n_server)
  BY DEF EpollWait
<1>5. /\ ev_ret' \in Seq(Hosts) /\ ev_ret' # <<>> /\ IsInjective(ev_ret')
      /\ \A k \in DOMAIN ev_ret' : ev_ret'[k] \in Ready
  BY <1>1, <1>2, <1>3, <1>4, SomeEvents
<1>6. ETypeOK'
  BY <1>1, <1>5 DEF EInv, ETypeOK, setup, counts, sockets, Looping
<1>7. OpenHosts' = OpenHosts
  BY <1>1 DEF OpenHosts
<1>8. ListInv' /\ SockInv' /\ WatchInv' /\ ServersCounted'
  BY <1>1, <1>7
     DEF EInv, ListInv, SockInv, WatchInv, ServersCounted, Stages, Looping
<1>9. NoStaleEvent'
  <2>1. \A k \in DOMAIN ev_ret' :
           /\ sock'[ev_ret'[k]] = "open"
           /\ queued'[ev_ret'[k]] > 0 \/ ev_ret'[k] \in refused'
    BY <1>1, <1>2, <1>5 DEF Ready, OpenHosts, sockets
  <2> QED
    BY <1>5, <2>1 DEF NoStaleEvent
<1> QED
  BY <1>6, <1>8, <1>9 DEF EInv

\* What NoStaleEvent says of the event at the head and of those behind it.
LEMMA EventFacts ==
    ASSUME EInv, epc \in {"event", "count"}
    PROVE  /\ Head(ev_ret) \in Hosts /\ Head(ev_ret) = ev_ret[1]
           /\ sock[Head(ev_ret)] = "open"
           /\ Tail(ev_ret) \in Seq(Hosts) /\ IsInjective(Tail(ev_ret))
           /\ Len(ev_ret) # 1 => Tail(ev_ret) # <<>>
           /\ \A k \in DOMAIN Tail(ev_ret) :
                 /\ Tail(ev_ret)[k] # Head(ev_ret)
                 /\ Tail(ev_ret)[k] \in Hosts
                 /\ sock[Tail(ev_ret)[k]] = "open"
                 /\ queued[Tail(ev_ret)[k]] > 0 \/ Tail(ev_ret)[k] \in refused
<1>1. ev_ret \in Seq(Hosts) /\ ev_ret # <<>> /\ IsInjective(ev_ret)
  BY DEF EInv, ETypeOK, NoStaleEvent
<1>2. /\ Head(ev_ret) \in Hosts /\ Head(ev_ret) = ev_ret[1]
      /\ Tail(ev_ret) \in Seq(Hosts) /\ IsInjective(Tail(ev_ret))
      /\ Len(ev_ret) \in Nat \ {0} /\ Len(Tail(ev_ret)) = Len(ev_ret) - 1
      /\ DOMAIN ev_ret = 1 .. Len(ev_ret)
      /\ DOMAIN Tail(ev_ret) = 1 .. Len(ev_ret) - 1
      /\ \A k \in DOMAIN Tail(ev_ret) :
            /\ k + 1 \in DOMAIN ev_ret /\ Tail(ev_ret)[k] = ev_ret[k + 1]
            /\ Tail(ev_ret)[k] # Head(ev_ret) /\ Tail(ev_ret)[k] \in Hosts
  BY <1>1, TailInjective
<1>3. \A k \in DOMAIN ev_ret :
         /\ sock[ev_ret[k]] = "open"
         /\ k # 1 => queued[ev_ret[k]] > 0 \/ ev_ret[k] \in refused
  BY DEF EInv, NoStaleEvent
<1>4. 1 \in DOMAIN ev_ret /\ \A k \in DOMAIN Tail(ev_ret) : k + 1 # 1
  BY <1>2
<1>5. Len(ev_ret) # 1 => Tail(ev_ret) # <<>>
  <2>1. Len(<<>>) = 0
    OBVIOUS
  <2> QED
    BY <1>2, <2>1
<1> QED
  BY <1>2, <1>3, <1>4, <1>5

\* Sums stay within a long long.
LEMMA AddType == \A a, b \in Int : Add(a, b) \in 0 .. CountValues - 1
  BY EpollAssumption DEF Add

\* A datagram is taken from the socket of the event at the head.
LEMMA ReadSteps ==
    ASSUME EInv, ReadEvent
    PROVE  EInv'
<1> DEFINE h == Head(ev_ret)
<1>1. /\ epc = "event" /\ epc' = "count" /\ read_size > 0
      /\ UNCHANGED <<setup, ei, host_list, sock, n_server, watched, ev_ret>>
      /\ UNCHANGED <<read_count, asked, refused, arrivals>>
      /\ queued[h] > 0
      /\ queued' = [queued EXCEPT ![h] = @ - 1]
      /\ read_bytes' = [read_bytes EXCEPT
             ![h] = Add(@, IF len <= read_size THEN len ELSE read_size)]
  BY DEF ReadEvent
<1>2. /\ h \in Hosts /\ h = ev_ret[1]
      /\ \A k \in DOMAIN ev_ret : k # 1 => ev_ret[k] # h
      /\ ev_ret \in Seq(Hosts) /\ 1 \in DOMAIN ev_ret
  <2>1. /\ ev_ret \in Seq(Hosts) /\ ev_ret # <<>> /\ IsInjective(ev_ret)
    BY <1>1 DEF EInv, ETypeOK, NoStaleEvent
  <2>2. h \in Hosts /\ h = ev_ret[1] /\ 1 \in DOMAIN ev_ret
    BY <2>1
  <2> HIDE DEF h
  <2> QED
    BY <2>1, <2>2 DEF IsInjective
<1> HIDE DEF h
<1>3. queued' \in [Hosts -> 0 .. Room]
  BY <1>1, <1>2, EpollAssumption DEF EInv, ETypeOK
<1>4. read_bytes' \in [Hosts -> 0 .. CountValues - 1]
  <2>1. (IF len <= read_size THEN len ELSE read_size) \in Int
    BY EpollAssumption DEF EInv, ETypeOK
  <2>2. /\ read_bytes \in [Hosts -> 0 .. CountValues - 1]
        /\ read_bytes[h] \in Int
    BY <1>2, EpollAssumption DEF EInv, ETypeOK
  <2> QED
    BY <1>1, <1>2, <2>1, <2>2, AddType
<1>5. ETypeOK'
  BY <1>1, <1>3, <1>4 DEF EInv, ETypeOK, setup, Looping
<1>6. OpenHosts' = OpenHosts
  BY <1>1 DEF OpenHosts
<1>7. ListInv' /\ SockInv' /\ WatchInv' /\ ServersCounted'
  BY <1>1, <1>6
     DEF EInv, ListInv, SockInv, WatchInv, ServersCounted, Stages, Looping
<1>8. NoStaleEvent'
  <2>1. \A k \in DOMAIN ev_ret : k # 1 => queued'[ev_ret[k]] = queued[ev_ret[k]]
    BY <1>1, <1>2 DEF EInv, ETypeOK
  <2> QED
    BY <1>1, <2>1 DEF EInv, NoStaleEvent
<1> QED
  BY <1>5, <1>7, <1>8 DEF EInv

\* To the next event, which the one before has left as it was.
LEMMA CountSteps ==
    ASSUME EInv, CountRead
    PROVE  EInv'
<1> DEFINE h == Head(ev_ret)
<1>1. /\ epc = "count" /\ epc' \in {"wait", "event"}
      /\ epc' = "event" => Len(ev_ret) # 1
      /\ UNCHANGED <<setup, ei, host_list, sock, n_server, watched>>
      /\ UNCHANGED <<read_bytes, asked, sockets>>
      /\ read_count' = [read_count EXCEPT ![h] = Add(@, 1)]
      /\ ev_ret' = Tail(ev_ret)
  BY DEF CountRead, NextEvent
<1>2. /\ h \in Hosts
      /\ Tail(ev_ret) \in Seq(Hosts) /\ IsInjective(Tail(ev_ret))
      /\ Len(ev_ret) # 1 => Tail(ev_ret) # <<>>
      /\ \A k \in DOMAIN Tail(ev_ret) :
            /\ sock[Tail(ev_ret)[k]] = "open"
            /\ queued[Tail(ev_ret)[k]] > 0 \/ Tail(ev_ret)[k] \in refused
  BY <1>1, EventFacts
<1> HIDE DEF h
<1>3. read_count' \in [Hosts -> 0 .. CountValues - 1]
  <2>1. /\ read_count \in [Hosts -> 0 .. CountValues - 1]
        /\ read_count[h] \in Int /\ 1 \in Int
    BY <1>2, EpollAssumption DEF EInv, ETypeOK
  <2> QED
    BY <1>1, <1>2, <2>1, AddType
<1>4. ETypeOK'
  BY <1>1, <1>2, <1>3 DEF EInv, ETypeOK, setup, sockets, Looping
<1>5. OpenHosts' = OpenHosts
  BY <1>1 DEF OpenHosts
<1>6. ListInv' /\ SockInv' /\ WatchInv' /\ ServersCounted'
  BY <1>1, <1>5
     DEF EInv, ListInv, SockInv, WatchInv, ServersCounted, Stages, Looping
<1>7. NoStaleEvent'
  BY <1>1, <1>2 DEF NoStaleEvent, sockets
<1> QED
  BY <1>4, <1>6, <1>7 DEF EInv

\* A socket is closed: its event was the only one about it.
LEMMA CloseSteps ==
    ASSUME EInv, CloseHost
    PROVE  EInv'
<1> DEFINE h == Head(ev_ret)
<1>1. /\ epc = "event" /\ epc' \in {"wait", "event", "done"}
      /\ epc' = "event" => Len(ev_ret) # 1
      /\ epc' # "done" => n_server' # 0
      /\ UNCHANGED <<setup, ei, host_list, counts, asked, sockets>>
      /\ sock' = [sock EXCEPT ![h] = "closed"]
      /\ watched' = watched \ {h}
      /\ n_server' = n_server - 1
      /\ ev_ret' = Tail(ev_ret)
  BY DEF CloseHost, NextEvent
<1>2. /\ h \in Hosts /\ sock[h] = "open"
      /\ Tail(ev_ret) \in Seq(Hosts) /\ IsInjective(Tail(ev_ret))
      /\ Len(ev_ret) # 1 => Tail(ev_ret) # <<>>
      /\ \A k \in DOMAIN Tail(ev_ret) :
            /\ Tail(ev_ret)[k] # h /\ Tail(ev_ret)[k] \in Hosts
            /\ sock[Tail(ev_ret)[k]] = "open"
            /\ queued[Tail(ev_ret)[k]] > 0 \/ Tail(ev_ret)[k] \in refused
  BY <1>1, EventFacts
<1> HIDE DEF h
<1>3. /\ n_server \in Nat \ {0} /\ n_server <= NHosts
      /\ n_server = Cardinality(OpenHosts) + (NHosts - Len(host_list))
      /\ watched = OpenHosts /\ NHosts \in Nat /\ Len(host_list) \in Nat
  BY <1>1, EpollAssumption, FirstStep
     DEF EInv, ETypeOK, WatchInv, ServersCounted, Looping
<1>4. OpenHosts' = OpenHosts \ {h} /\ h \in OpenHosts
  <2>1. /\ sock \in [Hosts -> {"none", "open", "closed"}]
        /\ sock' = [sock EXCEPT ![h] = "closed"]
    BY <1>1 DEF EInv, ETypeOK
  <2>2. \A g \in Hosts : sock'[g] = "open" <=> sock[g] = "open" /\ g # h
    BY <1>2, <2>1
  <2>3. OpenHosts' = {g \in Hosts : sock'[g] = "open"}
    BY DEF OpenHosts
  <2> QED
    BY <1>2, <2>2, <2>3 DEF OpenHosts
<1>5. /\ Cardinality(OpenHosts) \in Nat
      /\ Cardinality(OpenHosts') = Cardinality(OpenHosts) - 1
  <2>1. OpenHosts \in SUBSET Hosts
    BY DEF OpenHosts
  <2> QED
    BY <1>4, <2>1, HostsFinite
<1>6. ETypeOK'
  <2>1. sock' \in [Hosts -> {"none", "open", "closed"}]
    BY <1>1, <1>2 DEF EInv, ETypeOK
  <2>2. n_server' \in 0 .. NHosts /\ watched' \subseteq Hosts
    BY <1>1, <1>3 DEF EInv, ETypeOK
  <2> QED
    BY <1>1, <1>2, <2>1, <2>2
       DEF EInv, ETypeOK, setup, counts, sockets, Looping, EEnded
<1>7. ListInv' /\ SockInv' /\ WatchInv'
  BY <1>1, <1>3, <1>4 DEF EInv, ListInv, SockInv, WatchInv, Stages, Looping
<1>8. ServersCounted'
  BY <1>1, <1>3, <1>5 DEF ServersCounted, Looping
<1>9. NoStaleEvent'
  <2>1. \A k \in DOMAIN ev_ret' : sock'[ev_ret'[k]] = "open"
    BY <1>1, <1>2 DEF EInv, ETypeOK
  <2> QED
    BY <1>1, <1>2, <2>1 DEF NoStaleEvent, sockets
<1> QED
  BY <1>6, <1>7, <1>8, <1>9 DEF EInv

\* More to read changes no event.
LEMMA HostSteps ==
    ASSUME EInv, NEW h \in Hosts, HostSends(h) \/ HostRefuses(h)
    PROVE  EInv'
<1>1. UNCHANGED <<setup, epc, ei, host_list, sock, n_server, watched>>
      /\ UNCHANGED <<ev_ret, counts, asked>>
  BY DEF HostSends, HostRefuses
<1>2. /\ queued' \in [Hosts -> 0 .. Room]
      /\ arrivals' \in [Hosts -> 0 .. CountValues - 1]
      /\ refused' \subseteq Hosts /\ refused \subseteq refused'
      /\ \A g \in Hosts : queued[g] > 0 => queued'[g] > 0
  <2>1. /\ queued \in [Hosts -> 0 .. Room] /\ Room \in Nat
        /\ arrivals \in [Hosts -> 0 .. CountValues - 1]
        /\ refused \subseteq Hosts /\ CountValues \in Nat
    BY EpollAssumption DEF EInv, ETypeOK
  <2>2. CASE HostSends(h)
    <3>1. Add(arrivals[h], 1) \in 0 .. CountValues - 1
      <4>1. arrivals[h] \in Int /\ 1 \in Int
        BY <2>1
      <4> QED
        BY <4>1, AddType
    <3> QED
      BY <2>1, <2>2, <3>1 DEF HostSends
  <2>3. CASE HostRefuses(h)
    BY <2>1, <2>3 DEF HostRefuses
  <2> QED
    BY <2>2, <2>3
<1>3. ETypeOK'
  BY <1>1, <1>2 DEF EInv, ETypeOK, setup, counts
<1>4. /\ OpenHosts' = OpenHosts /\ Listed' = Listed
      /\ First(ei - 1)' = First(ei - 1)
  BY <1>1 DEF OpenHosts, Listed, First
<1>5. ListInv' /\ SockInv' /\ WatchInv' /\ ServersCounted'
  BY <1>1, <1>4 DEF EInv, ListInv, SockInv, WatchInv, ServersCounted
<1>6. NoStaleEvent'
  BY <1>1, <1>2 DEF EInv, ETypeOK, NoStaleEvent
<1> QED
  BY <1>3, <1>5, <1>6 DEF EInv

\* Every step keeps the invariant.
LEMMA EInvNext == EInv /\ [ENext]_evars => EInv'
<1> SUFFICES ASSUME EInv, [ENext]_evars PROVE EInv'
  OBVIOUS
<1>1. CASE UNCHANGED evars
  <2>1. /\ UNCHANGED <<setup, epc, ei, host_list, sock, n_server, watched>>
        /\ UNCHANGED <<ev_ret, counts, asked, sockets>>
    BY <1>1 DEF evars
  <2>2. /\ OpenHosts' = OpenHosts /\ Listed' = Listed
        /\ First(ei - 1)' = First(ei - 1)
    BY <2>1 DEF OpenHosts, Listed, First
  <2> QED
    BY <2>1, <2>2
       DEF EInv, ETypeOK, ListInv, SockInv, WatchInv, ServersCounted,
       NoStaleEvent, setup, counts, sockets
<1> QED
  BY <1>1, ListSteps, StageSteps, LoopSteps, LastSteps, WaitSteps, ReadSteps,
     CountSteps, CloseSteps, HostSteps DEF ENext, EpollStep

-----------------------------------------------------------------------------
(***************************************************************************)
(* Sums that wrap.                                                         *)
(***************************************************************************)

\* A larger multiple is larger by at least the divisor.
LEMMA MultipleGap ==
    ASSUME NEW a \in Int, NEW b \in Int, NEW n \in Nat \ {0}, a < b
    PROVE  n * a + n <= n * b
<1>1. a + 1 <= b
  OBVIOUS
<1>2. n * (a + 1) <= n * b
  BY <1>1
<1>3. n * (a + 1) = n * a + n
  OBVIOUS
<1> QED
  BY <1>2, <1>3

\* A number has one rest.
LEMMA OneRest ==
    ASSUME NEW n \in Nat \ {0}, NEW a \in Int, NEW b \in Int,
           NEW r \in 0 .. n - 1, NEW s \in 0 .. n - 1, n * a + r = n * b + s
    PROVE  r = s
<1> DEFINE x == n * a
           y == n * b
<1>1. x \in Int /\ y \in Int /\ x + r = y + s
  OBVIOUS
<1>2. (a < b => x + n <= y) /\ (b < a => y + n <= x) /\ (a = b => x = y)
  BY MultipleGap
<1> HIDE DEF x, y
<1> QED
  BY <1>1, <1>2

\* Division splits an integer into a multiple and a rest.
LEMMA IntWithRest ==
    ASSUME NEW x \in Int, NEW n \in Nat \ {0}
    PROVE  /\ x \div n \in Int /\ x % n \in 0 .. n - 1
           /\ x = n * (x \div n) + (x % n)
  OBVIOUS

\* Multiples of the divisor do not change the rest.
LEMMA ModShift ==
    ASSUME NEW n \in Nat \ {0}, NEW x \in Int, NEW k \in Int
    PROVE  (x + (n * k)) % n = x % n
<1> DEFINE y == x + (n * k)
           p == x \div n
           q == y \div n
           r == x % n
           t == y % n
<1>1. y \in Int
  OBVIOUS
<1>2. p \in Int /\ r \in 0 .. n - 1 /\ x = n * p + r
  BY IntWithRest
<1>3. q \in Int /\ t \in 0 .. n - 1 /\ y = n * q + t
  BY <1>1, IntWithRest
<1>4. y = x + (n * k)
  OBVIOUS
<1> HIDE DEF y, p, q, r, t
<1>5. n * (p + k) = n * p + n * k
  BY <1>2
<1>6. n * (p + k) + r = n * q + t
  BY <1>2, <1>3, <1>4, <1>5
<1>7. p + k \in Int
  BY <1>2
<1>8. r = t
  BY <1>2, <1>3, <1>6, <1>7, OneRest
<1> QED
  BY <1>8 DEF r, t, y

\* A rest taken on the way does not change a sum.
LEMMA ModSum ==
    ASSUME NEW n \in Nat \ {0}, NEW a \in Int, NEW b \in Int
    PROVE  ((a % n) + b) % n = (a + b) % n
<1> DEFINE q == a \div n
<1>1. q \in Int /\ a % n \in Int /\ a = n * q + (a % n)
  BY IntWithRest
<1> HIDE DEF q
<1> DEFINE c == (a % n) + b
<1>2. c \in Int /\ a + b = c + (n * q)
  BY <1>1
<1> HIDE DEF c
<1>3. (c + (n * q)) % n = c % n
  BY <1>1, <1>2, ModShift
<1> QED
  BY <1>2, <1>3 DEF c

\* The same for a product.
LEMMA ModProduct ==
    ASSUME NEW n \in Nat \ {0}, NEW a \in Int, NEW b \in Int, NEW s \in Int
    PROVE  (((a % n) + b) * s) % n = ((a + b) * s) % n
<1> DEFINE q == a \div n
           r == a % n
<1>1. q \in Int /\ r \in Int /\ a = n * q + r
  BY IntWithRest
<1> HIDE DEF q, r
<1>2. (a + b) * s = ((r + b) * s) + (n * (q * s))
  <2>1. (a + b) * s = ((n * q) + (r + b)) * s
    BY <1>1
  <2>2. ((n * q) + (r + b)) * s = (n * q) * s + (r + b) * s
    BY <1>1
  <2>3. (n * q) * s = n * (q * s)
    BY <1>1
  <2>4. (r + b) * s \in Int /\ n * (q * s) \in Int
    BY <1>1
  <2> QED
    BY <2>1, <2>2, <2>3, <2>4
<1>3. (r + b) * s \in Int /\ q * s \in Int
  BY <1>1
<1> DEFINE u == (r + b) * s
           v == q * s
<1>4. u \in Int /\ v \in Int /\ (a + b) * s = u + (n * v)
  BY <1>2, <1>3
<1> HIDE DEF u, v
<1>5. (u + (n * v)) % n = u % n
  BY <1>4, ModShift
<1> QED
  BY <1>4, <1>5 DEF u, r

-----------------------------------------------------------------------------
(***************************************************************************)
(* The counters, modulo the values of a long long.                         *)
(***************************************************************************)
SizeRead == IF len <= read_size THEN len ELSE read_size
Taken(h) == arrivals[h] - queued[h]
Late(h)  == (Taken(h) - read_count[h]) % CountValues

\* Only the datagram between read() and its counting is missing, and its bytes
\* are not.
Accounted(h) ==
    /\ Late(h) \in {0, 1 % CountValues}
    /\ Late(h) # 0 => /\ epc \in {"count", "summary"} /\ ev_ret # <<>>
                      /\ h = Head(ev_ret)
    /\ (epc = "count" /\ h = Head(ev_ret)) => Late(h) = 1 % CountValues
    /\ read_size > 0 =>
          read_bytes[h] = (Taken(h) * SizeRead) % CountValues

AccInv == \A h \in Hosts : Accounted(h)

\* The counters are integers.
LEMMA CounterTypes ==
    ASSUME ETypeOK
    PROVE  /\ CountValues \in Nat \ {0} /\ SizeRead \in Int
           /\ \A h \in Hosts : /\ arrivals[h] \in Int /\ queued[h] \in Int
                               /\ read_count[h] \in Int
                               /\ read_bytes[h] \in Int
                               /\ Taken(h) \in Int
  BY EpollAssumption DEF ETypeOK, SizeRead, Taken

\* The counters agree at the start.
LEMMA AccInit == EInit => AccInv
<1> SUFFICES ASSUME EInit PROVE AccInv
  OBVIOUS
<1>1. CountValues \in Nat \ {0} /\ SizeRead \in Int
  BY EInvInit, CounterTypes DEF EInv
<1>2. 0 % CountValues = 0 /\ 0 * SizeRead = 0
  BY <1>1
<1>3. \A h \in Hosts : /\ Taken(h) = 0 /\ Late(h) = 0 /\ read_bytes[h] = 0
  BY <1>2 DEF EInit, Taken, Late
<1>4. epc = "hosts"
  BY DEF EInit
<1> QED
  BY <1>2, <1>3, <1>4 DEF AccInv, Accounted

\* A number that wraps as it grows by one, less another one that grows too.
LEMMA BothGrow ==
    ASSUME NEW n \in Nat \ {0}, NEW a \in Int, NEW q \in Int, NEW c \in Int
    PROVE  ((((a + 1) % n) - (q + 1)) - c) % n = ((a - q) - c) % n
<1> DEFINE p == a + 1
           d == (0 - (q + 1)) - c
           r == p % n
<1>1. p \in Int /\ d \in Int /\ p + d = (a - q) - c
  OBVIOUS
<1>2. r \in Int
  BY <1>1, IntWithRest
<1>3. r = p % n /\ p = a + 1
  OBVIOUS
<1> HIDE DEF p, r
<1>4. (r - (q + 1)) - c = r + d
  BY <1>1, <1>2
<1> HIDE DEF d
<1>5. ((p % n) + d) % n = (p + d) % n
  BY <1>1, ModSum, Zenon
<1> QED
  BY <1>1, <1>3, <1>4, <1>5, Zenon

\* The same for a multiple of the difference.
LEMMA BothGrowTimes ==
    ASSUME NEW n \in Nat \ {0}, NEW a \in Int, NEW q \in Int, NEW z \in Int
    PROVE  ((((a + 1) % n) - (q + 1)) * z) % n = ((a - q) * z) % n
<1> DEFINE p == a + 1
           b == 0 - (q + 1)
           r == p % n
<1>1. p \in Int /\ b \in Int /\ p + b = a - q
  OBVIOUS
<1>2. r \in Int
  BY <1>1, IntWithRest
<1>3. r = p % n /\ p = a + 1
  OBVIOUS
<1> HIDE DEF p, r
<1>4. r - (q + 1) = r + b
  BY <1>2
<1> HIDE DEF b
<1>5. p \in Int /\ b \in Int
  BY <1>1
<1>6. (((p % n) + b) * z) % n = ((p + b) * z) % n
  BY <1>5, ModProduct, Zenon
<1> QED
  BY <1>1, <1>3, <1>4, <1>6, Zenon

\* A datagram that arrives is neither taken nor counted.
LEMMA AccSends ==
    ASSUME ETypeOK, AccInv, NEW g \in Hosts, HostSends(g)
    PROVE  AccInv'
<1>1. /\ UNCHANGED <<setup, epc, ev_ret, counts>>
      /\ queued' = [queued EXCEPT ![g] = @ + 1]
      /\ arrivals' = [arrivals EXCEPT ![g] = Add(@, 1)]
  BY DEF HostSends
<1>2. /\ CountValues \in Nat \ {0} /\ SizeRead \in Int
      /\ SizeRead' = SizeRead
  BY <1>1, CounterTypes DEF setup, SizeRead
<1>3. /\ arrivals \in [Hosts -> 0 .. CountValues - 1]
      /\ queued \in [Hosts -> 0 .. Room]
  BY DEF ETypeOK
<1>4. ASSUME NEW h \in Hosts
      PROVE  /\ Late(h)' = Late(h)
             /\ (Taken(h)' * SizeRead) % CountValues
                    = (Taken(h) * SizeRead) % CountValues
  <2>1. CASE h # g
    BY <1>1, <1>3, <2>1 DEF Taken, Late, counts
  <2>2. CASE h = g
    <3>1. /\ arrivals'[h] = (arrivals[h] + 1) % CountValues
          /\ queued'[h] = queued[h] + 1 /\ read_count' = read_count
      BY <1>1, <1>3, <2>2 DEF Add, counts
    <3>2. /\ arrivals[h] \in Int /\ queued[h] \in Int
          /\ read_count[h] \in Int
      BY CounterTypes
    <3> DEFINE a == arrivals[h]
               q == queued[h]
               c == read_count[h]
    <3>3. /\ ((((a + 1) % CountValues) - (q + 1)) - c) % CountValues
                 = ((a - q) - c) % CountValues
          /\ ((((a + 1) % CountValues) - (q + 1)) * SizeRead) % CountValues
                 = ((a - q) * SizeRead) % CountValues
      <4> HIDE DEF a, q, c
      <4>1. a \in Int /\ q \in Int /\ c \in Int
        BY <3>2 DEF a, q, c
      <4>2. CountValues \in Nat \ {0} /\ SizeRead \in Int
        BY <1>2
      <4> DEFINE n == CountValues
                 z == SizeRead
      <4> HIDE DEF n, z
      <4>3. /\ a \in Int /\ q \in Int /\ c \in Int
            /\ n \in Nat \ {0} /\ z \in Int
        BY <4>1, <4>2 DEF n, z
      <4>4. ((((a + 1) % n) - (q + 1)) - c) % n = ((a - q) - c) % n
        BY <4>3, BothGrow, Zenon
      <4>5. ((((a + 1) % n) - (q + 1)) * z) % n = ((a - q) * z) % n
        BY <4>3, BothGrowTimes, Zenon
      <4> QED
        BY <4>4, <4>5, Zenon DEF n, z
    <3>4. /\ Taken(h)' = ((a + 1) % CountValues) - (q + 1)
          /\ Taken(h) = a - q
          /\ Late(h)' = (Taken(h)' - c) % CountValues
          /\ Late(h) = (Taken(h) - c) % CountValues
      BY <3>1 DEF Taken, Late
    <3> HIDE DEF a, q, c
    <3> QED
      BY <3>3, <3>4, Zenon
  <2> QED
    BY <2>1, <2>2
<1>5. /\ epc' = epc /\ ev_ret' = ev_ret /\ read_size' = read_size
      /\ read_bytes' = read_bytes
  BY <1>1 DEF setup, counts
<1> SUFFICES ASSUME NEW h \in Hosts PROVE Accounted(h)'
  BY DEF AccInv
<1>6. Accounted(h)
  BY DEF AccInv
<1> QED
  BY <1>2, <1>4, <1>5, <1>6 DEF Accounted

\* A datagram that is taken is late and its bytes are counted.
LEMMA AccReads ==
    ASSUME EInv, AccInv, ReadEvent
    PROVE  AccInv'
<1> DEFINE g == Head(ev_ret)
<1>1. /\ epc = "event" /\ epc' = "count" /\ read_size > 0
      /\ UNCHANGED <<setup, ev_ret, read_count, arrivals>>
      /\ queued' = [queued EXCEPT ![g] = @ - 1]
      /\ read_bytes' = [read_bytes EXCEPT ![g] = Add(@, SizeRead)]
      /\ g \in Hosts /\ ev_ret # <<>>
  BY EventFacts DEF ReadEvent, SizeRead, EInv, NoStaleEvent
<1> HIDE DEF g
<1>2. /\ CountValues \in Nat \ {0} /\ SizeRead \in Int
      /\ SizeRead' = SizeRead /\ ETypeOK
  BY <1>1, CounterTypes DEF setup, SizeRead, EInv
<1>3. /\ read_bytes \in [Hosts -> 0 .. CountValues - 1]
      /\ queued \in [Hosts -> 0 .. Room]
  BY <1>2 DEF ETypeOK
<1> SUFFICES ASSUME NEW h \in Hosts PROVE Accounted(h)'
  BY DEF AccInv
<1>4. /\ Accounted(h) /\ Late(h) = 0
      /\ read_bytes[h] = (Taken(h) * SizeRead) % CountValues
  BY <1>1 DEF AccInv, Accounted
<1>5. CASE h # g
  <2>1. /\ Late(h)' = Late(h) /\ Taken(h)' = Taken(h)
        /\ read_bytes'[h] = read_bytes[h]
    BY <1>1, <1>3, <1>5 DEF Late, Taken
  <2> QED
    BY <1>1, <1>2, <1>4, <1>5, <2>1 DEF Accounted, g, setup
<1>6. CASE h = g
  <2> DEFINE t == Taken(h)
             c == read_count[h]
             n == CountValues
             z == SizeRead
  <2>1. t \in Int /\ c \in Int /\ n \in Nat \ {0} /\ z \in Int
    BY <1>2, CounterTypes
  <2>2. arrivals[h] \in Int /\ queued[h] \in Int
    BY <1>2, CounterTypes
  <2>3. /\ Taken(h)' = t + 1 /\ Late(h)' = (Taken(h)' - c) % n
        /\ Late(h) = (t - c) % n
    BY <1>1, <1>3, <1>6, <2>2 DEF Taken, Late
  <2>4. read_bytes'[h] = (read_bytes[h] + z) % n
    BY <1>1, <1>3, <1>6 DEF Add
  <2> HIDE DEF t, c, n, z
  <2>5. Late(h)' = 1 % n
    <3> DEFINE x == t - c
    <3>1. x \in Int /\ 1 \in Int /\ x % n = 0 /\ (t + 1) - c = x + 1
      BY <1>4, <2>1, <2>3
    <3> HIDE DEF x
    <3>2. ((x % n) + 1) % n = (x + 1) % n
      BY <2>1, <3>1, ModSum
    <3>3. (0 + 1) % n = 1 % n
      OBVIOUS
    <3> QED
      BY <2>3, <3>1, <3>2, <3>3
  <2>6. read_bytes'[h] = (Taken(h)' * z) % n
    <3> DEFINE x == t * z
    <3>1. x \in Int /\ (t + 1) * z = x + z
      BY <2>1
    <3>2. read_bytes[h] = x % n
      BY <1>4 DEF t, z, n
    <3> HIDE DEF x
    <3>3. ((x % n) + z) % n = (x + z) % n
      BY <2>1, <3>1, ModSum
    <3> QED
      BY <2>3, <2>4, <3>1, <3>2, <3>3
  <2> QED
    BY <1>1, <1>2, <1>6, <2>5, <2>6 DEF Accounted, g, n, z
<1> QED
  BY <1>5, <1>6

\* A counter that was one behind and grows by one.
LEMMA CaughtUp ==
    ASSUME NEW n \in Nat \ {0}, NEW t \in Int, NEW c \in Int,
           (t - c) % n = 1 % n
    PROVE  (t - ((c + 1) % n)) % n = 0
<1> DEFINE p == c + 1
           k == p \div n
           r == p % n
           x == t - c
<1>1. /\ p \in Int /\ x \in Int /\ t - p = x + (0 - 1) /\ 0 - 1 \in Int
      /\ 1 \in Int /\ x % n = 1 % n
  OBVIOUS
<1>2. r = p % n /\ p = c + 1
  OBVIOUS
<1> HIDE DEF p, x
<1>3. k \in Int /\ r \in Int /\ p = n * k + r
  BY <1>1, IntWithRest
<1> HIDE DEF k, r
<1>4. t - r = (t - p) + (n * k) /\ t - p \in Int
  BY <1>1, <1>3
<1>5. ((t - p) + (n * k)) % n = (t - p) % n
  BY <1>3, <1>4, ModShift
<1>6. ((x % n) + (0 - 1)) % n = (x + (0 - 1)) % n
  BY <1>1, ModSum
<1>7. ((1 % n) + (0 - 1)) % n = (1 + (0 - 1)) % n
  BY <1>1, ModSum
<1>8. (1 + (0 - 1)) % n = 0
  OBVIOUS
<1> QED
  BY <1>1, <1>2, <1>4, <1>5, <1>6, <1>7, <1>8

\* Counting the datagram makes it late no longer.
LEMMA AccCounts ==
    ASSUME EInv, AccInv, CountRead
    PROVE  AccInv'
<1> DEFINE g == Head(ev_ret)
<1>1. /\ epc = "count" /\ epc' \in {"wait", "event"}
      /\ UNCHANGED <<setup, read_bytes, arrivals, queued>>
      /\ read_count' = [read_count EXCEPT ![g] = Add(@, 1)]
      /\ g \in Hosts
  BY EventFacts DEF CountRead, NextEvent, sockets
<1>2. /\ CountValues \in Nat \ {0} /\ SizeRead' = SizeRead
      /\ read_count \in [Hosts -> 0 .. CountValues - 1] /\ ETypeOK
  BY <1>1, CounterTypes DEF setup, SizeRead, EInv, ETypeOK
<1> SUFFICES ASSUME NEW h \in Hosts PROVE Accounted(h)'
  BY DEF AccInv
<1>3. Accounted(h) /\ Taken(h)' = Taken(h) /\ read_bytes'[h] = read_bytes[h]
  BY <1>1 DEF AccInv, Taken
<1>4. Late(h)' = 0
  <2>1. CASE h # g
    <3>1. Late(h)' = Late(h)
      BY <1>1, <1>2, <1>3, <2>1 DEF Late
    <3>2. Late(h) = 0
      BY <1>3, <2>1 DEF Accounted
    <3> QED
      BY <3>1, <3>2
  <2>2. CASE h = g
    <3> DEFINE t == Taken(h)
               c == read_count[h]
               n == CountValues
    <3>1. t \in Int /\ c \in Int /\ n \in Nat \ {0}
      BY <1>2, CounterTypes
    <3>2. /\ Late(h)' = (t - ((c + 1) % n)) % n /\ (t - c) % n = 1 % n
      BY <1>1, <1>2, <1>3, <2>2 DEF Late, Accounted, Add
    <3> HIDE DEF t, c, n
    <3> QED
      BY <3>1, <3>2, CaughtUp
  <2> QED
    BY <2>1, <2>2
<1> QED
  BY <1>1, <1>2, <1>3, <1>4 DEF Accounted, setup

\* Every step keeps the counters together.
LEMMA AccNext == EInv /\ AccInv /\ [ENext]_evars => AccInv'
<1> SUFFICES ASSUME EInv, AccInv, [ENext]_evars PROVE AccInv'
  OBVIOUS
<1>1. CASE \E g \in Hosts : HostSends(g)
  BY <1>1, AccSends DEF EInv
<1>2. CASE \/ UNCHANGED evars \/ SetupFails \/ EReadFails \/ ESigInt
           \/ NewHost \/ NextStage \/ OpenOne \/ BufferOne \/ ConnectOne
           \/ WatchOne \/ AskOne \/ EpollWait \/ CloseHost
           \/ \E g \in Hosts : HostRefuses(g)
  <2>1. UNCHANGED <<setup, counts, arrivals, queued>>
    BY <1>2 DEF evars, sockets, SetupFails, EReadFails, ESigInt, NewHost,
       NextStage, OpenOne, BufferOne, ConnectOne, WatchOne, AskOne, EpollWait,
       CloseHost, HostRefuses
  <2>2. \/ epc' = epc /\ ev_ret' = ev_ret
        \/ epc # "count" /\ epc # "summary" /\ epc' # "count"
        \/ epc = "count" /\ epc' = "summary" /\ ev_ret' = ev_ret
    BY <1>2 DEF evars, SetupFails, EReadFails, ESigInt, NewHost,
       NextStage, OpenOne, BufferOne, ConnectOne, WatchOne, AskOne, EpollWait,
       CloseHost, HostRefuses, NextEvent, Stages, EEnded
  <2> SUFFICES ASSUME NEW h \in Hosts PROVE Accounted(h)'
    BY DEF AccInv
  <2>3. /\ Accounted(h) /\ Late(h)' = Late(h) /\ Taken(h)' = Taken(h)
        /\ SizeRead' = SizeRead /\ read_size' = read_size
        /\ read_bytes' = read_bytes
    BY <2>1 DEF AccInv, Late, Taken, SizeRead, setup, counts
  <2> QED
    BY <2>2, <2>3 DEF Accounted
<1> QED
  BY <1>1, <1>2, AccReads, AccCounts DEF ENext, EpollStep

\* epoll-client's variables keep their types, for any number of arguments.
THEOREM ETypeCorrect == ESpec => []ETypeOK
<1>1. EInv => ETypeOK
  BY DEF EInv
<1> QED
  BY <1>1, EInvInit, EInvNext, PTL DEF ESpec

\* Every event still to be handled is about an open socket that its read()
\* will not block on, although handling the ones before has closed sockets.
THEOREM EventsFresh == ESpec => []NoStaleEvent
<1>1. EInv => NoStaleEvent
  BY DEF EInv
<1> QED
  BY <1>1, EInvInit, EInvNext, PTL DEF ESpec

\* n_server counts the open sockets and the arguments that were dropped for
\* lack of memory, and the program waits only while it is not 0.
THEOREM CountCorrect == ESpec => []ServersCounted
<1>1. EInv => ServersCounted
  BY DEF EInv
<1> QED
  BY <1>1, EInvInit, EInvNext, PTL DEF ESpec

\* A summary counts every datagram that was taken from a socket, except the
\* one that SIGINT found between read() and its counting, though the counters
\* wrap.
THEOREM AccountingCorrect == ESpec => []HostAccounting
<1>1. AccInv => HostAccounting
  BY DEF AccInv, Accounted, HostAccounting, Late, Taken, SizeRead
<1> QED
  BY <1>1, EInvInit, EInvNext, AccInit, AccNext, PTL DEF ESpec
=============================================================================
