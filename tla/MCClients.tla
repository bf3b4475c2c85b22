------------------------------ MODULE MCClients ------------------------------
(***************************************************************************)
(* The two small clients, checked in one run: a behaviour is of one of     *)
(* them, and the other one has ended before it began.                      *)
(***************************************************************************)
EXTENDS Client, EpollClient

\* Bytes have 2 values, an unsigned long has 5 of them and an int 4 bits.  As
\* the length of a datagram, 0 is nothing, 3 is shorter than a number, 5 is
\* long enough, and 22 is cut to 6 and cannot be reached by the counter.
SomeMaxes == {0, 3, 5, 22}

\* In range; too large; negative as an int; in range only as an int.
SomeTimes == {2, 5, 9, 17}

\* -b: huge as a size_t, nothing, less than a datagram, a datagram.
SomeSizes == {-1, 0, 1, 2}

CIdle == CInit /\ cpc = "failed" /\ max_read_counter = 0 /\ read_buf = 0
               /\ flow_ctrl_value = 5 /\ ~do_flow_ctrl /\ ~ignore_seq_num_error
EIdle == /\ read_size = 1 /\ len = 1 /\ epc = "done" /\ ei = 1
         /\ host_list = <<>> /\ sock = [h \in Hosts |-> "none"]
         /\ n_server = 0 /\ watched = {} /\ ev_ret = <<>>
         /\ read_bytes = [h \in Hosts |-> 0] /\ read_count = read_bytes
         /\ asked = {} /\ queued = read_bytes /\ refused = {}
         /\ arrivals = read_bytes

\* The pause time matters with -f only, and what is in the buffer before the
\* first datagram only when that is short.
CStarts == CInit /\ (~do_flow_ctrl => flow_ctrl_value = 2)
                 /\ read_buf \in {0, Modulus - 1}
                 /\ (AskedLength >= NumLen => read_buf = 0)

ClientsSpec ==
    /\ (CStarts /\ EIdle) \/ (CIdle /\ EInit)
    /\ [][\/ CNext /\ UNCHANGED evars
          \/ ENext /\ UNCHANGED cvars]_<<cvars, evars>>
    /\ CTraffic /\ WF_evars(EpollStep)
=============================================================================
