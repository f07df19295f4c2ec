---------------------------- MODULE MCWorkerPool ----------------------------
(***************************************************************************)
(* Datagrams, clients and configurations for the runs of WorkerPool.       *)
(***************************************************************************)
EXTENDS WorkerPool

Request(op, exists, opts) ==
  [op |-> op, strings |-> TRUE, mode |-> "octet", path |-> TRUE, pattern |-> TRUE,
   exists |-> exists, options |-> opts]

SomeArrivals ==
  { [client |-> "c1", datagram |-> Request("rrq", FALSE, << <<"blksize", 8>>, <<"multicast", 1>> >>)],
    [client |-> "c1", datagram |-> Request("wrq", TRUE, << <<"tsize", NonNumeric>>, <<"windowsize", 4>> >>)],
    [client |-> "c2", datagram |-> [Request("wrq", FALSE, << <<"timeout", 0>> >>) EXCEPT !.pattern = FALSE]],
    [client |-> "c2", datagram |-> Request("short", FALSE, <<>>)],
    [client |-> "c2", datagram |-> Request("other", FALSE, <<>>)] }

SomeHash == [c \in {"c1", "c2"} |-> IF c = "c1" THEN 5 ELSE 8]

Setting(w, o, size, s) ==
  [base |-> [writes |-> w, overwrite |-> o, multicast |-> FALSE, windowsize |-> size],
   strategy |-> s]

SomeConfigs ==
  { Setting(TRUE, FALSE, 8, "ClientHash"), Setting(TRUE, TRUE, 1, "RoundRobin"),
    Setting(FALSE, FALSE, 1, "LeastLoaded") }
=============================================================================
