----------------------------- MODULE MCListener -----------------------------
(***************************************************************************)
(* Datagrams and configurations for the runs of Listener.                  *)
(***************************************************************************)
EXTENDS Listener

Good(op, opts) ==
  [op |-> op, strings |-> TRUE, mode |-> "octet", path |-> TRUE, pattern |-> TRUE,
   exists |-> FALSE, options |-> opts]

SomeDatagrams ==
  { Good("short", <<>>),
    Good("other", <<>>),
    [Good("rrq", <<>>) EXCEPT !.strings = FALSE],
    Good("rrq", << <<"blksize", 65468>>, <<"timeout", 255>>, <<"tsize", NonNumeric>> >>),
    Good("rrq", << <<"multicast", NonNumeric>> >>),
    [Good("rrq", << <<"other", 1>> >>) EXCEPT !.path = FALSE],
    [Good("rrq", <<>>) EXCEPT !.mode = "invalid"],
    Good("wrq", << <<"windowsize", 0>>, <<"tsize", 7>> >>),
    [Good("wrq", << <<"windowsize", 4>>, <<"windowsize", 8>> >>) EXCEPT !.exists = TRUE],
    [Good("wrq", <<>>) EXCEPT !.pattern = FALSE],
    [Good("wrq", <<>>) EXCEPT !.mode = "mail"] }

Setting(w, o, m, size, a, r) ==
  [base |-> [writes |-> w, overwrite |-> o, multicast |-> m, windowsize |-> size],
   adaptive |-> a, recvmmsg |-> r]

SomeConfigs ==
  { Setting(TRUE, FALSE, FALSE, 1, TRUE, TRUE),
    Setting(TRUE, TRUE, TRUE, 65536, FALSE, TRUE),
    Setting(FALSE, FALSE, TRUE, 16, FALSE, FALSE) }
=============================================================================
