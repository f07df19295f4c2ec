------------------------------ MODULE Requests ------------------------------
(***************************************************************************)
(* What the server makes of one datagram at its listening port: the checks *)
(* and the option negotiation of handle_client (bin/server.rs, and the     *)
(* same in main.rs), and those of the worker pool, which has its own.      *)
(*                                                                         *)
(* A datagram is abstracted to what the checks tell apart.                 *)
(***************************************************************************)
EXTENDS Integers, FiniteSets, SequencesExt

OptionNames == {"blksize", "timeout", "tsize", "windowsize", "multicast", "other"}

NonNumeric == -1   \* an option value that parse() refuses

Datagram ==
  [op      : {"short", "unknown", "rrq", "wrq", "other"},
   strings : BOOLEAN,   \* do filename and mode end with NUL, and are they UTF-8?
   mode    : {"octet", "netascii", "mail", "invalid"},
   path    : BOOLEAN,   \* does validate_and_resolve_path accept the filename?
   pattern : BOOLEAN,   \* does an allowed_pattern match it?
   exists  : BOOLEAN,   \* is there such a file?
   options : Seq(OptionNames \X Int)]

Config ==
  [writes : BOOLEAN, overwrite : BOOLEAN, multicast : BOOLEAN, windowsize : Nat]

---------------------------------------------------------------------------
(* Options. *)

\* requested_options: the value of option n, if any; a later one replaces an earlier one.
requested(d, n) ==
  LET at == {i \in DOMAIN d.options : d.options[i][1] = n}
  IN  IF at = {} THEN {} ELSE {d.options[CHOOSE i \in at : \A j \in at : j <= i][2]}

DEFAULT_BLOCK_SIZE   == 512
DEFAULT_TIMEOUT_SECS == 5
MAX_BLOCK_SIZE       == 65464

\* Mutant of InRange: a block as large as a datagram.
InPacketRange(n, v) ==
  CASE n = "blksize"    -> v >= 8 /\ v <= MAX_BLOCK_SIZE + 4
    [] n = "timeout"    -> v >= 1 /\ v <= 255
    [] n = "windowsize" -> v >= 1 /\ v <= 65535

\* Mutant of InRange: a window may be empty.
InRangeFromZero(n, v) ==
  CASE n = "blksize"    -> v >= 8 /\ v <= MAX_BLOCK_SIZE
    [] n = "timeout"    -> v >= 1 /\ v <= 255
    [] n = "windowsize" -> v >= 0 /\ v <= 65535

\* The values that a request may set an option to.
InRange(n, v) ==
  CASE n = "blksize"    -> v >= 8 /\ v <= MAX_BLOCK_SIZE
    [] n = "timeout"    -> v >= 1 /\ v <= 255
    [] n = "windowsize" -> v >= 1 /\ v <= 65535

Accepted(d, n) == {v \in requested(d, n) : InRange(n, v)}

Chosen(d, n, default) ==
  IF Accepted(d, n) = {} THEN default ELSE CHOOSE v \in Accepted(d, n) : TRUE

\* TftpOptions of the transfer.
options(d, cfg) ==
  [blksize    |-> Chosen(d, "blksize", DEFAULT_BLOCK_SIZE),
   timeout    |-> Chosen(d, "timeout", DEFAULT_TIMEOUT_SECS),
   windowsize |-> Chosen(d, "windowsize", cfg.windowsize)]

\* tsize in the OACK: of a write it is echoed, of a read it is "0" until
\* handle_read_request knows the size.
Tsize(d, v) == <<"tsize", IF d.op = "rrq" THEN 0 ELSE v>>

\* negotiated_options of handle_client, as pairs.
negotiated_options(d) ==
  (UNION { {<<n, v>> : v \in Accepted(d, n)} : n \in {"blksize", "timeout", "windowsize"} })
    \cup {Tsize(d, v) : v \in requested(d, "tsize") \ {NonNumeric}}

\* The worker pool's: the value of tsize is not parsed.
negotiated_options_worker(d) ==
  (UNION { {<<n, v>> : v \in Accepted(d, n)} : n \in {"blksize", "timeout", "windowsize"} })
    \cup {Tsize(d, v) : v \in requested(d, "tsize")}

---------------------------------------------------------------------------
(* Outcomes: an ERROR with its code, a transfer, or an error that is only logged. *)

Silent == [kind |-> "silent"]
Ignored == [kind |-> "ignored"]
Refused(code) == [kind |-> "error", code |-> code]
Granted(kind, opts, oack) == [kind |-> kind, options |-> opts, oack |-> oack]

Transfers == {"read", "write"}

\* The RRQ arm of handle_client, from the options on.
AdmitRead(d, cfg) ==
  IF requested(d, "multicast") # {}
  THEN IF cfg.multicast THEN [kind |-> "multicast"] ELSE Refused(8)
  ELSE IF ~d.path THEN Refused(2)
  ELSE Granted("read", options(d, cfg), negotiated_options(d))

\* An unterminated string or an unknown mode gets no answer.
HandleRrq(d, cfg) ==
  CASE ~d.strings \/ d.mode = "invalid" -> Silent
    [] d.strings /\ d.mode = "mail"     -> Refused(4)
    [] OTHER                            -> AdmitRead(d, cfg)

\* The WRQ arm, from the options on.
AdmitWrite(d, cfg) ==
  IF ~d.path \/ ~d.pattern THEN Refused(2)
  ELSE IF d.exists /\ ~cfg.overwrite THEN Refused(6)
  ELSE Granted("write", options(d, cfg), negotiated_options(d))

\* A server without writes refuses before it looks at the mode.
HandleWrq(d, cfg) ==
  CASE ~d.strings                                           -> Silent
    [] d.strings /\ ~cfg.writes                             -> Refused(2)
    [] d.strings /\ cfg.writes /\ d.mode = "invalid"        -> Silent
    [] d.strings /\ cfg.writes /\ d.mode = "mail"           -> Refused(4)
    [] OTHER                                                -> AdmitWrite(d, cfg)

handle_client(d, cfg) ==
  CASE d.op \in {"short", "unknown"} -> Silent
    [] d.op = "rrq"                  -> HandleRrq(d, cfg)
    [] d.op = "wrq"                  -> HandleWrq(d, cfg)
    [] d.op = "other"                -> Refused(4)

\* The worker pool reads the option multicast as any unknown one.
handle_read_request_worker(d, cfg) ==
  IF ~d.strings \/ d.mode \in {"invalid", "mail"} \/ ~d.path
  THEN Refused(0)
  ELSE Granted("read", options(d, cfg), negotiated_options_worker(d))

\* Mutant of handle_write_request_worker: a file may always be overwritten.
HandleWriteBlindly(d, cfg) ==
  IF ~d.strings \/ d.mode \in {"invalid", "mail"} \/ ~cfg.writes \/ ~d.path
  THEN Refused(0)
  ELSE Granted("write", options(d, cfg), negotiated_options_worker(d))

\* It does not look at allowed_patterns.
handle_write_request_worker(d, cfg) ==
  IF \/ ~d.strings \/ d.mode \in {"invalid", "mail"}
     \/ ~cfg.writes \/ ~d.path
     \/ d.exists /\ ~cfg.overwrite
  THEN Refused(0)
  ELSE Granted("write", options(d, cfg), negotiated_options_worker(d))

process_tftp_packet(d, cfg) ==
  CASE d.op \in {"short", "unknown"} -> Refused(4)
    [] d.op = "rrq"                  -> handle_read_request_worker(d, cfg)
    [] d.op = "wrq"                  -> handle_write_request_worker(d, cfg)
    [] d.op = "other"                -> Ignored

---------------------------------------------------------------------------
(* What a request may expect, whoever handles it. *)

\* What an option is when the answer does not name it: a client then expects blocks of 512
\* bytes and acknowledges each of them (RFC 1350); the timeout is the server's own.
Unnamed(n) == CASE n = "blksize" -> 512 [] n = "timeout" -> 5 [] n = "windowsize" -> 1

\* RFC 2348, 2349 and 7440; a DATA packet also has to fit the buffers of 65468 bytes.
LegalValue(n, v) ==
  CASE n = "blksize" -> v >= 8 /\ v + 4 <= 65468
    [] n = "timeout" -> v >= 1 /\ v <= 255
    [] n = "windowsize" -> v >= 1 /\ v <= 65535

\* Is v what the client asked for option n, in the last of the options of that name?
AskedLast(d, n, v) ==
  \E i \in DOMAIN d.options :
    /\ d.options[i] = <<n, v>>
    /\ \A j \in DOMAIN d.options : j > i => d.options[j][1] # n

\* Do both ends use the same value of option n?  One that the OACK names has the value the
\* client asked for last, a legal one, and the transfer uses it.
AgreeOn(d, a, n) ==
  LET confirmed == {p[2] : p \in {q \in a.oack : q[1] = n}}
  IN  IF confirmed = {} THEN a.options[n] = Unnamed(n)
      ELSE /\ confirmed = {a.options[n]}
           /\ AskedLast(d, n, a.options[n])
           /\ LegalValue(n, a.options[n])

\* The client did not ask for a window, or not for a legal one, and default_windowsize is
\* not the single block that it takes for one.
UnaskedWindow(d, cfg) ==
  /\ cfg.windowsize # 1
  /\ ~ \E i \in DOMAIN d.options :
         /\ AskedLast(d, "windowsize", d.options[i][2])
         /\ LegalValue("windowsize", d.options[i][2])

\* Both ends use the same options, but for one: a client that asked for no window gets
\* default_windowsize, of which nobody tells it.
OptionsAgree(d, cfg, a) ==
  \A n \in {"blksize", "timeout", "windowsize"} :
    IF n = "windowsize" /\ UnaskedWindow(d, cfg)
    THEN a.options[n] = cfg.windowsize /\ ~AgreeOn(d, a, n)
    ELSE AgreeOn(d, a, n)

\* Is a the right kind of answer to d, where patterns says whether allowed_patterns count?
Settled(d, cfg, patterns, a) ==
  /\ a.kind \in Transfers => OptionsAgree(d, cfg, a)
  /\ a.kind = "write" => cfg.writes /\ (patterns => d.pattern) /\ (d.exists => cfg.overwrite)
  /\ d.op \in {"rrq", "wrq"} /\ d.strings /\ d.mode # "invalid" /\ ~d.path
       /\ requested(d, "multicast") = {} => a.kind = "error"
=============================================================================
