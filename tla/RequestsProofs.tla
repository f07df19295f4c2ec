--------------------------- MODULE RequestsProofs ---------------------------
(***************************************************************************)
(* What handle_client and process_tftp_packet make of any datagram, under  *)
(* any configuration: the options of a granted transfer are those the OACK *)
(* names, and the answer is of the right kind.                             *)
(***************************************************************************)
EXTENDS Requests, SequenceTheorems, FiniteSetTheorems, TLAPS

Negotiable == {"blksize", "timeout", "windowsize"}

---------------------------------------------------------------------------
(* Two general facts. *)

\* The cardinality of a finite set that is changed by one element at most.
LEMMA CountMoves ==
  ASSUME NEW I, IsFiniteSet(I), NEW F, NEW G, NEW i, F \subseteq I, G \subseteq I,
         F \ {i} = G \ {i}
  PROVE  /\ Cardinality(F) \in Nat
         /\ i \in F => Cardinality(F) > 0
         /\ Cardinality(G) =
              Cardinality(F) + (IF i \in G THEN 1 ELSE 0) - (IF i \in F THEN 1 ELSE 0)
<1>1. IsFiniteSet(F) /\ IsFiniteSet(G)
  BY FS_Subset
<1> DEFINE R == F \ {i}
<1>2. R = G \ {i}
  OBVIOUS
<1>3. /\ Cardinality(F) \in Nat /\ Cardinality(G) \in Nat
      /\ IsFiniteSet(R) /\ Cardinality(R) \in Nat
  BY <1>1, FS_RemoveElement, FS_CardinalityType
<1>4. Cardinality(R) = IF i \in F THEN Cardinality(F) - 1 ELSE Cardinality(F)
  BY <1>1, FS_RemoveElement
<1>5. Cardinality(R) = IF i \in G THEN Cardinality(G) - 1 ELSE Cardinality(G)
  BY <1>1, <1>2, FS_RemoveElement
<1> HIDE DEF R
<1>6. QED
  BY <1>3, <1>4, <1>5

\* A set of numbers up to n has a greatest one.
LEMMA GreatestExists ==
  ASSUME NEW n \in Nat, NEW S, S \subseteq 1..n, S # {}
  PROVE  \E i \in S : \A j \in S : j <= i
<1> DEFINE R == StrictSubsetOrdering(1..n)
           T == {i..n : i \in S}
<1>1. IsFiniteSet(1..n) /\ IsWellFoundedOn(R, SUBSET (1..n))
  <2>1. IsFiniteSet(1..n)
    BY FS_Interval
  <2>2. QED
    BY <2>1, FS_FiniteSubsetsOfFinite, FS_StrictSubsetOrderingWellFounded
<1>2. T \subseteq SUBSET (1..n) /\ T # {}
  <2>1. ASSUME NEW i \in S PROVE i..n \in SUBSET (1..n)
    OBVIOUS
  <2>2. PICK i \in S : TRUE
    OBVIOUS
  <2>3. i..n \in T
    OBVIOUS
  <2>4. QED
    BY <2>1, <2>3
<1>3. PICK U \in T : \A V \in T : <<V, U>> \notin R
  <2> HIDE DEF R, T
  <2>1. QED
    BY <1>1, <1>2, WFMin
<1>4. PICK i \in S : U = i..n
  BY <1>3
<1>5. ASSUME NEW j \in S, j > i PROVE FALSE
  <2>1. j..n \in T /\ j..n \in SUBSET (1..n) /\ i..n \in SUBSET (1..n)
    OBVIOUS
  <2>2. j..n \subseteq i..n /\ j..n # i..n
    <3>1. i \in i..n /\ i \notin j..n
      BY <1>5
    <3>2. QED
      BY <1>5, <3>1
  <2>3. <<j..n, i..n>> \in R
    BY <2>1, <2>2 DEF StrictSubsetOrdering
  <2>4. QED
    BY <1>3, <1>4, <2>1, <2>3
<1>6. QED
  BY <1>5

---------------------------------------------------------------------------
(* Options. *)

\* The value that requested_options holds for an option is the one asked for last.
LEMMA RequestedIsLast ==
  ASSUME NEW d \in Datagram, NEW n
  PROVE  \/ requested(d, n) = {}
         \/ \E v : requested(d, n) = {v} /\ v \in Int /\ AskedLast(d, n, v)
<1> DEFINE at == {i \in DOMAIN d.options : d.options[i][1] = n}
           last == CHOOSE i \in at : \A j \in at : j <= i
<1>1. /\ d.options \in Seq(OptionNames \X Int) /\ Len(d.options) \in Nat
      /\ DOMAIN d.options = 1..Len(d.options)
  BY LenProperties DEF Datagram
<1>2. CASE at = {}
  BY <1>2 DEF requested
<1>3. CASE at # {}
  <2>1. at \subseteq 1..Len(d.options)
    BY <1>1
  <2>2. last \in at /\ \A j \in at : j <= last
    <3>1. \E i \in at : \A j \in at : j <= i
      BY <1>1, <1>3, <2>1, GreatestExists
    <3>2. QED
      BY <3>1
  <2>3. requested(d, n) = {d.options[last][2]}
    BY <1>3 DEF requested
  <2> HIDE DEF last
  <2>4. d.options[last] \in OptionNames \X Int
    BY <1>1, <2>2, ElementOfSeq
  <2>5. d.options[last] = <<n, d.options[last][2]>> /\ d.options[last][2] \in Int
    BY <2>2, <2>4
  <2>6. \A j \in DOMAIN d.options : j > last => d.options[j][1] # n
    BY <1>1, <2>1, <2>2
  <2>7. AskedLast(d, n, d.options[last][2])
    BY <2>2, <2>5, <2>6 DEF AskedLast
  <2>8. QED
    BY <2>3, <2>5, <2>7
<1>4. QED
  BY <1>2, <1>3

\* A value that a request may set an option to is a legal one.
LEMMA LegalInRange ==
  ASSUME NEW n \in Negotiable, NEW v \in Int, InRange(n, v)
  PROVE  LegalValue(n, v)
<1>1. CASE n = "blksize"
  <2>1. v >= 8 /\ v <= 65464
    BY <1>1 DEF InRange, MAX_BLOCK_SIZE
  <2>2. v >= 8 /\ v + 4 <= 65468
    BY <2>1
  <2>3. QED
    BY <1>1, <2>2 DEF LegalValue
<1>2. CASE n = "timeout"
  BY <1>2 DEF InRange, LegalValue
<1>3. CASE n = "windowsize"
  BY <1>3 DEF InRange, LegalValue
<1>4. QED
  BY <1>1, <1>2, <1>3 DEF Negotiable

\* What is accepted for an option: nothing, or one legal value that was asked for last.
LEMMA AcceptedIsLast ==
  ASSUME NEW d \in Datagram, NEW n \in Negotiable
  PROVE  \/ Accepted(d, n) = {}
         \/ \E v \in Int : Accepted(d, n) = {v} /\ AskedLast(d, n, v) /\ LegalValue(n, v)
<1>1. CASE requested(d, n) = {}
  BY <1>1 DEF Accepted
<1>2. ASSUME NEW v, requested(d, n) = {v}, v \in Int, AskedLast(d, n, v), InRange(n, v)
      PROVE  Accepted(d, n) = {v} /\ AskedLast(d, n, v) /\ LegalValue(n, v)
  <2>1. LegalValue(n, v)
    BY <1>2, LegalInRange
  <2>2. QED
    BY <1>2, <2>1 DEF Accepted
<1>3. ASSUME NEW v, requested(d, n) = {v}, ~InRange(n, v)
      PROVE  Accepted(d, n) = {}
  BY <1>3 DEF Accepted
<1>4. QED
  BY <1>1, <1>2, <1>3, RequestedIsLast

\* The value the server takes for an option that was not asked for.
ServerDefault(cfg, n) == IF n = "windowsize" THEN cfg.windowsize ELSE Unnamed(n)

\* The value a transfer uses for an option.
LEMMA OptionAgrees ==
  ASSUME NEW d \in Datagram, NEW cfg \in Config, NEW n \in Negotiable
  PROVE  IF Accepted(d, n) = {} THEN options(d, cfg)[n] = ServerDefault(cfg, n)
         ELSE /\ Accepted(d, n) = {options(d, cfg)[n]}
              /\ AskedLast(d, n, options(d, cfg)[n])
              /\ LegalValue(n, options(d, cfg)[n]) /\ options(d, cfg)[n] \in Int
<1>1. options(d, cfg)[n] = Chosen(d, n, ServerDefault(cfg, n))
  BY DEF options, ServerDefault, Unnamed, Negotiable, DEFAULT_BLOCK_SIZE, DEFAULT_TIMEOUT_SECS
<1>2. CASE Accepted(d, n) = {}
  BY <1>1, <1>2 DEF Chosen
<1>3. CASE Accepted(d, n) # {}
  <2>1. PICK v \in Int : Accepted(d, n) = {v} /\ AskedLast(d, n, v) /\ LegalValue(n, v)
    BY <1>3, AcceptedIsLast
  <2>2. Chosen(d, n, ServerDefault(cfg, n)) = v
    BY <2>1 DEF Chosen
  <2>3. QED
    BY <1>1, <1>3, <2>1, <2>2
<1>4. QED
  BY <1>2, <1>3

\* What an OACK confirms of an option is what was accepted, in both servers.
LEMMA ConfirmedIsAccepted ==
  ASSUME NEW d \in Datagram, NEW n \in Negotiable, NEW tsizes,
         NEW oack, oack = (UNION { {<<m, v>> : v \in Accepted(d, m)} : m \in Negotiable })
                            \cup {Tsize(d, v) : v \in tsizes}
  PROVE  {p[2] : p \in {q \in oack : q[1] = n}} = Accepted(d, n)
<1>1. n # "tsize"
  BY DEF Negotiable
<1>2. ASSUME NEW v \in Accepted(d, n) PROVE v \in {p[2] : p \in {q \in oack : q[1] = n}}
  <2>1. <<n, v>> \in oack
    OBVIOUS
  <2>2. <<n, v>>[1] = n /\ <<n, v>>[2] = v
    OBVIOUS
  <2>3. QED
    BY <2>1, <2>2, Zenon
<1>3. ASSUME NEW q \in oack, q[1] = n PROVE q[2] \in Accepted(d, n)
  <2>1. CASE \E m \in Negotiable : q \in {<<m, v>> : v \in Accepted(d, m)}
    BY <1>3, <2>1
  <2>2. CASE \E v \in tsizes : q = Tsize(d, v)
    BY <1>1, <1>3, <2>2 DEF Tsize
  <2>3. QED
    BY <2>1, <2>2
<1>4. QED
  BY <1>2, <1>3

\* A window was accepted just when a legal one was asked for last.
LEMMA WindowAsked ==
  ASSUME NEW d \in Datagram, NEW cfg \in Config
  PROVE  UnaskedWindow(d, cfg) <=> cfg.windowsize # 1 /\ Accepted(d, "windowsize") = {}
<1> DEFINE n == "windowsize"
           asked == \E i \in DOMAIN d.options :
                      AskedLast(d, n, d.options[i][2]) /\ LegalValue(n, d.options[i][2])
<1>1. n \in Negotiable /\ (UnaskedWindow(d, cfg) <=> cfg.windowsize # 1 /\ ~asked)
  BY DEF Negotiable, UnaskedWindow
<1>2. ASSUME Accepted(d, n) # {} PROVE asked
  <2>1. PICK v \in Int : Accepted(d, n) = {v} /\ AskedLast(d, n, v) /\ LegalValue(n, v)
    BY <1>1, <1>2, AcceptedIsLast
  <2>2. PICK i \in DOMAIN d.options : d.options[i] = <<n, v>>
    BY <2>1 DEF AskedLast
  <2>3. d.options[i][2] = v
    BY <2>2
  <2>4. QED
    BY <2>1, <2>3
<1>3. ASSUME asked PROVE Accepted(d, n) # {}
  <2>1. PICK i \in DOMAIN d.options : AskedLast(d, n, d.options[i][2]) /\ LegalValue(n, d.options[i][2])
    BY <1>3
  <2>2. PICK v : v = d.options[i][2]
    OBVIOUS
  <2>3. AskedLast(d, n, v) /\ LegalValue(n, v)
    BY <2>1, <2>2
  <2>4. PICK j \in DOMAIN d.options :
          d.options[j] = <<n, v>> /\ \A m \in DOMAIN d.options : m > j => d.options[m][1] # n
    BY <2>3 DEF AskedLast
  <2>5. DOMAIN d.options = 1..Len(d.options) /\ Len(d.options) \in Nat
    BY LenProperties DEF Datagram
  <2>6. requested(d, n) = {v}
    <3> DEFINE at == {m \in DOMAIN d.options : d.options[m][1] = n}
               last == CHOOSE m \in at : \A h \in at : h <= m
    <3>1. j \in at
      BY <2>4
    <3>2. \A h \in at : h <= j
      BY <2>4, <2>5
    <3>3. last \in at /\ \A h \in at : h <= last
      BY <3>1, <3>2
    <3>4. requested(d, n) = {d.options[last][2]}
      BY <3>1 DEF requested
    <3> HIDE DEF last
    <3>5. last = j
      BY <2>5, <3>1, <3>2, <3>3
    <3>6. QED
      BY <2>4, <3>4, <3>5
  <2>7. InRange(n, v)
    BY <2>3 DEF LegalValue, InRange
  <2>8. QED
    BY <2>6, <2>7 DEF Accepted
<1>4. QED
  BY <1>1, <1>2, <1>3

\* A transfer with the options chosen, and an OACK of those accepted, agrees with the client.
LEMMA ChosenAgree ==
  ASSUME NEW d \in Datagram, NEW cfg \in Config, NEW a, a.options = options(d, cfg),
         \A n \in Negotiable : {p[2] : p \in {q \in a.oack : q[1] = n}} = Accepted(d, n)
  PROVE  OptionsAgree(d, cfg, a)
<1>1. ASSUME NEW n \in Negotiable
      PROVE  IF n = "windowsize" /\ UnaskedWindow(d, cfg)
             THEN a.options[n] = cfg.windowsize /\ ~AgreeOn(d, a, n)
             ELSE AgreeOn(d, a, n)
  <2>1. {p[2] : p \in {q \in a.oack : q[1] = n}} = Accepted(d, n)
    OBVIOUS
  <2>2. AgreeOn(d, a, n) <=>
          IF Accepted(d, n) = {} THEN a.options[n] = Unnamed(n)
          ELSE /\ Accepted(d, n) = {a.options[n]}
               /\ AskedLast(d, n, a.options[n])
               /\ LegalValue(n, a.options[n])
    BY <2>1 DEF AgreeOn
  <2>3. CASE Accepted(d, n) # {}
    <3>1. AgreeOn(d, a, n)
      BY <2>2, <2>3, OptionAgrees
    <3>2. ~(n = "windowsize" /\ UnaskedWindow(d, cfg))
      BY <2>3, WindowAsked
    <3>3. QED
      BY <3>1, <3>2
  <2>4. CASE Accepted(d, n) = {}
    <3>1. a.options[n] = ServerDefault(cfg, n) /\ (AgreeOn(d, a, n) <=> a.options[n] = Unnamed(n))
      BY <2>2, <2>4, OptionAgrees
    <3>2. CASE n = "windowsize"
      <4>1. Unnamed(n) = 1 /\ a.options[n] = cfg.windowsize
        BY <3>1, <3>2 DEF Unnamed, ServerDefault
      <4>2. UnaskedWindow(d, cfg) <=> cfg.windowsize # 1
        BY <2>4, <3>2, WindowAsked
      <4>3. QED
        BY <3>1, <3>2, <4>1, <4>2
    <3>3. CASE n # "windowsize"
      BY <3>1, <3>3 DEF ServerDefault
    <3>4. QED
      BY <3>2, <3>3
  <2>5. QED
    BY <2>3, <2>4
<1>2. QED
  BY <1>1 DEF OptionsAgree, Negotiable

\* The transfer that handle_client grants uses the options its OACK names.
LEMMA ServerAgrees ==
  ASSUME NEW d \in Datagram, NEW cfg \in Config, NEW kind
  PROVE  OptionsAgree(d, cfg, Granted(kind, options(d, cfg), negotiated_options(d)))
<1> DEFINE a == Granted(kind, options(d, cfg), negotiated_options(d))
<1>1. a.options = options(d, cfg) /\ a.oack = negotiated_options(d)
  BY DEF Granted
<1>2. ASSUME NEW n \in Negotiable
      PROVE  {p[2] : p \in {q \in a.oack : q[1] = n}} = Accepted(d, n)
  <2>1. a.oack = (UNION { {<<m, v>> : v \in Accepted(d, m)} : m \in Negotiable })
                   \cup {Tsize(d, v) : v \in requested(d, "tsize") \ {NonNumeric}}
    BY <1>1 DEF negotiated_options, Negotiable
  <2> HIDE DEF a
  <2>2. QED
    BY <2>1, ConfirmedIsAccepted
<1> HIDE DEF a
<1>3. OptionsAgree(d, cfg, a)
  BY <1>1, <1>2, ChosenAgree
<1>4. QED
  BY <1>3 DEF a

\* So does the one a worker of the pool grants.
LEMMA WorkerAgrees ==
  ASSUME NEW d \in Datagram, NEW cfg \in Config, NEW kind
  PROVE  OptionsAgree(d, cfg, Granted(kind, options(d, cfg), negotiated_options_worker(d)))
<1> DEFINE a == Granted(kind, options(d, cfg), negotiated_options_worker(d))
<1>1. a.options = options(d, cfg) /\ a.oack = negotiated_options_worker(d)
  BY DEF Granted
<1>2. ASSUME NEW n \in Negotiable
      PROVE  {p[2] : p \in {q \in a.oack : q[1] = n}} = Accepted(d, n)
  <2>1. a.oack = (UNION { {<<m, v>> : v \in Accepted(d, m)} : m \in Negotiable })
                   \cup {Tsize(d, v) : v \in requested(d, "tsize")}
    BY <1>1 DEF negotiated_options_worker, Negotiable
  <2> HIDE DEF a
  <2>2. QED
    BY <2>1, ConfirmedIsAccepted
<1> HIDE DEF a
<1>3. OptionsAgree(d, cfg, a)
  BY <1>1, <1>2, ChosenAgree
<1>4. QED
  BY <1>3 DEF a

---------------------------------------------------------------------------
(* Answers. *)

\* The answers of handle_client to a read request; a multicast one has no options of its own.
LEMMA ReadAnswers ==
  ASSUME NEW d, NEW cfg
  PROVE  \/ HandleRrq(d, cfg) = Silent /\ (~d.strings \/ d.mode = "invalid")
         \/ \E code \in Nat : HandleRrq(d, cfg) = Refused(code)
         \/ HandleRrq(d, cfg) = [kind |-> "multicast"] /\ requested(d, "multicast") # {}
         \/ /\ HandleRrq(d, cfg) = Granted("read", options(d, cfg), negotiated_options(d))
            /\ d.path
<1>1. \/ \E code \in Nat : AdmitRead(d, cfg) = Refused(code)
      \/ AdmitRead(d, cfg) = [kind |-> "multicast"] /\ requested(d, "multicast") # {}
      \/ AdmitRead(d, cfg) = Granted("read", options(d, cfg), negotiated_options(d)) /\ d.path
  BY DEF AdmitRead
<1>2. QED
  BY <1>1 DEF HandleRrq

\* Those to a write request.
LEMMA WriteAnswers ==
  ASSUME NEW d, NEW cfg
  PROVE  \/ HandleWrq(d, cfg) = Silent /\ (~d.strings \/ d.mode = "invalid")
         \/ \E code \in Nat : HandleWrq(d, cfg) = Refused(code)
         \/ /\ HandleWrq(d, cfg) = Granted("write", options(d, cfg), negotiated_options(d))
            /\ cfg.writes /\ d.path /\ d.pattern /\ (d.exists => cfg.overwrite)
<1>1. \/ \E code \in Nat : AdmitWrite(d, cfg) = Refused(code)
      \/ /\ AdmitWrite(d, cfg) = Granted("write", options(d, cfg), negotiated_options(d))
         /\ d.path /\ d.pattern /\ (d.exists => cfg.overwrite)
  BY DEF AdmitWrite
<1>2. QED
  BY <1>1 DEF HandleWrq

\* An ERROR, or no transfer where none was asked for properly, settles a datagram.
LEMMA RefusedSettles ==
  ASSUME NEW d, NEW cfg, NEW patterns, NEW code PROVE Settled(d, cfg, patterns, Refused(code))
<1>1. Refused(code).kind = "error"
  BY DEF Refused
<1>2. QED
  BY <1>1 DEF Settled, Transfers

\* The answers of handle_client, and what each one takes.
LEMMA ServerAnswers ==
  ASSUME NEW d \in Datagram, NEW cfg \in Config, NEW a, a = handle_client(d, cfg)
  PROVE  \/ a = Silent /\ ~(d.op \in {"rrq", "wrq"} /\ d.strings /\ d.mode # "invalid")
         \/ \E code \in Nat : a = Refused(code)
         \/ a = [kind |-> "multicast"] /\ requested(d, "multicast") # {}
         \/ a = Granted("read", options(d, cfg), negotiated_options(d)) /\ d.path
         \/ /\ a = Granted("write", options(d, cfg), negotiated_options(d))
            /\ cfg.writes /\ d.path /\ d.pattern /\ (d.exists => cfg.overwrite)
<1>1. d.op \in {"short", "unknown", "rrq", "wrq", "other"}
  BY DEF Datagram
<1>2. CASE d.op \in {"short", "unknown"}
  BY <1>2 DEF handle_client
<1>3. CASE d.op = "rrq"
  BY <1>3, ReadAnswers DEF handle_client
<1>4. CASE d.op = "wrq"
  BY <1>4, WriteAnswers DEF handle_client
<1>5. CASE d.op = "other"
  BY <1>5 DEF handle_client
<1>6. QED
  BY <1>1, <1>2, <1>3, <1>4, <1>5

\* handle_client settles every datagram under every configuration: a transfer it grants uses
\* exactly the options of its OACK, which are the ones asked for last, and legal, or else those
\* a client expects, but for the window of a client that asked for none while
\* default_windowsize is not 1; a write is granted only where writes and, for an existing file,
\* overwriting are allowed and a pattern matches; a well-formed request for a bad path gets an
\* ERROR.
THEOREM ServerSettles ==
  ASSUME NEW d \in Datagram, NEW cfg \in Config
  PROVE  Settled(d, cfg, TRUE, handle_client(d, cfg))
<1> DEFINE a == handle_client(d, cfg)
           wellformed == d.op \in {"rrq", "wrq"} /\ d.strings /\ d.mode # "invalid"
           granted(k) == Granted(k, options(d, cfg), negotiated_options(d))
<1>1. \/ a = Silent /\ ~wellformed
      \/ \E code \in Nat : a = Refused(code)
      \/ a = [kind |-> "multicast"] /\ requested(d, "multicast") # {}
      \/ a = granted("read") /\ d.path
      \/ /\ a = granted("write")
         /\ cfg.writes /\ d.path /\ d.pattern /\ (d.exists => cfg.overwrite)
  BY ServerAnswers
<1> HIDE DEF a
<1>2. SUFFICES Settled(d, cfg, TRUE, a)
  BY DEF a
<1>3. CASE a = Silent /\ ~wellformed
  BY <1>3 DEF Silent, Settled, Transfers
<1>4. CASE \E code \in Nat : a = Refused(code)
  <2>1. PICK code \in Nat : a = Refused(code)
    BY <1>4
  <2>2. Settled(d, cfg, TRUE, Refused(code)) /\ Refused(code).kind = "error"
    BY RefusedSettles DEF Refused
  <2>3. QED
    BY <2>1, <2>2
<1>5. CASE a = [kind |-> "multicast"] /\ requested(d, "multicast") # {}
  BY <1>5 DEF Settled, Transfers
<1>6. CASE a = granted("read") /\ d.path
  <2>1. a.kind = "read" /\ OptionsAgree(d, cfg, a)
    BY <1>6, ServerAgrees DEF Granted
  <2>2. QED
    BY <1>6, <2>1 DEF Settled
<1>7. CASE /\ a = granted("write")
           /\ cfg.writes /\ d.path /\ d.pattern /\ (d.exists => cfg.overwrite)
  <2>1. a.kind = "write" /\ OptionsAgree(d, cfg, a)
    BY <1>7, ServerAgrees DEF Granted
  <2>2. QED
    BY <1>7, <2>1 DEF Settled
<1>8. QED
  BY <1>1, <1>3, <1>4, <1>5, <1>6, <1>7

\* process_tftp_packet, the worker pool's own copy of the negotiation, settles every datagram
\* as well, where allowed_patterns do not count, and answers one that is no request at all with
\* an ERROR.
THEOREM WorkerSettles ==
  ASSUME NEW d \in Datagram, NEW cfg \in Config
  PROVE  /\ Settled(d, cfg, FALSE, process_tftp_packet(d, cfg))
         /\ d.op \in {"short", "unknown"} => process_tftp_packet(d, cfg).kind = "error"
<1> DEFINE a == process_tftp_packet(d, cfg)
           granted(k) == Granted(k, options(d, cfg), negotiated_options_worker(d))
<1>1. \/ a = Ignored /\ d.op = "other"
      \/ \E code \in Nat : a = Refused(code)
      \/ a = granted("read") /\ d.path /\ d.op = "rrq"
      \/ /\ a = granted("write") /\ d.op = "wrq"
         /\ cfg.writes /\ d.path /\ (d.exists => cfg.overwrite)
  <2>1. d.op \in {"short", "unknown", "rrq", "wrq", "other"}
    BY DEF Datagram
  <2>2. CASE d.op \in {"short", "unknown"} \/ d.op = "other"
    BY <2>2 DEF process_tftp_packet
  <2>3. CASE d.op = "rrq"
    BY <2>3 DEF process_tftp_packet, handle_read_request_worker
  <2>4. CASE d.op = "wrq"
    BY <2>4 DEF process_tftp_packet, handle_write_request_worker
  <2>5. QED
    BY <2>1, <2>2, <2>3, <2>4
<1> HIDE DEF a
<1>2. SUFFICES /\ Settled(d, cfg, FALSE, a)
               /\ d.op \in {"short", "unknown"} => a.kind = "error"
  BY DEF a
<1>3. CASE a = Ignored /\ d.op = "other"
  BY <1>3 DEF Ignored, Settled, Transfers
<1>4. CASE \E code \in Nat : a = Refused(code)
  <2>1. PICK code \in Nat : a = Refused(code)
    BY <1>4
  <2>2. Settled(d, cfg, FALSE, Refused(code)) /\ Refused(code).kind = "error"
    BY RefusedSettles DEF Refused
  <2>3. QED
    BY <2>1, <2>2
<1>5. CASE a = granted("read") /\ d.path /\ d.op = "rrq"
  <2>1. a.kind = "read" /\ OptionsAgree(d, cfg, a)
    BY <1>5, WorkerAgrees DEF Granted
  <2>2. QED
    BY <1>5, <2>1 DEF Settled
<1>6. CASE /\ a = granted("write") /\ d.op = "wrq"
           /\ cfg.writes /\ d.path /\ (d.exists => cfg.overwrite)
  <2>1. a.kind = "write" /\ OptionsAgree(d, cfg, a)
    BY <1>6, WorkerAgrees DEF Granted
  <2>2. QED
    BY <1>6, <2>1 DEF Settled
<1>7. QED
  BY <1>1, <1>3, <1>4, <1>5, <1>6

\* With a default_windowsize within the range of the option, the window of every granted
\* transfer is within it, whatever was asked for.
LEMMA WindowInRange ==
  ASSUME NEW d \in Datagram, NEW cfg \in Config, cfg.windowsize >= 1, cfg.windowsize <= 65535
  PROVE  /\ options(d, cfg).windowsize \in Int
         /\ options(d, cfg).windowsize >= 1 /\ options(d, cfg).windowsize <= 65535
<1> DEFINE n == "windowsize"
           w == options(d, cfg)[n]
<1>1. n \in Negotiable /\ w = options(d, cfg).windowsize
  BY DEF Negotiable, options
<1>2. cfg.windowsize \in Int
  BY DEF Config
<1>3. CASE Accepted(d, n) = {}
  <2>1. w = ServerDefault(cfg, n)
    BY <1>1, <1>3, OptionAgrees
  <2>2. QED
    BY <1>1, <1>2, <2>1 DEF ServerDefault
<1>4. CASE Accepted(d, n) # {}
  <2>1. LegalValue(n, w) /\ w \in Int
    BY <1>1, <1>4, OptionAgrees
  <2>2. w >= 1 /\ w <= 65535
    BY <2>1 DEF LegalValue
  <2>3. QED
    BY <1>1, <2>1, <2>2
<1>5. QED
  BY <1>3, <1>4

\* The options of a write that handle_client grants are those of the transfer.
LEMMA WriteOptions ==
  ASSUME NEW d \in Datagram, NEW cfg \in Config, handle_client(d, cfg).kind = "write"
  PROVE  handle_client(d, cfg).options = options(d, cfg)
<1> DEFINE a == handle_client(d, cfg)
<1>1. /\ a # Silent /\ (\A code \in Nat : a # Refused(code)) /\ a # [kind |-> "multicast"]
      /\ a # Granted("read", options(d, cfg), negotiated_options(d))
  BY DEF Silent, Refused, Granted
<1> HIDE DEF a
<1>2. a = Granted("write", options(d, cfg), negotiated_options(d))
  BY <1>1, ServerAnswers DEF a
<1>3. QED
  BY <1>2 DEF Granted, a

=============================================================================
