------------------------------ MODULE BringUp -------------------------------
(* The four programs that bring the network code up on a real machine:       *)
(* net/nettest_main.c, tlstest_main.c, graphtest_main.c and ig_feed_main.c.  *)
(* Each is one chain of calls, most of which can fail, with its own way out  *)
(* of each failure.  A program is a table of its calls; Step runs the table. *)
(*                                                                           *)
(* Resources: "net" (Winsock), "sock", "tls" (the five contexts of mbedTLS,  *)
(* which are initialised and freed together), and on the heap "body", "req", *)
(* "buf", "resp" (what http_parse_response allocates) and "feed".            *)
EXTENDS Integers, Sequences

CONSTANTS
  RecvCap,      \* bytes of the receive buffer, in units
  MaxCap,       \* bound: the size to which the model lets ig_feed's buffer grow
  MaxSent       \* bound: how much the peer sends
ASSUME BringUpAssumption == RecvCap \in 1..MaxCap /\ MaxSent \in Nat

VARIABLES
  prog,         \* the program that runs
  at,           \* its next call
  held,         \* resources acquired and not released
  gone,         \* resources that were released
  cap, total    \* receive buffer: size and fill
vars == <<prog, at, held, gone, cap, total>>

Heap == {"body", "req", "buf", "resp", "feed"}    \* free accepts NULL
Resources == Heap \cup {"net", "sock", "tls"}

(* One call: what it uses, what it acquires when it succeeds, and what is    *)
(* released and where the program goes in either case.                       *)
To(free, go) == [free |-> free, go |-> go]
Call(needs, gain, ok, no) == [needs |-> needs, gain |-> gain, ok |-> ok, ways |-> {ok, no}]
Do(needs, ok) == Call(needs, {}, ok, ok)

-----------------------------------------------------------------------------
(* The programs *)

Nettest == [
  init    |-> Call({}, {"net"}, To({}, "connect"), To({}, "exit")),
  connect |-> Call({"net"}, {"sock"}, To({}, "build"), To({"net"}, "exit")),
  build   |-> Call({}, {"req"}, To({}, "send"), To({"sock", "net"}, "exit")),
  send    |-> Call({"net", "sock", "req"}, {}, To({"req"}, "alloc"),
                   To({"req", "sock", "net"}, "exit")),
  alloc   |-> Call({}, {"buf"}, To({}, "recv"), To({}, "hangup")),
  recv    |-> Do({"net", "sock", "buf"}, To({}, "hangup")),
  hangup  |-> Do({"net", "sock"}, To({"sock", "net"}, "check")),
  check   |-> Do({}, To({}, "parse")),
  nodata  |-> Do({}, To({"buf"}, "exit")),
  parse   |-> Call({"buf"}, {"resp"}, To({}, "map"), To({"buf"}, "exit")),
  map     |-> Call({"resp"}, {"feed"}, To({}, "log"), To({}, "freeResp")),
  log     |-> Do({"feed"}, To({"feed"}, "freeResp")),
  freeResp |-> Do({"resp"}, To({"resp"}, "freeBuf")),
  freeBuf |-> Do({}, To({"buf"}, "exit")) ]

Merge(a, b) == [l \in DOMAIN a \cup DOMAIN b |-> IF l \in DOMAIN a THEN a[l] ELSE b[l]]
Session == {"tls", "sock", "net"}

(* Mutant: an early way out between two of the initialisations. *)
MutantTlsSetup(next) ==
  LET Fallible(go) == Call(Session, {}, To({}, go), To({}, "cleanup"))
  IN [contexts  |-> Call({}, {"tls"}, To({}, "seed"), To({}, "cleanup")),
      seed      |-> Fallible("handshake"),
      handshake |-> Fallible(next)]

(* Between mbedtls_*_init and the end of the handshake six calls can fail,   *)
(* all in the same way.                                                      *)
TlsSetup(next) ==
  LET Fallible(go) == Call(Session, {}, To({}, go), To({}, "cleanup"))
  IN [contexts  |-> Call({}, {"tls"}, To({}, "seed"), To({}, "seed")),
      seed      |-> Fallible("ca"),
      ca        |-> Fallible("defaults"),
      defaults  |-> Fallible("setup"),
      setup     |-> Fallible("hostname"),
      hostname  |-> Fallible("handshake"),
      handshake |-> Fallible(next)]

(* What the three programs that speak TLS have in common: they set up, then  *)
(* build; and they parse, then answered.                                     *)
TlsProgram(build, answered) == Merge(TlsSetup(build), [
  init    |-> Call({}, {"net"}, To({}, "connect"), To({}, "exit")),
  connect |-> Call({"net"}, {"sock"}, To({}, "contexts"), To({"net"}, "exit")),
  build   |-> Call({}, {"req"}, To({}, "send"), To({}, "cleanup")),
  send    |-> Call(Session \cup {"req"}, {}, To({"req"}, "alloc"), To({"req"}, "cleanup")),
  alloc   |-> Call({}, {"buf"}, To({}, "recv"), To({}, "notify")),
  recv    |-> Do(Session \cup {"buf"}, To({}, "notify")),
  notify  |-> Do(Session, To({}, "check")),
  check   |-> Do({}, To({}, "parse")),
  nodata  |-> Do({}, To({}, "freeBuf")),
  parse   |-> Call({"buf"}, {"resp"}, To({}, answered), To({}, "freeBuf")),
  map     |-> Call({"resp"}, {"feed"}, To({}, "log"), To({}, "freeResp")),
  log     |-> Do({"feed"}, To({"feed"}, "freeResp")),
  slice   |-> Do({"resp"}, To({}, "freeResp")),
  freeResp |-> Do({"resp"}, To({"resp"}, "freeBuf")),
  freeBuf |-> Do({}, To({"buf"}, "cleanup")),
  cleanup |-> Do(Session, To(Session, "exit")) ])

Tlstest == TlsProgram("build", "map")

(* The body is logged in slices and mapped to nothing. *)
Graphtest == TlsProgram("build", "slice")

(* Mutant: the body is freed on one way only. *)
MutantIgFeed == Merge([
  bodyBuild |-> Call({}, {"body"}, To({}, "build"), To({}, "cleanup")),
  build   |-> Call({"body"}, {"req"}, To({"body"}, "send"), To({}, "cleanup")),
  status  |-> Call({"resp"}, {}, To({}, "map"), To({}, "slice")) ],
  TlsProgram("bodyBuild", "status"))

(* A body is built first, and goes whether there is a request then or not;   *)
(* an answer is mapped if its status is 200, of others a slice is logged.    *)
IgFeed == Merge([
  bodyBuild |-> Call({}, {"body"}, To({}, "build"), To({}, "cleanup")),
  build   |-> Call({"body"}, {"req"}, To({"body"}, "send"), To({"body"}, "cleanup")),
  status  |-> Call({"resp"}, {}, To({}, "map"), To({}, "slice")) ],
  TlsProgram("bodyBuild", "status"))

Programs == [nettest |-> Nettest, tlstest |-> Tlstest, graphtest |-> Graphtest,
             ig_feed |-> IgFeed]
Row == Programs[prog][at]

-----------------------------------------------------------------------------
Init ==
  /\ prog \in DOMAIN Programs
  /\ at = "init"
  /\ held = {} /\ gone = {}
  /\ cap = RecvCap /\ total = 0

(* A call gains nothing unless it succeeds, and goes one of its ways.        *)
Step ==
  /\ at \notin {"exit", "recv", "check"}
  /\ \E way \in Row.ways :
       /\ held' = (held \cup (IF way = Row.ok THEN Row.gain ELSE {})) \ way.free
       /\ gone' = (gone \cup (way.free \cap (held \cup Row.gain)))
       /\ at' = way.go
  /\ UNCHANGED <<prog, cap, total>>

(* if (buf && total > 0) *)
Check ==
  /\ at = "check"
  /\ at' = IF "buf" \in held /\ total > 0 THEN Row.ok.go ELSE "nodata"
  /\ UNCHANGED <<prog, held, gone, cap, total>>

(* ig_feed doubles a full buffer; the others stop at it.                     *)
Grow ==
  /\ at = "recv" /\ total >= cap /\ prog = "ig_feed" /\ cap * 2 <= MaxCap
  /\ cap' = cap * 2
  /\ UNCHANGED <<prog, at, held, gone, total>>

Receive ==
  /\ at = "recv" /\ total < cap /\ total < MaxSent
  /\ \E n \in 1..cap - total : total + n <= MaxSent /\ total' = total + n
  /\ at' = IF total' >= cap /\ prog # "ig_feed" THEN Row.ok.go ELSE "recv"
  /\ UNCHANGED <<prog, held, gone, cap>>

(* End of the stream, an error or a timeout; or the full buffer cannot grow. *)
ReceiveEnds ==
  /\ at = "recv"
  /\ at' = Row.ok.go
  /\ UNCHANGED <<prog, held, gone, cap, total>>

Exited == at = "exit" /\ UNCHANGED vars

Next == Step \/ Check \/ Grow \/ Receive \/ ReceiveEnds \/ Exited

Spec == Init /\ [][Next]_vars

-----------------------------------------------------------------------------
(* Properties *)

(* Whichever call fails, the program that ends holds nothing: neither a      *)
(* block nor the socket, the contexts or Winsock.                            *)
ExitsClean == at = "exit" => held = {}

(* Each call finds what it uses; what is released is held or, on the heap,   *)
(* NULL, and was not released before.                                        *)
UsesWhatItHolds ==
  at # "exit" =>
    /\ Row.needs \subseteq held
    /\ \A way \in Row.ways :
         /\ way.free \cap gone = {}
         /\ way.free \subseteq held \cup Heap
=============================================================================
