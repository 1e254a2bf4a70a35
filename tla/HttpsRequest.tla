---------------------------- MODULE HttpsRequest ----------------------------
(***************************************************************************)
(* net/https_get.c https_request: one HTTPS exchange over a blocking       *)
(* socket, as the sequence of its fallible steps.  Every call into         *)
(* Winsock, mbedTLS and the heap can fail; a peer can answer in full, stop *)
(* anywhere, reset, or fall silent until SO_RCVTIMEO/SO_SNDTIMEO ends the  *)
(* wait.  Bytes are counted in units: the status line and the header block *)
(* take one each, so that a prefix can end before, inside and after them.  *)
(*                                                                         *)
(* Memory and handles are the set `held` of what has been acquired and not *)
(* released, which is what the error paths of this function are about.     *)
(***************************************************************************)
EXTENDS Integers, FiniteSets

CONSTANTS
  Messages,     \* answers of the peer: [ok, status, framing, size]
  RequestSize,  \* units of the serialised request
  InitialCap    \* RECV_INITIAL_CAP, in units

VARIABLES
  pc,       \* the next step of https_request; "idle" when it is not running
  held,     \* what the call holds: socket, TLS contexts, heap blocks
  msg,      \* the peer's whole answer to this request
  written,  \* units of the request written
  cap, total,    \* size of buf, and how much of it is filled
  out_status,    \* the caller's *out_status; 0 is the caller's initial value
  result,        \* NoBody, or the body: how many units of it
  waits          \* timeouts waited out in this call

vars == <<pc, held, msg, written, cap, total, out_status, result, waits>>

Contexts == {"entropy", "ctr_drbg", "cacert", "conf", "ssl"}
Resources == Contexts \cup {"sock", "req", "buf", "resp", "result"}
HeaderSize == 2
NoBody == -1

ASSUME RequestAssumption ==
  /\ Messages \subseteq [ok : BOOLEAN, status : Nat \ {0}, size : Nat,
                         framing : {"length", "chunked", "close"}]
  /\ RequestSize \in Nat \ {0}
  /\ InitialCap \in Nat \ {0}

(* TLS setup, in the order of the code; each step may fail.                *)
SetupSteps == {"seed", "ca_parse", "config", "ssl_setup", "hostname", "handshake"}
AfterSetup(step) ==
  CASE step = "seed" -> "ca_parse"      [] step = "ca_parse" -> "config"
    [] step = "config" -> "ssl_setup"   [] step = "ssl_setup" -> "hostname"
    [] step = "hostname" -> "handshake" [] step = "handshake" -> "build"

Steps == SetupSteps \cup {"resolve", "socket", "connect", "build", "write", "alloc", "read", "close_notify",
                          "parse", "copy", "free_buf", "cleanup"}

(* Units the peer puts on the wire for m: a chunked body has a last chunk. *)
WireSize(m) == HeaderSize + m.size + (IF m.framing = "chunked" THEN 1 ELSE 0)

(* Mutant: what follows a chunked body is taken for a part of it. *)
ParsedUntrimmed(m, n) ==
  IF m.framing = "length" /\ m.size < n - HeaderSize THEN m.size ELSE n - HeaderSize

(* http_parse_response on the first n units of m: the body it finds.  A    *)
(* Content-Length or a chunk that promises more than arrived is cut to     *)
(* what arrived.                                                           *)
Parsed(m, n) ==
  LET remaining == n - HeaderSize
  IN IF m.framing # "close" /\ m.size < remaining THEN m.size ELSE remaining

Parses(m, n) == m.ok /\ n >= HeaderSize

-----------------------------------------------------------------------------
Init ==
  /\ pc = "idle"
  /\ held = {}
  /\ msg \in Messages
  /\ written = 0 /\ cap = 0 /\ total = 0
  /\ out_status = 0 /\ result = NoBody
  /\ waits = 0

(* A caller, with its status and len set to 0, enters the function.        *)
Call ==
  /\ pc = "idle" /\ "result" \notin held
  /\ pc' = "resolve"
  /\ msg' \in Messages
  /\ written' = 0 /\ cap' = 0 /\ total' = 0
  /\ out_status' = 0 /\ result' = NoBody /\ waits' = 0
  /\ UNCHANGED held

(* A call that fails at once, or after the timeout.                        *)
FailsNow == UNCHANGED waits
TimesOut == waits' = waits + 1

(* resolve_host: a dotted address, or gethostbyname, which has no timeout  *)
(* of this program's.                                                      *)
ResolveHost ==
  /\ pc = "resolve"
  /\ pc' \in {"socket", "idle"}
  /\ UNCHANGED <<held, msg, written, cap, total, out_status, result, waits>>

OpenSocket ==
  /\ pc = "socket"
  /\ \/ pc' = "connect" /\ held' = held \cup {"sock"}
     \/ pc' = "idle" /\ UNCHANGED held
  /\ UNCHANGED <<msg, written, cap, total, out_status, result, waits>>

(* Mutant: pal_tcp_connect returns without closesocket. *)
ConnectLeaks ==
  /\ pc = "connect"
  /\ \/ pc' = "seed" /\ held' = held \cup Contexts
     \/ pc' = "idle" /\ UNCHANGED held
  /\ UNCHANGED <<msg, written, cap, total, out_status, result, waits>>

(* connect_with_timeout; https_request then initialises its five contexts. *)
Connect ==
  /\ pc = "connect"
  /\ \/ /\ pc' = "seed"
        /\ held' = held \cup Contexts
        /\ UNCHANGED waits
     \/ /\ pc' = "idle"
        /\ held' = held \ {"sock"}
        /\ FailsNow \/ TimesOut
  /\ UNCHANGED <<msg, written, cap, total, out_status, result>>

(* With a blocking socket the BIO never reports WANT_READ or WANT_WRITE,   *)
(* so the handshake loop runs once.                                        *)
Setup ==
  /\ pc \in SetupSteps
  /\ \/ pc' = AfterSetup(pc) /\ UNCHANGED waits
     \/ pc' = "cleanup" /\ (FailsNow \/ (pc = "handshake" /\ TimesOut))
  /\ UNCHANGED <<held, msg, written, cap, total, out_status, result>>

BuildRequest ==
  /\ pc = "build"
  /\ \/ pc' = "write" /\ held' = held \cup {"req"}
     \/ pc' = "cleanup" /\ UNCHANGED held
  /\ UNCHANGED <<msg, written, cap, total, out_status, result, waits>>

(* Mutant: every round offers req_len bytes, not the rest. *)
WritePastEnd ==
  /\ pc = "write"
  /\ \E n \in 1 .. RequestSize : written' = written + n
  /\ IF written' >= RequestSize
     THEN pc' = "alloc" /\ held' = held \ {"req"}
     ELSE UNCHANGED <<pc, held>>
  /\ UNCHANGED <<msg, cap, total, out_status, result, waits>>

(* mbedtls_ssl_write writes some of the rest, or fails.                    *)
Write ==
  /\ pc = "write"
  /\ \/ /\ \E n \in 1 .. RequestSize - written : written' = written + n
        /\ IF written' = RequestSize
           THEN pc' = "alloc" /\ held' = held \ {"req"}
           ELSE UNCHANGED <<pc, held>>
        /\ UNCHANGED waits
     \/ /\ pc' = "cleanup"
        /\ held' = held \ {"req"}
        /\ FailsNow \/ TimesOut
        /\ UNCHANGED written
  /\ UNCHANGED <<msg, cap, total, out_status, result>>

(* Mutant: malloc's result is not checked. *)
AllocBufferUnchecked ==
  /\ pc = "alloc"
  /\ pc' = "read" /\ held' \in {held, held \cup {"buf"}} /\ cap' = InitialCap
  /\ UNCHANGED <<msg, written, total, out_status, result, waits>>

AllocBuffer ==
  /\ pc = "alloc"
  /\ \/ pc' = "read" /\ held' = held \cup {"buf"} /\ cap' = InitialCap
     \/ pc' = "close_notify" /\ UNCHANGED <<held, cap>>
  /\ UNCHANGED <<msg, written, total, out_status, result, waits>>

(* A full buffer doubles; when it cannot, reading ends with what there is. *)
GrowBuffer ==
  /\ pc = "read" /\ total >= cap
  /\ \/ cap' = 2 * cap /\ UNCHANGED pc
     \/ pc' = "close_notify" /\ UNCHANGED cap
  /\ UNCHANGED <<held, msg, written, total, out_status, result, waits>>

(* Mutant: every read is offered cap bytes, not what is left of them. *)
ReadSomeOverrun ==
  /\ pc = "read" /\ total < cap
  /\ \E n \in 1 .. cap : total + n <= WireSize(msg) /\ total' = total + n
  /\ UNCHANGED <<pc, held, msg, written, cap, out_status, result, waits>>

(* mbedtls_ssl_read fills some of the buffer. *)
ReadSome ==
  /\ pc = "read" /\ total < cap
  /\ \E n \in 1 .. cap - total :
       /\ total + n <= WireSize(msg)
       /\ total' = total + n
  /\ UNCHANGED <<pc, held, msg, written, cap, out_status, result, waits>>

(* Mutant: a timeout is tried again. *)
ReadEndsRetries ==
  /\ pc = "read" /\ total < cap
  /\ \/ pc' = "close_notify" /\ FailsNow
     \/ UNCHANGED pc /\ TimesOut
  /\ UNCHANGED <<held, msg, written, cap, total, out_status, result>>

(* close_notify, end of stream, an error or a timeout: the loop ends alike, *)
(* whatever part of the answer has arrived.                                 *)
ReadEnds ==
  /\ pc = "read" /\ total < cap
  /\ pc' = "close_notify"
  /\ FailsNow \/ TimesOut
  /\ UNCHANGED <<held, msg, written, cap, total, out_status, result>>

CloseNotify ==
  /\ pc = "close_notify"
  /\ pc' = IF "buf" \in held /\ total > 0 THEN "parse" ELSE "free_buf"
  /\ FailsNow \/ TimesOut
  /\ UNCHANGED <<held, msg, written, cap, total, out_status, result>>

(* Mutant: *out_status is not set. *)
ParseResponseSilent ==
  /\ pc = "parse"
  /\ \/ Parses(msg, total) /\ pc' = "copy" /\ held' = held \cup {"resp"}
     \/ pc' = "free_buf" /\ UNCHANGED held
  /\ UNCHANGED <<msg, written, cap, total, out_status, result, waits>>

(* The parser copies the answer and its headers, so it can also run out of *)
(* memory; it releases what it has taken when it fails.                    *)
ParseResponse ==
  /\ pc = "parse"
  /\ \/ /\ Parses(msg, total)
        /\ pc' = "copy"
        /\ held' = held \cup {"resp"}
        /\ out_status' = msg.status
     \/ pc' = "free_buf" /\ UNCHANGED <<held, out_status>>
  /\ UNCHANGED <<msg, written, cap, total, result, waits>>

CopyBody ==
  /\ pc = "copy"
  /\ \/ /\ result' = Parsed(msg, total)
        /\ held' = (held \cup {"result"}) \ {"resp"}
     \/ /\ held' = held \ {"resp"}
        /\ UNCHANGED result
  /\ pc' = "free_buf"
  /\ UNCHANGED <<msg, written, cap, total, out_status, waits>>

FreeBuffer ==
  /\ pc = "free_buf"
  /\ pc' = "cleanup"
  /\ held' = held \ {"buf"}
  /\ UNCHANGED <<msg, written, cap, total, out_status, result, waits>>

Cleanup ==
  /\ pc = "cleanup"
  /\ pc' = "idle"
  /\ held' = held \ (Contexts \cup {"sock"})
  /\ UNCHANGED <<msg, written, cap, total, out_status, result, waits>>

(* The caller frees the body it was given. *)
FreeResult ==
  /\ pc = "idle" /\ "result" \in held
  /\ held' = held \ {"result"}
  /\ UNCHANGED <<pc, msg, written, cap, total, out_status, result, waits>>

Step ==
  \/ ResolveHost \/ OpenSocket \/ Connect \/ Setup \/ BuildRequest \/ Write \/ AllocBuffer
  \/ GrowBuffer \/ ReadSome \/ ReadEnds \/ CloseNotify
  \/ ParseResponse \/ CopyBody \/ FreeBuffer \/ Cleanup

Next == Call \/ Step \/ FreeResult

(* The function runs: every call it makes comes back, the blocking ones    *)
(* because the socket has its timeouts.                                    *)
Fairness == WF_vars(Step)

Spec == Init /\ [][Next]_vars
FairSpec == Spec /\ Fairness

-----------------------------------------------------------------------------
(* Properties *)

TypeOK ==
  /\ pc \in Steps \cup {"idle"}
  /\ held \subseteq Resources
  /\ msg \in Messages
  /\ written \in 0 .. RequestSize
  /\ cap \in Nat /\ total \in Nat
  /\ out_status \in Nat
  /\ result \in Nat \cup {NoBody}
  /\ waits \in Nat

(* Whichever step failed, a finished call holds no socket, no TLS context  *)
(* and no memory, but the body it returns.                                 *)
NothingLeaks == pc = "idle" => held \subseteq {"result"}

(* No step runs on what has been released or was never acquired: TLS only  *)
(* with its socket and contexts, the write with its request, the read, the *)
(* parse and the copy with their buffer.                                   *)
HeldWhenUsed ==
  /\ pc \notin {"idle", "resolve", "socket"} => "sock" \in held
  /\ pc \notin {"idle", "resolve", "socket", "connect"} => Contexts \subseteq held
  /\ pc = "write" => "req" \in held
  /\ pc \in {"read", "parse", "copy"} => "buf" \in held
  /\ pc = "copy" => "resp" \in held

(* A read is never asked for zero bytes or past the end of the buffer, and *)
(* the buffer is never overrun.                                            *)
BufferBounds == pc \in {"read", "parse", "copy"} => total <= cap /\ cap > 0

(* A body comes with the status of its own answer, and is the body of that *)
(* answer or, if the connection ended early, the beginning of it.          *)
BodyIsPrefix ==
  "result" \in held => /\ msg.ok /\ out_status = msg.status
                       /\ result \in 0 .. msg.size

(* However the peer behaves, a call sits out two timeouts at most: one     *)
(* that ends the exchange, and one while it says goodbye.                  *)
FewTimeouts == waits <= 2

(* The whole function behaves as one request that fails or delivers: a     *)
(* caller sees the body only once the call has returned.                   *)
Abstract == INSTANCE Fetch WITH
  busy <- pc # "idle",
  answer <- msg,
  reply <- IF pc = "idle" /\ "result" \in held
           THEN [status |-> out_status, size |-> result]
           ELSE [status |-> 0, size |-> -1]

ImplementsFetch == Abstract!Spec

(* The safety part of it: no step but Call, the return and the release of  *)
(* the body can be told from outside.                                      *)
ImplementsFetchSafely == Abstract!SafeSpec
=============================================================================
