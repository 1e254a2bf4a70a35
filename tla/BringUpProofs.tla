--------------------------- MODULE BringUpProofs ----------------------------
(* What the four programs guarantee, whatever fails and however much the     *)
(* peer sends.  The invariant annotates the programs: it says of each label  *)
(* what is held there.  Every call is shown to keep the annotation (Fits),   *)
(* and so does a run, which only follows the calls.                          *)
EXTENDS BringUp, TLAPS

(* What nettest holds at each label for certain, what it may hold besides,   *)
(* and what it may have released before.                                     *)
NettestSure(l) ==
  CASE l = "connect" -> {"net"}
    [] l \in {"build", "alloc", "hangup"} -> {"net", "sock"}
    [] l = "send" -> {"net", "sock", "req"}
    [] l = "recv" -> {"net", "sock", "buf"}
    [] l \in {"parse", "freeBuf"} -> {"buf"}
    [] l \in {"map", "freeResp"} -> {"buf", "resp"}
    [] l = "log" -> {"buf", "resp", "feed"}
    [] OTHER -> {}

NettestMaybe(l) == IF l \in {"hangup", "check", "nodata"} THEN {"buf"} ELSE {}

NettestPast(l) ==
  CASE l \in {"init", "connect", "build", "send"} -> {}
    [] l \in {"alloc", "recv", "hangup"} -> {"req"}
    [] l \in {"check", "nodata", "parse", "map", "log"} -> {"req", "net", "sock"}
    [] l = "freeResp" -> {"req", "net", "sock", "feed"}
    [] l = "freeBuf" -> {"req", "net", "sock", "feed", "resp"}
    [] OTHER -> Resources

(* The programs that speak TLS hold the session until they clean up; and     *)
(* bodies is what is built before the request.                               *)
TlsSure(bodies, l) ==
  CASE l \in {"init", "exit"} -> {}
    [] l = "connect" -> {"net"}
    [] l = "contexts" -> {"net", "sock"}
    [] l = "build" -> Session \cup bodies
    [] l = "send" -> Session \cup {"req"}
    [] l \in {"recv", "parse"} -> Session \cup {"buf"}
    [] l \in {"status", "map", "slice", "freeResp"} -> Session \cup {"buf", "resp"}
    [] l = "log" -> Session \cup {"buf", "resp", "feed"}
    [] OTHER -> Session

TlsMaybe(l) == IF l \in {"notify", "check", "nodata", "freeBuf"} THEN {"buf"} ELSE {}

TlsPast(l) ==
  CASE l = "send" -> {"body"}
    [] l \in {"alloc", "recv", "notify", "check", "nodata", "parse", "status", "map", "slice",
              "log"} -> {"body", "req"}
    [] l = "freeResp" -> {"body", "req", "feed"}
    [] l = "freeBuf" -> {"body", "req", "feed", "resp"}
    [] l = "cleanup" -> Heap
    [] l = "exit" -> Resources
    [] OTHER -> {}

Bodies(p) == IF p = "ig_feed" THEN {"body"} ELSE {}
Sure(p, l) == IF p = "nettest" THEN NettestSure(l) ELSE TlsSure(Bodies(p), l)
Maybe(p, l) == IF p = "nettest" THEN NettestMaybe(l) ELSE TlsMaybe(l)
Past(p, l) == IF p = "nettest" THEN NettestPast(l) ELSE TlsPast(l)

(* The annotation is true where the program is. *)
Annotated ==
  /\ Sure(prog, at) \subseteq held
  /\ held \subseteq Sure(prog, at) \cup Maybe(prog, at)
  /\ gone \subseteq Past(prog, at)

Inv ==
  /\ prog \in DOMAIN Programs
  /\ at \in DOMAIN Programs[prog] \cup {"exit"}
  /\ Annotated

(* A way from a label keeps the annotation: what it releases can be released, *)
(* and what is said of the label it goes to is true there.                    *)
Leads(p, l, way, gain, most) ==
  /\ way.go \in DOMAIN Programs[p] \cup {"exit"}
  /\ way.free \cap Past(p, l) = {}
  /\ way.free \subseteq Sure(p, l) \cup Heap
  /\ Sure(p, way.go) \subseteq (Sure(p, l) \cup gain) \ way.free
  /\ (Sure(p, l) \cup Maybe(p, l) \cup gain) \ way.free
       \subseteq Sure(p, way.go) \cup Maybe(p, way.go)
  /\ Past(p, l) \cup (way.free \cap (Sure(p, l) \cup Maybe(p, l) \cup most))
       \subseteq Past(p, way.go)

(* The call at a label finds what it uses, and its ways keep the annotation.  *)
Fits(p, l, call) ==
  /\ call.needs \subseteq Sure(p, l)
  /\ \A way \in call.ways : Leads(p, l, way, IF way = call.ok THEN call.gain ELSE {}, call.gain)

(* The same of a call that is given by its parts.                             *)
Fitting(p, l, needs, gain, ok, no) ==
  /\ needs \subseteq Sure(p, l)
  /\ Leads(p, l, ok, gain, gain)
  /\ no # ok => Leads(p, l, no, {}, gain)

-----------------------------------------------------------------------------
(* A call has two ways. *)
LEMMA CallFits ==
  ASSUME NEW p, NEW l, NEW needs, NEW gain, NEW ok, NEW no, Fitting(p, l, needs, gain, ok, no)
  PROVE  Fits(p, l, Call(needs, gain, ok, no))
BY DEF Fitting, Fits, Call

(* The labels of the program. *)
LEMMA NettestLabels ==
  DOMAIN Nettest =
    {"init", "connect", "build", "send", "alloc", "recv", "hangup", "check", "nodata",
     "parse", "map", "log", "freeResp", "freeBuf"}
BY DEF Nettest

(* Every call of nettest but the one that looks at the buffer is right. *)
LEMMA NettestFits ==
  ASSUME NEW l \in DOMAIN Nettest, l # "check"
  PROVE  Fits("nettest", l, Nettest[l])
<1>. Programs["nettest"] = Nettest
  BY DEF Programs
<1>1. CASE l = "init"
  <2>1. Fitting("nettest", "init", {}, {"net"}, To({}, "connect"), To({}, "exit"))
    BY NettestLabels DEF Fitting, Leads, To, Heap, Resources, Sure, Maybe, Past, NettestSure,
                         NettestMaybe, NettestPast
  <2>. QED BY <1>1, <2>1, CallFits, Zenon DEF Do, Nettest
<1>2. CASE l = "connect"
  <2>1. Fitting("nettest", "connect", {"net"}, {"sock"}, To({}, "build"), To({"net"}, "exit"))
    BY NettestLabels DEF Fitting, Leads, To, Heap, Resources, Sure, Maybe, Past, NettestSure,
                         NettestMaybe, NettestPast
  <2>. QED BY <1>2, <2>1, CallFits, Zenon DEF Do, Nettest
<1>3. CASE l = "build"
  <2>1. Fitting("nettest", "build", {}, {"req"}, To({}, "send"), To({"sock", "net"}, "exit"))
    BY NettestLabels DEF Fitting, Leads, To, Heap, Resources, Sure, Maybe, Past, NettestSure,
                         NettestMaybe, NettestPast
  <2>. QED BY <1>3, <2>1, CallFits, Zenon DEF Do, Nettest
<1>4. CASE l = "send"
  <2>1. Fitting("nettest", "send", {"net", "sock", "req"}, {}, To({"req"}, "alloc"),
                To({"req", "sock", "net"}, "exit"))
    BY NettestLabels DEF Fitting, Leads, To, Heap, Resources, Sure, Maybe, Past, NettestSure,
                         NettestMaybe, NettestPast
  <2>. QED BY <1>4, <2>1, CallFits, Zenon DEF Do, Nettest
<1>5. CASE l = "alloc"
  <2>1. Fitting("nettest", "alloc", {}, {"buf"}, To({}, "recv"), To({}, "hangup"))
    BY NettestLabels DEF Fitting, Leads, To, Heap, Resources, Sure, Maybe, Past, NettestSure,
                         NettestMaybe, NettestPast
  <2>. QED BY <1>5, <2>1, CallFits, Zenon DEF Do, Nettest
<1>6. CASE l = "recv"
  <2>1. Fitting("nettest", "recv", {"net", "sock", "buf"}, {}, To({}, "hangup"), To({}, "hangup"))
    BY NettestLabels DEF Fitting, Leads, To, Heap, Resources, Sure, Maybe, Past, NettestSure,
                         NettestMaybe, NettestPast
  <2>. QED BY <1>6, <2>1, CallFits, Zenon DEF Do, Nettest
<1>7. CASE l = "hangup"
  <2>1. Fitting("nettest", "hangup", {"net", "sock"}, {}, To({"sock", "net"}, "check"),
                To({"sock", "net"}, "check"))
    BY NettestLabels DEF Fitting, Leads, To, Heap, Resources, Sure, Maybe, Past, NettestSure,
                         NettestMaybe, NettestPast
  <2>. QED BY <1>7, <2>1, CallFits, Zenon DEF Do, Nettest
<1>8. CASE l = "nodata"
  <2>1. Fitting("nettest", "nodata", {}, {}, To({"buf"}, "exit"), To({"buf"}, "exit"))
    BY NettestLabels DEF Fitting, Leads, To, Heap, Resources, Sure, Maybe, Past, NettestSure,
                         NettestMaybe, NettestPast
  <2>. QED BY <1>8, <2>1, CallFits, Zenon DEF Do, Nettest
<1>9. CASE l = "parse"
  <2>1. Fitting("nettest", "parse", {"buf"}, {"resp"}, To({}, "map"), To({"buf"}, "exit"))
    BY NettestLabels DEF Fitting, Leads, To, Heap, Resources, Sure, Maybe, Past, NettestSure,
                         NettestMaybe, NettestPast
  <2>. QED BY <1>9, <2>1, CallFits, Zenon DEF Do, Nettest
<1>10. CASE l = "map"
  <2>1. Fitting("nettest", "map", {"resp"}, {"feed"}, To({}, "log"), To({}, "freeResp"))
    BY NettestLabels DEF Fitting, Leads, To, Heap, Resources, Sure, Maybe, Past, NettestSure,
                         NettestMaybe, NettestPast
  <2>. QED BY <1>10, <2>1, CallFits, Zenon DEF Do, Nettest
<1>11. CASE l = "log"
  <2>1. Fitting("nettest", "log", {"feed"}, {}, To({"feed"}, "freeResp"), To({"feed"}, "freeResp"))
    BY NettestLabels DEF Fitting, Leads, To, Heap, Resources, Sure, Maybe, Past, NettestSure,
                         NettestMaybe, NettestPast
  <2>. QED BY <1>11, <2>1, CallFits, Zenon DEF Do, Nettest
<1>12. CASE l = "freeResp"
  <2>1. Fitting("nettest", "freeResp", {"resp"}, {}, To({"resp"}, "freeBuf"),
                To({"resp"}, "freeBuf"))
    BY NettestLabels DEF Fitting, Leads, To, Heap, Resources, Sure, Maybe, Past, NettestSure,
                         NettestMaybe, NettestPast
  <2>. QED BY <1>12, <2>1, CallFits, Zenon DEF Do, Nettest
<1>13. CASE l = "freeBuf"
  <2>1. Fitting("nettest", "freeBuf", {}, {}, To({"buf"}, "exit"), To({"buf"}, "exit"))
    BY NettestLabels DEF Fitting, Leads, To, Heap, Resources, Sure, Maybe, Past, NettestSure,
                         NettestMaybe, NettestPast
  <2>. QED BY <1>13, <2>1, CallFits, Zenon DEF Do, Nettest
<1>. QED BY NettestLabels, <1>1, <1>2, <1>3, <1>4, <1>5, <1>6, <1>7, <1>8, <1>9, <1>10,
           <1>11, <1>12, <1>13

(* The labels of the programs that speak TLS, but for two that ig_feed adds. *)
TlsLabels ==
  {"contexts", "seed", "ca", "defaults", "setup", "hostname", "handshake", "init",
   "connect", "build", "send", "alloc", "recv", "notify", "check", "nodata", "parse", "map",
   "log", "slice", "freeResp", "freeBuf", "cleanup"}

(* They are the same wherever the setup and the answer lead. *)
LEMMA TlsDomain ==
  ASSUME NEW build, NEW answered
  PROVE  DOMAIN TlsProgram(build, answered) = TlsLabels
BY DEF TlsProgram, TlsSetup, Merge, TlsLabels

(* What ig_feed does otherwise than the programs it is made of. *)
LEMMA IgFeedRows ==
  /\ IgFeed.bodyBuild = Call({}, {"body"}, To({}, "build"), To({}, "cleanup"))
  /\ IgFeed.build = Call({"body"}, {"req"}, To({"body"}, "send"), To({"body"}, "cleanup"))
  /\ IgFeed.status = Call({"resp"}, {}, To({}, "map"), To({}, "slice"))
  /\ DOMAIN IgFeed = {"bodyBuild", "build", "status"} \cup DOMAIN TlsProgram("bodyBuild", "status")
  /\ \A l \in DOMAIN TlsProgram("bodyBuild", "status") \ {"bodyBuild", "build", "status"} :
       IgFeed[l] = TlsProgram("bodyBuild", "status")[l]
BY Zenon DEF IgFeed, Merge

(* Those programs. *)
Tls == {"tlstest", "graphtest", "ig_feed"}

(* The labels of the programs. *)
LEMMA ProgramLabels ==
  /\ Programs["nettest"] = Nettest
  /\ Programs["tlstest"] = TlsProgram("build", "map")
  /\ Programs["graphtest"] = TlsProgram("build", "slice")
  /\ Programs["ig_feed"] = IgFeed
  /\ DOMAIN Programs = {"nettest"} \cup Tls
  /\ \A p \in Tls :
       DOMAIN Programs[p] = TlsLabels \cup (IF p = "ig_feed" THEN {"bodyBuild", "status"} ELSE {})
<1>1. /\ Programs["nettest"] = Nettest
      /\ Programs["tlstest"] = TlsProgram("build", "map")
      /\ Programs["graphtest"] = TlsProgram("build", "slice")
      /\ Programs["ig_feed"] = IgFeed
      /\ DOMAIN Programs = {"nettest"} \cup Tls
  BY DEF Programs, Tlstest, Graphtest, Tls
<1>2. DOMAIN IgFeed = TlsLabels \cup {"bodyBuild", "status"}
  BY TlsDomain, IgFeedRows DEF TlsLabels
<1>. QED BY <1>1, <1>2, TlsDomain DEF Tls

(* Where the setup and the answer lead in a program. *)
Leading(p, build, answered) ==
  IF p = "ig_feed" THEN build = "bodyBuild" /\ answered = "status"
                   ELSE build = "build" /\ answered \in {"map", "slice"}

(* Every call they share, but the one that looks at the buffer, is right.    *)
LEMMA TlsFits ==
  ASSUME NEW p \in Tls, NEW build, NEW answered, NEW l \in TlsLabels, l # "check",
         Leading(p, build, answered), ~(p = "ig_feed" /\ l = "build")
  PROVE  Fits(p, l, TlsProgram(build, answered)[l])
<1>. p # "nettest" /\ TlsLabels \subseteq DOMAIN Programs[p]
     /\ (p = "ig_feed" => {"bodyBuild", "status"} \subseteq DOMAIN Programs[p])
  BY ProgramLabels DEF Tls
<1>1. CASE l = "contexts"
  <2>1. Fitting(p, "contexts", {}, {"tls"}, To({}, "seed"), To({}, "seed"))
    BY <1>1 DEF Fitting, Leads, To, Heap, Resources, Sure, Maybe, Past, TlsSure, TlsMaybe,
                TlsPast, Bodies, Session, TlsLabels, Leading
  <2>. QED BY <1>1, <2>1, CallFits, Zenon DEF Do, TlsProgram, TlsSetup, Merge
<1>2. CASE l = "seed"
  <2>1. Fitting(p, "seed", Session, {}, To({}, "ca"), To({}, "cleanup"))
    BY <1>2 DEF Fitting, Leads, To, Heap, Resources, Sure, Maybe, Past, TlsSure, TlsMaybe,
                TlsPast, Bodies, Session, TlsLabels, Leading
  <2>. QED BY <1>2, <2>1, CallFits, Zenon DEF Do, TlsProgram, TlsSetup, Merge
<1>3. CASE l = "ca"
  <2>1. Fitting(p, "ca", Session, {}, To({}, "defaults"), To({}, "cleanup"))
    BY <1>3 DEF Fitting, Leads, To, Heap, Resources, Sure, Maybe, Past, TlsSure, TlsMaybe,
                TlsPast, Bodies, Session, TlsLabels, Leading
  <2>. QED BY <1>3, <2>1, CallFits, Zenon DEF Do, TlsProgram, TlsSetup, Merge
<1>4. CASE l = "defaults"
  <2>1. Fitting(p, "defaults", Session, {}, To({}, "setup"), To({}, "cleanup"))
    BY <1>4 DEF Fitting, Leads, To, Heap, Resources, Sure, Maybe, Past, TlsSure, TlsMaybe,
                TlsPast, Bodies, Session, TlsLabels, Leading
  <2>. QED BY <1>4, <2>1, CallFits, Zenon DEF Do, TlsProgram, TlsSetup, Merge
<1>5. CASE l = "setup"
  <2>1. Fitting(p, "setup", Session, {}, To({}, "hostname"), To({}, "cleanup"))
    BY <1>5 DEF Fitting, Leads, To, Heap, Resources, Sure, Maybe, Past, TlsSure, TlsMaybe,
                TlsPast, Bodies, Session, TlsLabels, Leading
  <2>. QED BY <1>5, <2>1, CallFits, Zenon DEF Do, TlsProgram, TlsSetup, Merge
<1>6. CASE l = "hostname"
  <2>1. Fitting(p, "hostname", Session, {}, To({}, "handshake"), To({}, "cleanup"))
    BY <1>6 DEF Fitting, Leads, To, Heap, Resources, Sure, Maybe, Past, TlsSure, TlsMaybe,
                TlsPast, Bodies, Session, TlsLabels, Leading
  <2>. QED BY <1>6, <2>1, CallFits, Zenon DEF Do, TlsProgram, TlsSetup, Merge
<1>7. CASE l = "handshake"
  <2>1. Fitting(p, "handshake", Session, {}, To({}, build), To({}, "cleanup"))
    BY <1>7 DEF Fitting, Leads, To, Heap, Resources, Sure, Maybe, Past, TlsSure, TlsMaybe,
                TlsPast, Bodies, Session, TlsLabels, Leading
  <2>. QED BY <1>7, <2>1, CallFits, Zenon DEF Do, TlsProgram, TlsSetup, Merge
<1>8. CASE l = "init"
  <2>1. Fitting(p, "init", {}, {"net"}, To({}, "connect"), To({}, "exit"))
    BY <1>8 DEF Fitting, Leads, To, Heap, Resources, Sure, Maybe, Past, TlsSure, TlsMaybe,
                TlsPast, Bodies, Session, TlsLabels, Leading
  <2>. QED BY <1>8, <2>1, CallFits, Zenon DEF Do, TlsProgram, TlsSetup, Merge
<1>9. CASE l = "connect"
  <2>1. Fitting(p, "connect", {"net"}, {"sock"}, To({}, "contexts"), To({"net"}, "exit"))
    BY <1>9 DEF Fitting, Leads, To, Heap, Resources, Sure, Maybe, Past, TlsSure, TlsMaybe,
                TlsPast, Bodies, Session, TlsLabels, Leading
  <2>. QED BY <1>9, <2>1, CallFits, Zenon DEF Do, TlsProgram, TlsSetup, Merge
<1>10. CASE l = "build"
  <2>1. Fitting(p, "build", {}, {"req"}, To({}, "send"), To({}, "cleanup"))
    BY <1>10 DEF Fitting, Leads, To, Heap, Resources, Sure, Maybe, Past, TlsSure, TlsMaybe,
                 TlsPast, Bodies, Session, TlsLabels, Leading
  <2>. QED BY <1>10, <2>1, CallFits, Zenon DEF Do, TlsProgram, TlsSetup, Merge
<1>11. CASE l = "send"
  <2>1. Fitting(p, "send", Session \cup {"req"}, {}, To({"req"}, "alloc"), To({"req"}, "cleanup"))
    BY <1>11 DEF Fitting, Leads, To, Heap, Resources, Sure, Maybe, Past, TlsSure, TlsMaybe,
                 TlsPast, Bodies, Session, TlsLabels, Leading
  <2>. QED BY <1>11, <2>1, CallFits, Zenon DEF Do, TlsProgram, TlsSetup, Merge
<1>12. CASE l = "alloc"
  <2>1. Fitting(p, "alloc", {}, {"buf"}, To({}, "recv"), To({}, "notify"))
    BY <1>12 DEF Fitting, Leads, To, Heap, Resources, Sure, Maybe, Past, TlsSure, TlsMaybe,
                 TlsPast, Bodies, Session, TlsLabels, Leading
  <2>. QED BY <1>12, <2>1, CallFits, Zenon DEF Do, TlsProgram, TlsSetup, Merge
<1>13. CASE l = "recv"
  <2>1. Fitting(p, "recv", Session \cup {"buf"}, {}, To({}, "notify"), To({}, "notify"))
    BY <1>13 DEF Fitting, Leads, To, Heap, Resources, Sure, Maybe, Past, TlsSure, TlsMaybe,
                 TlsPast, Bodies, Session, TlsLabels, Leading
  <2>. QED BY <1>13, <2>1, CallFits, Zenon DEF Do, TlsProgram, TlsSetup, Merge
<1>14. CASE l = "notify"
  <2>1. Fitting(p, "notify", Session, {}, To({}, "check"), To({}, "check"))
    BY <1>14 DEF Fitting, Leads, To, Heap, Resources, Sure, Maybe, Past, TlsSure, TlsMaybe,
                 TlsPast, Bodies, Session, TlsLabels, Leading
  <2>. QED BY <1>14, <2>1, CallFits, Zenon DEF Do, TlsProgram, TlsSetup, Merge
<1>15. CASE l = "nodata"
  <2>1. Fitting(p, "nodata", {}, {}, To({}, "freeBuf"), To({}, "freeBuf"))
    BY <1>15 DEF Fitting, Leads, To, Heap, Resources, Sure, Maybe, Past, TlsSure, TlsMaybe,
                 TlsPast, Bodies, Session, TlsLabels, Leading
  <2>. QED BY <1>15, <2>1, CallFits, Zenon DEF Do, TlsProgram, TlsSetup, Merge
<1>16. CASE l = "parse"
  <2>1. Fitting(p, "parse", {"buf"}, {"resp"}, To({}, answered), To({}, "freeBuf"))
    BY <1>16 DEF Fitting, Leads, To, Heap, Resources, Sure, Maybe, Past, TlsSure, TlsMaybe,
                 TlsPast, Bodies, Session, TlsLabels, Leading
  <2>. QED BY <1>16, <2>1, CallFits, Zenon DEF Do, TlsProgram, TlsSetup, Merge
<1>17. CASE l = "map"
  <2>1. Fitting(p, "map", {"resp"}, {"feed"}, To({}, "log"), To({}, "freeResp"))
    BY <1>17 DEF Fitting, Leads, To, Heap, Resources, Sure, Maybe, Past, TlsSure, TlsMaybe,
                 TlsPast, Bodies, Session, TlsLabels, Leading
  <2>. QED BY <1>17, <2>1, CallFits, Zenon DEF Do, TlsProgram, TlsSetup, Merge
<1>18. CASE l = "log"
  <2>1. Fitting(p, "log", {"feed"}, {}, To({"feed"}, "freeResp"), To({"feed"}, "freeResp"))
    BY <1>18 DEF Fitting, Leads, To, Heap, Resources, Sure, Maybe, Past, TlsSure, TlsMaybe,
                 TlsPast, Bodies, Session, TlsLabels, Leading
  <2>. QED BY <1>18, <2>1, CallFits, Zenon DEF Do, TlsProgram, TlsSetup, Merge
<1>19. CASE l = "slice"
  <2>1. Fitting(p, "slice", {"resp"}, {}, To({}, "freeResp"), To({}, "freeResp"))
    BY <1>19 DEF Fitting, Leads, To, Heap, Resources, Sure, Maybe, Past, TlsSure, TlsMaybe,
                 TlsPast, Bodies, Session, TlsLabels, Leading
  <2>. QED BY <1>19, <2>1, CallFits, Zenon DEF Do, TlsProgram, TlsSetup, Merge
<1>20. CASE l = "freeResp"
  <2>1. Fitting(p, "freeResp", {"resp"}, {}, To({"resp"}, "freeBuf"), To({"resp"}, "freeBuf"))
    BY <1>20 DEF Fitting, Leads, To, Heap, Resources, Sure, Maybe, Past, TlsSure, TlsMaybe,
                 TlsPast, Bodies, Session, TlsLabels, Leading
  <2>. QED BY <1>20, <2>1, CallFits, Zenon DEF Do, TlsProgram, TlsSetup, Merge
<1>21. CASE l = "freeBuf"
  <2>1. Fitting(p, "freeBuf", {}, {}, To({"buf"}, "cleanup"), To({"buf"}, "cleanup"))
    BY <1>21 DEF Fitting, Leads, To, Heap, Resources, Sure, Maybe, Past, TlsSure, TlsMaybe,
                 TlsPast, Bodies, Session, TlsLabels, Leading
  <2>. QED BY <1>21, <2>1, CallFits, Zenon DEF Do, TlsProgram, TlsSetup, Merge
<1>22. CASE l = "cleanup"
  <2>1. Fitting(p, "cleanup", Session, {}, To(Session, "exit"), To(Session, "exit"))
    BY <1>22 DEF Fitting, Leads, To, Heap, Resources, Sure, Maybe, Past, TlsSure, TlsMaybe,
                 TlsPast, Bodies, Session, TlsLabels, Leading
  <2>. QED BY <1>22, <2>1, CallFits, Zenon DEF Do, TlsProgram, TlsSetup, Merge
<1>. QED BY <1>1, <1>2, <1>3, <1>4, <1>5, <1>6, <1>7, <1>8, <1>9, <1>10, <1>11, <1>12, <1>13, <1>14,
           <1>15, <1>16, <1>17, <1>18, <1>19, <1>20, <1>21, <1>22 DEF TlsLabels

(* Every call of every program but the one that looks at the buffer.         *)
LEMMA CallsFit ==
  ASSUME NEW p \in DOMAIN Programs, NEW l \in DOMAIN Programs[p], l # "check"
  PROVE  Fits(p, l, Programs[p][l])
<1>1. CASE p = "nettest"
  BY <1>1, NettestFits, ProgramLabels
<1>2. CASE p \in {"tlstest", "graphtest"}
  <2>1. l \in TlsLabels /\ p \in Tls
    BY <1>2, ProgramLabels DEF Tls
  <2>2. PICK answered \in {"map", "slice"} : Programs[p] = TlsProgram("build", answered)
    BY <1>2, ProgramLabels
  <2>3. Fits(p, l, TlsProgram("build", answered)[l])
    <3>1. Leading(p, "build", answered) /\ p # "ig_feed"
      BY <1>2 DEF Leading
    <3>. QED BY <2>1, <3>1, TlsFits
  <2>. QED BY <2>2, <2>3
<1>3. CASE p = "ig_feed"
  <2>1. p \in Tls /\ p # "nettest" /\ Programs[p] = IgFeed
        /\ DOMAIN Programs[p] = TlsLabels \cup {"bodyBuild", "status"}
    BY <1>3, ProgramLabels DEF Tls
  <2>2. CASE l = "bodyBuild"
    <3>1. Fitting(p, "bodyBuild", {}, {"body"}, To({}, "build"), To({}, "cleanup"))
      BY <1>3, <2>1 DEF Fitting, Leads, To, Heap, Resources, Sure, Maybe, Past, TlsSure, TlsMaybe,
                        TlsPast, Bodies, Session, TlsLabels
    <3>. QED BY <2>1, <2>2, <3>1, IgFeedRows, CallFits
  <2>3. CASE l = "build"
    <3>1. Fitting(p, "build", {"body"}, {"req"}, To({"body"}, "send"), To({"body"}, "cleanup"))
      BY <1>3, <2>1 DEF Fitting, Leads, To, Heap, Resources, Sure, Maybe, Past, TlsSure, TlsMaybe,
                        TlsPast, Bodies, Session, TlsLabels
    <3>. QED BY <2>1, <2>3, <3>1, IgFeedRows, CallFits
  <2>4. CASE l = "status"
    <3>1. Fitting(p, "status", {"resp"}, {}, To({}, "map"), To({}, "slice"))
      BY <1>3, <2>1 DEF Fitting, Leads, To, Heap, Resources, Sure, Maybe, Past, TlsSure, TlsMaybe,
                        TlsPast, Bodies, Session, TlsLabels
    <3>. QED BY <2>1, <2>4, <3>1, IgFeedRows, CallFits
  <2>5. CASE l \notin {"bodyBuild", "build", "status"}
    <3>1. l \in TlsLabels /\ Programs[p][l] = TlsProgram("bodyBuild", "status")[l]
      BY <2>1, <2>5, IgFeedRows, TlsDomain
    <3>2. Leading(p, "bodyBuild", "status")
      BY <1>3 DEF Leading
    <3>. QED BY <2>1, <2>5, <3>1, <3>2, TlsFits
  <2>. QED BY <2>2, <2>3, <2>4, <2>5
<1>. QED BY <1>1, <1>2, <1>3, ProgramLabels DEF Tls

(* Looking at the buffer and reading into it release nothing.                *)
LEMMA CheckAndRecv ==
  ASSUME NEW p \in DOMAIN Programs
  PROVE  /\ {"check", "recv", "parse", "nodata", "init"} \subseteq DOMAIN Programs[p]
         /\ Programs[p].check = Do({}, To({}, "parse"))
         /\ \E needs, go : Programs[p].recv = Do(needs, To({}, go))
<1>1. /\ {"check", "recv", "parse", "nodata", "init"} \subseteq DOMAIN Nettest
      /\ Nettest.check = Do({}, To({}, "parse"))
      /\ \E needs, go : Nettest.recv = Do(needs, To({}, go))
  BY DEF Nettest
<1>2. ASSUME NEW build, NEW answered
      PROVE  /\ {"check", "recv", "parse", "nodata", "init"}
                  \subseteq DOMAIN TlsProgram(build, answered)
             /\ TlsProgram(build, answered).check = Do({}, To({}, "parse"))
             /\ \E needs, go : TlsProgram(build, answered).recv = Do(needs, To({}, go))
  <2>1. /\ TlsProgram(build, answered).check = Do({}, To({}, "parse"))
        /\ TlsProgram(build, answered).recv = Do(Session \cup {"buf"}, To({}, "notify"))
    BY Zenon DEF TlsProgram, TlsSetup, Merge
  <2>. QED BY <2>1, TlsDomain DEF TlsLabels
<1>3. /\ {"check", "recv", "parse", "nodata", "init"} \subseteq DOMAIN IgFeed
      /\ IgFeed.check = Do({}, To({}, "parse"))
      /\ \E needs, go : IgFeed.recv = Do(needs, To({}, go))
  BY <1>2, IgFeedRows
<1>. QED BY <1>1, <1>2, <1>3, ProgramLabels DEF Tls

(* What is held when the buffer is looked at is enough to parse it, if it is *)
(* there, and to go on without it.                                           *)
LEMMA CheckFits ==
  ASSUME NEW p
  PROVE  /\ Sure(p, "parse") = Sure(p, "check") \cup {"buf"} /\ Maybe(p, "check") = {"buf"}
         /\ Sure(p, "nodata") = Sure(p, "check") /\ Maybe(p, "nodata") = {"buf"}
         /\ Past(p, "nodata") = Past(p, "check") /\ Past(p, "parse") = Past(p, "check")
BY DEF Sure, Maybe, Past, NettestSure, NettestMaybe, NettestPast, TlsSure, TlsMaybe, TlsPast

-----------------------------------------------------------------------------
(* The programs begin with nothing held and nothing gone.                    *)
LEMMA InitInv == Init => Inv
<1>. SUFFICES ASSUME Init PROVE Inv
  OBVIOUS
<1>1. prog \in DOMAIN Programs /\ at \in DOMAIN Programs[prog]
  BY CheckAndRecv DEF Init
<1>2. Annotated
  BY DEF Init, Annotated, Sure, NettestSure, TlsSure
<1>. QED BY <1>1, <1>2 DEF Inv

(* A call that is made goes one of its ways, and the annotation with it.     *)
LEMMA StepKeepsInv == Inv /\ Step => Inv'
<1>. SUFFICES ASSUME Inv, Step PROVE Inv'
  OBVIOUS
<1>1. PICK way \in Row.ways :
        /\ held' = (held \cup (IF way = Row.ok THEN Row.gain ELSE {})) \ way.free
        /\ gone' = (gone \cup (way.free \cap (held \cup Row.gain)))
        /\ at' = way.go
  BY DEF Step
<1>2. PICK gain : gain = IF way = Row.ok THEN Row.gain ELSE {}
  OBVIOUS
<1>3. prog \in DOMAIN Programs /\ at \in DOMAIN Programs[prog] /\ at # "check" /\ prog' = prog
  BY DEF Inv, Step
<1>4. Leads(prog, at, way, gain, Row.gain)
  BY <1>2, <1>3, CallsFit DEF Fits, Row
<1>5. /\ at' \in DOMAIN Programs[prog'] \cup {"exit"}
      /\ prog' \in DOMAIN Programs
  BY <1>1, <1>3, <1>4 DEF Leads
<1>6. /\ Sure(prog, at) \subseteq held
      /\ held \subseteq Sure(prog, at) \cup Maybe(prog, at)
      /\ gone \subseteq Past(prog, at)
  BY DEF Inv, Annotated
<1>7. /\ Sure(prog, way.go) \subseteq held'
      /\ held' \subseteq Sure(prog, way.go) \cup Maybe(prog, way.go)
      /\ gone' \subseteq Past(prog, way.go)
  BY <1>1, <1>2, <1>4, <1>6 DEF Leads
<1>8. Annotated'
  BY <1>1, <1>3, <1>7 DEF Annotated
<1>. QED BY <1>5, <1>8 DEF Inv

(* The buffer is parsed if there is one.                                     *)
LEMMA CheckKeepsInv == Inv /\ Check => Inv'
<1>. SUFFICES ASSUME Inv, Check PROVE Inv'
  OBVIOUS
<1>1. prog \in DOMAIN Programs /\ prog' = prog /\ held' = held /\ gone' = gone
  BY DEF Inv, Check
<1>2. Row.ok.go = "parse"
  BY <1>1, CheckAndRecv DEF Check, Row, Do, Call, To
<1>3. at' \in {"parse", "nodata"} /\ (at' = "parse" => "buf" \in held)
  BY <1>2 DEF Check
<1>4. at' \in DOMAIN Programs[prog]
  BY <1>1, <1>3, CheckAndRecv
<1>5. /\ Sure(prog, "check") \subseteq held
      /\ held \subseteq Sure(prog, "check") \cup Maybe(prog, "check")
      /\ gone \subseteq Past(prog, "check")
  BY DEF Inv, Annotated, Check
<1>6. /\ Sure(prog, at') \subseteq held
      /\ held \subseteq Sure(prog, at') \cup Maybe(prog, at')
      /\ gone \subseteq Past(prog, at')
  BY <1>3, <1>5, CheckFits
<1>7. Annotated'
  BY <1>1, <1>6 DEF Annotated
<1>. QED BY <1>1, <1>4, <1>7 DEF Inv

(* The reading goes on, or ends the way its call does.                       *)
LEMMA ReadingKeepsInv == Inv /\ (Grow \/ Receive \/ ReceiveEnds) => Inv'
<1>. SUFFICES ASSUME Inv, Grow \/ Receive \/ ReceiveEnds PROVE Inv'
  OBVIOUS
<1>1. prog \in DOMAIN Programs /\ at = "recv" /\ prog' = prog /\ held' = held /\ gone' = gone
  BY DEF Inv, Grow, Receive, ReceiveEnds
<1>2. at' = "recv" \/ at' = Row.ok.go
  BY <1>1 DEF Grow, Receive, ReceiveEnds
<1>3. PICK needs, go : Programs[prog].recv = Do(needs, To({}, go))
  BY <1>1, CheckAndRecv
<1>4. Row = Call(needs, {}, To({}, go), To({}, go))
  BY <1>1, <1>3 DEF Row, Do
<1>5. Leads(prog, "recv", To({}, go), {}, {}) /\ Row.ok.go = go
  <2>1. Fits(prog, "recv", Row)
    BY <1>1, CallsFit, CheckAndRecv DEF Row
  <2>. QED BY <1>4, <2>1 DEF Fits, Call, To
<1>6. /\ Sure(prog, "recv") \subseteq held
      /\ held \subseteq Sure(prog, "recv") \cup Maybe(prog, "recv")
      /\ gone \subseteq Past(prog, "recv")
  BY <1>1 DEF Inv, Annotated
<1>7. /\ Sure(prog, go) \subseteq held
      /\ held \subseteq Sure(prog, go) \cup Maybe(prog, go)
      /\ gone \subseteq Past(prog, go)
      /\ go \in DOMAIN Programs[prog] \cup {"exit"}
  BY <1>5, <1>6 DEF Leads, To
<1>8. at' \in DOMAIN Programs[prog] \cup {"exit"}
  BY <1>1, <1>2, <1>5, <1>7, CheckAndRecv
<1>9. Annotated'
  BY <1>1, <1>2, <1>5, <1>6, <1>7 DEF Annotated
<1>. QED BY <1>1, <1>8, <1>9 DEF Inv

LEMMA NextKeepsInv == Inv /\ [Next]_vars => Inv'
<1>. SUFFICES ASSUME Inv, [Next]_vars PROVE Inv'
  OBVIOUS
<1>1. CASE UNCHANGED vars
  BY <1>1 DEF vars, Inv, Annotated
<1>2. CASE Exited
  BY <1>2 DEF Exited, vars, Inv, Annotated
<1>. QED BY <1>1, <1>2, StepKeepsInv, CheckKeepsInv, ReadingKeepsInv DEF Next

(* The annotation holds throughout every run.                                *)
THEOREM ProgramsAnnotated == Spec => []Inv
<1>. QED BY InitInv, NextKeepsInv, PTL DEF Spec

(* Whichever calls of the four programs fail, and whatever the peer sends,   *)
(* a program that ends holds no block, socket, context or Winsock.           *)
THEOREM ProgramsExitClean == Spec => []ExitsClean
<1>1. Inv => ExitsClean
  BY DEF Inv, Annotated, ExitsClean, Sure, Maybe, NettestSure, NettestMaybe, TlsSure, TlsMaybe
<1>. QED BY <1>1, ProgramsAnnotated, PTL

(* No call of a program uses what it does not hold, and none releases what   *)
(* was released before.                                                      *)
THEOREM ProgramsUseWhatTheyHold == Spec => []UsesWhatItHolds
<1>1. Inv => UsesWhatItHolds
  <2>. SUFFICES ASSUME Inv, at # "exit" PROVE UsesWhatItHolds
    BY DEF UsesWhatItHolds
  <2>1. prog \in DOMAIN Programs /\ at \in DOMAIN Programs[prog]
        /\ Sure(prog, at) \subseteq held /\ gone \subseteq Past(prog, at)
    BY DEF Inv, Annotated
  <2>2. CASE at = "check"
    <3>1. Row = Call({}, {}, To({}, "parse"), To({}, "parse"))
      BY <2>1, <2>2, CheckAndRecv DEF Row, Do
    <3>. QED BY <3>1 DEF UsesWhatItHolds, Call, To
  <2>3. CASE at # "check"
    <3>1. Fits(prog, at, Row)
      BY <2>1, <2>3, CallsFit DEF Row
    <3>. QED BY <2>1, <3>1 DEF UsesWhatItHolds, Fits, Leads
  <2>. QED BY <2>2, <2>3
<1>. QED BY <1>1, ProgramsAnnotated, PTL
=============================================================================
