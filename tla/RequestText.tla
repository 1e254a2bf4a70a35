---------------------------- MODULE RequestText ----------------------------
(***************************************************************************)
(* core/http.c http_build_request and net/https_get.c https_split_url: a   *)
(* request put together in a buffer that was measured first, and a URL     *)
(* taken apart.  A text is the sequence of its characters; those that are  *)
(* always the same are one string each, with the length it has in C.       *)
(***************************************************************************)
EXTENDS Digits

Fixed == [HTTP |-> 10, Host |-> 6, ContentLength |-> 16, Separator |-> 2, CrLf |-> 2,
          Space |-> 1]
Measured(c) == IF c \in DOMAIN Fixed THEN Fixed[c] ELSE 1

(* strlen of what was put together. *)
Length(text) ==
  LET sum[k \in 0 .. Len(text)] == IF k = 0 THEN 0 ELSE sum[k - 1] + Measured(text[k])
  IN sum[Len(text)]

PutUint(v) == Numeral(v, 10)

(* Mutant: the line that gives the length of the body is not counted. *)
CapacityBare(method, host, path, headers, bodyLen) ==
  LET lines[k \in 0 .. Len(headers)] ==
        IF k = 0 THEN 0
        ELSE lines[k - 1] + Length(headers[k].name) + 2 + Length(headers[k].value) + 2
  IN Length(method) + 1 + Length(path) + 16 + 6 + Length(host) + 2 + bodyLen + 4
       + lines[Len(headers)]

(* The upper bound the buffer is allocated with. *)
Capacity(method, host, path, headers, bodyLen) ==
  LET lines[k \in 0 .. Len(headers)] ==
        IF k = 0 THEN 0
        ELSE lines[k - 1] + Length(headers[k].name) + 2 + Length(headers[k].value) + 2
  IN Length(method) + 1 + Length(path) + 16 + 6 + Length(host) + 2 + 32 + bodyLen + 4
       + lines[Len(headers)]

(* What is put into it.  A length that is not positive means no body.      *)
Request(method, host, path, headers, body, bodyLen) ==
  LET lines[k \in 0 .. Len(headers)] ==
        IF k = 0 THEN << >>
        ELSE lines[k - 1] \o headers[k].name \o <<"Separator">> \o headers[k].value \o <<"CrLf">>
      length == IF bodyLen > 0 THEN <<"ContentLength">> \o PutUint(bodyLen) \o <<"CrLf">> ELSE << >>
  IN method \o <<"Space">> \o path \o <<"Space", "HTTP", "Host">> \o host \o <<"CrLf">>
       \o lines[Len(headers)] \o length \o <<"CrLf">>
       \o (IF bodyLen > 0 THEN SubSeq(body, 1, bodyLen) ELSE << >>)

NoRequest == [ok |-> FALSE]

HttpBuildRequest(method, host, path, headers, body, bodyLen, malloc) ==
  LET size == IF bodyLen < 0 THEN 0 ELSE bodyLen
  IN IF ~malloc THEN NoRequest
     ELSE [ok |-> TRUE, room |-> Capacity(method, host, path, headers, size),
           text |-> Request(method, host, path, headers, body, size)]

-----------------------------------------------------------------------------
(* https_split_url into a host buffer of cap bytes.  A URL is its scheme   *)
(* and the characters after it.                                            *)
SplitUrl(scheme, rest, cap) ==
  LET slashes == {i \in DOMAIN rest : rest[i] = "/"}
      first == CHOOSE i \in slashes : \A j \in slashes : i <= j
      hlen == IF slashes = {} THEN Len(rest) ELSE first - 1
  IN IF scheme \notin {"https", "http"} \/ hlen = 0 \/ hlen >= cap THEN [ok |-> FALSE]
     ELSE [ok |-> TRUE, host |-> SubSeq(rest, 1, hlen),
           path |-> IF slashes = {} THEN <<"/">> ELSE SubSeq(rest, first, Len(rest))]
=============================================================================
