------------------------------ MODULE Headers -------------------------------
(***************************************************************************)
(* The headers of everything the client sends, in the order they leave:    *)
(* the API's (src/src/headers.rs, apply_headers and its kin in             *)
(* src/src/request.rs), the websocket's (src/src/client.rs) and those of   *)
(* the three ways to fetch media.                                          *)
(*                                                                         *)
(* A header is its name and, as a record, what its value is made from; a   *)
(* value that is the same in every request, or that no property looks at,  *)
(* is Fixed.                                                               *)
(***************************************************************************)
EXTENDS Device, Sequences, FiniteSets

Fixed == [fixed |-> TRUE]

Header(name, value) == [name |-> name, value |-> value]

Plain(name) == Header(name, Fixed)

OnlyIf(condition, header) == IF condition THEN <<header>> ELSE <<>>

(***************************************************************************)
(* GrindrHeaders.  The roles are sent exactly when there is a session.     *)
(***************************************************************************)
build(device, user_agent, authorized) ==
  OnlyIf(authorized, Plain("authorization"))
    \o <<Header("l-time-zone", [timezone |-> device.timezone])>>
    \o OnlyIf(authorized, Plain("l-grindr-roles"))
    \o <<Header("l-device-info", build_device_info_header(device)),
         Plain("accept"),
         Header("user-agent", user_agent),
         Plain("l-locale"), Plain("accept-language"), Plain("accept-encoding")>>

range_or_gzip(ranged) ==
  Plain(IF ranged THEN "range" ELSE "accept-encoding")

build_media(user_agent, ranged) ==
  <<Plain("accept"), Header("user-agent", user_agent), range_or_gzip(ranged)>>

build_platform_media(device, ranged) ==
  <<Header("user-agent", build_platform_user_agent(device)),
    range_or_gzip(ranged)>>

build_plain(ranged) == <<range_or_gzip(ranged), Plain("user-agent")>>

(***************************************************************************)
(* What goes around them.                                                  *)
(***************************************************************************)
RequiredDeviceInfo(required) ==
  CASE required = "real" -> <<Plain("requirerealdeviceinfo")>>
    [] required = "anonymous" -> <<Plain("requireanondeviceinfo")>>
    [] OTHER -> <<>>

BodyHeaders == <<Plain("content-type"), Plain("content-length")>>

CaptchaHeader == Plain("x-grindr-captcha-token")

SignatureHeaders(signature) ==
  <<Plain("x-key-id"), Header("x-sig", signature), Plain("x-timestamp"),
    Plain("x-nonce"), Plain("content-type")>>

(***************************************************************************)
(* A list of headers is split by their places, each part in its order.     *)
(***************************************************************************)
\* The elements of s at these places, in the order they have in s.
Kept(s, places) ==
  [k \in 1 .. Cardinality(places) |->
     s[CHOOSE i \in places : Cardinality(places \cap (1 .. i)) = k]]

IsEncoding(header) == header.name = "accept-encoding"

Encodings(headers) == {i \in 1 .. Len(headers) : IsEncoding(headers[i])}

Others(headers) == {i \in 1 .. Len(headers) : ~IsEncoding(headers[i])}

\* Variant: the headers as they come, the body's at the end.
AsTheyCome(headers, body) == headers \o body

\* The content coding goes after the headers of the body.
apply_headers_then_body(headers, body) ==
  Kept(headers, Others(headers)) \o body \o Kept(headers, Encodings(headers))

(***************************************************************************)
(* The websocket's client is told the order of everything in a handshake,  *)
(* its own headers included; the extension is offered until it was taken.  *)
(***************************************************************************)
OKHTTP_WS_HEADER_ORDER ==
  <<"authorization", "l-time-zone", "l-grindr-roles", "l-device-info",
    "accept", "user-agent", "l-locale", "accept-language", "upgrade",
    "connection", "sec-websocket-key", "sec-websocket-version",
    "sec-websocket-extensions", "accept-encoding">>

Handshake == {"upgrade", "connection", "sec-websocket-key",
              "sec-websocket-version"}

\* The names the websocket's client writes, of the headers it is given.
Names(headers) == {headers[i].name : i \in 1 .. Len(headers)}

WsOrder(names) ==
  Kept(OKHTTP_WS_HEADER_ORDER,
       {i \in 1 .. Len(OKHTTP_WS_HEADER_ORDER) :
          OKHTTP_WS_HEADER_ORDER[i] \in Handshake \union names})

\* A header as it is given, or as the client makes it.
Written(headers, name) ==
  IF name \in Names(headers)
  THEN headers[CHOOSE i \in 1 .. Len(headers) : headers[i].name = name]
  ELSE Plain(name)

ws_headers(device, user_agent, offer_deflate) ==
  LET sent == build(device, user_agent, TRUE)
                \o OnlyIf(offer_deflate, Plain("sec-websocket-extensions"))
      order == WsOrder(Names(sent))
  IN  [i \in 1 .. Len(order) |-> Written(sent, order[i])]

(***************************************************************************)
(* The order the documentation of GrindrHeaders gives.                     *)
(***************************************************************************)
CorrectOrder == <<"authorization", "l-time-zone", "l-grindr-roles",
                  "l-device-info", "accept", "user-agent", "l-locale",
                  "accept-language", "accept-encoding">>

Place(name) == {i \in 1 .. Len(CorrectOrder) : CorrectOrder[i] = name}

InCorrectOrder(headers) ==
  \A i, j \in 1 .. Len(headers) :
    i < j => \A p \in Place(headers[i].name), q \in Place(headers[j].name) : p < q

\* No header leaves twice.
NoneTwice(headers) ==
  \A i, j \in 1 .. Len(headers) : headers[i].name = headers[j].name => i = j

\* The value of the header with this name, where it is there.
Values(headers, name) ==
  {headers[i].value : i \in {j \in 1 .. Len(headers) : headers[j].name = name}}
=============================================================================
