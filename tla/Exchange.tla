------------------------------ MODULE Exchange ------------------------------
(***************************************************************************)
(* What goes over the wire: a call of the application from RequestBuilder  *)
(* to the result it gets, with every attempt in between, as exchange and   *)
(* attempt of src/src/request.rs make it, the exchanges a signed call      *)
(* first makes to register a key (ensure_device_key, src/src/rest.rs), the *)
(* device that is changed and the clock that is set in the meantime.       *)
(*                                                                         *)
(* Whether a session is there and can be renewed is module Auth's, whose   *)
(* key is in the slot module DeviceKey's, how a streamed body moves module *)
(* StreamUpload's: here a session may fail at any time, a key is there or  *)
(* not, and a stream ends in some way.  The server gives any answer.       *)
(***************************************************************************)
EXTENDS Headers, Answers

CONSTANTS Tasks,        (* calls into the library that can be under way     *)
          NoTask,       (* the mutex of `signing' is free                   *)
          Devices,      (* devices the application passes to the client     *)
          Requests,     (* requests the application makes                   *)
          Replies,      (* answers the server gives                         *)
          Skews,        (* how far the local clock is set off the server's  *)
          MaxDelay,     (* an attempt is over, or answered, after this long *)
          MaxNow,       (* bound: the server's clock                        *)
          MaxCalls      (* bound: calls and settings of the clock in all    *)

ASSUME ExchangeTasksAssumption == NoTask \notin Tasks
ASSUME DevicesAssumption ==
  \A d \in Devices : Generated(d) \/ d.build = NoBuild
ASSUME RepliesAssumption == Replies \subseteq Answer
ASSUME TimesAssumption ==
  Skews \subseteq Int /\ MaxDelay \in Nat /\ MaxNow \in Nat /\ MaxCalls \in Nat

VARIABLES
  fingerprint, \* InnerClient.fingerprint
  keyed,       \* a key is in InnerClient.signing
  signing,     \* the task that holds its mutex across an await
  captcha,     \* a CaptchaTokenProvider is set
  now,         \* the server's clock
  skew,        \* how far the local clock is ahead of it
  offset,      \* InnerClient.server_offset_ms
  heard,       \* history: an answer was dated since the local clock was set
  at, call,    \* the point a task has reached, and its local variables
  callsLeft    \* what the application may still do

clocks == <<now, skew, offset, heard>>
shared == <<fingerprint, keyed, signing, captcha>>
exchangeVars == <<fingerprint, keyed, signing, captcha, now, skew, offset,
                  heard, at, call, callsLeft>>

(***************************************************************************)
(* A fingerprint: three clients that were built for one device, and what   *)
(* is sent of it.  A client keeps its connections and TLS sessions, so it  *)
(* is known by the device it was built for.                                *)
(***************************************************************************)
Client(device, speaks) == [device |-> device, speaks |-> speaks]

build_fingerprint(device) ==
  [http |-> Client(device, {"h2", "http/1.1"}),
   ws_http |-> Client(device, {"http/1.1"}),
   media_http |-> Client(device, {"h2", "http/1.1"}),
   device |-> device, user_agent |-> build_user_agent(device)]

(***************************************************************************)
(* A request: for whom, with which body, and the header that says whether  *)
(* the device has to be real.  "key" is register_device_key, which makes   *)
(* no request of its own.                                                  *)
(***************************************************************************)
Bodies == {"empty", "json", "bytes", "signed", "stream"}

\* What the application can ask for, and what a sign-in and the assignments
\* ask for on its behalf.
Request ==
  [session: BOOLEAN, body: Bodies, required: {"none"}]
    \union [session: {FALSE}, body: {"json"}, required: {"real"}]
    \union [session: {FALSE}, body: {"empty"}, required: {"anonymous"}]
    \union [session: {TRUE}, body: {"key"}, required: {"none"}]

ASSUME RequestsAssumption == Requests \subseteq Request

NoRequest == [session |-> FALSE, body |-> "empty", required |-> "none"]

(***************************************************************************)
(* An attempt: the client it goes out on, its headers, the device and the  *)
(* time its signature is for, and when it left.                            *)
(***************************************************************************)
NoSignature == [signed |-> FALSE, id |-> "none", stamp |-> 0]
Signature(device, stamp) == [signed |-> TRUE, id |-> device.id, stamp |-> stamp]

NoDevice == [id |-> "none", maker |-> "none", model |-> "none", os |-> 0,
             build |-> NoBuild, timezone |-> "none"]

NoAttempt == [client |-> Client(NoDevice, {}), headers |-> <<>>,
              device |-> NoDevice, signature |-> NoSignature, left |-> 0]

(***************************************************************************)
(* The local variables of a call: its request, the exchange it is in (the  *)
(* two of a registration, then its own), the device reset_transport has    *)
(* read, the captcha token, the attempt that is under way, the last        *)
(* answer, the retries used, and what the application gets.                *)
(***************************************************************************)
Stages == {"none", "challenge", "register", "own"}

NoCall == [request |-> NoRequest, stage |-> "none", device |-> NoDevice,
           token |-> FALSE, attempt |-> NoAttempt, answer |-> NoAnswerYet,
           retries |-> {}, result |-> "none", error |-> NoError]

WireLabels == {"idle", "ensure", "locking", "captcha", "authorize", "build",
               "sign", "sent", "judge", "refresh", "drop", "verdict", "swap",
               "clear", "done"}

Free == signing = NoTask

Goto(t, label) == at' = [at EXCEPT ![t] = label]

Become(t, record) == call' = [call EXCEPT ![t] = record]

Spend == callsLeft > 0 /\ callsLeft' = callsLeft - 1

Release(t) == signing' = IF signing = t THEN NoTask ELSE signing

\* The application gets an answer, or an error; the mutex is given back.
Returns(t, result, answer) ==
  /\ Goto(t, "done")
  /\ Become(t, [NoCall EXCEPT !.answer = answer, !.result = result])
  /\ Release(t)

Fails(t, error) ==
  /\ Goto(t, "done")
  /\ Become(t, [NoCall EXCEPT !.result = "error", !.error = error])
  /\ Release(t)

(***************************************************************************)
(* Clocks.  A local clock before 1970 reads zero.                          *)
(***************************************************************************)
local_now == IF now + skew < 0 THEN 0 ELSE now + skew

synced_now == IF local_now + offset < 0 THEN 0 ELSE local_now + offset

\* Variant: the first date that is heard is taken for good.
NoteFirstDate(date) ==
  /\ offset' = IF offset = 0 THEN date - local_now ELSE offset
  /\ heard' = (now + skew >= 0)
  /\ UNCHANGED <<now, skew>>

\* note_server_date, of an answer that carries a date.
note_server_date(date) ==
  /\ offset' = date - local_now
  /\ heard' = (now + skew >= 0)
  /\ UNCHANGED <<now, skew>>

Tick ==
  /\ now < MaxNow
  /\ \A t \in Tasks : at[t] = "sent" => now - call[t].attempt.left < MaxDelay
  /\ now' = now + 1
  /\ UNCHANGED <<shared, skew, offset, heard, at, call, callsLeft>>

SetClock ==
  /\ Spend
  /\ skew' \in Skews \ {skew}
  /\ heard' = FALSE
  /\ UNCHANGED <<shared, now, offset, at, call>>

-----------------------------------------------------------------------------
(***************************************************************************)
(* The device and the captcha provider.                                    *)
(***************************************************************************)
set_captcha_provider ==
  /\ ~captcha
  /\ Spend
  /\ captcha' = TRUE
  /\ UNCHANGED <<fingerprint, keyed, signing, clocks, at, call>>

\* What else changes the slot, see DeviceKey.
restore_signing_key ==
  /\ Free /\ ~keyed
  /\ Spend
  /\ keyed' = TRUE
  /\ UNCHANGED <<fingerprint, signing, captcha, clocks, at, call>>

sign_out ==
  /\ Free /\ keyed
  /\ Spend
  /\ keyed' = FALSE
  /\ UNCHANGED <<fingerprint, signing, captcha, clocks, at, call>>

rotate_device(t, device) ==
  /\ at[t] = "idle"
  /\ Spend
  /\ fingerprint' = build_fingerprint(device)
  /\ Goto(t, "clear")
  /\ UNCHANGED <<keyed, signing, captcha, clocks, call>>

StartReset(t) ==
  /\ at[t] = "idle"
  /\ Spend
  /\ Become(t, [NoCall EXCEPT !.device = fingerprint.device])
  /\ Goto(t, "swap")
  /\ UNCHANGED <<shared, clocks>>

Swap(t) ==
  /\ at[t] = "swap"
  /\ fingerprint' = build_fingerprint(call[t].device)
  /\ Goto(t, "idle") /\ Become(t, NoCall)
  /\ UNCHANGED <<keyed, signing, captcha, clocks, callsLeft>>

\* clear_signing, for rotate_device and for a refused signature.
Clear(t) ==
  /\ at[t] \in {"clear", "drop"}
  /\ Free
  /\ keyed' = FALSE
  /\ \/ at[t] = "clear" /\ Goto(t, "idle") /\ Become(t, NoCall)
     \/ at[t] = "drop" /\ Goto(t, "verdict") /\ UNCHANGED call
  /\ UNCHANGED <<fingerprint, signing, captcha, clocks, callsLeft>>

-----------------------------------------------------------------------------
(***************************************************************************)
(* A call begins.                                                          *)
(***************************************************************************)
\* RequestBuilder::send and InnerClient::send: a path or content type that
\* cannot be sent, or a signed body without the session, ends the call.
send(t, request, wellFormed) ==
  /\ at[t] = "idle"
  /\ Spend
  /\ LET begun == [NoCall EXCEPT !.request = request, !.stage = "own"]
         signed == request.body \in {"signed", "key"} IN
     \/ /\ ~wellFormed \/ (signed /\ ~request.session)
        /\ Goto(t, "done")
        /\ Become(t, [NoCall EXCEPT !.result = "error",
                                    !.error = Error("invalid_request")])
     \/ /\ wellFormed /\ signed /\ request.session
        /\ Goto(t, "ensure") /\ Become(t, begun)
     \/ /\ wellFormed /\ ~signed
        /\ Goto(t, IF request.session THEN "authorize" ELSE "build")
        /\ Become(t, begun)
  /\ UNCHANGED <<shared, clocks>>

(***************************************************************************)
(* ensure_device_key.                                                      *)
(***************************************************************************)
signing_user_id(t) ==
  /\ at[t] = "ensure"
  /\ \/ Fails(t, Error("auth"))
     \/ Goto(t, "locking") /\ UNCHANGED <<call, signing>>
  /\ UNCHANGED <<fingerprint, keyed, captcha, clocks, callsLeft>>

\* The call's own request, once a key is there.
Ensured(t) ==
  IF call[t].request.body = "key"
  THEN Returns(t, "ensured", NoAnswerYet)
  ELSE /\ Goto(t, "authorize")
       /\ Become(t, [NoCall EXCEPT !.request = call[t].request,
                                   !.stage = "own"])
       /\ Release(t)

\* A key of another profile counts as none: which one is there, DeviceKey says.
LockSlot(t) ==
  /\ at[t] = "locking"
  /\ Free
  /\ \/ keyed /\ Ensured(t)
     \/ /\ signing' = t
        /\ Goto(t, "authorize")
        /\ Become(t, [call[t] EXCEPT !.stage = "challenge"])
  /\ UNCHANGED <<fingerprint, keyed, captcha, clocks, callsLeft>>

\* The provider gives a token, none, or one that no header can carry.
AskProvider(t) ==
  /\ at[t] = "captcha"
  /\ \/ \E token \in {FALSE, captcha} :
          /\ Become(t, [call[t] EXCEPT !.stage = "register", !.token = token,
                                       !.retries = {}, !.answer = NoAnswerYet])
          /\ Goto(t, "authorize")
          /\ UNCHANGED signing
     \/ captcha /\ Fails(t, Error("http"))
  /\ UNCHANGED <<fingerprint, keyed, captcha, clocks, callsLeft>>

-----------------------------------------------------------------------------
(***************************************************************************)
(* exchange: its attempts.                                                 *)
(***************************************************************************)
\* authorize, and reauthorize_same_profile when the request was sent before.
Authorize(t) ==
  /\ at[t] = "authorize"
  /\ \/ Fails(t, Error("auth"))
     \/ call[t].retries # {} /\ Fails(t, Error("session_cleared"))
     \/ Goto(t, "build") /\ UNCHANGED <<call, signing>>
  /\ UNCHANGED <<fingerprint, keyed, captcha, clocks, callsLeft>>

\* The body of the exchange a call is in.
Body(c) ==
  CASE c.stage = "challenge" -> "empty"
    [] c.stage = "register" -> "json"
    [] OTHER -> c.request.body

\* The headers of an attempt before those of its signature.
Composed(c, fp) ==
  LET own == build(fp.device, fp.user_agent, c.request.session)
               \o OnlyIf(c.stage = "register" /\ c.token, CaptchaHeader)
  IN  RequiredDeviceInfo(c.request.required)
        \o CASE Body(c) = "signed" -> own
             [] Body(c) = "empty" -> apply_headers_then_body(own, <<>>)
             [] OTHER -> apply_headers_then_body(own, BodyHeaders)

\* Variant: a signed body leaves as any other.
AttemptUnsigned(t) ==
  /\ at[t] = "build"
  /\ Become(t, [call[t] EXCEPT
       !.attempt = [client |-> fingerprint.http,
                    headers |-> Composed(call[t], fingerprint),
                    device |-> fingerprint.device,
                    signature |-> NoSignature, left |-> now]])
  /\ Goto(t, "sent")
  /\ UNCHANGED <<shared, clocks, callsLeft>>

\* The fingerprint is read once, and everything comes from it.
attempt(t) ==
  /\ at[t] = "build"
  /\ Become(t, [call[t] EXCEPT
       !.attempt = [client |-> fingerprint.http,
                    headers |-> Composed(call[t], fingerprint),
                    device |-> fingerprint.device,
                    signature |-> NoSignature, left |-> now]])
  /\ Goto(t, IF Body(call[t]) = "signed" THEN "sign" ELSE "sent")
  /\ UNCHANGED <<shared, clocks, callsLeft>>

\* Variant: the device is read again once the mutex is there.
SignAsIs(t) ==
  /\ at[t] = "sign"
  /\ Free
  /\ \/ ~keyed /\ Fails(t, Error("auth"))
     \/ /\ keyed
        /\ LET signature == Signature(fingerprint.device, synced_now) IN
           Become(t, [call[t] EXCEPT
             !.attempt.signature = signature, !.attempt.left = now,
             !.attempt.headers = @ \o SignatureHeaders(signature)])
        /\ Goto(t, "sent")
        /\ UNCHANGED signing
  /\ UNCHANGED <<fingerprint, keyed, captcha, clocks, callsLeft>>

\* signed_bytes, when the mutex is there.
signed_bytes(t) ==
  /\ at[t] = "sign"
  /\ Free
  /\ \/ ~keyed /\ Fails(t, Error("auth"))
     \/ /\ keyed
        /\ LET signature == Signature(call[t].attempt.device, synced_now) IN
           Become(t, [call[t] EXCEPT
             !.attempt.signature = signature, !.attempt.left = now,
             !.attempt.headers = @ \o SignatureHeaders(signature)])
        /\ Goto(t, "sent")
        /\ UNCHANGED signing
  /\ UNCHANGED <<fingerprint, keyed, captcha, clocks, callsLeft>>

\* The answer, with the date of when the server gave it, or without one.
Arrive(t, a) ==
  /\ at[t] = "sent"
  /\ \/ \E date \in call[t].attempt.left .. now : note_server_date(date)
     \/ UNCHANGED clocks
  /\ Become(t, [call[t] EXCEPT !.answer = a, !.attempt = NoAttempt])
  /\ Goto(t, "judge")
  /\ UNCHANGED <<shared, callsLeft>>

\* None: the transport fails, before the headers of the answer and their date
\* are there or after.  Of a streamed body the watchdog and the source have
\* their say, see StreamUpload.
NoAnswer(t) ==
  /\ at[t] = "sent"
  /\ \/ \E e \in TransportErrors :
          /\ Fails(t, past_ceiling(e, now - call[t].attempt.left >= MaxDelay))
          /\ \/ UNCHANGED clocks
             \/ /\ ~e.connect /\ ~e.request
                /\ \E date \in call[t].attempt.left .. now : note_server_date(date)
     \/ /\ Body(call[t]) = "stream"
        /\ \E phase \in TimeoutPhases : Fails(t, TimedOut(phase))
        /\ UNCHANGED clocks
  /\ UNCHANGED <<fingerprint, keyed, captcha, callsLeft>>

(***************************************************************************)
(* exchange: what an answer leads to.                                      *)
(***************************************************************************)
Refusal(t) == call[t].request.session /\ call[t].answer.status = 401
                /\ "refresh" \notin call[t].retries

\* Variant: a signature is made again whatever the status.
RejectWhatever(t) ==
  IF Body(call[t]) = "signed" THEN signing_reject(call[t].answer) ELSE "none"

\* What a signed body's answer says of the signature.
Reject(t) ==
  IF Body(call[t]) = "signed" /\ ~Success(call[t].answer)
  THEN signing_reject(call[t].answer) ELSE "none"

\* A 401, for the first time: refresh_after_unauthorized replaces the token,
\* or the answer stands.
StartRefresh(t) ==
  /\ at[t] = "judge"
  /\ Refusal(t)
  /\ Become(t, [call[t] EXCEPT !.retries = @ \union {"refresh"}])
  /\ Goto(t, "refresh")
  /\ UNCHANGED <<shared, clocks, callsLeft>>

EndRefresh(t) ==
  /\ at[t] = "refresh"
  /\ \E label \in {"authorize", "judge"} : Goto(t, label)
  /\ UNCHANGED <<shared, clocks, call, callsLeft>>

SignAgain(t) ==
  /\ at[t] = "judge"
  /\ ~Refusal(t)
  /\ Reject(t) = "retryable" /\ "resign" \notin call[t].retries
  /\ Become(t, [call[t] EXCEPT !.retries = @ \union {"resign"}])
  /\ Goto(t, "authorize")
  /\ UNCHANGED <<shared, clocks, callsLeft>>

DropKey(t) ==
  /\ at[t] = "judge"
  /\ ~Refusal(t)
  /\ Reject(t) = "fatal"
  /\ Goto(t, "drop")
  /\ UNCHANGED <<shared, clocks, call, callsLeft>>

\* The answer stands: nothing is to be made of it, or the key was dropped.
Stands(t) ==
  \/ at[t] = "verdict"
  \/ /\ at[t] = "judge"
     /\ ~Refusal(t)
     /\ \/ Reject(t) = "none"
        \/ Reject(t) = "retryable" /\ "resign" \in call[t].retries

\* Variant: only a 403 is looked at.
raw_or_edge(t) ==
  /\ Stands(t)
  /\ call[t].stage = "own"
  /\ IF is_edge_block(call[t].answer) THEN Fails(t, Error("blocked"))
                                      ELSE Returns(t, "raw", call[t].answer)
  /\ UNCHANGED <<fingerprint, keyed, captcha, clocks, callsLeft>>

\* raw_or_blocked: a page of the edge is an error, anything else is returned
\* as it is.
raw_or_blocked(t) ==
  /\ Stands(t)
  /\ call[t].stage = "own"
  /\ IF Blocked(call[t].answer) THEN Fails(t, Error("blocked"))
                                ELSE Returns(t, "raw", call[t].answer)
  /\ UNCHANGED <<fingerprint, keyed, captcha, clocks, callsLeft>>

\* The challenge is parsed, if it is one.
Challenged(t) ==
  LET a == call[t].answer IN
  /\ Stands(t)
  /\ call[t].stage = "challenge"
  /\ \/ ~Success(a) /\ Fails(t, parse_api_error(a))
     \/ Success(a) /\ Fails(t, Error("http"))
     \/ Success(a) /\ Goto(t, "captcha") /\ UNCHANGED <<call, signing>>
  /\ UNCHANGED <<fingerprint, keyed, captcha, clocks, callsLeft>>

Registered(t) ==
  LET a == call[t].answer IN
  /\ Stands(t)
  /\ call[t].stage = "register"
  /\ \/ ~Success(a) /\ Fails(t, parse_api_error(a)) /\ UNCHANGED keyed
     \/ Success(a) /\ keyed' = TRUE /\ Ensured(t)
  /\ UNCHANGED <<fingerprint, captcha, clocks, callsLeft>>

-----------------------------------------------------------------------------
(***************************************************************************)
(* The websocket's handshake and the fetches of media: one attempt each,   *)
(* of which WsTask and MediaFetch tell the rest.                           *)
(***************************************************************************)
Sends(t, client, headers) ==
  /\ at[t] = "idle"
  /\ Spend
  /\ Become(t, [NoCall EXCEPT
       !.attempt = [client |-> client, headers |-> headers,
                    device |-> fingerprint.device,
                    signature |-> NoSignature, left |-> now]])
  /\ Goto(t, "done")
  /\ UNCHANGED <<shared, clocks>>

Connect(t) ==
  \E offer_deflate \in BOOLEAN :
    Sends(t, fingerprint.ws_http,
          ws_headers(fingerprint.device, fingerprint.user_agent, offer_deflate))

Fetch(t) ==
  \E ranged \in BOOLEAN :
    \/ Sends(t, fingerprint.media_http, build_media(fingerprint.user_agent, ranged))
    \/ Sends(t, fingerprint.media_http,
             build_platform_media(fingerprint.device, ranged))
    \/ Sends(t, fingerprint.media_http, build_plain(ranged))

\* The application has its result, or drops the future where it awaits.
Collect(t) ==
  /\ at[t] \notin {"idle", "judge", "verdict"}
  /\ Goto(t, "idle") /\ Become(t, NoCall)
  /\ Release(t)
  /\ UNCHANGED <<fingerprint, keyed, captcha, clocks, callsLeft>>

-----------------------------------------------------------------------------

\* A saved key may have been restored.
Init ==
  /\ \E d \in Devices : fingerprint = build_fingerprint(d)
  /\ keyed \in BOOLEAN
  /\ signing = NoTask
  /\ captcha = FALSE
  /\ now = 0
  /\ skew \in Skews
  /\ offset = 0
  /\ heard = FALSE
  /\ at = [t \in Tasks |-> "idle"]
  /\ call = [t \in Tasks |-> NoCall]
  /\ callsLeft = MaxCalls

Settings == set_captcha_provider \/ restore_signing_key \/ sign_out

Application(t) ==
  \/ \E request \in Requests, wellFormed \in BOOLEAN : send(t, request, wellFormed)
  \/ \E d \in Devices : rotate_device(t, d)
  \/ StartReset(t) \/ Connect(t) \/ Fetch(t) \/ Collect(t)

Waiting(t) == LockSlot(t) \/ signed_bytes(t) \/ Clear(t)

Going(t) ==
  \/ signing_user_id(t) \/ AskProvider(t) \/ Authorize(t) \/ attempt(t)
  \/ \E a \in Replies : Arrive(t, a)
  \/ NoAnswer(t) \/ StartRefresh(t) \/ EndRefresh(t) \/ SignAgain(t)
  \/ DropKey(t) \/ raw_or_blocked(t) \/ Challenged(t) \/ Registered(t)
  \/ Swap(t)

Next ==
  \/ Tick \/ SetClock \/ Settings
  \/ \E t \in Tasks : Application(t) \/ Waiting(t) \/ Going(t)

Spec == Init /\ [][Next]_exchangeVars

-----------------------------------------------------------------------------
(***************************************************************************)
(* What is checked.                                                        *)
(***************************************************************************)
Fingerprints == {build_fingerprint(d) : d \in Devices}

\* Every variable has its type; and whatever has left is signed exactly when
\* its body is one that has to be (attempt, signed_bytes).
ExchangeTypeOK ==
  /\ fingerprint \in Fingerprints
  /\ keyed \in BOOLEAN /\ captcha \in BOOLEAN /\ heard \in BOOLEAN
  /\ signing \in Tasks \union {NoTask}
  /\ now \in 0 .. MaxNow /\ skew \in Skews /\ offset \in Int
  /\ at \in [Tasks -> WireLabels]
  /\ callsLeft \in 0 .. MaxCalls
  /\ \A t \in Tasks :
       /\ call[t].request \in Requests \union {NoRequest}
       /\ call[t].stage \in Stages
       /\ call[t].device \in Devices \union {NoDevice}
       /\ call[t].answer \in Replies \union {NoAnswerYet}
       /\ call[t].retries \subseteq {"refresh", "resign"}
       /\ call[t].result \in {"none", "error", "ensured", "raw"}
       /\ call[t].error \in GrindrError \union {NoError}
       /\ at[t] = "sent" =>
            (call[t].attempt.signature.signed <=> Body(call[t]) = "signed")

FromMedia(t) ==
  call[t].stage = "none" /\ call[t].attempt.client.speaks = {"h2", "http/1.1"}

\* No header leaves twice.  Whatever a request of the API or a handshake is
\* made of, its headers leave in the order documented for the app's, and but
\* for a signed body the content coding is last, after what is said of the
\* body (GrindrHeaders, apply_headers_then_body, OKHTTP_WS_HEADER_ORDER).
HeadersInOrder ==
  \A t \in Tasks :
    LET headers == call[t].attempt.headers IN
    /\ NoneTwice(headers)
    /\ ~FromMedia(t) =>
         /\ InCorrectOrder(headers)
         /\ Body(call[t]) = "signed" \/ headers = <<>>
              \/ IsEncoding(headers[Len(headers)])

\* Everything a server sees of an attempt is of one device, the one its
\* connection was made for: L-Device-Info, L-Time-Zone, the user agent and
\* the signature, however often the device is changed while the call waits
\* for the mutex or is sent again.
AttemptOfOneDevice ==
  \A t \in Tasks :
    LET sent == call[t].attempt
        d == sent.client.device IN
    /\ Values(sent.headers, "l-device-info") \subseteq {build_device_info_header(d)}
    /\ Values(sent.headers, "l-time-zone") \subseteq {[timezone |-> d.timezone]}
    /\ Values(sent.headers, "user-agent")
         \subseteq {build_user_agent(d), build_platform_user_agent(d), Fixed}
    /\ sent.signature.signed => sent.signature.id = d.id

\* Once an answer was dated since the local clock was last set, the time that
\* signatures carry is the server's but for the delay of an answer, whichever
\* answers arrive in whichever order (note_server_date, synced_now_ms).
SyncedClock == heard => synced_now \in now - MaxDelay .. now

\* The application never gets the page of an edge for an answer of the API,
\* whichever of refresh, second signature and dropped key came before it.
EdgeIsNoAnswer ==
  \A t \in Tasks : call[t].result = "raw" => ~OfTheEdge(call[t].answer)

\* A request is sent again only when its last attempt was refused: what the
\* server has done is not done twice, whatever it says of the signature.
OnlyRefusedIsSentAgain ==
  \A t \in Tasks :
    at[t] \in {"authorize", "build", "sign", "sent"} => ~Success(call[t].answer)

(***************************************************************************)
(* Why it holds: what ExchangeProofs adds to make the invariants inductive.*)
(***************************************************************************)
Shapes ==
  /\ DOMAIN call = Tasks
  /\ \A t \in Tasks : /\ DOMAIN call[t] = DOMAIN NoCall
                      /\ DOMAIN call[t].attempt = DOMAIN NoAttempt

\* An attempt is no older than MaxDelay: its answer's date is no older either.
Underway ==
  \A t \in Tasks :
    at[t] = "sent" => /\ call[t].attempt.left \in 0 .. now
                      /\ now - call[t].attempt.left <= MaxDelay

\* What was heard last is at most MaxDelay behind, and stays so.
ClockKept ==
  heard => now + skew >= 0 /\ skew + offset \in (-MaxDelay) .. 0

\* Before its end a call has no result; it waits to sign only what has to be
\* signed, and to swap the device only with one it has read; and on its way to
\* an attempt it has no answer but a refusal.
NotYet ==
  \A t \in Tasks :
    /\ at[t] # "done" => call[t].result = "none"
    /\ at[t] = "sign" => Body(call[t]) = "signed"
    /\ at[t] = "swap" => call[t].device \in Devices
    /\ at[t] \in {"ensure", "locking", "authorize", "build", "sign", "sent",
                  "refresh"} => ~Success(call[t].answer)

EInv ==
  ExchangeTypeOK /\ Shapes /\ Underway /\ ClockKept /\ NotYet /\ EdgeIsNoAnswer

(***************************************************************************)
(* Why headers and devices agree: all of an attempt was made from one      *)
(* fingerprint, and nothing is left of it once it was answered.            *)
(***************************************************************************)
\* An attempt of the API, before it is signed and after.
Made(c, d) ==
  LET sent == c.attempt
      fp == build_fingerprint(d) IN
  /\ sent.client = fp.http /\ sent.device = d
  /\ IF sent.signature.signed
     THEN /\ Body(c) = "signed"
          /\ sent.signature = Signature(d, sent.signature.stamp)
          /\ sent.headers = Composed(c, fp) \o SignatureHeaders(sent.signature)
     ELSE sent.headers = Composed(c, fp)

Handshaken(sent, d) ==
  LET fp == build_fingerprint(d) IN
  /\ sent.client = fp.ws_http /\ sent.signature = NoSignature
  /\ \E offer_deflate \in BOOLEAN :
       sent.headers = ws_headers(d, fp.user_agent, offer_deflate)

Fetched(sent, d) ==
  LET fp == build_fingerprint(d) IN
  /\ sent.client = fp.media_http /\ sent.signature = NoSignature
  /\ \E ranged \in BOOLEAN :
       sent.headers \in {build_media(fp.user_agent, ranged),
                        build_platform_media(d, ranged), build_plain(ranged)}

OnTheWire(label, c) ==
  /\ label \notin {"idle", "swap", "clear", "done"} => c.stage # "none"
  /\ label \notin {"sign", "sent", "done"} => c.attempt = NoAttempt
  /\ label \in {"sign", "sent"} => \E d \in Devices : Made(c, d)
  /\ label = "sign" => ~c.attempt.signature.signed
  /\ label = "done" =>
       \/ c.attempt = NoAttempt
       \/ /\ c.stage = "none" /\ c.request = NoRequest
          /\ \E d \in Devices : Handshaken(c.attempt, d) \/ Fetched(c.attempt, d)

WireInv == \A t \in Tasks : OnTheWire(at[t], call[t])

(***************************************************************************)
(* Why calls return: each of a call's own steps brings it nearer its end.  *)
(***************************************************************************)
\* Steps to the end of a pass through an exchange.
PassSteps(label) ==
  CASE label = "verdict" -> 1
    [] label = "drop" -> 2
    [] label = "judge" -> 3
    [] label = "sent" -> 4
    [] label = "sign" -> 5
    [] label = "build" -> 6
    [] label = "authorize" -> 7
    [] label = "refresh" -> 8

RetriesLeft(c) == (IF "refresh" \in c.retries THEN 0 ELSE 1)
                    + (IF "resign" \in c.retries THEN 0 ELSE 1)

\* The exchanges that come after the one a call is in.
Later(c) ==
  CASE c.stage = "challenge" -> 41
    [] c.stage = "register" -> 20
    [] OTHER -> 0

\* How many steps a call has before it at most: those of the pass it is in, of
\* the passes its retries may lead to, and of the exchanges after this one.
Steps(label, c) ==
  CASE label \in {"idle", "done"} -> 0
    [] label \in {"clear", "swap"} -> 1
    [] label = "captcha" -> 40
    [] label = "locking" -> 61
    [] label = "ensure" -> 62
    [] OTHER -> Later(c) + 6 * RetriesLeft(c) + PassSteps(label)

\* A call never comes back to where it was, whatever it is answered: it has
\* three exchanges and each has three attempts at most.
CallsRunOut ==
  [][\A t \in Tasks :
       at[t] \notin {"idle", "done"}
         => \/ UNCHANGED <<at[t], call[t]>>
            \/ Steps(at'[t], call'[t]) < Steps(at[t], call[t])]_exchangeVars
=============================================================================
