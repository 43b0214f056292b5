--------------------------- MODULE ExchangeProofs ---------------------------
(***************************************************************************)
(* Proofs about Exchange: types, the synced clock, that no page of an edge *)
(* passes for an answer, and that only what was refused is sent again.     *)
(*                                                                         *)
(* A step moves one call.  What may be said of a call at a label is CallOK,*)
(* which knows nothing of the state: an action keeps it for all calls when *)
(* it holds of the label and the record the action writes (Moved,          *)
(* Relabelled).  Clocks are a second part, the rest of the state a third.  *)
(***************************************************************************)
EXTENDS Exchange, TLAPS

Unrefused == {"ensure", "locking", "authorize", "build", "sign", "sent",
              "refresh"}

CallOK(label, c) ==
  /\ DOMAIN c = DOMAIN NoCall
  /\ DOMAIN c.attempt = DOMAIN NoAttempt
  /\ c.request \in Requests \union {NoRequest}
  /\ c.stage \in Stages
  /\ c.device \in Devices \union {NoDevice}
  /\ c.answer \in Replies \union {NoAnswerYet}
  /\ c.retries \subseteq {"refresh", "resign"}
  /\ c.result \in {"none", "error", "ensured", "raw"}
  /\ c.error \in GrindrError \union {NoError}
  /\ label = "sent" => (c.attempt.signature.signed <=> Body(c) = "signed")
  /\ label # "done" => c.result = "none"
  /\ label = "sign" => Body(c) = "signed"
  /\ label = "swap" => c.device \in Devices
  /\ label \in Unrefused => ~Success(c.answer)
  /\ c.result = "raw" => ~OfTheEdge(c.answer)

Calls ==
  /\ at \in [Tasks -> WireLabels]
  /\ DOMAIN call = Tasks
  /\ \A t \in Tasks : CallOK(at[t], call[t])

Clock ==
  /\ now \in 0 .. MaxNow /\ skew \in Skews /\ offset \in Int
  /\ heard \in BOOLEAN
  /\ ClockKept
  /\ Underway

Rest ==
  /\ fingerprint \in Fingerprints
  /\ keyed \in BOOLEAN /\ captcha \in BOOLEAN
  /\ signing \in Tasks \union {NoTask}
  /\ callsLeft \in 0 .. MaxCalls

LEMMA InParts == EInv <=> Calls /\ Clock /\ Rest
BY DEF EInv, ExchangeTypeOK, Shapes, NotYet, EdgeIsNoAnswer, Calls, CallOK,
       Clock, Rest, Unrefused

-----------------------------------------------------------------------------
(***************************************************************************)
(* Operators.                                                              *)
(***************************************************************************)
LEMMA BlockedIsOfTheEdge == \A a : Blocked(a) <=> OfTheEdge(a)
BY DEF Blocked, block_kind, is_cloudflare_challenge, is_edge_block, OfTheEdge,
       Success

LEMMA AsI32Type == ASSUME NEW c \in Int PROVE AsI32(c) \in Int
BY CodeSpanAssumption DEF AsI32

LEMMA ApiErrorType ==
  ASSUME NEW a, a.status \in Int, a.code \in Int
  PROVE  parse_api_error(a) \in GrindrError
<1>1. extract_api_error(a) \in Int
  BY AsI32Type DEF extract_api_error
<1> QED
  BY <1>1 DEF parse_api_error, GrindrError, ErrorKinds, Error, WithCode

LEMMA ErrorTypes ==
  /\ \A kind \in ErrorKinds : Error(kind) \in GrindrError
  /\ \A phase \in TimeoutPhases : TimedOut(phase) \in GrindrError
  /\ \A e \in TransportErrors, late \in BOOLEAN :
       past_ceiling(e, late) \in GrindrError
BY DEF GrindrError, ErrorKinds, TimeoutPhases, Error, TimedOut, past_ceiling,
       from_wreq, TransportErrors

LEMMA AnswerFields ==
  ASSUME NEW a \in Replies \union {NoAnswerYet}
  PROVE  a.status \in Int /\ a.code \in Int
BY RepliesAssumption DEF Answer, NoAnswerYet

-----------------------------------------------------------------------------
(***************************************************************************)
(* How a call moves.                                                       *)
(***************************************************************************)
LEMMA Moved ==
  ASSUME Calls, NEW t \in Tasks, NEW label \in WireLabels, NEW c,
         CallOK(label, c), Goto(t, label), Become(t, c)
  PROVE  Calls'
<1>1. at' \in [Tasks -> WireLabels] /\ DOMAIN call' = Tasks
  BY DEF Calls, Goto, Become
<1>2. ASSUME NEW u \in Tasks PROVE CallOK(at'[u], call'[u])
  <2>1. CASE u = t
    <3>1. at'[u] = label /\ call'[u] = c
      BY <2>1 DEF Calls, Goto, Become
    <3> QED
      BY <3>1
  <2>2. CASE u # t
    <3>1. at'[u] = at[u] /\ call'[u] = call[u]
      BY <2>2 DEF Calls, Goto, Become
    <3> QED
      BY <3>1 DEF Calls
  <2> QED
    BY <2>1, <2>2
<1> QED
  BY <1>1, <1>2 DEF Calls

LEMMA Relabelled ==
  ASSUME Calls, NEW t \in Tasks, NEW label \in WireLabels,
         CallOK(label, call[t]), Goto(t, label), UNCHANGED call
  PROVE  Calls'
<1>1. at' \in [Tasks -> WireLabels] /\ DOMAIN call' = Tasks
  BY DEF Calls, Goto
<1>2. ASSUME NEW u \in Tasks PROVE CallOK(at'[u], call'[u])
  <2>1. call'[u] = call[u] /\ (u = t => at'[u] = label) /\ (u # t => at'[u] = at[u])
    BY DEF Calls, Goto
  <2> QED
    BY <2>1 DEF Calls
<1> QED
  BY <1>1, <1>2 DEF Calls

LEMMA BlankCall ==
  ASSUME NEW label, label \notin {"sign", "done", "swap"}
  PROVE  CallOK(label, NoCall)
<1>1. Body(NoCall) # "signed" /\ ~NoCall.attempt.signature.signed
  BY DEF Body, NoCall, NoRequest, NoAttempt, NoSignature
<1>2. ~Success(NoCall.answer)
  BY DEF Success, NoCall, NoAnswerYet
<1> QED
  BY <1>1, <1>2 DEF CallOK, NoCall, NoAttempt, Stages

\* A label that says nothing of a call which has no result yet.
LEMMA FreeLabel ==
  ASSUME NEW label, NEW c, NEW other, CallOK(label, c), label # "done",
         other \notin {"sign", "sent", "swap"},
         other \in Unrefused => ~Success(c.answer)
  PROVE  CallOK(other, c)
BY DEF CallOK

LEMMA ErrorCall ==
  ASSUME Calls, NEW t \in Tasks, NEW e \in GrindrError, Fails(t, e)
  PROVE  Calls'
<1> DEFINE c == [NoCall EXCEPT !.result = "error", !.error = e]
<1>1. CallOK("done", c)
  BY DEF CallOK, NoCall, NoAttempt, Stages, NoRequest, Unrefused
<1> QED
  BY <1>1, Moved DEF Fails, WireLabels

LEMMA ReturnedCall ==
  ASSUME Calls, NEW t \in Tasks, NEW result \in {"ensured", "raw"},
         NEW a \in Replies \union {NoAnswerYet},
         result = "raw" => ~OfTheEdge(a), Returns(t, result, a)
  PROVE  Calls'
<1> DEFINE c == [NoCall EXCEPT !.answer = a, !.result = result]
<1>1. CallOK("done", c)
  BY DEF CallOK, NoCall, NoAttempt, Stages, NoRequest, Unrefused
<1> QED
  BY <1>1, Moved DEF Returns, WireLabels

\* A label that is left for another, with the call as it is.
LEMMA GoesOn ==
  ASSUME Calls, NEW t \in Tasks, at[t] # "done", NEW label \in WireLabels,
         label \notin {"sign", "sent", "swap"},
         label \in Unrefused => ~Success(call[t].answer),
         Goto(t, label), UNCHANGED call
  PROVE  Calls'
<1>1. CallOK(at[t], call[t])
  BY DEF Calls
<1>2. CallOK(label, call[t])
  BY <1>1, FreeLabel
<1> QED
  BY <1>2, Relabelled

LEMMA Ends ==
  ASSUME Calls, NEW t \in Tasks, Goto(t, "idle"), Become(t, NoCall)
  PROVE  Calls'
BY BlankCall, Moved DEF WireLabels

LEMMA FingerprintDevice == Rest => fingerprint.device \in Devices
BY DEF Rest, Fingerprints, build_fingerprint

-----------------------------------------------------------------------------
(***************************************************************************)
(* The calls, action by action.                                            *)
(***************************************************************************)
LEMMA ApplicationCalls ==
  ASSUME Calls, Rest, NEW t \in Tasks, Application(t)
  PROVE  Calls'
<1>1. ASSUME NEW request \in Requests, NEW wellFormed \in BOOLEAN,
             send(t, request, wellFormed)
      PROVE  Calls'
  <2> DEFINE begun == [NoCall EXCEPT !.request = request, !.stage = "own"]
             refused == [NoCall EXCEPT !.result = "error",
                                       !.error = Error("invalid_request")]
  <2>1. \A label : label \notin {"sign", "done", "sent", "swap"} => CallOK(label, begun)
    <3>1. ~Success(begun.answer)
      BY DEF Success, NoCall, NoAnswerYet
    <3> QED
      BY <3>1 DEF CallOK, NoCall, NoAttempt, Stages
  <2>2. CallOK("done", refused)
    BY ErrorTypes DEF CallOK, NoCall, NoAttempt, Stages, Unrefused, ErrorKinds
  <2>3. CASE Goto(t, "done") /\ Become(t, refused)
    BY <2>2, <2>3, Moved DEF WireLabels
  <2>4. CASE Goto(t, "ensure") /\ Become(t, begun)
    BY <2>1, <2>4, Moved DEF WireLabels
  <2>5. CASE Goto(t, "authorize") /\ Become(t, begun)
    BY <2>1, <2>5, Moved DEF WireLabels
  <2>6. CASE Goto(t, "build") /\ Become(t, begun)
    BY <2>1, <2>6, Moved DEF WireLabels
  <2> QED
    BY <1>1, <2>3, <2>4, <2>5, <2>6 DEF send
<1>2. ASSUME NEW d \in Devices, rotate_device(t, d) PROVE Calls'
  BY <1>2, GoesOn DEF rotate_device, WireLabels, Unrefused
<1>3. ASSUME StartReset(t) PROVE Calls'
  <2> DEFINE c == [NoCall EXCEPT !.device = fingerprint.device]
  <2>1. CallOK("swap", c)
    BY FingerprintDevice DEF CallOK, NoCall, NoAttempt, Stages, Unrefused
  <2> QED
    BY <1>3, <2>1, Moved DEF StartReset, WireLabels
<1>4. ASSUME NEW client, NEW headers, Sends(t, client, headers) PROVE Calls'
  <2> DEFINE c == [NoCall EXCEPT
                     !.attempt = [client |-> client, headers |-> headers,
                                  device |-> fingerprint.device,
                                  signature |-> NoSignature, left |-> now]]
  <2>1. CallOK("done", c)
    BY DEF CallOK, NoCall, NoAttempt, Stages, Unrefused
  <2> QED
    BY <1>4, <2>1, Moved DEF Sends, WireLabels
<1>5. ASSUME Connect(t) PROVE Calls'
  BY <1>4, <1>5 DEF Connect
<1>6. ASSUME Fetch(t) PROVE Calls'
  BY <1>4, <1>6 DEF Fetch
<1>7. ASSUME Collect(t) PROVE Calls'
  BY <1>7, Ends DEF Collect
<1> QED
  BY <1>1, <1>2, <1>3, <1>5, <1>6, <1>7 DEF Application

\* What the call itself goes on with, the key being there.
LEMMA EnsuredCalls ==
  ASSUME Calls, NEW t \in Tasks, Ensured(t)
  PROVE  Calls'
<1>1. CASE call[t].request.body = "key"
  BY <1>1, ReturnedCall DEF Ensured
<1>2. CASE call[t].request.body # "key"
  <2> DEFINE c == [NoCall EXCEPT !.request = call[t].request, !.stage = "own"]
  <2>1. call[t].request \in Requests \union {NoRequest}
    BY DEF Calls, CallOK
  <2>2. ~Success(c.answer)
    BY DEF Success, NoCall, NoAnswerYet
  <2>3. CallOK("authorize", c)
    BY <2>1, <2>2 DEF CallOK, NoCall, NoAttempt, Stages
  <2> QED
    BY <1>2, <2>3, Moved DEF Ensured, WireLabels
<1> QED
  BY <1>1, <1>2

\* signed_bytes writes the signature and the headers it comes with.
LEMMA SignedCall ==
  ASSUME Calls, NEW t \in Tasks, NEW signature, signature.signed = TRUE,
         at[t] = "sign", Goto(t, "sent"),
         Become(t, [call[t] EXCEPT
           !.attempt.signature = signature, !.attempt.left = now,
           !.attempt.headers = @ \o SignatureHeaders(signature)])
  PROVE  Calls'
<1> DEFINE c == [call[t] EXCEPT
                   !.attempt.signature = signature, !.attempt.left = now,
                   !.attempt.headers = @ \o SignatureHeaders(signature)]
<1>1. CallOK("sign", call[t])
  BY DEF Calls
<1>2. /\ DOMAIN c = DOMAIN NoCall /\ DOMAIN c.attempt = DOMAIN NoAttempt
      /\ c.attempt.signature = signature
      /\ c.request = call[t].request /\ c.stage = call[t].stage
      /\ c.device = call[t].device /\ c.answer = call[t].answer
      /\ c.retries = call[t].retries /\ c.result = call[t].result
      /\ c.error = call[t].error
  BY <1>1 DEF CallOK, NoCall, NoAttempt
<1>3. Body(c) = "signed"
  BY <1>1, <1>2 DEF CallOK, Body
<1>4. CallOK("sent", c)
  BY <1>1, <1>2, <1>3 DEF CallOK, Unrefused
<1> QED
  BY <1>4, Moved DEF WireLabels

LEMMA WaitingCalls ==
  ASSUME Calls, Rest, NEW t \in Tasks, Waiting(t)
  PROVE  Calls'
<1>1. CASE LockSlot(t)
  <2>1. CASE Ensured(t)
    BY <2>1, EnsuredCalls
  <2>2. CASE /\ Goto(t, "authorize")
             /\ Become(t, [call[t] EXCEPT !.stage = "challenge"])
    <3>1. CallOK("locking", call[t])
      BY <1>1 DEF Calls, LockSlot
    <3>2. CallOK("authorize", [call[t] EXCEPT !.stage = "challenge"])
      BY <3>1 DEF CallOK, NoCall, Stages, Unrefused
    <3> QED
      BY <2>2, <3>2, Moved DEF WireLabels
  <2> QED
    BY <1>1, <2>1, <2>2 DEF LockSlot
<1>2. CASE signed_bytes(t)
  <2>1. ASSUME Fails(t, Error("auth")) PROVE Calls'
    BY <2>1, ErrorCall, ErrorTypes DEF ErrorKinds
  <2>2. Signature(call[t].attempt.device, synced_now).signed = TRUE
    BY DEF Signature
  <2> QED
    BY <1>2, <2>1, <2>2, SignedCall DEF signed_bytes
<1>3. CASE Clear(t)
  <2>1. ASSUME Goto(t, "verdict"), UNCHANGED call, at[t] = "drop" PROVE Calls'
    BY <2>1, GoesOn DEF WireLabels, Unrefused
  <2> QED
    BY <1>3, <2>1, Ends DEF Clear
<1> QED
  BY <1>1, <1>2, <1>3 DEF Waiting

LEMMA AskProviderCalls ==
  ASSUME Calls, NEW t \in Tasks, AskProvider(t)
  PROVE  Calls'
<1>1. ASSUME NEW token,
             Become(t, [call[t] EXCEPT !.stage = "register", !.token = token,
                                       !.retries = {}, !.answer = NoAnswerYet]),
             Goto(t, "authorize")
      PROVE  Calls'
  <2> DEFINE c == [call[t] EXCEPT !.stage = "register", !.token = token,
                                  !.retries = {}, !.answer = NoAnswerYet]
  <2>1. CallOK("captcha", call[t])
    BY DEF Calls, AskProvider
  <2>2. /\ DOMAIN c = DOMAIN NoCall /\ c.attempt = call[t].attempt
        /\ c.request = call[t].request /\ c.stage = "register"
        /\ c.device = call[t].device /\ c.answer = NoAnswerYet
        /\ c.retries = {} /\ c.result = call[t].result
        /\ c.error = call[t].error
    BY <2>1 DEF CallOK, NoCall
  <2>3. ~Success(c.answer)
    BY <2>2 DEF Success, NoAnswerYet
  <2>4. CallOK("authorize", c)
    BY <2>1, <2>2, <2>3 DEF CallOK, Stages
  <2> QED
    BY <1>1, <2>4, Moved DEF WireLabels
<1>2. ASSUME Fails(t, Error("http")) PROVE Calls'
  BY <1>2, ErrorCall, ErrorTypes DEF ErrorKinds
<1> QED
  BY <1>1, <1>2 DEF AskProvider

LEMMA AttemptCalls ==
  ASSUME Calls, NEW t \in Tasks, attempt(t)
  PROVE  Calls'
<1> DEFINE fresh == [client |-> fingerprint.http,
                     headers |-> Composed(call[t], fingerprint),
                     device |-> fingerprint.device,
                     signature |-> NoSignature, left |-> now]
           c == [call[t] EXCEPT !.attempt = fresh]
<1>1. CallOK("build", call[t])
  BY DEF Calls, attempt
<1>2. /\ DOMAIN c = DOMAIN NoCall /\ DOMAIN c.attempt = DOMAIN NoAttempt
      /\ ~c.attempt.signature.signed
      /\ c.request = call[t].request /\ c.stage = call[t].stage
      /\ c.device = call[t].device /\ c.answer = call[t].answer
      /\ c.retries = call[t].retries /\ c.result = call[t].result
      /\ c.error = call[t].error
  BY <1>1 DEF CallOK, NoCall, NoAttempt, NoSignature
<1>3. Body(c) = Body(call[t])
  BY <1>2 DEF Body
<1>4. CASE Body(call[t]) = "signed"
  <2>1. CallOK("sign", c)
    BY <1>1, <1>2, <1>3, <1>4 DEF CallOK, Unrefused
  <2> QED
    BY <1>4, <2>1, Moved DEF attempt, WireLabels
<1>5. CASE Body(call[t]) # "signed"
  <2>1. CallOK("sent", c)
    BY <1>1, <1>2, <1>3, <1>5 DEF CallOK, Unrefused
  <2> QED
    BY <1>5, <2>1, Moved DEF attempt, WireLabels
<1> QED
  BY <1>4, <1>5

LEMMA ArriveCalls ==
  ASSUME Calls, NEW t \in Tasks, NEW a \in Replies, Arrive(t, a)
  PROVE  Calls'
<1> DEFINE c == [call[t] EXCEPT !.answer = a, !.attempt = NoAttempt]
<1>1. CallOK("sent", call[t])
  BY DEF Calls, Arrive
<1>2. CallOK("judge", c)
  BY <1>1 DEF CallOK, NoCall, Unrefused
<1> QED
  BY <1>2, Moved DEF Arrive, WireLabels

LEMMA NoAnswerCalls ==
  ASSUME Calls, NEW t \in Tasks, NoAnswer(t)
  PROVE  Calls'
<1>1. ASSUME NEW e \in TransportErrors, NEW late \in BOOLEAN,
             Fails(t, past_ceiling(e, late))
      PROVE  Calls'
  BY <1>1, ErrorCall, ErrorTypes
<1>2. ASSUME NEW phase \in TimeoutPhases, Fails(t, TimedOut(phase))
      PROVE  Calls'
  BY <1>2, ErrorCall, ErrorTypes
<1>3. (now - call[t].attempt.left >= MaxDelay) \in BOOLEAN
  OBVIOUS
<1> QED
  BY <1>1, <1>2, <1>3 DEF NoAnswer

\* Both retries are of an answer that was a refusal.
LEMMA RetryCalls ==
  ASSUME Calls, NEW t \in Tasks, NEW retry \in {"refresh", "resign"},
         NEW label \in {"refresh", "authorize"}, at[t] = "judge",
         ~Success(call[t].answer), Goto(t, label),
         Become(t, [call[t] EXCEPT !.retries = @ \union {retry}])
  PROVE  Calls'
<1> DEFINE c == [call[t] EXCEPT !.retries = @ \union {retry}]
<1>1. CallOK("judge", call[t])
  BY DEF Calls
<1>2. CallOK(label, c)
  BY <1>1 DEF CallOK, NoCall
<1> QED
  BY <1>2, Moved DEF WireLabels

LEMMA VerdictCalls ==
  ASSUME Calls, NEW t \in Tasks, raw_or_blocked(t) \/ Challenged(t) \/ Registered(t)
  PROVE  Calls'
<1> DEFINE a == call[t].answer
<1>1. CallOK(at[t], call[t]) /\ at[t] \in {"judge", "verdict"}
  BY DEF Calls, raw_or_blocked, Challenged, Registered, Stands
<1>2. a \in Replies \union {NoAnswerYet} /\ a.status \in Int /\ a.code \in Int
  BY <1>1, AnswerFields DEF CallOK
<1>3. parse_api_error(a) \in GrindrError
  BY <1>2, ApiErrorType
<1>4. \A e \in GrindrError : Fails(t, e) => Calls'
  BY ErrorCall
<1>5. CASE raw_or_blocked(t)
  <2>1. ASSUME ~Blocked(a), Returns(t, "raw", a) PROVE Calls'
    BY <1>2, <2>1, BlockedIsOfTheEdge, ReturnedCall
  <2> QED
    BY <1>4, <1>5, <2>1, ErrorTypes DEF raw_or_blocked, ErrorKinds
<1>6. CASE Challenged(t)
  <2>1. ASSUME Goto(t, "captcha"), UNCHANGED call PROVE Calls'
    BY <1>1, <2>1, GoesOn DEF WireLabels, Unrefused
  <2> QED
    BY <1>3, <1>4, <1>6, <2>1, ErrorTypes DEF Challenged, ErrorKinds
<1>7. CASE Registered(t)
  BY <1>3, <1>4, <1>7, EnsuredCalls DEF Registered
<1> QED
  BY <1>5, <1>6, <1>7

LEMMA GoingCalls ==
  ASSUME Calls, NEW t \in Tasks, Going(t)
  PROVE  Calls'
<1>1. CallOK(at[t], call[t])
  BY DEF Calls
<1>2. Error("auth") \in GrindrError /\ Error("session_cleared") \in GrindrError
  BY ErrorTypes DEF ErrorKinds
<1>3. \A e \in GrindrError : Fails(t, e) => Calls'
  BY ErrorCall
<1>4. CASE signing_user_id(t)
  <2>1. ~Success(call[t].answer)
    BY <1>1, <1>4 DEF CallOK, signing_user_id, Unrefused
  <2> QED
    BY <1>2, <1>3, <1>4, <2>1, GoesOn DEF signing_user_id, WireLabels
<1>5. CASE AskProvider(t)
  BY <1>5, AskProviderCalls
<1>6. CASE Authorize(t)
  <2>1. ~Success(call[t].answer)
    BY <1>1, <1>6 DEF CallOK, Authorize, Unrefused
  <2> QED
    BY <1>2, <1>3, <1>6, <2>1, GoesOn DEF Authorize, WireLabels
<1>7. CASE attempt(t)
  BY <1>7, AttemptCalls
<1>8. CASE \E a \in Replies : Arrive(t, a)
  BY <1>8, ArriveCalls
<1>9. CASE NoAnswer(t)
  BY <1>9, NoAnswerCalls
<1>10. CASE StartRefresh(t)
  <2>1. ~Success(call[t].answer)
    BY <1>10 DEF StartRefresh, Refusal, Success
  <2> QED
    BY <1>10, <2>1, RetryCalls DEF StartRefresh
<1>11. CASE EndRefresh(t)
  <2>1. ~Success(call[t].answer)
    BY <1>1, <1>11 DEF CallOK, EndRefresh, Unrefused
  <2> QED
    BY <1>11, <2>1, GoesOn DEF EndRefresh, WireLabels
<1>12. CASE SignAgain(t)
  <2>1. ~Success(call[t].answer)
    BY <1>12 DEF SignAgain, Reject
  <2> QED
    BY <1>12, <2>1, RetryCalls DEF SignAgain
<1>13. CASE DropKey(t)
  BY <1>13, GoesOn DEF DropKey, WireLabels, Unrefused
<1>14. CASE raw_or_blocked(t) \/ Challenged(t) \/ Registered(t)
  BY <1>14, VerdictCalls
<1>15. CASE Swap(t)
  BY <1>15, Ends DEF Swap
<1> QED
  BY <1>4, <1>5, <1>6, <1>7, <1>8, <1>9, <1>10, <1>11, <1>12, <1>13, <1>14,
     <1>15
  DEF Going

LEMMA CallsStep == Calls /\ Rest /\ [Next]_exchangeVars => Calls'
<1> SUFFICES ASSUME Calls, Rest, [Next]_exchangeVars PROVE Calls'
  OBVIOUS
<1>1. ASSUME UNCHANGED <<at, call>> PROVE Calls'
  BY <1>1 DEF Calls
<1>2. CASE Tick \/ SetClock \/ Settings \/ UNCHANGED exchangeVars
  BY <1>1, <1>2 DEF Tick, SetClock, Settings, set_captcha_provider,
      restore_signing_key, sign_out, exchangeVars
<1>3. CASE \E t \in Tasks : Application(t) \/ Waiting(t) \/ Going(t)
  BY <1>3, ApplicationCalls, WaitingCalls, GoingCalls
<1> QED
  BY <1>2, <1>3 DEF Next

-----------------------------------------------------------------------------
(***************************************************************************)
(* The clocks.                                                             *)
(***************************************************************************)
\* The other calls are where they were, and this one is not under way.
Elsewhere(t) ==
  /\ \A u \in Tasks \ {t} : at'[u] = at[u] /\ call'[u] = call[u]
  /\ at'[t] # "sent"

\* This one has just left.
Leaves(t) ==
  /\ \A u \in Tasks \ {t} : at'[u] = at[u] /\ call'[u] = call[u]
  /\ call'[t].attempt.left = now

\* However a step gets there.
LEMMA GoneElsewhere ==
  ASSUME Calls, NEW t \in Tasks
  PROVE  /\ \A label, c : label # "sent" /\ Goto(t, label) /\ Become(t, c)
                         => Elsewhere(t)
         /\ \A label : label # "sent" /\ Goto(t, label) /\ UNCHANGED call
                      => Elsewhere(t)
         /\ \A e : Fails(t, e) => Elsewhere(t)
         /\ \A result, a : Returns(t, result, a) => Elsewhere(t)
<1>1. ASSUME NEW label, NEW c, label # "sent", Goto(t, label), Become(t, c)
      PROVE  Elsewhere(t)
  BY <1>1 DEF Calls, Goto, Become, Elsewhere
<1>2. ASSUME NEW label, label # "sent", Goto(t, label), UNCHANGED call
      PROVE  Elsewhere(t)
  BY <1>2 DEF Calls, Goto, Elsewhere
<1> QED
  BY <1>1, <1>2 DEF Fails, Returns

LEMMA EnsuredElsewhere ==
  ASSUME Calls, NEW t \in Tasks, Ensured(t)
  PROVE  Elsewhere(t)
BY GoneElsewhere DEF Ensured

LEMMA ApplicationElsewhere ==
  ASSUME Calls, NEW t \in Tasks, Application(t)
  PROVE  Elsewhere(t) /\ UNCHANGED clocks
<1>1. ASSUME NEW request, NEW wellFormed, send(t, request, wellFormed)
      PROVE  Elsewhere(t)
  BY <1>1, GoneElsewhere DEF send
<1>2. ASSUME NEW d, rotate_device(t, d) PROVE Elsewhere(t)
  BY <1>2, GoneElsewhere DEF rotate_device
<1>3. ASSUME NEW client, NEW headers, Sends(t, client, headers)
      PROVE  Elsewhere(t) /\ UNCHANGED clocks
  BY <1>3, GoneElsewhere DEF Sends
<1>4. StartReset(t) \/ Collect(t) => Elsewhere(t)
  BY GoneElsewhere DEF StartReset, Collect
<1>5. UNCHANGED clocks
  BY <1>3 DEF Application, send, rotate_device, StartReset, Connect, Fetch, Collect
<1> QED
  BY <1>1, <1>2, <1>3, <1>4, <1>5 DEF Application, Connect, Fetch

LEMMA GoingElsewhere ==
  ASSUME Calls, NEW t \in Tasks, Going(t)
  PROVE  \/ Elsewhere(t) /\ UNCHANGED clocks
         \/ Leaves(t) /\ UNCHANGED clocks
         \/ /\ at[t] = "sent" /\ Elsewhere(t)
            /\ \E date \in call[t].attempt.left .. now : note_server_date(date)
<1>1. CASE attempt(t)
  <2>1. DOMAIN call[t] = DOMAIN NoCall /\ DOMAIN call = Tasks
    BY DEF Calls, CallOK
  <2> QED
    BY <1>1, <2>1 DEF attempt, Leaves, Calls, Goto, Become, NoCall
<1>2. CASE \E a \in Replies : Arrive(t, a)
  <2>1. Elsewhere(t) /\ at[t] = "sent"
    BY <1>2, GoneElsewhere DEF Arrive
  <2> QED
    BY <1>2, <2>1 DEF Arrive
<1>3. CASE NoAnswer(t)
  <2>1. Elsewhere(t) /\ at[t] = "sent"
    BY <1>3, GoneElsewhere DEF NoAnswer
  <2> QED
    BY <1>3, <2>1 DEF NoAnswer
<1>4. CASE signing_user_id(t) \/ AskProvider(t) \/ Authorize(t)
  BY <1>4, GoneElsewhere DEF signing_user_id, AskProvider, Authorize
<1>5. CASE StartRefresh(t) \/ EndRefresh(t) \/ SignAgain(t) \/ DropKey(t)
  BY <1>5, GoneElsewhere DEF StartRefresh, EndRefresh, SignAgain, DropKey
<1>6. CASE raw_or_blocked(t)
  BY <1>6, GoneElsewhere DEF raw_or_blocked
<1>7. CASE Challenged(t)
  BY <1>7, GoneElsewhere DEF Challenged
<1>8. CASE Registered(t)
  BY <1>8, GoneElsewhere, EnsuredElsewhere DEF Registered
<1>9. CASE Swap(t)
  BY <1>9, GoneElsewhere DEF Swap
<1> QED
  BY <1>1, <1>2, <1>3, <1>4, <1>5, <1>6, <1>7, <1>8, <1>9 DEF Going

LEMMA WaitingElsewhere ==
  ASSUME Calls, NEW t \in Tasks, Waiting(t)
  PROVE  (Elsewhere(t) \/ Leaves(t)) /\ UNCHANGED clocks
<1>1. CASE LockSlot(t)
  BY <1>1, GoneElsewhere, EnsuredElsewhere DEF LockSlot
<1>2. CASE signed_bytes(t)
  <2>1. ASSUME NEW signature, Goto(t, "sent"),
               Become(t, [call[t] EXCEPT
                 !.attempt.signature = signature, !.attempt.left = now,
                 !.attempt.headers = @ \o SignatureHeaders(signature)])
        PROVE  Leaves(t)
    <3>1. /\ DOMAIN call[t] = DOMAIN NoCall /\ DOMAIN call = Tasks
          /\ DOMAIN call[t].attempt = DOMAIN NoAttempt
      BY DEF Calls, CallOK
    <3> QED
      BY <2>1, <3>1 DEF Leaves, Calls, Goto, Become, NoCall, NoAttempt
  <2> QED
    BY <1>2, <2>1, GoneElsewhere DEF signed_bytes
<1>3. CASE Clear(t)
  BY <1>3, GoneElsewhere DEF Clear
<1> QED
  BY <1>1, <1>2, <1>3 DEF Waiting

\* The clocks and the calls under way, when one call moves.
LEMMA StillUnderway ==
  ASSUME Calls, Clock, NEW t \in Tasks, Elsewhere(t) \/ Leaves(t), now' = now
  PROVE  Underway'
<1> SUFFICES ASSUME NEW u \in Tasks, at'[u] = "sent"
             PROVE  /\ call'[u].attempt.left \in 0 .. now
                    /\ now - call'[u].attempt.left <= MaxDelay
  BY DEF Underway
<1>1. CASE u # t
  BY <1>1 DEF Elsewhere, Leaves, Clock, Underway
<1>2. CASE u = t
  BY <1>2, TimesAssumption DEF Elsewhere, Leaves, Clock
<1> QED
  BY <1>1, <1>2

LEMMA DateNoted ==
  ASSUME Clock, NEW t \in Tasks, at[t] = "sent",
         NEW date \in call[t].attempt.left .. now, note_server_date(date)
  PROVE  /\ offset' \in Int /\ heard' \in BOOLEAN /\ UNCHANGED <<now, skew>>
         /\ ClockKept'
<1>1. /\ call[t].attempt.left \in 0 .. now
      /\ now - call[t].attempt.left <= MaxDelay
  BY DEF Clock, Underway
<1>2. now \in Nat /\ skew \in Int /\ MaxDelay \in Nat
  BY TimesAssumption DEF Clock
<1>3. date \in Int /\ date <= now /\ now - date <= MaxDelay
  BY <1>1, <1>2
<1>4. UNCHANGED <<now, skew>> /\ offset' = date - local_now
      /\ heard' = (now + skew >= 0)
  BY DEF note_server_date
<1>5. local_now \in Int /\ (now + skew >= 0 => local_now = now + skew)
  BY <1>2 DEF local_now
<1>6. ASSUME heard' PROVE skew + offset' = date - now
  <2>1. now + skew >= 0
    BY <1>4, <1>6
  <2> QED
    BY <1>2, <1>3, <1>4, <1>5, <2>1
<1>7. heard' => skew + offset' \in (-MaxDelay) .. 0
  BY <1>2, <1>3, <1>6
<1>8. heard' \in BOOLEAN /\ offset' \in Int
  BY <1>3, <1>4, <1>5
<1> QED
  BY <1>4, <1>7, <1>8 DEF ClockKept

LEMMA ClockStep == Calls /\ Clock /\ [Next]_exchangeVars => Clock'
<1> SUFFICES ASSUME Calls, Clock, [Next]_exchangeVars PROVE Clock'
  OBVIOUS
<1>t. now \in Nat /\ skew \in Int /\ MaxDelay \in Nat /\ MaxNow \in Nat
  BY TimesAssumption DEF Clock
<1>1. CASE Tick
  BY <1>1, <1>t DEF Tick, Clock, ClockKept, Underway, Calls
<1>2. CASE SetClock
  BY <1>2 DEF SetClock, Clock, ClockKept, Underway
<1>3. CASE Settings \/ UNCHANGED exchangeVars
  BY <1>3
  DEF Settings, set_captcha_provider, restore_signing_key, sign_out, clocks,
      exchangeVars, Clock, ClockKept, Underway
<1>4. ASSUME NEW t \in Tasks, Elsewhere(t) \/ Leaves(t), UNCHANGED clocks
      PROVE  Clock'
  <2>1. Underway'
    BY <1>4, StillUnderway DEF clocks
  <2> QED
    BY <1>4, <2>1 DEF clocks, Clock, ClockKept
<1>5. ASSUME NEW t \in Tasks, at[t] = "sent", Elsewhere(t),
             NEW date \in call[t].attempt.left .. now, note_server_date(date)
      PROVE  Clock'
  <2>1. /\ offset' \in Int /\ heard' \in BOOLEAN /\ UNCHANGED <<now, skew>>
        /\ ClockKept'
    BY <1>5, DateNoted
  <2>2. Underway'
    BY <1>5, <2>1, StillUnderway
  <2> QED
    BY <2>1, <2>2 DEF Clock
<1>6. ASSUME NEW t \in Tasks, Application(t) \/ Waiting(t) \/ Going(t)
      PROVE  Clock'
  <2>1. CASE Application(t) \/ Waiting(t)
    BY <1>4, <2>1, ApplicationElsewhere, WaitingElsewhere
  <2>2. CASE Going(t)
    BY <1>4, <1>5, <2>2, GoingElsewhere
  <2> QED
    BY <1>6, <2>1, <2>2
<1> QED
  BY <1>1, <1>2, <1>3, <1>6 DEF Next

-----------------------------------------------------------------------------
(***************************************************************************)
(* The rest of the state.                                                  *)
(***************************************************************************)
LEMMA Swapped ==
  ASSUME NEW d \in Devices, fingerprint' = build_fingerprint(d)
  PROVE  fingerprint' \in Fingerprints
BY DEF Fingerprints

LEMMA Released ==
  ASSUME Rest, NEW t \in Tasks, Release(t)
  PROVE  signing' \in Tasks \union {NoTask}
BY DEF Rest, Release

LEMMA RestStep == Calls /\ Rest /\ [Next]_exchangeVars => Rest'
<1> SUFFICES ASSUME Calls, Rest, [Next]_exchangeVars PROVE Rest'
  OBVIOUS
<1> USE DEF Rest
<1>s. Spend => callsLeft' \in 0 .. MaxCalls
  BY TimesAssumption DEF Spend
<1>r. \A t \in Tasks :
        /\ Release(t) => signing' \in Tasks \union {NoTask}
        /\ \A e : Fails(t, e) => signing' \in Tasks \union {NoTask}
        /\ \A result, a : Returns(t, result, a)
             => signing' \in Tasks \union {NoTask}
        /\ Ensured(t) => signing' \in Tasks \union {NoTask}
  BY Released DEF Fails, Returns, Ensured
<1>1. CASE Tick \/ SetClock \/ Settings \/ UNCHANGED exchangeVars
  BY <1>1, <1>s
  DEF Tick, SetClock, Settings, set_captcha_provider,
      restore_signing_key, sign_out, shared, exchangeVars
<1>2. ASSUME NEW t \in Tasks, Application(t) PROVE Rest'
  <2>1. ASSUME NEW d \in Devices, rotate_device(t, d) PROVE Rest'
    BY <1>s, <2>1, Swapped DEF rotate_device
  <2>2. CASE Collect(t)
    BY <1>r, <2>2 DEF Collect
  <2>3. CASE \E request \in Requests, wellFormed \in BOOLEAN :
               send(t, request, wellFormed)
    BY <1>s, <2>3 DEF send, shared
  <2>4. CASE StartReset(t) \/ Connect(t) \/ Fetch(t)
    BY <1>s, <2>4 DEF StartReset, Connect, Fetch, Sends, shared
  <2> QED
    BY <1>2, <2>1, <2>2, <2>3, <2>4 DEF Application
<1>3. ASSUME NEW t \in Tasks, Waiting(t) PROVE Rest'
  BY <1>3, <1>r DEF Waiting, LockSlot, signed_bytes, Clear
<1>4. ASSUME NEW t \in Tasks, Going(t) PROVE Rest'
  <2>1. CASE Swap(t)
    <3>1. call[t].device \in Devices
      BY <2>1 DEF Swap, Calls, CallOK
    <3> QED
      BY <2>1, <3>1, Swapped DEF Swap
  <2>2. CASE signing_user_id(t) \/ AskProvider(t) \/ Authorize(t) \/ attempt(t)
    BY <1>r, <2>2 DEF signing_user_id, AskProvider, Authorize, attempt, shared
  <2>3. CASE (\E a \in Replies : Arrive(t, a)) \/ NoAnswer(t)
    BY <1>r, <2>3 DEF Arrive, NoAnswer, shared
  <2>4. CASE StartRefresh(t) \/ EndRefresh(t) \/ SignAgain(t) \/ DropKey(t)
    BY <2>4 DEF StartRefresh, EndRefresh, SignAgain, DropKey, shared
  <2>5. CASE raw_or_blocked(t) \/ Challenged(t) \/ Registered(t)
    BY <1>r, <2>5 DEF raw_or_blocked, Challenged, Registered
  <2> QED
    BY <1>4, <2>1, <2>2, <2>3, <2>4, <2>5 DEF Going
<1> QED
  BY <1>1, <1>2, <1>3, <1>4 DEF Next

-----------------------------------------------------------------------------
(***************************************************************************)
(* The theorems.                                                           *)
(***************************************************************************)
LEMMA EInvInit == Init => EInv
<1> SUFFICES ASSUME Init PROVE EInv
  OBVIOUS
<1>1. Calls
  BY BlankCall DEF Init, Calls, WireLabels
<1>n. MaxNow \in Nat /\ MaxCalls \in Nat
  BY TimesAssumption
<1>2. Clock
  <2>1. \A t \in Tasks : at[t] = "idle"
    BY DEF Init
  <2>2. ClockKept /\ Underway
    BY <2>1 DEF Init, ClockKept, Underway
  <2>3. now = 0 /\ offset = 0 /\ heard = FALSE /\ skew \in Skews
    BY DEF Init
  <2>4. now \in 0 .. MaxNow /\ offset \in Int
    BY <1>n, <2>3
  <2>5. heard \in BOOLEAN
    BY <2>3, Zenon
  <2> QED
    BY <2>2, <2>3, <2>4, <2>5 DEF Clock
<1>3. Rest
  <2>1. fingerprint \in Fingerprints
    BY DEF Init, Fingerprints
  <2>2. callsLeft \in 0 .. MaxCalls
    BY <1>n DEF Init
  <2> QED
    BY <2>1, <2>2 DEF Init, Rest
<1> QED
  BY <1>1, <1>2, <1>3, InParts

LEMMA EInvStep == EInv /\ [Next]_exchangeVars => EInv'
<1> SUFFICES ASSUME EInv, [Next]_exchangeVars PROVE EInv'
  OBVIOUS
<1>1. Calls /\ Clock /\ Rest
  BY InParts
<1>2. Calls' /\ Clock' /\ Rest'
  BY <1>1, CallsStep, ClockStep, RestStep
<1> QED
  BY <1>2
  DEF EInv, ExchangeTypeOK, Shapes, NotYet, EdgeIsNoAnswer, Calls, CallOK,
      Clock, Rest, Unrefused

\* The inductive invariant of Exchange: what is said of a call at each label,
\* of the clocks and of the attempts under way (exchange, attempt).
THEOREM ExchangeInductive == Spec => []EInv
<1> QED
  BY EInvInit, EInvStep, PTL DEF Spec

\* Every variable of Exchange keeps its type for all devices, requests,
\* answers and clocks, and what leaves is signed exactly when it has to be
\* (attempt, signed_bytes).
THEOREM ExchangeTypeCorrect == Spec => []ExchangeTypeOK
<1>1. EInv => ExchangeTypeOK
  BY DEF EInv
<1> QED
  BY <1>1, ExchangeInductive, PTL

\* Signatures carry the server's time but for the delay of an answer, however
\* the local clock is off, in whichever order the answers arrive
\* (note_server_date, synced_now_ms).
THEOREM ClockSynced == Spec => []SyncedClock
<1>1. EInv => SyncedClock
  <2> SUFFICES ASSUME EInv, heard PROVE synced_now \in now - MaxDelay .. now
    BY DEF SyncedClock
  <2>1. now \in Nat /\ skew \in Int /\ offset \in Int /\ MaxDelay \in Nat
    BY TimesAssumption DEF EInv, ExchangeTypeOK
  <2>2. now + skew >= 0 /\ skew + offset \in (-MaxDelay) .. 0
    BY DEF EInv, ClockKept
  <2>3. local_now = now + skew
    BY <2>1, <2>2 DEF local_now
  <2> QED
    BY <2>1, <2>2, <2>3 DEF synced_now
<1> QED
  BY <1>1, ExchangeInductive, PTL

\* No page of an edge reaches the application as an answer of the API, for
\* any set of answers (raw_or_blocked).
THEOREM EdgeNeverAnswers == Spec => []EdgeIsNoAnswer
<1>1. EInv => EdgeIsNoAnswer
  BY DEF EInv
<1> QED
  BY <1>1, ExchangeInductive, PTL

\* Nothing is sent again that was not refused (exchange).
THEOREM OnlyRefusedAgain == Spec => []OnlyRefusedIsSentAgain
<1>1. EInv => OnlyRefusedIsSentAgain
  BY DEF EInv, NotYet, OnlyRefusedIsSentAgain
<1> QED
  BY <1>1, ExchangeInductive, PTL

-----------------------------------------------------------------------------
(***************************************************************************)
(* Why calls return: a call's own steps bring it nearer its end, whatever  *)
(* it is answered and the other calls do.                                  *)
(***************************************************************************)
PassLabels == {"verdict", "drop", "judge", "sent", "sign", "build",
               "authorize", "refresh"}

\* What each label leaves to do.
LEMMA StepsLeft ==
  ASSUME NEW c
  PROVE  /\ RetriesLeft(c) \in 0 .. 2 /\ Later(c) \in {0, 20, 41}
         /\ Steps("idle", c) = 0 /\ Steps("done", c) = 0
         /\ Steps("clear", c) = 1 /\ Steps("swap", c) = 1
         /\ Steps("captcha", c) = 40
         /\ Steps("locking", c) = 61 /\ Steps("ensure", c) = 62
         /\ Steps("verdict", c) = Later(c) + 6 * RetriesLeft(c) + 1
         /\ Steps("drop", c) = Later(c) + 6 * RetriesLeft(c) + 2
         /\ Steps("judge", c) = Later(c) + 6 * RetriesLeft(c) + 3
         /\ Steps("sent", c) = Later(c) + 6 * RetriesLeft(c) + 4
         /\ Steps("sign", c) = Later(c) + 6 * RetriesLeft(c) + 5
         /\ Steps("build", c) = Later(c) + 6 * RetriesLeft(c) + 6
         /\ Steps("authorize", c) = Later(c) + 6 * RetriesLeft(c) + 7
         /\ Steps("refresh", c) = Later(c) + 6 * RetriesLeft(c) + 8
<1>1. RetriesLeft(c) \in 0 .. 2
  BY DEF RetriesLeft
<1>2. Later(c) \in {0, 20, 41}
  BY DEF Later
<1>3. /\ Steps("idle", c) = 0 /\ Steps("done", c) = 0
      /\ Steps("clear", c) = 1 /\ Steps("swap", c) = 1
      /\ Steps("captcha", c) = 40
      /\ Steps("locking", c) = 61 /\ Steps("ensure", c) = 62
  BY DEF Steps
<1>4. \A label \in PassLabels :
        Steps(label, c) = Later(c) + 6 * RetriesLeft(c) + PassSteps(label)
  BY DEF Steps, PassLabels
<1>5. /\ PassSteps("verdict") = 1 /\ PassSteps("drop") = 2
      /\ PassSteps("judge") = 3 /\ PassSteps("sent") = 4
      /\ PassSteps("sign") = 5 /\ PassSteps("build") = 6
      /\ PassSteps("authorize") = 7 /\ PassSteps("refresh") = 8
  BY DEF PassSteps
<1> HIDE DEF Steps, PassSteps
<1> QED
  BY <1>1, <1>2, <1>3, <1>4, <1>5 DEF PassLabels

\* A call that has something to do has a step left for it.
LEMMA SomethingLeft ==
  ASSUME NEW c, NEW label \in WireLabels \ {"idle", "done"}
  PROVE  Steps(label, c) \in Nat /\ Steps(label, c) > 0
BY StepsLeft DEF WireLabels

\* What the fields a step leaves alone make of the measure.
LEMMA SameStage ==
  ASSUME NEW c, NEW d, c.stage = d.stage, c.retries = d.retries
  PROVE  Later(c) = Later(d) /\ RetriesLeft(c) = RetriesLeft(d)
BY DEF Later, RetriesLeft

\* A retry that is used is one that is no longer left.
LEMMA RetryUsed ==
  ASSUME NEW c, NEW d, NEW r \in {"refresh", "resign"}, r \notin d.retries,
         c.stage = d.stage, c.retries = d.retries \union {r}
  PROVE  Later(c) = Later(d) /\ RetriesLeft(c) = RetriesLeft(d) - 1
BY DEF Later, RetriesLeft

\* A step of a call's that it is nearer its end after.
Apart(t) == \A u \in Tasks \ {t} : UNCHANGED <<at[u], call[u]>>
Nearer(t) == /\ Steps(at'[t], call'[t]) < Steps(at[t], call[t])
             /\ Apart(t)

LEMMA Reached ==
  ASSUME Calls, NEW t \in Tasks, NEW label, NEW c, Goto(t, label), Become(t, c),
         Steps(label, c) < Steps(at[t], call[t])
  PROVE  Nearer(t)
<1>1. at'[t] = label /\ call'[t] = c /\ Apart(t)
  BY DEF Calls, Goto, Become, Apart
<1> QED
  BY <1>1 DEF Nearer

LEMMA ReachedAsIs ==
  ASSUME Calls, NEW t \in Tasks, NEW label, Goto(t, label), UNCHANGED call,
         Steps(label, call[t]) < Steps(at[t], call[t])
  PROVE  Nearer(t)
<1>1. at'[t] = label /\ call'[t] = call[t] /\ Apart(t)
  BY DEF Calls, Goto, Apart
<1> QED
  BY <1>1 DEF Nearer

\* A call that has its result, or is dropped, is at its end.
LEMMA OverIsNearer ==
  ASSUME Calls, NEW t \in Tasks, at[t] \notin {"idle", "done"}
  PROVE  /\ \A e : Fails(t, e) => Nearer(t)
         /\ \A result, a : Returns(t, result, a) => Nearer(t)
         /\ \A c : Goto(t, "idle") /\ Become(t, c) => Nearer(t)
<1>1. Steps(at[t], call[t]) \in Nat /\ Steps(at[t], call[t]) > 0
  BY SomethingLeft DEF Calls
<1>2. \A c : Steps("done", c) = 0 /\ Steps("idle", c) = 0
  BY StepsLeft
<1>3. \A label \in {"done", "idle"} : \A c :
        Goto(t, label) /\ Become(t, c) => Nearer(t)
  BY <1>1, <1>2, Reached
<1> QED
  BY <1>3 DEF Fails, Returns

\* A call that has its key is over, or has its own exchange before it.
LEMMA EnsuredIsNearer ==
  ASSUME Calls, NEW t \in Tasks, Ensured(t),
         \/ at[t] = "locking"
         \/ at[t] \in {"judge", "verdict"} /\ call[t].stage = "register"
  PROVE  Nearer(t)
<1>1. CASE call[t].request.body = "key"
  BY <1>1, OverIsNearer DEF Ensured
<1>2. CASE call[t].request.body # "key"
  <2> DEFINE c == [NoCall EXCEPT !.request = call[t].request, !.stage = "own"]
  <2>1. c.stage = "own"
    BY DEF NoCall
  <2>2. Later(c) = 0
    BY <2>1 DEF Later
  <2> HIDE DEF c
  <2>3. Steps("authorize", c) \in 0 .. 19
    BY <2>2, StepsLeft
  <2>4. at[t] # "locking" => Later(call[t]) = 20
    BY DEF Later
  <2>5. Steps(at[t], call[t]) \in Nat /\ Steps(at[t], call[t]) > 20
    BY <2>4, StepsLeft
  <2>6. Steps("authorize", c) < Steps(at[t], call[t])
    BY <2>3, <2>5
  <2> USE DEF c
  <2>7. Goto(t, "authorize") /\ Become(t, c)
    BY <1>2 DEF Ensured
  <2> QED
    BY <2>6, <2>7, Reached
<1> QED
  BY <1>1, <1>2

\* What waits for the mutex is nearer its end when it has had it.
LEMMA WaitingIsNearer ==
  ASSUME Calls, NEW t \in Tasks, Waiting(t)
  PROVE  Nearer(t)
<1>0. DOMAIN call[t] = DOMAIN NoCall /\ DOMAIN call[t].attempt = DOMAIN NoAttempt
  BY DEF Calls, CallOK
<1>1. CASE LockSlot(t)
  <2>1. CASE Ensured(t)
    BY <1>1, <2>1, EnsuredIsNearer DEF LockSlot
  <2>2. CASE /\ Goto(t, "authorize")
             /\ Become(t, [call[t] EXCEPT !.stage = "challenge"])
    <3> DEFINE c == [call[t] EXCEPT !.stage = "challenge"]
    <3>1. c.stage = "challenge"
      BY <1>0 DEF NoCall
    <3>2. Later(c) = 41
      BY <3>1 DEF Later
    <3> HIDE DEF c
    <3>3. Steps("authorize", c) < 61
      BY <3>2, StepsLeft
    <3>4. Steps(at[t], call[t]) = 61
      BY <1>1, StepsLeft DEF LockSlot
    <3>5. Goto(t, "authorize") /\ Become(t, c)
      BY <2>2 DEF c
    <3> QED
      BY <3>3, <3>4, <3>5, Reached
  <2> QED
    BY <1>1, <2>1, <2>2 DEF LockSlot
<1>2. CASE signed_bytes(t)
  <2>1. CASE \E e : Fails(t, e)
    BY <1>2, <2>1, OverIsNearer DEF signed_bytes
  <2>2. ASSUME NEW signature, Goto(t, "sent"),
               Become(t, [call[t] EXCEPT
                 !.attempt.signature = signature, !.attempt.left = now,
                 !.attempt.headers = @ \o SignatureHeaders(signature)])
        PROVE  Nearer(t)
    <3> DEFINE c == [call[t] EXCEPT
                       !.attempt.signature = signature, !.attempt.left = now,
                       !.attempt.headers = @ \o SignatureHeaders(signature)]
    <3>1. c.stage = call[t].stage /\ c.retries = call[t].retries
      BY <1>0 DEF NoCall
    <3> HIDE DEF c
    <3>2. Later(c) = Later(call[t]) /\ RetriesLeft(c) = RetriesLeft(call[t])
      BY <3>1, SameStage
    <3>3. Steps("sent", c) < Steps(at[t], call[t])
      BY <1>2, <3>2, StepsLeft DEF signed_bytes
    <3>4. Become(t, c)
      BY <2>2 DEF c
    <3> QED
      BY <2>2, <3>3, <3>4, Reached
  <2> QED
    BY <1>2, <2>1, <2>2 DEF signed_bytes
<1>3. CASE Clear(t)
  <2>1. CASE Goto(t, "idle") /\ Become(t, NoCall)
    BY <1>3, <2>1, OverIsNearer DEF Clear
  <2>2. CASE at[t] = "drop" /\ Goto(t, "verdict") /\ UNCHANGED call
    <3>1. Steps("verdict", call[t]) < Steps(at[t], call[t])
      BY <2>2, StepsLeft
    <3> QED
      BY <2>2, <3>1, ReachedAsIs
  <2> QED
    BY <1>3, <2>1, <2>2 DEF Clear
<1> QED
  BY <1>1, <1>2, <1>3 DEF Waiting

\* An attempt: its making, its answer, or that there is none.
LEMMA AttemptIsNearer ==
  ASSUME Calls, NEW t \in Tasks,
         \/ Authorize(t) \/ attempt(t) \/ NoAnswer(t)
         \/ \E a \in Replies : Arrive(t, a)
  PROVE  Nearer(t)
<1>0. DOMAIN call[t] = DOMAIN NoCall
  BY DEF Calls, CallOK
<1>1. CASE Authorize(t)
  <2>1. Steps("build", call[t]) < Steps("authorize", call[t])
    BY StepsLeft
  <2>2. CASE \E e : Fails(t, e)
    BY <1>1, <2>2, OverIsNearer DEF Authorize
  <2>3. CASE Goto(t, "build") /\ UNCHANGED call
    BY <1>1, <2>1, <2>3, ReachedAsIs DEF Authorize
  <2> QED
    BY <1>1, <2>2, <2>3 DEF Authorize
<1>2. ASSUME NEW label \in {"sign", "sent", "judge"}, NEW c,
             Goto(t, label), Become(t, c),
             c.stage = call[t].stage, c.retries = call[t].retries,
             \/ at[t] = "build" /\ label # "judge"
             \/ at[t] = "sent" /\ label = "judge"
      PROVE  Nearer(t)
  <2>1. Later(c) = Later(call[t]) /\ RetriesLeft(c) = RetriesLeft(call[t])
    BY <1>2, SameStage
  <2>2. Steps(label, c) < Steps(at[t], call[t])
    BY <1>2, <2>1, StepsLeft
  <2> QED
    BY <1>2, <2>2, Reached
<1>3. CASE attempt(t)
  <2> DEFINE new == [client |-> fingerprint.http,
                     headers |-> Composed(call[t], fingerprint),
                     device |-> fingerprint.device,
                     signature |-> NoSignature, left |-> now]
             c == [call[t] EXCEPT !.attempt = new]
  <2>1. c.stage = call[t].stage /\ c.retries = call[t].retries
    BY <1>0 DEF NoCall
  <2>2. /\ Become(t, c) /\ at[t] = "build"
        /\ Goto(t, "sign") \/ Goto(t, "sent")
    BY <1>3 DEF attempt
  <2> HIDE DEF c
  <2> QED
    BY <1>2, <2>1, <2>2
<1>4. CASE NoAnswer(t)
  BY <1>4, OverIsNearer DEF NoAnswer
<1>5. ASSUME NEW a \in Replies, Arrive(t, a) PROVE Nearer(t)
  <2> DEFINE c == [call[t] EXCEPT !.answer = a, !.attempt = NoAttempt]
  <2>1. c.stage = call[t].stage /\ c.retries = call[t].retries
    BY <1>0 DEF NoCall
  <2>2. Become(t, c) /\ at[t] = "sent" /\ Goto(t, "judge")
    BY <1>5 DEF Arrive
  <2> HIDE DEF c
  <2> QED
    BY <1>2, <2>1, <2>2
<1> QED
  BY <1>1, <1>3, <1>4, <1>5

\* What an answer leads to: a refresh, another attempt, or the end of the
\* exchange.
LEMMA AnswerIsNearer ==
  ASSUME Calls, NEW t \in Tasks,
         \/ StartRefresh(t) \/ EndRefresh(t) \/ SignAgain(t) \/ DropKey(t)
         \/ raw_or_blocked(t) \/ Challenged(t) \/ Registered(t)
  PROVE  Nearer(t)
<1>0. DOMAIN call[t] = DOMAIN NoCall
  BY DEF Calls, CallOK
<1>1. ASSUME NEW r \in {"refresh", "resign"}, r \notin call[t].retries,
             NEW label \in {"refresh", "authorize"},
             at[t] = "judge", Goto(t, label),
             Become(t, [call[t] EXCEPT !.retries = @ \union {r}])
      PROVE  Nearer(t)
  <2> DEFINE c == [call[t] EXCEPT !.retries = @ \union {r}]
  <2>1. c.stage = call[t].stage /\ c.retries = call[t].retries \union {r}
    BY <1>0 DEF NoCall
  <2> HIDE DEF c
  <2>2. Later(c) = Later(call[t]) /\ RetriesLeft(c) = RetriesLeft(call[t]) - 1
    BY <1>1, <2>1, RetryUsed
  <2>3. Steps(label, c) < Steps(at[t], call[t])
    BY <1>1, <2>2, StepsLeft
  <2>4. Become(t, c)
    BY <1>1 DEF c
  <2> QED
    BY <1>1, <2>3, <2>4, Reached
<1>2. CASE StartRefresh(t)
  BY <1>1, <1>2 DEF StartRefresh, Refusal
<1>3. CASE SignAgain(t)
  BY <1>1, <1>3 DEF SignAgain
<1>4. CASE EndRefresh(t)
  <2>1. PICK label \in {"authorize", "judge"} : Goto(t, label)
    BY <1>4 DEF EndRefresh
  <2>2. Steps(label, call[t]) < Steps(at[t], call[t])
    BY <1>4, StepsLeft DEF EndRefresh
  <2> QED
    BY <1>4, <2>1, <2>2, ReachedAsIs DEF EndRefresh
<1>5. CASE DropKey(t)
  <2>1. Steps("drop", call[t]) < Steps(at[t], call[t])
    BY <1>5, StepsLeft DEF DropKey
  <2> QED
    BY <1>5, <2>1, ReachedAsIs DEF DropKey
<1>6. Stands(t) => at[t] \in {"judge", "verdict"}
  BY DEF Stands
<1>7. CASE raw_or_blocked(t)
  BY <1>6, <1>7, OverIsNearer DEF raw_or_blocked
<1>8. CASE Challenged(t)
  <2>1. CASE \E e : Fails(t, e)
    BY <1>6, <1>8, <2>1, OverIsNearer DEF Challenged
  <2>2. CASE Goto(t, "captcha") /\ UNCHANGED call
    <3>1. Later(call[t]) = 41
      BY <1>8 DEF Challenged, Later
    <3>2. Steps("captcha", call[t]) < Steps(at[t], call[t])
      BY <1>6, <1>8, <3>1, StepsLeft DEF Challenged
    <3> QED
      BY <2>2, <3>2, ReachedAsIs
  <2> QED
    BY <1>8, <2>1, <2>2 DEF Challenged
<1>9. CASE Registered(t)
  BY <1>6, <1>9, OverIsNearer, EnsuredIsNearer DEF Registered
<1> QED
  BY <1>2, <1>3, <1>4, <1>5, <1>7, <1>8, <1>9

\* What does not wait for the mutex.
LEMMA GoingIsNearer ==
  ASSUME Calls, NEW t \in Tasks, Going(t)
  PROVE  Nearer(t)
<1>1. CASE signing_user_id(t)
  <2>1. CASE \E e : Fails(t, e)
    BY <1>1, <2>1, OverIsNearer DEF signing_user_id
  <2>2. CASE Goto(t, "locking") /\ UNCHANGED call
    <3>1. Steps("locking", call[t]) < Steps(at[t], call[t])
      BY <1>1, StepsLeft DEF signing_user_id
    <3> QED
      BY <2>2, <3>1, ReachedAsIs
  <2> QED
    BY <1>1, <2>1, <2>2 DEF signing_user_id
<1>2. CASE AskProvider(t)
  <2>1. CASE \E e : Fails(t, e)
    BY <1>2, <2>1, OverIsNearer DEF AskProvider
  <2>2. ASSUME NEW token, Goto(t, "authorize"),
               Become(t, [call[t] EXCEPT !.stage = "register", !.token = token,
                                         !.retries = {}, !.answer = NoAnswerYet])
        PROVE  Nearer(t)
    <3> DEFINE c == [call[t] EXCEPT !.stage = "register", !.token = token,
                                    !.retries = {}, !.answer = NoAnswerYet]
    <3>1. c.stage = "register"
      BY DEF Calls, CallOK, NoCall
    <3>2. Later(c) = 20
      BY <3>1 DEF Later
    <3> HIDE DEF c
    <3>3. Steps("authorize", c) < Steps(at[t], call[t])
      BY <1>2, <3>2, StepsLeft DEF AskProvider
    <3>4. Become(t, c)
      BY <2>2 DEF c
    <3> QED
      BY <2>2, <3>3, <3>4, Reached
  <2> QED
    BY <1>2, <2>1, <2>2 DEF AskProvider
<1>3. CASE Swap(t)
  BY <1>3, OverIsNearer DEF Swap
<1> QED
  BY <1>1, <1>2, <1>3, AttemptIsNearer, AnswerIsNearer DEF Going

\* A call is begun by a task that is in none, and dropped by one that is.
LEMMA ApplicationIsNearer ==
  ASSUME Calls, NEW t \in Tasks, Application(t)
  PROVE  Apart(t) /\ (at[t] \in {"idle", "done"} \/ Nearer(t))
<1>1. Apart(t)
  BY ApplicationElsewhere DEF Elsewhere, Apart
<1>2. CASE Collect(t)
  BY <1>1, <1>2, OverIsNearer DEF Collect
<1> QED
  BY <1>1, <1>2 DEF Application, send, rotate_device, StartReset, Connect,
                    Fetch, Sends

\* No call comes back to where it was, whatever it is answered: it has three
\* exchanges and each has three attempts at most, for any calls, answers and
\* devices (send, ensure_device_key, exchange).
THEOREM CallsEnd == Spec => CallsRunOut
<1>1. EInv /\ [Next]_exchangeVars
        => [\A t \in Tasks :
              at[t] \notin {"idle", "done"}
                => \/ UNCHANGED <<at[t], call[t]>>
                   \/ Steps(at'[t], call'[t])
                        < Steps(at[t], call[t])]_exchangeVars
  <2> SUFFICES ASSUME EInv, Next, NEW t \in Tasks, at[t] \notin {"idle", "done"}
               PROVE  \/ UNCHANGED <<at[t], call[t]>>
                      \/ Steps(at'[t], call'[t]) < Steps(at[t], call[t])
    OBVIOUS
  <2>0. Calls
    BY InParts
  <2>1. CASE Tick \/ SetClock \/ Settings
    BY <2>1 DEF Tick, SetClock, Settings, set_captcha_provider,
                restore_signing_key, sign_out
  <2>2. ASSUME NEW u \in Tasks, Application(u) \/ Waiting(u) \/ Going(u)
        PROVE  \/ UNCHANGED <<at[t], call[t]>>
               \/ Steps(at'[t], call'[t]) < Steps(at[t], call[t])
    <3>1. Apart(u) /\ (at[u] \in {"idle", "done"} \/ Nearer(u))
      BY <2>0, <2>2, ApplicationIsNearer, WaitingIsNearer, GoingIsNearer
      DEF Nearer
    <3> QED
      BY <3>1 DEF Nearer, Apart
  <2> QED
    BY <2>1, <2>2 DEF Next
<1> QED
  BY <1>1, ExchangeInductive, PTL DEF Spec, CallsRunOut
=============================================================================
