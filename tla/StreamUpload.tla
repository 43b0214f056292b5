---------------------------- MODULE StreamUpload ----------------------------
(***************************************************************************)
(* One attempt to upload a body that is read while it is sent              *)
(* (src/src/stream.rs, src/src/stream/body.rs, src/src/stream/watchdog.rs).*)
(*                                                                         *)
(* Three parties run at once.  The pump reads the source on a thread of    *)
(* its own and puts chunks into a channel, always one read ahead of what   *)
(* it delivers.  The HTTP client takes chunks out as flow control lets it; *)
(* it may keep the body as long as it likes, or drop it.  The call that    *)
(* made the request waits for the response beside a watchdog, and abandons *)
(* the body when it is over.                                               *)
(*                                                                         *)
(* The source is the application's: it may fail, end early or run long.    *)
(***************************************************************************)
EXTENDS Naturals

CONSTANTS MaxSize,      (* bound: the longest body                          *)
          MaxChunk,     (* the most a read returns: CHUNK_SIZE              *)
          Connecting,   (* CONNECT_TIMEOUT                                  *)
          Stall,        (* Timeouts::stall                                  *)
          Draining      (* Timeouts::read and the drain_allowance           *)

ASSUME SizesAssumption == MaxSize \in Nat /\ MaxChunk \in Nat \ {0}
ASSUME PeriodsAssumption == /\ Connecting \in Nat
                            /\ Stall \in Nat \ {0} /\ Draining \in Nat \ {0}

VARIABLES
  size,         \* BodySource::size
  pump,         \* the point the pump has reached
  unread,       \* bytes the pump has yet to read
  held, chunk,  \* the chunk held back, and the one read after it (0: none)
  sourceError,  \* the pump has told what went wrong
  queued,       \* chunks in the channel
  bytes,        \* what is in them
  body,         \* StreamedBody: "open", or "failed", or "gone" with the client
  unsent,       \* StreamedBody.unsent: `sent' is what is left of size
  call,         \* send_streamed: "sending", "answered" or "over"
  outcome,      \* what it returned
  lastSent,     \* Watchdog.last_sent
  remaining,    \* until Watchdog.deadline
  still,        \* history: how long nothing has been sent
  eof,          \* history: the source has said that it ends
  dry           \* history: the body failed because the channel was closed

pumpVars == <<pump, unread, held, chunk, sourceError, eof>>
channel == <<queued, bytes>>
bodyVars == <<body, unsent, dry>>
callVars == <<call, outcome>>
watch == <<lastSent, remaining, still>>
streamVars == <<size, pumpVars, channel, bodyVars, callVars, watch>>

QueuedChunks == 2

sent == size - unsent

\* AbandonOnDrop lives as long as the call does.
Abandoned == call = "over"

\* The channel closes when the pump is dropped, after it told its error.
ClosedEarly == pump \in {"failed", "closing", "ended"}

Closed == pump = "ended"

-----------------------------------------------------------------------------
(***************************************************************************)
(* Pump::forward.                                                          *)
(***************************************************************************)
\* The chunk held back is on its way: go on with the one read after it, the
\* empty one being the end of the source.
Resume(n, left) ==
  /\ chunk' = 0
  /\ \/ n > 0 /\ held' = n /\ pump' = "read"
     \/ n = 0 /\ held' = 0 /\ pump' = IF left = 0 THEN "closing" ELSE "failed"

\* Variant: with nothing left to read the last chunk is delivered at once.
ReadNoFurther(n) ==
  /\ pump = "read"
  /\ n <= unread
  /\ unread' = unread - n
  /\ eof' = (n = 0)
  /\ \/ held = 0 /\ n > 0 /\ unread' = 0
        /\ pump' = "deliver" /\ held' = n /\ chunk' = 0
     \/ held = 0 /\ (n = 0 \/ unread' > 0) /\ Resume(n, unread')
     \/ held > 0 /\ pump' = "deliver" /\ chunk' = n /\ UNCHANGED held
  /\ UNCHANGED <<size, sourceError, channel, bodyVars, callVars, watch>>

\* Variant: the length is not checked, and what is left wraps around.
ReadUnchecked(n) ==
  /\ pump = "read"
  /\ unread' = unread - n
  /\ eof' = (n = 0)
  /\ \/ held = 0 /\ Resume(n, unread')
     \/ held > 0 /\ pump' = "deliver" /\ chunk' = n /\ UNCHANGED held
  /\ UNCHANGED <<size, sourceError, channel, bodyVars, callVars, watch>>

Read(n) ==
  /\ pump = "read"
  /\ n <= unread
  /\ unread' = unread - n
  /\ eof' = (n = 0)
  /\ \/ held = 0 /\ Resume(n, unread')
     \/ held > 0 /\ pump' = "deliver" /\ chunk' = n /\ UNCHANGED held
  /\ UNCHANGED <<size, sourceError, channel, bodyVars, callVars, watch>>

\* The source cannot be opened or read, or is longer than its size.
ReadFails ==
  /\ pump = "read"
  /\ pump' = "failed"
  /\ UNCHANGED <<size, unread, held, chunk, sourceError, eof, channel,
                 bodyVars, callVars, watch>>

\* Variant: a pump that waits for room does not hear that the call is over.
DeliverDeaf ==
  /\ pump = "deliver"
  /\ \/ body # "gone" /\ queued < QueuedChunks
        /\ queued' = queued + 1 /\ bytes' = bytes + held
        /\ Resume(chunk, unread)
     \/ body = "gone" /\ pump' = "closing" /\ UNCHANGED <<held, chunk, channel>>
  /\ UNCHANGED <<size, unread, sourceError, eof, bodyVars, callVars, watch>>

\* deliver waits for room, and gives up when nobody needs the chunk any more.
Deliver ==
  /\ pump = "deliver"
  /\ \/ ~Abandoned /\ body # "gone" /\ queued < QueuedChunks
        /\ queued' = queued + 1 /\ bytes' = bytes + held
        /\ Resume(chunk, unread)
     \/ (Abandoned \/ body = "gone")
        /\ pump' = "closing" /\ UNCHANGED <<held, chunk, channel>>
  /\ UNCHANGED <<size, unread, sourceError, eof, bodyVars, callVars, watch>>

TellError ==
  /\ pump = "failed"
  /\ sourceError' = TRUE
  /\ pump' = "closing"
  /\ UNCHANGED <<size, unread, held, chunk, eof, channel, bodyVars, callVars,
                 watch>>

Close ==
  /\ pump = "closing"
  /\ pump' = "ended"
  /\ UNCHANGED <<size, unread, held, chunk, sourceError, eof, channel,
                 bodyVars, callVars, watch>>

-----------------------------------------------------------------------------
(***************************************************************************)
(* StreamedBody::poll_frame, whenever the HTTP client asks for a frame.    *)
(* Of the queued chunks only the sum is kept: the one taken may have any   *)
(* length that leaves the others a byte at least, and MaxChunk at most.    *)
(***************************************************************************)
TakeChunk(n) ==
  /\ body = "open" /\ unsent > 0
  /\ ~Abandoned
  /\ queued > 0
  /\ bytes - n \in queued - 1 .. (queued - 1) * MaxChunk
  /\ queued' = queued - 1
  /\ bytes' = bytes - n
  /\ unsent' = unsent - n
  /\ still' = 0
  /\ UNCHANGED <<size, pumpVars, body, dry, callVars, lastSent, remaining>>

FindClosed ==
  /\ body = "open" /\ unsent > 0
  /\ ~Abandoned
  /\ queued = 0 /\ Closed
  /\ body' = "failed"
  /\ dry' = TRUE
  /\ UNCHANGED <<size, pumpVars, channel, unsent, callVars, watch>>

FindAbandoned ==
  /\ body = "open" /\ unsent > 0
  /\ Abandoned
  /\ body' = "failed"
  /\ UNCHANGED <<size, pumpVars, channel, unsent, dry, callVars, watch>>

\* The HTTP client lets go of the body, and of what is in the channel.
DropBody ==
  /\ body # "gone"
  /\ body' = "gone"
  /\ UNCHANGED <<size, pumpVars, channel, unsent, dry, callVars, watch>>

-----------------------------------------------------------------------------
(***************************************************************************)
(* send_streamed.                                                          *)
(***************************************************************************)
\* The body is abandoned with the call.
Return(result) ==
  /\ call' = "over"
  /\ outcome' = result
  /\ UNCHANGED <<size, pumpVars, channel, bodyVars>>

\* Whatever the request failed of, the source's own error goes before it.
Fail(error) == Return(IF sourceError THEN "source" ELSE error)

\* The server may answer before it has the whole body.
Respond ==
  /\ call = "sending"
  /\ call' = "answered"
  /\ UNCHANGED <<size, pumpVars, channel, bodyVars, outcome, watch>>

RequestFails ==
  /\ call = "sending"
  /\ Fail("error")
  /\ UNCHANGED watch

\* The body of the response has been read, or could not be within
\* CALL_TIMEOUT: the source is not asked for its error here.
ReadResponse ==
  /\ call = "answered"
  /\ Return("answered") \/ Return("unfinished")
  /\ UNCHANGED watch

\* The application drops the future.
Cancel ==
  /\ call # "over"
  /\ Return("dropped")
  /\ UNCHANGED watch

-----------------------------------------------------------------------------
(***************************************************************************)
(* Watchdog, and time.                                                     *)
(***************************************************************************)
\* How long nothing may be sent after `done' bytes were.
Period(done) == IF done = 0 THEN Connecting + Stall
                ELSE IF done < size THEN Stall ELSE Draining

Longest == Connecting + Stall + Draining

Tick ==
  /\ call = "sending"
  /\ remaining' = IF remaining = 0 THEN 0 ELSE remaining - 1
  /\ still' = IF still < Longest THEN still + 1 ELSE still
  /\ UNCHANGED <<size, pumpVars, channel, bodyVars, callVars, lastSent>>

\* Variant: the deadline moves at every check.
ObserveAlways ==
  /\ call = "sending"
  /\ lastSent' = sent
  /\ remaining' = Period(sent)
  /\ UNCHANGED <<size, pumpVars, channel, bodyVars, callVars, still>>

\* Variant: the deadline is looked at before the progress.
ObserveLate ==
  /\ call = "sending"
  /\ \/ /\ remaining > 0 /\ sent > lastSent
        /\ lastSent' = sent
        /\ remaining' = Period(sent)
        /\ UNCHANGED <<size, pumpVars, channel, bodyVars, callVars, still>>
     \/ /\ remaining = 0
        /\ Fail("stalled")
        /\ UNCHANGED watch

\* observe, at a tick of `checks': progress moves the deadline.
Observe ==
  /\ call = "sending"
  /\ \/ /\ sent > lastSent
        /\ lastSent' = sent
        /\ remaining' = Period(sent)
        /\ UNCHANGED <<size, pumpVars, channel, bodyVars, callVars, still>>
     \/ /\ sent = lastSent /\ remaining = 0
        /\ Fail("stalled")
        /\ UNCHANGED watch

-----------------------------------------------------------------------------

Init ==
  /\ size \in 0 .. MaxSize
  /\ pump = "read" /\ unread = size
  /\ held = 0 /\ chunk = 0
  /\ sourceError = FALSE
  /\ queued = 0 /\ bytes = 0
  /\ body = "open" /\ unsent = size
  /\ call = "sending" /\ outcome = "none"
  /\ lastSent = 0 /\ remaining = Connecting + Stall
  /\ still = 0 /\ eof = FALSE /\ dry = FALSE

PumpStep ==
  \/ \E n \in 0 .. MaxChunk : Read(n)
  \/ ReadFails \/ Deliver \/ TellError \/ Close

ClientStep ==
  \/ \E n \in 1 .. MaxChunk : TakeChunk(n)
  \/ FindClosed \/ FindAbandoned \/ DropBody

CallStep == Respond \/ RequestFails \/ ReadResponse \/ Cancel \/ Observe

Next == PumpStep \/ ClientStep \/ CallStep \/ Tick

Spec == Init /\ [][Next]_streamVars

(***************************************************************************)
(* Fairness: a read of the source returns, time passes, the runtime polls  *)
(* the watchdog, and CALL_TIMEOUT ends the reading of a response.  The     *)
(* server and the HTTP client owe nothing.                                 *)
(***************************************************************************)
FairSpec ==
  /\ Spec
  /\ WF_streamVars(PumpStep) /\ WF_streamVars(Tick)
  /\ WF_streamVars(Observe) /\ WF_streamVars(ReadResponse)

-----------------------------------------------------------------------------
(***************************************************************************)
(* What is checked.                                                        *)
(***************************************************************************)

\* Every variable has its type; in particular neither the pump's count of
\* bytes nor the body's ever wraps around (checked_sub in forward, the plain
\* subtraction in poll_frame).
StreamTypeOK ==
  /\ size \in 0 .. MaxSize
  /\ pump \in {"read", "deliver", "failed", "closing", "ended"}
  /\ unread \in 0 .. size
  /\ held \in 0 .. MaxChunk /\ chunk \in 0 .. MaxChunk
  /\ sourceError \in BOOLEAN /\ eof \in BOOLEAN /\ dry \in BOOLEAN
  /\ queued \in 0 .. QueuedChunks /\ bytes \in 0 .. size
  /\ body \in {"open", "failed", "gone"}
  /\ unsent \in 0 .. size
  /\ call \in {"sending", "answered", "over"}
  /\ outcome \in {"none", "answered", "unfinished", "source", "error",
                 "stalled", "dropped"}
  /\ lastSent \in 0 .. sent
  /\ remaining \in 0 .. Longest /\ still \in 0 .. Longest

\* A body never looks complete to the server unless the source ended exactly
\* at its size: the last bytes leave only once the read after them has found
\* the end (forward's `held', "a long source fails before its last bytes are
\* sent").
CompleteMeansExact == size > 0 /\ unsent = 0 => eof /\ unread = 0

\* A request that gets no response because its body ran dry fails with the
\* error of the source, never with the transport's: the pump tells it before
\* the channel closes, and the call asks for it before it reports.
SourceErrorIsNamed == dry => sourceError /\ outcome \notin {"error", "stalled"}

\* The watchdog never cuts off an upload that moves: when it does, nothing
\* has been sent for the whole period that applies (observe).
NeverCutsMoving ==
  [][outcome = "none" /\ outcome' = "stalled" => still >= Period(sent)]_streamVars

\* Whatever the server and the HTTP client do, or do not, the call returns.
UploadReturns == call # "over" ~> call = "over"

\* When the call is over the pump ends and lets go of the source, even when
\* the HTTP client keeps the body and never asks it for a frame again.
PumpEnds == call = "over" ~> pump = "ended"

(***************************************************************************)
(* Why it holds: what StreamUploadProofs adds to make the invariants       *)
(* inductive.                                                              *)
(***************************************************************************)

\* No byte is lost between the source and the server while both ends are up,
\* and none is ever made up.
Conserved ==
  /\ bytes >= queued /\ (queued = 0 => bytes = 0)
  /\ pump = "deliver" => held > 0
  /\ pump = "read" => chunk = 0
  /\ bytes + held + chunk + unread <= unsent
  /\ pump \in {"read", "deliver"} => unsent = bytes + held + chunk + unread

\* While the pump has not found the end, the last byte is not in the channel.
LookAhead ==
  /\ pump = "deliver" /\ chunk = 0 => eof
  /\ size > 0 /\ unsent = bytes
       => eof /\ unread = 0 /\ pump \in {"closing", "ended"}

\* An end that is told of by nobody is the end of a whole body, or of one
\* nobody takes any more.
EndsExplained ==
  pump \in {"closing", "ended"}
    => sourceError \/ Abandoned \/ body = "gone" \/ unsent = bytes

\* What the watchdog has left to wait makes up for what has passed.
Patient ==
  /\ call = "sending" /\ lastSent = sent => still + remaining >= Period(sent)
  /\ call # "over" => outcome = "none"

SInv ==
  /\ StreamTypeOK /\ Conserved /\ LookAhead /\ EndsExplained /\ Patient
  /\ CompleteMeansExact /\ SourceErrorIsNamed

(***************************************************************************)
(* StreamUpload implements Upload.                                         *)
(***************************************************************************)
\* What the pump has found out: it reads until the source ends or fails.
Verdict ==
  IF eof THEN IF unread = 0 THEN "exact" ELSE "faulty"
  ELSE IF pump = "failed" \/ sourceError THEN "faulty" ELSE "unknown"

Promise == INSTANCE Upload WITH given <- sent, source <- Verdict,
                                result <- outcome

\* Nothing the three parties do, in whatever order, breaks what Upload
\* promises of them together.
ImplementsUpload == Promise!UploadSpec

\* A verdict is final: after the end of the source nothing is read, and a
\* source that yielded its size has not failed.
VerdictFinal ==
  /\ pump = "read" => ~eof
  /\ pump = "deliver" /\ eof => chunk = 0
  /\ pump \in {"read", "deliver"} => ~sourceError
  /\ pump = "failed" => ~sourceError
  /\ pump = "failed" \/ sourceError => ~(eof /\ unread = 0)

(***************************************************************************)
(* Why the pump ends, and why the call returns.                            *)
(***************************************************************************)
\* How far the pump is from its end: two steps for each byte unread, and some
\* for what it holds.
Work ==
  CASE pump = "read" -> 2 * unread + (IF held = 0 THEN 4 ELSE 5)
    [] pump = "deliver" -> 2 * unread + (IF chunk = 0 THEN 3 ELSE 6)
    [] pump = "failed" -> 2
    [] pump = "closing" -> 1
    [] pump = "ended" -> 0

\* Every step of the pump brings it nearer to its end, whatever the source
\* yields and however often the channel is full; nobody else sets it back.
PumpAdvances ==
  [][IF PumpStep THEN Work' < Work ELSE UNCHANGED Work]_streamVars

\* How long the watchdog may yet wait, if every byte that leaves is the last
\* for the whole of a period.
Patience == (size - lastSent) * (Longest + 1) + remaining

\* Waiting for a response uses the patience up: each moment that passes and
\* each look of the watchdog takes of it, and nothing gives it back.
PatienceRunsOut ==
  [][call = "sending" /\ call' = "sending"
       => /\ Patience' <= Patience
          /\ Observe \/ (Tick /\ remaining > 0) => Patience' < Patience]_streamVars
=============================================================================
