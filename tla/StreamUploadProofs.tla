-------------------------- MODULE StreamUploadProofs --------------------------
(***************************************************************************)
(* Proofs about StreamUpload, for bodies, chunks and periods of any        *)
(* length.                                                                 *)
(***************************************************************************)
EXTENDS StreamUpload, TLAPS

USE SizesAssumption, PeriodsAssumption
USE DEF pumpVars, channel, bodyVars, callVars, watch, streamVars, sent,
        Abandoned, Closed, QueuedChunks

\* The three periods are lengths of time, and none is longer than Longest.
LEMMA PeriodBounds ==
  ASSUME NEW done \in Nat, size \in Nat
  PROVE  Period(done) \in 0 .. Longest
  BY DEF Period, Longest

\* The invariant holds in every initial state.
LEMMA StreamInit == Init => SInv
<1> SUFFICES ASSUME Init PROVE SInv
  OBVIOUS
<1>1. size \in Nat /\ size <= MaxSize
  BY DEF Init
<1>2. Longest \in Nat /\ Connecting + Stall \in 0 .. Longest
  BY DEF Longest
<1>3. StreamTypeOK
  <2>1. remaining \in 0 .. Longest /\ still \in 0 .. Longest
    BY <1>2 DEF Init
  <2>2. unread \in 0 .. size /\ unsent \in 0 .. size /\ lastSent \in 0 .. sent
    BY <1>1 DEF Init
  <2>3. size \in 0 .. MaxSize /\ held \in 0 .. MaxChunk /\ chunk \in 0 .. MaxChunk
        /\ queued \in 0 .. 2 /\ bytes \in 0 .. size
    BY <1>1 DEF Init
  <2> QED
    BY <2>1, <2>2, <2>3 DEF Init, StreamTypeOK
<1>4. Conserved /\ LookAhead /\ EndsExplained
  BY <1>1 DEF Init, Conserved, LookAhead, EndsExplained
<1>5. Patient
  BY <1>1, <1>2 DEF Init, Patient, Period, Longest
<1>6. CompleteMeansExact /\ SourceErrorIsNamed
  BY <1>1 DEF Init, CompleteMeansExact, SourceErrorIsNamed
<1> QED
  BY <1>3, <1>4, <1>5, <1>6 DEF SInv

\* What the invariant says of the numbers, as the provers want it.
LEMMA Numbers ==
  SInv => /\ size \in Nat /\ size <= MaxSize
          /\ unread \in Nat /\ unread <= size
          /\ held \in Nat /\ held <= MaxChunk
          /\ chunk \in Nat /\ chunk <= MaxChunk
          /\ queued \in {0, 1, 2} /\ bytes \in Nat /\ bytes <= size
          /\ unsent \in Nat /\ unsent <= size
          /\ lastSent \in Nat /\ lastSent <= size - unsent
          /\ remaining \in Nat /\ still \in Nat
          /\ Longest \in Nat /\ remaining <= Longest /\ still <= Longest
  BY DEF SInv, StreamTypeOK, Longest

\* A step of the pump keeps the invariant: it reads no more than is missing,
\* and lets go of a chunk only when it has the next.
LEMMA PumpKeeps == SInv /\ PumpStep => SInv'
<1> SUFFICES ASSUME SInv, PumpStep PROVE SInv'
  OBVIOUS
<1> USE Numbers DEF SInv, StreamTypeOK, Conserved, LookAhead, EndsExplained,
                    CompleteMeansExact, SourceErrorIsNamed
<1>1. ASSUME NEW n \in 0 .. MaxChunk, Read(n) PROVE SInv'
  <2>1. n \in Nat /\ n <= MaxChunk /\ n <= unread /\ unread' = unread - n
    BY <1>1 DEF Read
  <2>2. CASE held = 0
    <3>1. Resume(n, unread') /\ chunk = 0
      BY <1>1, <2>2 DEF Read
    <3>2. CASE n > 0
      BY <1>1, <2>1, <3>1, <3>2 DEF Read, Resume, Patient, Period, Longest
    <3>3. CASE n = 0
      BY <1>1, <2>1, <2>2, <3>1, <3>3 DEF Read, Resume, Patient, Period, Longest
    <3> QED
      BY <2>1, <3>2, <3>3
  <2>3. CASE held > 0
    <3>1. pump' = "deliver" /\ chunk' = n /\ held' = held /\ chunk = 0
      BY <1>1, <2>3 DEF Read, Resume
    <3>2. Patient'
      BY <1>1 DEF Read, Patient, Period
    <3>3. StreamTypeOK'
      BY <1>1, <2>1, <3>1 DEF Read
    <3>4. Conserved'
      BY <1>1, <2>1, <2>3, <3>1 DEF Read
    <3>5. LookAhead'
      <4>1. n = 0 => eof'
        BY <1>1 DEF Read
      <4>2. ~(size' > 0 /\ unsent' = bytes')
        BY <1>1 DEF Read
      <4> QED
        BY <3>1, <4>1, <4>2
    <3>6. EndsExplained' /\ CompleteMeansExact' /\ SourceErrorIsNamed'
      BY <1>1, <2>1, <2>3, <3>1 DEF Read
    <3> QED
      BY <3>2, <3>3, <3>4, <3>5, <3>6
  <2> QED
    BY <2>2, <2>3
<1>2. CASE ReadFails
  BY <1>2 DEF ReadFails, Patient, Period, Longest
<1>3. CASE Deliver
  <2>1. CASE Resume(chunk, unread) /\ bytes' = bytes + held /\ queued' = queued + 1
             /\ queued < QueuedChunks
    <3>1. CASE chunk > 0
      BY <1>3, <2>1, <3>1 DEF Deliver, Resume, Patient, Period, Longest
    <3>2. CASE chunk = 0
      BY <1>3, <2>1, <3>2 DEF Deliver, Resume, Patient, Period, Longest
    <3> QED
      BY <3>1, <3>2
  <2>2. CASE /\ Abandoned \/ body = "gone"
             /\ pump' = "closing" /\ UNCHANGED <<held, chunk, channel>>
    BY <1>3, <2>2 DEF Deliver, Patient, Period, Longest
  <2> QED
    BY <1>3, <2>1, <2>2 DEF Deliver
<1>4. CASE TellError
  BY <1>4 DEF TellError, Patient, Period, Longest
<1>5. CASE Close
  BY <1>5 DEF Close, Patient, Period, Longest
<1> QED
  BY <1>1, <1>2, <1>3, <1>4, <1>5 DEF PumpStep

\* A step of the HTTP client keeps the invariant: it takes only what is there,
\* and a body found closed too early has been explained.
LEMMA ClientKeeps == SInv /\ ClientStep => SInv'
<1> SUFFICES ASSUME SInv, ClientStep PROVE SInv'
  OBVIOUS
<1> USE Numbers DEF SInv, StreamTypeOK, Conserved, LookAhead, EndsExplained,
                    CompleteMeansExact, SourceErrorIsNamed
<1>1. ASSUME NEW n \in 1 .. MaxChunk, TakeChunk(n) PROVE SInv'
  <2>1. n \in Nat /\ n >= 1 /\ unsent' = unsent - n /\ bytes' = bytes - n
        /\ queued' = queued - 1 /\ queued \in {1, 2}
    BY <1>1 DEF TakeChunk
  <2>2. bytes - n >= queued - 1 /\ (queued = 1 => bytes - n = 0)
    BY <1>1, <2>1 DEF TakeChunk
  <2>3. StreamTypeOK'
    BY <1>1, <2>1, <2>2 DEF TakeChunk, Longest
  <2>4. Conserved' /\ LookAhead' /\ EndsExplained'
    BY <1>1, <2>1, <2>2 DEF TakeChunk
  <2>5. Patient'
    BY <1>1, <2>1, <2>2 DEF TakeChunk, Patient
  <2>6. CompleteMeansExact' /\ SourceErrorIsNamed'
    BY <1>1, <2>1, <2>2 DEF TakeChunk
  <2> QED
    BY <2>3, <2>4, <2>5, <2>6
<1>2. CASE FindClosed
  <2>1. sourceError /\ outcome = "none"
    BY <1>2 DEF FindClosed, Patient
  <2> QED
    BY <1>2, <2>1 DEF FindClosed, Patient, Period, Longest
<1>3. CASE FindAbandoned
  BY <1>3 DEF FindAbandoned, Patient, Period, Longest
<1>4. CASE DropBody
  BY <1>4 DEF DropBody, Patient, Period, Longest
<1> QED
  BY <1>1, <1>2, <1>3, <1>4 DEF ClientStep

\* A step of the call, its watchdog or time keeps the invariant.
LEMMA CallKeeps == SInv /\ (CallStep \/ Tick) => SInv'
<1> SUFFICES ASSUME SInv, CallStep \/ Tick PROVE SInv'
  OBVIOUS
<1> USE Numbers DEF SInv, StreamTypeOK, Conserved, LookAhead, EndsExplained,
                    CompleteMeansExact, SourceErrorIsNamed
<1>1. CASE Respond
  BY <1>1 DEF Respond, Patient, Period, Longest
<1>2. CASE RequestFails
  BY <1>2 DEF RequestFails, Fail, Return, Patient, Period, Longest
<1>3. CASE ReadResponse
  BY <1>3 DEF ReadResponse, Return, Patient, Period, Longest
<1>4. CASE Cancel
  BY <1>4 DEF Cancel, Return, Patient, Period, Longest
<1>5. CASE Observe
  <2>1. CASE sent > lastSent
    <3>1. Period(sent) \in 0 .. Longest
      BY PeriodBounds
    <3>2. Period(sent)' = Period(sent)
      BY <1>5, <2>1 DEF Observe, Period
    <3> QED
      BY <1>5, <2>1, <3>1, <3>2 DEF Observe, Patient
  <2>2. CASE sent = lastSent /\ Fail("stalled") /\ UNCHANGED watch
    BY <1>5, <2>2 DEF Observe, Fail, Return, Patient
  <2> QED
    BY <1>5, <2>1, <2>2 DEF Observe
<1>6. CASE Tick
  <2>1. Period(sent) \in 0 .. Longest /\ Period(sent)' = Period(sent)
    BY <1>6, PeriodBounds DEF Tick, Period
  <2>2. remaining' \in 0 .. Longest /\ still' \in 0 .. Longest
    BY <1>6 DEF Tick
  <2>3. Patient'
    BY <1>6, <2>1, <2>2 DEF Tick, Patient
  <2> QED
    BY <1>6, <2>2, <2>3 DEF Tick
<1> QED
  BY <1>1, <1>2, <1>3, <1>4, <1>5, <1>6 DEF CallStep

\* The invariant is inductive.
LEMMA StreamStep == SInv /\ [Next]_streamVars => SInv'
<1>1. SInv /\ UNCHANGED streamVars => SInv'
  BY DEF SInv, StreamTypeOK, Conserved, LookAhead, EndsExplained, Patient,
         Period, Longest, CompleteMeansExact, SourceErrorIsNamed
<1> QED
  BY <1>1, PumpKeeps, ClientKeeps, CallKeeps DEF Next

\* Every variable keeps its type; no count of bytes wraps around.
THEOREM StreamTypeCorrect == Spec => []StreamTypeOK
<1>1. SInv => StreamTypeOK
  BY DEF SInv
<1> QED
  BY <1>1, StreamInit, StreamStep, PTL DEF Spec

\* Whatever the source, the server and the cancellations, a body that looks
\* complete is.
THEOREM OnlyExactCompletes == Spec => []CompleteMeansExact
<1>1. SInv => CompleteMeansExact
  BY DEF SInv
<1> QED
  BY <1>1, StreamInit, StreamStep, PTL DEF Spec

\* A request whose body ran dry names the source's error.
THEOREM SourceErrorsNamed == Spec => []SourceErrorIsNamed
<1>1. SInv => SourceErrorIsNamed
  BY DEF SInv
<1> QED
  BY <1>1, StreamInit, StreamStep, PTL DEF Spec

\* A step that ends the call as stalled comes a full period after the last
\* byte: the guard of Observe with what Patient knows of the deadline.
THEOREM MovingIsNotCut == Spec => NeverCutsMoving
<1>1. SInv /\ [Next]_streamVars
        => [outcome = "none" /\ outcome' = "stalled"
              => still >= Period(sent)]_streamVars
  <2> SUFFICES ASSUME SInv, [Next]_streamVars,
                      outcome = "none", outcome' = "stalled"
               PROVE  still >= Period(sent)
    OBVIOUS
  <2>1. call = "sending" /\ sent = lastSent /\ remaining = 0
    BY DEF Next, PumpStep, Read, ReadFails, Deliver, TellError, Close,
           ClientStep, TakeChunk, FindClosed, FindAbandoned, DropBody,
           CallStep, Respond, RequestFails, ReadResponse, Cancel, Observe,
           Fail, Return, Tick
  <2>2. still \in Nat
    BY Numbers
  <2> QED
    BY <2>1, <2>2 DEF SInv, Patient
<1> QED
  BY <1>1, StreamInit, StreamStep, PTL DEF Spec, NeverCutsMoving

(***************************************************************************)
(* StreamUpload implements Upload.                                         *)
(***************************************************************************)
\* What is found out about the source is found out once.
LEMMA VerdictInit == Init => VerdictFinal
  BY DEF Init, VerdictFinal

LEMMA VerdictStep == SInv /\ VerdictFinal /\ [Next]_streamVars => VerdictFinal'
<1> SUFFICES ASSUME SInv, VerdictFinal, [Next]_streamVars PROVE VerdictFinal'
  OBVIOUS
<1> USE Numbers DEF VerdictFinal
<1>1. ASSUME NEW n \in 0 .. MaxChunk, Read(n) PROVE VerdictFinal'
  <2>1. n \in Nat /\ unread' \in Nat /\ sourceError' = sourceError
    BY <1>1 DEF Read
  <2>2. (eof' => n = 0) /\ (n = 0 => eof')
    BY <1>1 DEF Read
  <2>3. ~sourceError /\ ~sourceError'
    BY <1>1, <2>1 DEF Read
  <2>4. CASE held = 0
    <3>1. Resume(n, unread')
      BY <1>1, <2>4 DEF Read
    <3>2. pump' = IF n > 0 THEN "read" ELSE IF unread' = 0 THEN "closing" ELSE "failed"
      BY <2>1, <3>1 DEF Resume
    <3> QED
      BY <2>1, <2>2, <2>3, <3>2
  <2>5. CASE held > 0
    <3>1. pump' = "deliver" /\ chunk' = n
      BY <1>1, <2>5 DEF Read, Resume
    <3> QED
      BY <2>2, <2>3, <3>1
  <2> QED
    BY <2>4, <2>5
<1>2. CASE ReadFails \/ TellError \/ Close
  BY <1>2 DEF ReadFails, TellError, Close
<1>3. CASE Deliver
  <2>1. CASE Resume(chunk, unread)
    BY <1>3, <2>1 DEF Deliver, Resume
  <2>2. CASE pump' = "closing"
    BY <1>3, <2>2 DEF Deliver
  <2> QED
    BY <1>3, <2>1, <2>2 DEF Deliver
<1>4. CASE UNCHANGED pumpVars
  BY <1>4
<1>5. ClientStep \/ CallStep \/ Tick \/ UNCHANGED streamVars => UNCHANGED pumpVars
  BY DEF ClientStep, TakeChunk, FindClosed, FindAbandoned, DropBody, CallStep,
         Respond, RequestFails, ReadResponse, Cancel, Observe, Fail, Return, Tick
<1> QED
  BY <1>1, <1>2, <1>3, <1>4, <1>5 DEF Next, PumpStep

\* A step of the pump finds out about the source, or shows nothing.
LEMMA PumpShows ==
  SInv /\ VerdictFinal /\ PumpStep => [Promise!UploadNext]_Promise!uploadVars
<1> SUFFICES ASSUME SInv, VerdictFinal, PumpStep
             PROVE  [Promise!UploadNext]_Promise!uploadVars
  OBVIOUS
<1>1. UNCHANGED <<size, sent, outcome>>
  BY DEF PumpStep, Read, ReadFails, Deliver, TellError, Close
<1>2. \/ UNCHANGED Verdict
      \/ Verdict = "unknown" /\ Verdict' \in {"exact", "faulty"}
  <2> USE Numbers DEF Verdict, VerdictFinal
  <2>1. ASSUME NEW n \in 0 .. MaxChunk, Read(n)
        PROVE  Verdict = "unknown" /\ Verdict' \in {"unknown", "exact", "faulty"}
    BY <2>1 DEF Read
  <2>2. CASE ReadFails
    BY <2>2 DEF ReadFails
  <2>3. CASE Deliver
    <3>1. UNCHANGED <<unread, eof, sourceError>> /\ pump = "deliver"
      BY <2>3 DEF Deliver
    <3>2. pump' = "failed" => eof
      BY <2>3, <3>1 DEF Deliver, Resume, SInv, LookAhead
    <3> QED
      BY <3>1, <3>2
  <2>4. CASE TellError
    BY <2>4 DEF TellError
  <2>5. CASE Close
    BY <2>5 DEF Close
  <2> QED
    BY <2>1, <2>2, <2>3, <2>4, <2>5 DEF PumpStep
<1>3. CASE UNCHANGED Verdict
  BY <1>1, <1>3 DEF Promise!uploadVars
<1>4. CASE Verdict = "unknown" /\ Verdict' \in {"exact", "faulty"}
  BY <1>1, <1>4 DEF Promise!UploadNext, Promise!FindOut
<1> QED
  BY <1>2, <1>3, <1>4

\* A step of the HTTP client gives a chunk away, the last one only of a source
\* that was found exact, or shows nothing.
LEMMA ClientShows ==
  SInv /\ SInv' /\ ClientStep => [Promise!UploadNext]_Promise!uploadVars
<1> SUFFICES ASSUME SInv, SInv', ClientStep
             PROVE  [Promise!UploadNext]_Promise!uploadVars
  OBVIOUS
<1>1. UNCHANGED <<size, outcome, Verdict>>
  BY DEF ClientStep, TakeChunk, FindClosed, FindAbandoned, DropBody, Verdict
<1>2. ASSUME NEW n \in 1 .. MaxChunk, TakeChunk(n) PROVE Promise!Give(n) /\ n \in 1 .. size
  <2>1. n \in Nat /\ n >= 1 /\ unsent' = unsent - n /\ unsent' \in Nat
    BY <1>2, StreamStep, Numbers DEF TakeChunk, SInv, StreamTypeOK
  <2>2. sent + n <= size /\ sent' = sent + n /\ n \in 1 .. size
    BY <1>1, <2>1, Numbers
  <2>3. outcome = "none"
    BY <1>2 DEF TakeChunk, SInv, Patient
  <2>4. ASSUME sent + n = size PROVE Verdict = "exact"
    <3>1. unsent' = 0 /\ size > 0
      BY <2>1, <2>4, Numbers
    <3>2. eof' /\ unread' = 0
      BY <1>1, <3>1 DEF SInv, CompleteMeansExact
    <3> QED
      BY <1>1, <3>2 DEF Verdict
  <2> QED
    BY <1>1, <2>2, <2>3, <2>4 DEF Promise!Give
<1>3. CASE FindClosed \/ FindAbandoned \/ DropBody
  BY <1>1, <1>3 DEF FindClosed, FindAbandoned, DropBody, Promise!uploadVars
<1> QED
  BY <1>2, <1>3 DEF ClientStep, Promise!UploadNext

\* A step of the call returns, for the source's sake only if it was found
\* faulty, or shows nothing.
LEMMA CallShows ==
  SInv /\ VerdictFinal /\ (CallStep \/ Tick)
    => [Promise!UploadNext]_Promise!uploadVars
<1> SUFFICES ASSUME SInv, VerdictFinal, CallStep \/ Tick
             PROVE  [Promise!UploadNext]_Promise!uploadVars
  OBVIOUS
<1>1. UNCHANGED <<size, sent, Verdict>>
  BY DEF CallStep, Respond, RequestFails, ReadResponse, Cancel, Observe, Fail,
         Return, Tick, Verdict
<1>2. ASSUME NEW r \in Promise!Results, Return(r), call # "over",
             r = "source" => sourceError
      PROVE  Promise!AnswerWith(r)
  <2>1. outcome = "none" /\ outcome' = r
    BY <1>2 DEF SInv, Patient, Return
  <2>2. r = "source" => Verdict = "faulty"
    BY <1>2 DEF Verdict, VerdictFinal
  <2> QED
    BY <1>1, <2>1, <2>2 DEF Promise!AnswerWith
<1>3. ASSUME NEW error \in {"error", "stalled"}, Fail(error), call # "over"
      PROVE  Promise!UploadNext
  <2>1. PICK r \in {error, "source"} : Return(r) /\ (r = "source" => sourceError)
    BY <1>3 DEF Fail
  <2> QED
    BY <1>2, <1>3, <2>1 DEF Promise!UploadNext, Promise!Results
<1>4. CASE RequestFails
  BY <1>3, <1>4 DEF RequestFails
<1>5. CASE Observe
  <2>1. CASE Fail("stalled")
    BY <1>3, <1>5, <2>1 DEF Observe
  <2>2. CASE UNCHANGED outcome
    BY <1>1, <2>2 DEF Promise!uploadVars
  <2> QED
    BY <1>5, <2>1, <2>2 DEF Observe
<1>6. CASE ReadResponse \/ Cancel
  <2>1. PICK r \in {"answered", "unfinished", "dropped"} : Return(r) /\ call # "over"
    BY <1>6 DEF ReadResponse, Cancel
  <2> QED
    BY <1>2, <2>1 DEF Promise!UploadNext, Promise!Results
<1>7. CASE Respond \/ Tick
  BY <1>1, <1>7 DEF Respond, Tick, Promise!uploadVars
<1> QED
  BY <1>4, <1>5, <1>6, <1>7 DEF CallStep

\* StreamUpload implements Upload, for bodies, chunks and periods of any
\* length: initial states map to initial states, steps to steps or stutters.
THEOREM UploadImplemented == Spec => Promise!UploadSpec
<1>1. Init => Promise!UploadInit
  <2> SUFFICES ASSUME Init PROVE Promise!UploadInit
    OBVIOUS
  <2>1. size \in Nat /\ sent = 0
    BY DEF Init
  <2>2. Verdict = "unknown"
    BY DEF Init, Verdict
  <2> QED
    BY <2>1, <2>2 DEF Init, Promise!UploadInit
<1>2. SInv /\ SInv' /\ VerdictFinal /\ [Next]_streamVars
        => [Promise!UploadNext]_Promise!uploadVars
  <2>1. UNCHANGED streamVars => UNCHANGED Promise!uploadVars
    BY DEF Promise!uploadVars, Verdict
  <2> QED
    BY <2>1, PumpShows, ClientShows, CallShows DEF Next
<1> QED
  BY <1>1, <1>2, StreamInit, StreamStep, VerdictInit, VerdictStep, PTL
  DEF Spec, Promise!UploadSpec

(***************************************************************************)
(* What the liveness properties rest on.                                   *)
(***************************************************************************)
\* Every step of the pump uses up some of its work, whatever the source
\* yields, and no other step gives it more.
THEOREM PumpRunsDown == Spec => PumpAdvances
<1>1. SInv /\ PumpStep => Work' < Work
  <2> SUFFICES ASSUME SInv, PumpStep PROVE Work' < Work
    OBVIOUS
  <2>1. /\ pump = "read" => Work = 2 * unread + (IF held = 0 THEN 4 ELSE 5)
        /\ pump = "deliver" => Work = 2 * unread + (IF chunk = 0 THEN 3 ELSE 6)
    BY DEF Work
  <2>2. /\ pump' = "read" => Work' = 2 * unread' + (IF held' = 0 THEN 4 ELSE 5)
        /\ pump' = "deliver" => Work' = 2 * unread' + (IF chunk' = 0 THEN 3 ELSE 6)
    BY DEF Work
  <2>3. pump' \in {"closing", "failed"} => Work' \in {1, 2}
    BY DEF Work
  <2>4. ASSUME NEW n \in 0 .. MaxChunk, Read(n) PROVE Work' < Work
    <3>1. n \in Nat /\ unread' = unread - n /\ unread' \in Nat /\ pump = "read"
      BY <2>4, Numbers DEF Read
    <3>2. CASE held = 0
      <4>1. Resume(n, unread')
        BY <2>4, <3>2 DEF Read
      <4>2. CASE n > 0
        BY <2>1, <2>2, <3>1, <3>2, <4>1, <4>2, Numbers DEF Resume
      <4>3. CASE n = 0
        BY <2>1, <2>3, <3>1, <3>2, <4>1, <4>3, Numbers DEF Resume
      <4> QED
        BY <3>1, <4>2, <4>3
    <3>3. CASE held > 0
      <4>1. pump' = "deliver" /\ chunk' = n
        BY <2>4, <3>3, Numbers DEF Read, Resume
      <4> QED
        BY <2>1, <2>2, <3>1, <3>3, <4>1, Numbers
    <3> QED
      BY <3>2, <3>3, Numbers
  <2>5. CASE Deliver
    <3>1. unread' = unread /\ pump = "deliver"
      BY <2>5 DEF Deliver
    <3>2. CASE Resume(chunk, unread) /\ chunk > 0
      BY <2>1, <2>2, <3>1, <3>2, Numbers DEF Resume
    <3>3. CASE pump' \in {"closing", "failed"}
      BY <2>1, <2>3, <3>1, <3>3, Numbers
    <3>4. CASE Resume(chunk, unread) /\ chunk = 0
      BY <3>3, <3>4 DEF Resume
    <3> QED
      BY <2>5, <3>2, <3>3, <3>4, Numbers DEF Deliver
  <2>6. CASE ReadFails
    BY <2>1, <2>3, <2>6, Numbers DEF ReadFails
  <2>7. CASE TellError \/ Close
    BY <2>7 DEF TellError, Close, Work
  <2> QED
    BY <2>4, <2>5, <2>6, <2>7 DEF PumpStep
<1>2. ClientStep \/ CallStep \/ Tick => UNCHANGED Work
  BY DEF ClientStep, TakeChunk, FindClosed, FindAbandoned, DropBody, CallStep,
         Respond, RequestFails, ReadResponse, Cancel, Observe, Fail, Return,
         Tick, Work
<1>3. SInv /\ [Next]_streamVars
        => [IF PumpStep THEN Work' < Work ELSE UNCHANGED Work]_streamVars
  BY <1>1, <1>2 DEF Next
<1> QED
  BY <1>3, StreamInit, StreamStep, PTL DEF Spec, PumpAdvances

\* One less of a count is worth as much as a whole K.
LEMMA Weight ==
  ASSUME NEW a \in Nat, NEW b \in Nat, NEW K \in Nat, a < b
  PROVE  a * K + K <= b * K
<1>1. PICK c \in Nat : b = a + 1 + c
  <2>1. b - a - 1 \in Nat /\ b = a + 1 + (b - a - 1)
    OBVIOUS
  <2> QED
    BY <2>1
<1>2. (a + 1 + c) * K = a * K + K + c * K
  OBVIOUS
<1>3. c * K \in Nat /\ a * K \in Nat
  OBVIOUS
<1> QED
  BY <1>1, <1>2, <1>3

\* The patience of the watchdog runs out, however slowly a body moves: time
\* takes of it, and what a byte that left gives back is less than its worth.
THEOREM PatienceIsFinite == Spec => PatienceRunsOut
<1>1. SInv /\ [Next]_streamVars
        => [call = "sending" /\ call' = "sending"
              => /\ Patience' <= Patience
                 /\ Observe \/ (Tick /\ remaining > 0)
                      => Patience' < Patience]_streamVars
  <2> SUFFICES ASSUME SInv, [Next]_streamVars, call = "sending", call' = "sending"
               PROVE  /\ Patience' <= Patience
                      /\ Observe \/ (Tick /\ remaining > 0) => Patience' < Patience
    OBVIOUS
  <2> DEFINE K == Longest + 1
  <2> DEFINE left == size - lastSent
  <2>1. K \in Nat /\ left \in Nat /\ left * K \in Nat /\ K' = K
    BY Numbers DEF Longest
  <2>2. Patience = left * K + remaining /\ Patience' = left' * K + remaining'
    BY <2>1 DEF Patience
  <2>3. CASE Observe
    <3>1. /\ lastSent' = sent /\ sent > lastSent /\ size' = size
          /\ remaining' = Period(sent)
      BY <2>3 DEF Observe, Fail, Return
    <3>2. left' = unsent /\ unsent \in Nat /\ unsent < left
      BY <3>1, Numbers
    <3>3. remaining' \in Nat /\ remaining' < K
      BY <3>1, Numbers, PeriodBounds
    <3>4. unsent * K \in Nat /\ unsent * K + K <= left * K
      BY <2>1, <3>2, Weight
    <3> QED
      BY <2>1, <2>2, <3>2, <3>3, <3>4, Numbers
  <2>4. CASE ~Observe
    <3>1. UNCHANGED <<size, lastSent>>
      BY <2>4 DEF Next, PumpStep, Read, ReadFails, Deliver, TellError, Close,
                  ClientStep, TakeChunk, FindClosed, FindAbandoned, DropBody,
                  CallStep, Respond, RequestFails, ReadResponse, Cancel, Fail,
                  Return, Tick
    <3>2. CASE Tick
      <4>1. remaining' = IF remaining = 0 THEN 0 ELSE remaining - 1
        BY <3>2 DEF Tick
      <4> QED
        BY <2>1, <2>2, <2>4, <3>1, <4>1, Numbers
    <3>3. CASE ~Tick
      <4>1. UNCHANGED remaining
        BY <2>4, <3>3 DEF Next, PumpStep, Read, ReadFails, Deliver, TellError,
             Close, ClientStep, TakeChunk, FindClosed, FindAbandoned, DropBody,
             CallStep, Respond, RequestFails, ReadResponse, Cancel, Fail, Return
      <4> QED
        BY <2>1, <2>2, <2>4, <3>1, <3>3, <4>1, Numbers
    <3> QED
      BY <3>2, <3>3
  <2> QED
    BY <2>3, <2>4
<1> QED
  BY <1>1, StreamInit, StreamStep, PTL DEF Spec, PatienceRunsOut
=============================================================================
