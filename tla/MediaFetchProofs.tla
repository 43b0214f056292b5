--------------------------- MODULE MediaFetchProofs ---------------------------
(***************************************************************************)
(* Proofs about MediaFetch, for any fetches, hosts, devices, periods and   *)
(* bounds.                                                                 *)
(***************************************************************************)
EXTENDS MediaFetch, FiniteSetTheorems, TLAPS

USE FetchesAssumption, MediaPeriods, MediaBounds
USE DEF MoveTo, Become, Waiting, identity, counts, arming, seen, budget,
        mediaVars

(***************************************************************************)
(* The type invariant, in two halves: what is shared and what is of a      *)
(* fetch.                                                                  *)
(***************************************************************************)
SharedOK ==
  /\ now \in 1 .. MaxNow
  /\ proxied \in BOOLEAN
  /\ client \in 1 .. built /\ built \in Nat \ {0}
  /\ device \in Devices
  /\ lastProgress \in [Hosts -> 0 .. now]
  /\ dials \in [Hosts -> Nat]
  /\ connections \in 0 .. MaxOpened /\ named \in Nat
  /\ armed \in BOOLEAN
  /\ retiredAt \in 0 .. now
  /\ generation \in Nat
  /\ since \in SUBSET Fetches
  /\ proven \in BOOLEAN
  /\ startsLeft \in 0 .. MaxStarts /\ replacedLeft \in 0 .. MaxReplaced

FetchesOK ==
  /\ pc \in [Fetches -> FetchLabels]
  /\ fetch \in [Fetches -> Attempt]

\* The connections whose names are still to come.
Dialing == {f \in Fetches : pc[f] = "dialing"}

\* The set of dials is finite, and counting it gives a natural number.
LEMMA Count == IsFiniteSet(Dialing) /\ Cardinality(Dialing) \in Nat
<1>1. Dialing \in SUBSET Fetches
  BY DEF Dialing
<1> QED
  BY <1>1, FS_Subset, FS_CardinalityType

NamesLeft == ~proxied => named + Cardinality(Dialing) <= connections

LEMMA NamesLagIsLeft == NamesLag <=> NamesLeft
  BY DEF NamesLag, NamesLeft, Dialing

LEMMA NoAttemptOK == NoAttempt \in Attempt
  BY DEF NoAttempt, Attempt

\* The difference that saturates is a natural number.
LEMMA UnnamedOK == MInv => unnamed \in Nat /\ unnamed <= connections
  BY DEF MInv, MediaTypeOK, unnamed, Monus

\* The invariant holds in every initial state.
LEMMA MediaInit == Init => MInv
<1> SUFFICES ASSUME Init PROVE MInv
  OBVIOUS
<1>1. SharedOK /\ named \in 0 .. connections
  <2>1. now \in 1 .. MaxNow /\ client \in 1 .. built /\ retiredAt \in 0 .. now
        /\ connections \in 0 .. MaxOpened
        /\ startsLeft \in 0 .. MaxStarts /\ replacedLeft \in 0 .. MaxReplaced
    BY DEF Init
  <2>2. lastProgress \in [Hosts -> 0 .. now] /\ dials \in [Hosts -> Nat]
    BY DEF Init
  <2>3. /\ proxied \in BOOLEAN /\ armed \in BOOLEAN /\ proven \in BOOLEAN
        /\ since \in SUBSET Fetches /\ device \in Devices
    BY DEF Init
  <2>4. /\ built \in Nat \ {0} /\ generation \in Nat
        /\ named \in Nat /\ named \in 0 .. connections
    BY DEF Init
  <2> QED
    BY <2>1, <2>2, <2>3, <2>4 DEF SharedOK
<1>2. FetchesOK
  BY NoAttemptOK DEF Init, FetchesOK, FetchLabels
<1>3. MediaTypeOK
  BY <1>1, <1>2 DEF SharedOK, FetchesOK, MediaTypeOK
<1>4. NamesLag
  <2>1. Dialing = {}
    BY DEF Init, Dialing
  <2>2. Cardinality(Dialing) = 0
    BY <2>1, FS_EmptySet
  <2> QED
    BY <2>2, NamesLagIsLeft DEF Init, NamesLeft
<1>5. OpeningsShow /\ MovesShow /\ ArmedByProof /\ ClientsAge
  BY DEF Init, OpeningsShow, MovesShow, ArmedByProof, ClientsAge, Quiet
<1> QED
  BY <1>3, <1>4, <1>5 DEF MInv

\* No step leaves the clock, the clients, the counts or the arming ill-typed.
LEMMA SharedStep == MInv /\ [Next]_mediaVars => SharedOK'
<1> SUFFICES ASSUME MInv, [Next]_mediaVars PROVE SharedOK'
  OBVIOUS
<1> USE DEF MInv, MediaTypeOK, SharedOK, ClientsAge
<1>1. ASSUME NEW f \in Fetches, NEW h \in Hosts, Start(f, h)
      PROVE  SharedOK'
  BY <1>1 DEF Start
<1>2. ASSUME NEW f \in Fetches, NEW h \in Hosts, Redirect(f, h)
      PROVE  SharedOK'
  BY <1>2 DEF Redirect
<1>3. ASSUME NEW f \in Fetches, StartAgain(f)
      PROVE  SharedOK'
  BY <1>3 DEF StartAgain
<1>4. ASSUME NEW f \in Fetches, Begin(f)
      PROVE  SharedOK'
  BY <1>4 DEF Begin
<1>5. ASSUME NEW f \in Fetches, Connect(f)
      PROVE  SharedOK'
  BY <1>5 DEF Connect
<1>6. ASSUME NEW f \in Fetches, Resolve(f)
      PROVE  SharedOK'
  BY <1>6 DEF Resolve
<1>7. ASSUME NEW f \in Fetches, Answered(f)
      PROVE  SharedOK'
  BY <1>7 DEF Answered, Record, Witnessed, Progress
<1>8. ASSUME NEW f \in Fetches, Chunk(f)
      PROVE  SharedOK'
  BY <1>8 DEF Chunk, Record, Witnessed, Progress
<1>9. ASSUME NEW f \in Fetches, Return(f)
      PROVE  SharedOK'
  BY <1>9 DEF Return, Finish
<1>10. ASSUME NEW f \in Fetches, TimeOut(f)
      PROVE  SharedOK'
  BY <1>10 DEF TimeOut
<1>11. ASSUME NEW f \in Fetches, Retire(f)
      PROVE  SharedOK'
  <2>1. client' \in 1 .. built' /\ built' \in Nat \ {0}
    BY <1>11 DEF Retire
  <2>2. generation' \in Nat /\ retiredAt' = now /\ armed' = FALSE
        /\ since' = {} /\ proven' = FALSE
    BY <1>11 DEF Retire
  <2>3. UNCHANGED <<now, proxied, device, lastProgress, counts, budget>>
    BY <1>11 DEF Retire
  <2>4. since' \in SUBSET Fetches /\ retiredAt' \in 0 .. now'
    BY <2>2, <2>3
  <2>5. /\ now' \in 1 .. MaxNow /\ proxied' \in BOOLEAN /\ device' \in Devices
        /\ lastProgress' \in [Hosts -> 0 .. now'] /\ dials' \in [Hosts -> Nat]
        /\ connections' \in 0 .. MaxOpened /\ named' \in Nat
        /\ startsLeft' \in 0 .. MaxStarts /\ replacedLeft' \in 0 .. MaxReplaced
    BY <2>3
  <2> QED
    BY <2>1, <2>2, <2>4, <2>5
<1>12. ASSUME NEW f \in Fetches, Keep(f)
      PROVE  SharedOK'
  BY <1>12 DEF Keep, GiveUpOrResend, Resendable, Finish
<1>13. ASSUME NEW d \in Devices, ReplaceTransport(d)
      PROVE  SharedOK'
  BY <1>13 DEF ReplaceTransport
<1>14. CASE Tick
  BY <1>14 DEF Tick
<1>15. CASE UNCHANGED mediaVars
  BY <1>15
<1> QED
  BY <1>1, <1>2, <1>3, <1>4, <1>5, <1>6, <1>7, <1>8, <1>9, <1>10,
     <1>11, <1>12, <1>13, <1>14, <1>15
  DEF Next, Step

\* A fetch that moves on with a well-formed attempt leaves all well-typed.
LEMMA BecomesOK ==
  ASSUME FetchesOK, NEW f \in Fetches, NEW a \in Attempt,
         NEW label \in FetchLabels,
         fetch' = [fetch EXCEPT ![f] = a] \/ UNCHANGED fetch,
         pc' = [pc EXCEPT ![f] = label] \/ UNCHANGED pc
  PROVE  FetchesOK'
  BY DEF FetchesOK

\* Answering somebody leaves all attempts well-formed.
LEMMA RecordedOK ==
  ASSUME FetchesOK, NEW f \in Fetches, Witnessed(f), fetch[f].at \in Hosts,
         pc' = [pc EXCEPT ![f] = "body"] \/ UNCHANGED pc
  PROVE  FetchesOK'
<1>1. fetch[f].generation \in Nat
  BY DEF FetchesOK, Attempt
<1>2. Progress(f) \in Attempt
  BY <1>1 DEF Progress, NoAttempt, Attempt
<1>3. \A g \in Fetches : [fetch[g] EXCEPT !.moved = TRUE] \in Attempt
  <2>1. \A a \in Attempt : [a EXCEPT !.moved = TRUE] \in Attempt
    BY DEF Attempt
  <2> QED
    BY <2>1 DEF FetchesOK
<1>4. fetch' \in [Fetches -> Attempt]
  BY <1>2, <1>3 DEF Witnessed, FetchesOK
<1>5. pc' \in [Fetches -> FetchLabels]
  BY DEF FetchesOK, FetchLabels
<1> QED
  BY <1>4, <1>5 DEF FetchesOK

\* No step leaves a fetch ill-typed.
LEMMA FetchesStep == MInv /\ [Next]_mediaVars => FetchesOK'
<1> SUFFICES ASSUME MInv, [Next]_mediaVars PROVE FetchesOK'
  OBVIOUS
<1>Typed. /\ FetchesOK /\ client \in Nat /\ device \in Devices /\ now \in Nat
          /\ generation \in Nat
          /\ \A f \in Fetches :
               fetch[f] \in Attempt /\ (pc[f] = "again" => fetch[f].host \in Hosts)
  BY DEF MInv, MediaTypeOK, FetchesOK, ClientsAge
<1>1. ASSUME NEW f \in Fetches, NEW h \in Hosts, Start(f, h)
      PROVE  FetchesOK'
  <2>1. [NoAttempt EXCEPT !.host = h, !.client = client,
                             !.device = device] \in Attempt
    BY <1>1, <1>Typed DEF Start, Attempt, NoAttempt
  <2> QED
    BY <1>1, <2>1, <1>Typed, BecomesOK DEF Start, FetchLabels
<1>2. ASSUME NEW f \in Fetches, NEW h \in Hosts, Redirect(f, h)
      PROVE  FetchesOK'
  <2>1. [fetch[f] EXCEPT !.redirected = TRUE, !.at = h] \in Attempt
    BY <1>2, <1>Typed DEF Redirect, Attempt, NoAttempt
  <2> QED
    BY <1>2, <2>1, <1>Typed, BecomesOK DEF Redirect, FetchLabels
<1>3. ASSUME NEW f \in Fetches, StartAgain(f)
      PROVE  FetchesOK'
  <2>1. [NoAttempt EXCEPT !.host = fetch[f].host, !.client = client,
                             !.device = device,
                             !.first = fetch[f].client] \in Attempt
    BY <1>3, <1>Typed DEF StartAgain, Attempt, NoAttempt
  <2> QED
    BY <1>3, <2>1, <1>Typed, BecomesOK DEF StartAgain, FetchLabels
<1>4. ASSUME NEW f \in Fetches, Begin(f)
      PROVE  FetchesOK'
  <2>1. fetch[f].host \in Hosts /\ dials[fetch[f].host] \in Nat
    BY <1>4 DEF Begin, MInv, MediaTypeOK, ClientsAge
  <2> DEFINE stamped == [fetch[f] EXCEPT
                  !.started = now, !.dials = dials[fetch[f].host],
                  !.unnamed = unnamed, !.generation = generation,
                  !.at = fetch[f].host, !.redirected = FALSE,
                  !.opened = FALSE, !.moved = FALSE]
  <2>2. stamped \in Attempt
    BY <2>1, <1>Typed, UnnamedOK DEF Attempt
  <2> HIDE DEF stamped
  <2>3. fetch' = [fetch EXCEPT ![f] = stamped]
    BY <1>4 DEF Begin, stamped
  <2> QED
    BY <1>4, <2>2, <2>3, <1>Typed, BecomesOK DEF Begin, FetchLabels
<1>5. ASSUME NEW f \in Fetches, Connect(f)
      PROVE  FetchesOK'
  <2>1. [fetch[f] EXCEPT !.opened = TRUE] \in Attempt
    BY <1>5, <1>Typed DEF Connect, Attempt, NoAttempt
  <2> QED
    BY <1>5, <2>1, <1>Typed, BecomesOK DEF Connect, FetchLabels
<1>6. ASSUME NEW f \in Fetches, Resolve(f)
      PROVE  FetchesOK'
  BY <1>6, <1>Typed, NoAttemptOK, BecomesOK DEF Resolve, FetchLabels
<1>7. ASSUME NEW f \in Fetches, Answered(f)
      PROVE  FetchesOK'
  <2>1. fetch[f].at \in Hosts
    BY <1>7 DEF Answered, MInv, ClientsAge
  <2> QED
    BY <1>7, <2>1, <1>Typed, RecordedOK DEF Answered, Record
<1>8. ASSUME NEW f \in Fetches, Chunk(f)
      PROVE  FetchesOK'
  <2>1. fetch[f].at \in Hosts
    BY <1>8 DEF Chunk, MInv, ClientsAge
  <2> QED
    BY <1>8, <2>1, <1>Typed, RecordedOK DEF Chunk, Record
<1>9. ASSUME NEW f \in Fetches, Return(f)
      PROVE  FetchesOK'
  BY <1>9, <1>Typed, NoAttemptOK, BecomesOK DEF Return, Finish, FetchLabels
<1>10. ASSUME NEW f \in Fetches, TimeOut(f)
      PROVE  FetchesOK'
  BY <1>10, <1>Typed, NoAttemptOK, BecomesOK DEF TimeOut, FetchLabels
<1>11. ASSUME NEW f \in Fetches, Retire(f)
      PROVE  FetchesOK'
  BY <1>11, <1>Typed, NoAttemptOK, BecomesOK DEF Retire, GiveUpOrResend, Finish, FetchLabels
<1>12. ASSUME NEW f \in Fetches, Keep(f)
      PROVE  FetchesOK'
  BY <1>12, <1>Typed, NoAttemptOK, BecomesOK DEF Keep, GiveUpOrResend, Finish, FetchLabels
<1>13. ASSUME NEW d \in Devices, ReplaceTransport(d)
      PROVE  FetchesOK'
  BY <1>13, <1>Typed DEF ReplaceTransport, FetchesOK
<1>14. CASE Tick
  BY <1>14, <1>Typed DEF Tick, FetchesOK
<1>15. CASE UNCHANGED mediaVars
  BY <1>15, <1>Typed DEF FetchesOK
<1> QED
  BY <1>1, <1>2, <1>3, <1>4, <1>5, <1>6, <1>7, <1>8, <1>9, <1>10,
     <1>11, <1>12, <1>13, <1>14, <1>15
  DEF Next, Step

\* No name is counted without its connection: a dial leaves the set it counts.
LEMMA NamesStep == MInv /\ [Next]_mediaVars => NamesLeft'
<1> SUFFICES ASSUME MInv, [Next]_mediaVars PROVE NamesLeft'
  OBVIOUS
<1> USE NamesLagIsLeft DEF MInv, MediaTypeOK, NamesLeft
<1>1. ASSUME NEW f \in Fetches, NEW h \in Hosts, Start(f, h)
      PROVE  NamesLeft'
  <2>1. Dialing' = Dialing
    BY <1>1 DEF Start, Dialing
  <2> QED
    BY <1>1, <2>1 DEF Start
<1>2. ASSUME NEW f \in Fetches, NEW h \in Hosts, Redirect(f, h)
      PROVE  NamesLeft'
  <2>1. Dialing' = Dialing
    BY <1>2 DEF Redirect, Dialing
  <2> QED
    BY <1>2, <2>1 DEF Redirect
<1>3. ASSUME NEW f \in Fetches, StartAgain(f)
      PROVE  NamesLeft'
  <2>1. Dialing' = Dialing
    BY <1>3 DEF StartAgain, Dialing
  <2> QED
    BY <1>3, <2>1 DEF StartAgain
<1>4. ASSUME NEW f \in Fetches, Begin(f)
      PROVE  NamesLeft'
  <2>1. Dialing' = Dialing
    BY <1>4 DEF Begin, Dialing
  <2> QED
    BY <1>4, <2>1 DEF Begin
<1>5. ASSUME NEW f \in Fetches, Connect(f)
      PROVE  NamesLeft'
  <2>1. Dialing' = Dialing \union {f} /\ f \notin Dialing
    BY <1>5 DEF Connect, Dialing
  <2>2. Cardinality(Dialing') = Cardinality(Dialing) + 1
    BY <2>1, Count, FS_AddElement
  <2> QED
    BY <1>5, <2>2, Count DEF Connect
<1>6. ASSUME NEW f \in Fetches, Resolve(f)
      PROVE  NamesLeft'
  <2>1. Dialing' = Dialing \ {f} /\ f \in Dialing
    BY <1>6 DEF Resolve, Dialing
  <2>2. Cardinality(Dialing') = Cardinality(Dialing) - 1
    BY <2>1, Count, FS_RemoveElement
  <2> QED
    BY <1>6, <2>2, Count DEF Resolve
<1>7. ASSUME NEW f \in Fetches, Answered(f)
      PROVE  NamesLeft'
  <2>1. Dialing' = Dialing
    BY <1>7 DEF Answered, Record, Witnessed, Progress, Dialing
  <2> QED
    BY <1>7, <2>1 DEF Answered, Record, Witnessed, Progress
<1>8. ASSUME NEW f \in Fetches, Chunk(f)
      PROVE  NamesLeft'
  <2>1. Dialing' = Dialing
    BY <1>8 DEF Chunk, Record, Witnessed, Progress, Dialing
  <2> QED
    BY <1>8, <2>1 DEF Chunk, Record, Witnessed, Progress
<1>9. ASSUME NEW f \in Fetches, Return(f)
      PROVE  NamesLeft'
  <2>1. Dialing' = Dialing \ {f}
    BY <1>9 DEF Return, Finish, Dialing
  <2>2. Cardinality(Dialing') <= Cardinality(Dialing)
        /\ Cardinality(Dialing') \in Nat
    <3>1. Cardinality(Dialing \ {f}) \in Nat
      BY Count, FS_RemoveElement, FS_CardinalityType
    <3>2. Cardinality(Dialing \ {f}) = IF f \in Dialing THEN Cardinality(Dialing) - 1
                                       ELSE Cardinality(Dialing)
      BY Count, FS_RemoveElement
    <3> QED
      BY <2>1, <3>1, <3>2, Count
  <2> QED
    BY <1>9, <2>2, Count DEF Return, Finish
<1>10. ASSUME NEW f \in Fetches, TimeOut(f)
      PROVE  NamesLeft'
  <2>1. Dialing' = Dialing
    BY <1>10 DEF TimeOut, Dialing
  <2> QED
    BY <1>10, <2>1 DEF TimeOut
<1>11. ASSUME NEW f \in Fetches, Retire(f)
      PROVE  NamesLeft'
  <2>1. Dialing' = Dialing
    BY <1>11 DEF Retire, GiveUpOrResend, Resendable, Finish, Dialing
  <2> QED
    BY <1>11, <2>1 DEF Retire, GiveUpOrResend, Resendable, Finish
<1>12. ASSUME NEW f \in Fetches, Keep(f)
      PROVE  NamesLeft'
  <2>1. Dialing' = Dialing
    BY <1>12 DEF Keep, GiveUpOrResend, Resendable, Finish, Dialing
  <2> QED
    BY <1>12, <2>1 DEF Keep, GiveUpOrResend, Resendable, Finish
<1>13. ASSUME NEW d \in Devices, ReplaceTransport(d)
      PROVE  NamesLeft'
  <2>1. Dialing' = Dialing
    BY <1>13 DEF ReplaceTransport, Dialing
  <2> QED
    BY <1>13, <2>1 DEF ReplaceTransport
<1>14. CASE Tick
  <2>1. Dialing' = Dialing
    BY <1>14 DEF Tick, Dialing
  <2> QED
    BY <1>14, <2>1 DEF Tick
<1>15. CASE UNCHANGED mediaVars
  BY <1>15 DEF Dialing
<1> QED
  BY <1>1, <1>2, <1>3, <1>4, <1>5, <1>6, <1>7, <1>8, <1>9, <1>10,
     <1>11, <1>12, <1>13, <1>14, <1>15
  DEF Next, Step

\* No step hides a connection an attempt opened from the counts.
LEMMA OpeningsStep == MInv /\ [Next]_mediaVars => OpeningsShow'
<1> SUFFICES ASSUME MInv, [Next]_mediaVars PROVE OpeningsShow'
  OBVIOUS
<1> USE DEF MInv, MediaTypeOK, Attempt, NoAttempt, OpeningsShow, ClientsAge
<1>1. ASSUME NEW f \in Fetches, NEW h \in Hosts, Start(f, h)
      PROVE  OpeningsShow'
  BY <1>1 DEF Start
<1>2. ASSUME NEW f \in Fetches, NEW h \in Hosts, Redirect(f, h)
      PROVE  OpeningsShow'
  BY <1>2 DEF Redirect
<1>3. ASSUME NEW f \in Fetches, StartAgain(f)
      PROVE  OpeningsShow'
  BY <1>3 DEF StartAgain
<1>4. ASSUME NEW f \in Fetches, Begin(f)
      PROVE  OpeningsShow'
  BY <1>4, UnnamedOK DEF Begin
<1>5. ASSUME NEW f \in Fetches, Connect(f)
      PROVE  OpeningsShow'
  BY <1>5 DEF Connect
<1>6. ASSUME NEW f \in Fetches, Resolve(f)
      PROVE  OpeningsShow'
  BY <1>6 DEF Resolve
<1>7. ASSUME NEW f \in Fetches, Answered(f)
      PROVE  OpeningsShow'
  BY <1>7 DEF Answered, Record, Witnessed, Progress
<1>8. ASSUME NEW f \in Fetches, Chunk(f)
      PROVE  OpeningsShow'
  BY <1>8 DEF Chunk, Record, Witnessed, Progress
<1>9. ASSUME NEW f \in Fetches, Return(f)
      PROVE  OpeningsShow'
  BY <1>9 DEF Return, Finish
<1>10. ASSUME NEW f \in Fetches, TimeOut(f)
      PROVE  OpeningsShow'
  BY <1>10 DEF TimeOut
<1>11. ASSUME NEW f \in Fetches, Retire(f)
      PROVE  OpeningsShow'
  BY <1>11 DEF Retire, GiveUpOrResend, Resendable, Finish
<1>12. ASSUME NEW f \in Fetches, Keep(f)
      PROVE  OpeningsShow'
  BY <1>12 DEF Keep, GiveUpOrResend, Resendable, Finish
<1>13. ASSUME NEW d \in Devices, ReplaceTransport(d)
      PROVE  OpeningsShow'
  BY <1>13 DEF ReplaceTransport
<1>14. CASE Tick
  BY <1>14 DEF Tick
<1>15. CASE UNCHANGED mediaVars
  BY <1>15
<1> QED
  BY <1>1, <1>2, <1>3, <1>4, <1>5, <1>6, <1>7, <1>8, <1>9, <1>10,
     <1>11, <1>12, <1>13, <1>14, <1>15
  DEF Next, Step

\* No step makes an attempt forget that its host has answered somebody.
LEMMA MovesStep == MInv /\ [Next]_mediaVars => MovesShow'
<1> SUFFICES ASSUME MInv, [Next]_mediaVars PROVE MovesShow'
  OBVIOUS
<1> USE DEF MInv, MediaTypeOK, Attempt, NoAttempt, MovesShow, ClientsAge,
            Quiet
<1>1. ASSUME NEW f \in Fetches, NEW h \in Hosts, Start(f, h)
      PROVE  MovesShow'
  BY <1>1 DEF Start
<1>2. ASSUME NEW f \in Fetches, NEW h \in Hosts, Redirect(f, h)
      PROVE  MovesShow'
  BY <1>2 DEF Redirect
<1>3. ASSUME NEW f \in Fetches, StartAgain(f)
      PROVE  MovesShow'
  BY <1>3 DEF StartAgain
<1>4. ASSUME NEW f \in Fetches, Begin(f)
      PROVE  MovesShow'
  BY <1>4 DEF Begin
<1>5. ASSUME NEW f \in Fetches, Connect(f)
      PROVE  MovesShow'
  BY <1>5 DEF Connect
<1>6. ASSUME NEW f \in Fetches, Resolve(f)
      PROVE  MovesShow'
  BY <1>6 DEF Resolve
<1>7. ASSUME NEW f \in Fetches, Answered(f)
      PROVE  MovesShow'
  BY <1>7 DEF Answered, Record, Witnessed, Progress
<1>8. ASSUME NEW f \in Fetches, Chunk(f)
      PROVE  MovesShow'
  BY <1>8 DEF Chunk, Record, Witnessed, Progress
<1>9. ASSUME NEW f \in Fetches, Return(f)
      PROVE  MovesShow'
  BY <1>9 DEF Return, Finish
<1>10. ASSUME NEW f \in Fetches, TimeOut(f)
      PROVE  MovesShow'
  BY <1>10 DEF TimeOut
<1>11. ASSUME NEW f \in Fetches, Retire(f)
      PROVE  MovesShow'
  BY <1>11 DEF Retire, GiveUpOrResend, Resendable, Finish
<1>12. ASSUME NEW f \in Fetches, Keep(f)
      PROVE  MovesShow'
  BY <1>12 DEF Keep, GiveUpOrResend, Resendable, Finish
<1>13. ASSUME NEW d \in Devices, ReplaceTransport(d)
      PROVE  MovesShow'
  BY <1>13 DEF ReplaceTransport
<1>14. CASE Tick
  BY <1>14 DEF Tick
<1>15. CASE UNCHANGED mediaVars
  BY <1>15
<1> QED
  BY <1>1, <1>2, <1>3, <1>4, <1>5, <1>6, <1>7, <1>8, <1>9, <1>10,
     <1>11, <1>12, <1>13, <1>14, <1>15
  DEF Next, Step

\* Nothing arms but an attempt that began since the last retirement.
LEMMA ArmedStep == MInv /\ [Next]_mediaVars => ArmedByProof'
<1> SUFFICES ASSUME MInv, [Next]_mediaVars PROVE ArmedByProof'
  OBVIOUS
<1> USE DEF MInv, MediaTypeOK, Attempt, NoAttempt, ArmedByProof
<1>1. ASSUME NEW f \in Fetches, NEW h \in Hosts, Start(f, h)
      PROVE  ArmedByProof'
  BY <1>1 DEF Start
<1>2. ASSUME NEW f \in Fetches, NEW h \in Hosts, Redirect(f, h)
      PROVE  ArmedByProof'
  BY <1>2 DEF Redirect
<1>3. ASSUME NEW f \in Fetches, StartAgain(f)
      PROVE  ArmedByProof'
  BY <1>3 DEF StartAgain
<1>4. ASSUME NEW f \in Fetches, Begin(f)
      PROVE  ArmedByProof'
  BY <1>4 DEF Begin
<1>5. ASSUME NEW f \in Fetches, Connect(f)
      PROVE  ArmedByProof'
  BY <1>5 DEF Connect
<1>6. ASSUME NEW f \in Fetches, Resolve(f)
      PROVE  ArmedByProof'
  BY <1>6 DEF Resolve
<1>7. ASSUME NEW f \in Fetches, Answered(f)
      PROVE  ArmedByProof'
  BY <1>7 DEF Answered, Record, Witnessed, Progress
<1>8. ASSUME NEW f \in Fetches, Chunk(f)
      PROVE  ArmedByProof'
  BY <1>8 DEF Chunk, Record, Witnessed, Progress
<1>9. ASSUME NEW f \in Fetches, Return(f)
      PROVE  ArmedByProof'
  BY <1>9 DEF Return, Finish
<1>10. ASSUME NEW f \in Fetches, TimeOut(f)
      PROVE  ArmedByProof'
  BY <1>10 DEF TimeOut
<1>11. ASSUME NEW f \in Fetches, Retire(f)
      PROVE  ArmedByProof'
  BY <1>11 DEF Retire, GiveUpOrResend, Resendable, Finish
<1>12. ASSUME NEW f \in Fetches, Keep(f)
      PROVE  ArmedByProof'
  BY <1>12 DEF Keep, GiveUpOrResend, Resendable, Finish
<1>13. ASSUME NEW d \in Devices, ReplaceTransport(d)
      PROVE  ArmedByProof'
  BY <1>13 DEF ReplaceTransport
<1>14. CASE Tick
  BY <1>14 DEF Tick
<1>15. CASE UNCHANGED mediaVars
  BY <1>15
<1> QED
  BY <1>1, <1>2, <1>3, <1>4, <1>5, <1>6, <1>7, <1>8, <1>9, <1>10,
     <1>11, <1>12, <1>13, <1>14, <1>15
  DEF Next, Step

\* No step takes an attempt to a client that is not there yet, or again to one
\* it left.
LEMMA ClientsStep == MInv /\ [Next]_mediaVars => ClientsAge'
<1> SUFFICES ASSUME MInv, [Next]_mediaVars PROVE ClientsAge'
  OBVIOUS
<1> USE DEF MInv, MediaTypeOK, Attempt, NoAttempt, ClientsAge
<1>1. ASSUME NEW f \in Fetches, NEW h \in Hosts, Start(f, h)
      PROVE  ClientsAge'
  BY <1>1 DEF Start
<1>2. ASSUME NEW f \in Fetches, NEW h \in Hosts, Redirect(f, h)
      PROVE  ClientsAge'
  BY <1>2 DEF Redirect
<1>3. ASSUME NEW f \in Fetches, StartAgain(f)
      PROVE  ClientsAge'
  BY <1>3 DEF StartAgain
<1>4. ASSUME NEW f \in Fetches, Begin(f)
      PROVE  ClientsAge'
  BY <1>4 DEF Begin
<1>5. ASSUME NEW f \in Fetches, Connect(f)
      PROVE  ClientsAge'
  BY <1>5 DEF Connect
<1>6. ASSUME NEW f \in Fetches, Resolve(f)
      PROVE  ClientsAge'
  BY <1>6 DEF Resolve
<1>7. ASSUME NEW f \in Fetches, Answered(f)
      PROVE  ClientsAge'
  BY <1>7 DEF Answered, Record, Witnessed, Progress
<1>8. ASSUME NEW f \in Fetches, Chunk(f)
      PROVE  ClientsAge'
  BY <1>8 DEF Chunk, Record, Witnessed, Progress
<1>9. ASSUME NEW f \in Fetches, Return(f)
      PROVE  ClientsAge'
  BY <1>9 DEF Return, Finish
<1>10. ASSUME NEW f \in Fetches, TimeOut(f)
      PROVE  ClientsAge'
  BY <1>10 DEF TimeOut
<1>11. ASSUME NEW f \in Fetches, Retire(f)
      PROVE  ClientsAge'
  <2>1. /\ client' = client \/ client' > client
        /\ client \in Nat /\ client' \in Nat /\ pc[f] = "stalled"
        /\ GiveUpOrResend(f, client')
    BY <1>11 DEF Retire
  <2>2. CASE Finish(f)
    BY <2>1, <2>2 DEF Finish
  <2>3. CASE /\ fetch[f].first = 0 /\ Resendable(f, client')
             /\ MoveTo(f, "again") /\ UNCHANGED fetch
    <3>1. /\ pc'[f] = "again" /\ fetch' = fetch
          /\ \A g \in Fetches \ {f} : pc'[g] = pc[g]
      BY <2>3
    <3>2. fetch[f].client < client' /\ fetch[f].client \in 1 .. client'
      BY <2>1, <2>3 DEF Resendable
    <3> QED
      BY <2>1, <3>1, <3>2
  <2> QED
    BY <2>1, <2>2, <2>3 DEF GiveUpOrResend
<1>12. ASSUME NEW f \in Fetches, Keep(f)
      PROVE  ClientsAge'
  BY <1>12 DEF Keep, GiveUpOrResend, Resendable, Finish
<1>13. ASSUME NEW d \in Devices, ReplaceTransport(d)
      PROVE  ClientsAge'
  BY <1>13 DEF ReplaceTransport
<1>14. CASE Tick
  BY <1>14 DEF Tick
<1>15. CASE UNCHANGED mediaVars
  BY <1>15
<1> QED
  BY <1>1, <1>2, <1>3, <1>4, <1>5, <1>6, <1>7, <1>8, <1>9, <1>10,
     <1>11, <1>12, <1>13, <1>14, <1>15
  DEF Next, Step

\* The invariant is inductive: the parts make it up.
LEMMA MediaStep == MInv /\ [Next]_mediaVars => MInv'
<1> SUFFICES ASSUME MInv, [Next]_mediaVars PROVE MInv'
  OBVIOUS
<1>1. SharedOK' /\ FetchesOK' /\ NamesLeft' /\ OpeningsShow'
  BY SharedStep, FetchesStep, NamesStep, OpeningsStep
<1>2. NamesLag'
  BY <1>1 DEF NamesLag, NamesLeft, Dialing
<1>3. Cardinality(Dialing)' \in Nat
  <2>1. Dialing' \in SUBSET Fetches
    BY DEF Dialing
  <2> QED
    BY <2>1, FS_Subset, FS_CardinalityType
<1>4. named' <= connections'
  BY <1>1, <1>3 DEF SharedOK, NamesLeft, OpeningsShow
<1>5. MediaTypeOK'
  BY <1>1, <1>4 DEF SharedOK, FetchesOK, MediaTypeOK
<1> QED
  BY <1>1, <1>2, <1>5, MovesStep, ArmedStep, ClientsStep DEF MInv

\* A fetch that leaves "stalled" as the generation moves is the one retire
\* was asked about, and it was found stuck.
LEMMA RetiredWasStuck ==
  ASSUME MInv, [Next]_mediaVars, generation' # generation
  PROVE  \E f \in Fetches :
           /\ Retire(f)
           /\ \A g \in Fetches : pc[g] = "stalled" /\ pc'[g] # "stalled"
                                 => g = f
<1>1. PICK f \in Fetches : Retire(f)
  BY DEF MInv, MediaTypeOK, Next, Step, Start, Redirect, StartAgain, Begin,
         Connect, Resolve, Answered, Chunk, Return, TimeOut, Keep,
         ReplaceTransport, Tick
<1> QED
  BY <1>1 DEF MInv, MediaTypeOK, Retire, GiveUpOrResend, Finish

\* Every variable keeps its type, and no name is counted ahead of its
\* connection.
THEOREM MediaTypeCorrect == Spec => []MediaTypeOK
<1>1. MInv => MediaTypeOK
  BY DEF MInv
<1> QED
  BY <1>1, MediaInit, MediaStep, PTL DEF Spec

\* A fetch that is sent again leaves the client it was stuck on.
THEOREM ResendsLeave == Spec => []ResendLeavesStuckClient
<1>1. MInv => ResendLeavesStuckClient
  BY DEF MInv, MediaTypeOK, ClientsAge, ResendLeavesStuckClient, Attempt
<1> QED
  BY <1>1, MediaInit, MediaStep, PTL DEF Spec

\* A connection is given up only for an attempt on a pooled one.
THEOREM OnlyPooledRetired == Spec => RetiresOnlyPooled
<1>1. MInv /\ [Next]_mediaVars
        => [\A f \in Fetches :
              generation' # generation /\ pc[f] = "stalled"
              /\ pc'[f] # "stalled"
                => ~fetch[f].opened /\ ~fetch[f].redirected]_mediaVars
  <2> SUFFICES ASSUME MInv, [Next]_mediaVars, generation' # generation,
                      NEW g \in Fetches, pc[g] = "stalled",
                      pc'[g] # "stalled"
               PROVE  ~fetch[g].opened /\ ~fetch[g].redirected
    OBVIOUS
  <2>1. Pooled(g)
    BY RetiredWasStuck DEF Retire, Stuck
  <2>2. fetch[g] \in Attempt /\ connections \in Nat /\ dials \in [Hosts -> Nat]
        /\ fetch[g].host \in Hosts
    BY DEF MInv, MediaTypeOK, ClientsAge
  <2>3. CASE proxied
    BY <2>1, <2>2, <2>3 DEF MInv, OpeningsShow, Pooled, unnamed, Monus, Attempt
  <2>4. CASE ~proxied
    BY <2>1, <2>2, <2>4 DEF MInv, OpeningsShow, Pooled, Attempt
  <2> QED
    BY <2>3, <2>4
<1> QED
  BY <1>1, MediaInit, MediaStep, PTL DEF Spec, RetiresOnlyPooled

\* A connection is not given up while its host answers somebody.
THEOREM MovingKept == Spec => KeepsMovingConnection
<1>1. MInv /\ [Next]_mediaVars
        => [\A f \in Fetches :
              generation' # generation /\ pc[f] = "stalled"
              /\ pc'[f] # "stalled"
                => ~fetch[f].moved]_mediaVars
  <2> SUFFICES ASSUME MInv, [Next]_mediaVars, generation' # generation,
                      NEW g \in Fetches, pc[g] = "stalled",
                      pc'[g] # "stalled"
               PROVE  ~fetch[g].moved
    OBVIOUS
  <2>1. Quiet(g)
    BY RetiredWasStuck DEF Retire, Stuck
  <2> QED
    BY <2>1 DEF MInv, MovesShow
<1> QED
  BY <1>1, MediaInit, MediaStep, PTL DEF Spec, KeepsMovingConnection

\* Between two retirements something new has been answered, or REARM_AFTER
\* has passed.
THEOREM RetirementsRare == Spec => RetirementsAreRare
<1>1. MInv /\ [Next]_mediaVars
        => [generation' # generation /\ generation > 0
              => proven \/ now - retiredAt >= RearmAfter]_mediaVars
  <2> SUFFICES ASSUME MInv, [Next]_mediaVars, generation' # generation,
                      generation > 0, ~proven
               PROVE  now - retiredAt >= RearmAfter
    OBVIOUS
  <2>1. Armed
    BY RetiredWasStuck DEF Retire, Stuck
  <2>2. now \in Nat /\ retiredAt \in Nat
    BY DEF MInv, MediaTypeOK
  <2> QED
    BY <2>1, <2>2 DEF MInv, ArmedByProof, Armed
<1> QED
  BY <1>1, MediaInit, MediaStep, PTL DEF Spec, RetirementsAreRare
=============================================================================
