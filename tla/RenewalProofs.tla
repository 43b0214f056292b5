--------------------------- MODULE RenewalProofs ----------------------------
(***************************************************************************)
(* Proofs about Renewal: types, the spacing of refreshes, that only the    *)
(* API ends a session, what a refresh keeps, and that the gate, with its   *)
(* cooldowns, is one that BackoffGate allows.                              *)
(*                                                                         *)
(* Every failure of a background refresh goes through Emit and every       *)
(* session that is stored through Store: what those two do to the gate     *)
(* and to the history is stated once, and the actions follow.              *)
(***************************************************************************)
EXTENDS Renewal, TLAPS

\* No page of an edge comes to an error that ends a session: parse_api_error
\* and create_session look for the page first.
LEMMA TerminalIsOfTheApi ==
  ASSUME NEW a, a.status \in Int, NEW kind, Terminal(MintError(a, kind))
  PROVE  ~OfTheEdge(a)
<1>1. ~Blocked(a)
  BY DEF Terminal, MintError, Error
<1>2. ~is_cloudflare_challenge(a) /\ ~is_edge_block(a)
  BY <1>1 DEF Blocked, block_kind
<1> QED
  BY <1>2 DEF is_cloudflare_challenge, is_edge_block, OfTheEdge, Success

\* An error has one of the kinds of GrindrError: a refresh that fails is told
\* as one of the failures RefreshFailureKind lists.
LEMMA ClassifyType == \A e : classify(e) \in RefreshFailureKind
BY DEF classify, RefreshFailureKind

\* Errors that never end a session.
LEMMA TransientErrors ==
  /\ ~Terminal(Error("auth")) /\ ~Terminal(Error("session_cleared"))
  /\ \A e \in TransportErrors : ~Terminal(from_wreq(e))
BY DEF Terminal, Error, from_wreq, TransportErrors, TimedOut

LEMMA CooldownValues ==
  /\ Cooldown(0) = 1 /\ Cooldown(1) = 3 /\ Cooldown(2) = 6
  /\ \A n \in Nat : n >= 3 => Cooldown(n) = 12
  /\ REFRESH_COOLDOWNS[1] = 1 /\ REFRESH_COOLDOWNS[2] = 3
  /\ REFRESH_COOLDOWNS[3] = 6 /\ REFRESH_COOLDOWNS[4] = 12
BY DEF Cooldown, REFRESH_COOLDOWNS

-----------------------------------------------------------------------------
(***************************************************************************)
(* The gate and its history.                                               *)
(***************************************************************************)
GateOK ==
  /\ gate \in RefreshGate
  /\ streak \in 0 .. 4 /\ since \in 0 .. 12
  /\ IF gate.failures = 0 THEN gate.left = 0
                          ELSE gate.left <= Cooldown(gate.failures - 1)
  /\ StreakCounts /\ Pauses

\* What a step may make of them.
GateKept == UNCHANGED <<gate, streak, since>>
GateRenewed == gate' = NewGate /\ Unbroken
GateResumed == gate' = clear_backoff(gate) /\ Unbroken
GateFails ==
  /\ \E e, r : /\ r \in BOOLEAN /\ (gate.reported => r)
               /\ gate' = [record_failure_of(gate, e) EXCEPT !.reported = r]
  /\ Broken
GateTicks ==
  /\ gate' = [gate EXCEPT !.left = IF @ > 0 THEN @ - 1 ELSE 0]
  /\ since' = (IF since < 12 THEN since + 1 ELSE 12)
  /\ streak' = streak

GateEases == GateKept \/ GateRenewed \/ GateResumed \/ GateTicks

GateMoves == GateEases \/ GateFails

Counted(g) == IF g.failures < MaxFailures THEN g.failures + 1 ELSE g.failures

LEMMA FailureUpdates ==
  ASSUME NEW g \in RefreshGate, NEW e, NEW r \in BOOLEAN
  PROVE  /\ [record_failure_of(g, e) EXCEPT !.reported = r]
              = [failures |-> Counted(g), left |-> Cooldown(g.failures),
                 reported |-> r, client_refused |-> refuses_client_version(e)]
         /\ [record_failure_of(g, e) EXCEPT !.reported = r] \in RefreshGate
<1>1. Cooldown(g.failures) \in 0 .. 12
  BY CooldownValues DEF RefreshGate, Cooldown, REFRESH_COOLDOWNS
<1>2. refuses_client_version(e) \in BOOLEAN
  BY DEF refuses_client_version
<1>3. Counted(g) \in 0 .. MaxFailures
  BY MaxFailuresAssumption DEF RefreshGate, Counted
<1>4. record_failure_of(g, e)
        = [failures |-> Counted(g), left |-> Cooldown(g.failures),
           reported |-> g.reported, client_refused |-> refuses_client_version(e)]
  <2>1. g = [failures |-> g.failures, left |-> g.left, reported |-> g.reported,
             client_refused |-> g.client_refused]
    BY DEF RefreshGate
  <2>2. record_failure_of(g, e)
          = [g EXCEPT !.left = Cooldown(g.failures), !.failures = Counted(g),
                      !.client_refused = refuses_client_version(e)]
    BY Zenon DEF record_failure_of, Counted
  <2> QED
    BY <2>1, <2>2
<1>5. [record_failure_of(g, e) EXCEPT !.reported = r]
        = [failures |-> Counted(g), left |-> Cooldown(g.failures),
           reported |-> r, client_refused |-> refuses_client_version(e)]
  BY <1>4
<1> QED
  BY <1>1, <1>2, <1>3, <1>5 DEF RefreshGate

LEMMA GateStep == GateOK /\ GateMoves => GateOK'
<1> SUFFICES ASSUME GateOK, GateMoves PROVE GateOK'
  OBVIOUS
<1> DEFINE f == gate.failures
<1>g. f \in 0 .. MaxFailures /\ f \in Nat /\ gate.left \in 0 .. 12
  BY MaxFailuresAssumption DEF GateOK, RefreshGate
<1>1. CASE GateKept
  BY <1>1 DEF GateKept, GateOK, StreakCounts, Pauses
<1>2. CASE GateRenewed
  BY <1>2, MaxFailuresAssumption
  DEF GateRenewed, NewGate, Unbroken, GateOK, RefreshGate, StreakCounts, Pauses
<1>3. CASE GateResumed
  <2>1. gate' = [failures |-> 0, left |-> 0, reported |-> gate.reported,
                 client_refused |-> gate.client_refused]
    BY <1>3 DEF GateResumed, clear_backoff, GateOK, RefreshGate
  <2>2. gate' \in RefreshGate
    BY <2>1, MaxFailuresAssumption DEF GateOK, RefreshGate
  <2> QED
    BY <1>3, <2>1, <2>2 DEF GateResumed, Unbroken, GateOK, StreakCounts, Pauses
<1>4. CASE GateFails
  <2>1. PICK e, r : /\ r \in BOOLEAN
                    /\ gate' = [record_failure_of(gate, e) EXCEPT !.reported = r]
    BY <1>4 DEF GateFails
  <2>2. gate \in RefreshGate
    BY DEF GateOK
  <2>a. /\ gate' = [failures |-> Counted(gate), left |-> Cooldown(f), reported |-> r,
                    client_refused |-> refuses_client_version(e)]
        /\ gate' \in RefreshGate
    BY <2>1, <2>2, FailureUpdates
  <2>3. /\ gate'.failures = (IF f < MaxFailures THEN f + 1 ELSE f)
        /\ gate'.left = Cooldown(f)
    BY <2>a DEF Counted
  <2>4. /\ streak' = (IF streak < 4 THEN streak + 1 ELSE 4) /\ since' = 0
        /\ streak = IF f < 4 THEN f ELSE 4
    BY <1>4 DEF GateFails, Broken, GateOK, StreakCounts
  <2>5. gate'.failures # 0 /\ StreakCounts'
    BY <1>g, <2>3, <2>4, MaxFailuresAssumption DEF StreakCounts
  <2>6. gate'.left <= Cooldown(gate'.failures - 1)
    <3>1. CASE f < MaxFailures
      BY <1>g, <2>3, <3>1, CooldownValues
    <3>2. CASE ~(f < MaxFailures)
      <4>1. f >= 4
        BY <1>g, <3>2, MaxFailuresAssumption
      <4> QED
        BY <1>g, <2>3, <3>2, <4>1, CooldownValues
    <3> QED
      BY <3>1, <3>2
  <2>7. gate'.left + since' >= REFRESH_COOLDOWNS[streak']
    <3>1. CASE f = 0
      BY <2>3, <2>4, <3>1, CooldownValues
    <3>2. CASE f = 1
      BY <2>3, <2>4, <3>2, CooldownValues
    <3>3. CASE f = 2
      BY <2>3, <2>4, <3>3, CooldownValues
    <3>4. CASE f >= 3
      <4>1. streak' = 4 /\ Cooldown(f) = 12
        BY <1>g, <2>4, <3>4, CooldownValues
      <4> QED
        BY <2>3, <2>4, <4>1, CooldownValues
    <3> QED
      BY <1>g, <3>1, <3>2, <3>3, <3>4
  <2>8. streak' \in 0 .. 4 /\ since' \in 0 .. 12
    BY <2>4 DEF GateOK
  <2> QED
    BY <2>a, <2>5, <2>6, <2>7, <2>8 DEF GateOK, Pauses
<1>5. CASE GateTicks
  <2>1. gate' = [failures |-> f, left |-> IF gate.left > 0 THEN gate.left - 1 ELSE 0,
                 reported |-> gate.reported,
                 client_refused |-> gate.client_refused]
    BY <1>5 DEF GateTicks, GateOK, RefreshGate
  <2>2. gate' \in RefreshGate
    BY <1>g, <2>1 DEF GateOK, RefreshGate
  <2>3. since' \in 0 .. 12 /\ streak' \in 0 .. 4 /\ StreakCounts'
    BY <1>5, <2>1 DEF GateTicks, GateOK, StreakCounts
  <2>4. streak > 0 => REFRESH_COOLDOWNS[streak] \in {1, 3, 6, 12}
    BY CooldownValues DEF GateOK
  <2>5. Pauses'
    BY <1>5, <1>g, <2>1, <2>4 DEF GateTicks, GateOK, Pauses
  <2>6. IF gate'.failures = 0 THEN gate'.left = 0
                              ELSE gate'.left <= Cooldown(gate'.failures - 1)
    <3>1. CASE f = 0
      BY <1>g, <2>1, <3>1 DEF GateOK
    <3>2. CASE f # 0
      <4>1. gate.left <= Cooldown(f - 1) /\ Cooldown(f - 1) \in {1, 3, 6, 12}
        BY <1>g, <3>2, CooldownValues DEF GateOK, Cooldown, REFRESH_COOLDOWNS
      <4> QED
        BY <1>g, <2>1, <3>2, <4>1
    <3> QED
      BY <3>1, <3>2
  <2> QED
    BY <2>2, <2>3, <2>5, <2>6 DEF GateOK
<1> QED
  BY <1>1, <1>2, <1>3, <1>4, <1>5 DEF GateMoves, GateEases

\* Only a failure shuts the gate.
LEMMA EaseOpens == GateOK /\ ~blocked /\ GateEases => ~blocked'
<1> SUFFICES ASSUME gate \in RefreshGate, ~blocked, GateEases PROVE ~blocked'
  BY DEF GateOK
<1>1. ~gate.client_refused /\ ~(gate.left > 0)
  BY DEF blocked
<1>2. CASE GateKept
  BY <1>1, <1>2 DEF GateKept, blocked
<1>3. CASE GateRenewed
  BY <1>3 DEF GateRenewed, NewGate, blocked
<1>4. CASE GateResumed
  BY <1>1, <1>4 DEF GateResumed, clear_backoff, RefreshGate, blocked
<1>5. CASE GateTicks
  BY <1>1, <1>5 DEF GateTicks, RefreshGate, blocked
<1> QED
  BY <1>2, <1>3, <1>4, <1>5 DEF GateEases

-----------------------------------------------------------------------------
(***************************************************************************)
(* The session, the events and the rest.                                   *)
(***************************************************************************)
SessionOK == session \in Session /\ (session.kind = "none" => session = NoSession)

EventOK ==
  /\ event \in RefreshFailureKind \union {"none", "signed_out", "banned", "recovered"}
  /\ event \in RefreshFailureKind => gate.reported

EndedOK == ended \in Answer \union {NoAnswerYet} /\ OnlyTheApiSignsOut

FlightOK == flight \in Flight /\ (flight.under => flight.from.kind \in Kinds)

OthersOK ==
  /\ epoch \in Nat /\ active \in BOOLEAN /\ up \in BOOLEAN
  /\ opsLeft \in 0 .. MaxOps

LEMMA Parts ==
  RInv <=> /\ GateOK /\ SessionOK /\ EventOK /\ EndedOK /\ FlightOK /\ OthersOK
           /\ OpenInFlight
BY DEF RInv, RenewalTypeOK, GateOK, SessionOK, EventOK, EndedOK, FlightOK, OthersOK

\* What Emit and Store leave behind.
Settled ==
  /\ GateMoves /\ SessionOK' /\ EventOK' /\ EndedOK' /\ epoch' \in Nat

LEMMA NoSessionType == NoSession \in Session
BY DEF NoSession, Session

LEMMA ClearEffect == clear_session => GateRenewed /\ SessionOK'
BY NoSessionType DEF clear_session, GateRenewed, SessionOK, NoSession

LEMMA EmitEffect ==
  ASSUME RInv, NEW e, NEW a \in Answer \union {NoAnswerYet},
         Terminal(e) => ~OfTheEdge(a), Emit(e, a)
  PROVE  Settled /\ session' \in {session, NoSession}
<1>p. GateOK /\ SessionOK /\ EventOK /\ EndedOK /\ OthersOK
  BY Parts
<1>1. CASE Terminal(e)
  <2>1. clear_session /\ ended' = a /\ event' \in {"banned", "signed_out"}
    BY <1>1 DEF Emit
  <2>2. GateRenewed /\ SessionOK' /\ session' = NoSession
    BY <2>1, ClearEffect DEF clear_session
  <2>3. EventOK'
    BY <2>1 DEF EventOK, RefreshFailureKind
  <2>4. EndedOK'
    BY <1>1, <2>1 DEF EndedOK, OnlyTheApiSignsOut
  <2>5. epoch' \in Nat
    BY <1>p, <2>1 DEF clear_session, OthersOK
  <2> QED
    BY <2>2, <2>3, <2>4, <2>5 DEF Settled, GateMoves, GateEases
<1>2. CASE ~Terminal(e)
  <2> DEFINE told == SignedIn /\ active
  <2>1. /\ gate' = [record_failure_of(gate, e) EXCEPT !.reported = @ \/ told]
        /\ event' = IF told THEN classify(e) ELSE event
        /\ Broken /\ UNCHANGED <<session, epoch, ended>>
    BY <1>2 DEF Emit
  <2>2. gate \in RefreshGate /\ gate.reported \in BOOLEAN
    BY <1>p DEF GateOK, RefreshGate
  <2>3. record_failure_of(gate, e).reported = gate.reported
    BY <2>2 DEF record_failure_of, RefreshGate
  <2>r. PICK r \in BOOLEAN : r <=> (gate.reported \/ told)
    OBVIOUS
  <2>4. (gate.reported \/ told) = r
    BY <2>r, <2>2, <1>p DEF SignedIn, OthersOK
  <2>5. gate' = [record_failure_of(gate, e) EXCEPT !.reported = r]
    BY <2>1, <2>3, <2>4
  <2>6. GateFails
    BY <2>1, <2>5, <2>r DEF GateFails
  <2>7. gate'.reported = r
    BY <2>2, <2>5, FailureUpdates
  <2>8. EventOK'
    <3>1. CASE told
      BY <2>1, <2>7, <2>r, <3>1, ClassifyType DEF EventOK
    <3>2. CASE ~told
      BY <1>p, <2>1, <2>7, <2>r, <3>2 DEF EventOK
    <3> QED
      BY <3>1, <3>2
  <2> QED
    BY <1>p, <2>1, <2>6, <2>8
    DEF Settled, GateMoves, GateEases, SessionOK, EndedOK, OnlyTheApiSignsOut, OthersOK
<1> QED
  BY <1>1, <1>2

LEMMA StoreEffect ==
  ASSUME RInv, NEW s \in Session, s.kind \in Kinds, Store(s), UNCHANGED epoch
  PROVE  Settled /\ GateRenewed
<1>p. GateOK /\ EventOK /\ OthersOK
  BY Parts
<1>1. GateRenewed
  BY DEF Store, GateRenewed
<1>2. SessionOK'
  BY DEF Store, SessionOK, Kinds
<1>3. EventOK'
  BY <1>p DEF Store, EventOK, RefreshFailureKind
<1>4. EndedOK'
  BY DEF Store, EndedOK, OnlyTheApiSignsOut, OfTheEdge, NoAnswerYet
<1> QED
  BY <1>p, <1>1, <1>2, <1>3, <1>4 DEF Settled, GateMoves, GateEases, OthersOK

LEMMA IdleEffect ==
  ASSUME RInv, UNCHANGED <<session, epoch, gate, event, history>>
  PROVE  Settled /\ GateKept
<1>p. GateOK /\ SessionOK /\ EventOK /\ EndedOK /\ OthersOK
  BY Parts
<1> QED
  BY <1>p DEF Settled, GateMoves, GateEases, GateKept, SessionOK, EventOK, EndedOK, OthersOK,
     OnlyTheApiSignsOut, history

\* What refresh_session and the sign-ins store.
LEMMA MintedSessions ==
  /\ EmailSession \in Session /\ EmailSession.kind = "email" /\ EmailSession.shown
  /\ \A kept \in BOOLEAN, a \in Replies :
       /\ session_from_third_party(kept, a) \in Session
       /\ session_from_third_party(kept, a).kind = "google"
       /\ session_from_third_party(kept, a).id
       /\ kept => session_from_third_party(kept, a).shown
<1>1. \A a \in Replies : a.named \in BOOLEAN
  BY RenewalRepliesAssumption DEF Answer
<1> QED
  BY <1>1 DEF EmailSession, session_from_third_party, Session, Kinds

LEMMA RefreshedSessionType ==
  ASSUME NEW from \in Session, from.kind \in Kinds, NEW a \in Replies
  PROVE  /\ RefreshedSession(from, a) \in Session
         /\ RefreshedSession(from, a).kind = from.kind
         /\ Presentable(RefreshedSession(from, a))
         /\ from.shown => RefreshedSession(from, a).shown
<1>1. CASE from.kind = "email"
  BY <1>1, MintedSessions DEF RefreshedSession, Presentable
<1>2. CASE from.kind = "google"
  <2>1. from.shown \in BOOLEAN
    BY DEF Session
  <2> QED
    BY <1>2, <2>1, MintedSessions DEF RefreshedSession, Presentable
<1> QED
  BY <1>1, <1>2 DEF Kinds

-----------------------------------------------------------------------------
(***************************************************************************)
(* The steps.                                                              *)
(***************************************************************************)
LEMMA BeginEffect ==
  ASSUME RInv, Begin
  PROVE  Settled /\ FlightOK' /\ session' \in {session, NoSession}
<1>p. SessionOK /\ FlightOK /\ OthersOK
  BY Parts
<1>1. CASE Emit(Error("auth"), NoAnswerYet) /\ UNCHANGED flight
  BY <1>p, <1>1, EmitEffect, TransientErrors DEF FlightOK
<1>2. CASE /\ flight' = [under |-> TRUE, from |-> session, epoch |-> epoch]
           /\ UNCHANGED <<session, epoch, gate, event, history>>
  <2>1. FlightOK'
    BY <1>p, <1>2 DEF Begin, SignedIn, FlightOK, Flight, SessionOK, OthersOK, Session
  <2> QED
    BY <1>2, <2>1, IdleEffect
<1> QED
  BY <1>1, <1>2 DEF Begin

LEMMA NoFlightOK == NoFlight \in Flight /\ ~NoFlight.under
BY NoSessionType DEF NoFlight, Flight

LEMMA ReplyStatus == \A a \in Replies : a \in Answer /\ a.status \in Int
BY RenewalRepliesAssumption DEF Answer

\* An answer either replaces the session by a renewed one or leaves it or
\* clears it.
LEMMA AnsweredEffect ==
  ASSUME RInv, NEW a \in Replies, Answered(a)
  PROVE  /\ Settled /\ FlightOK'
         /\ \/ session' \in {session, NoSession}
            \/ session' = RefreshedSession(flight.from, a)
<1>p. FlightOK /\ flight.under
  BY Parts DEF Answered
<1>a. a \in Answer /\ a.status \in Int
  BY ReplyStatus
<1>f. FlightOK'
  BY NoFlightOK DEF Answered, FlightOK
<1>1. CASE /\ Mints(a) /\ flight.epoch = epoch
           /\ Store(RefreshedSession(flight.from, a)) /\ UNCHANGED epoch
  <2> DEFINE s == RefreshedSession(flight.from, a)
  <2>1. flight.from \in Session /\ flight.from.kind \in Kinds
    BY <1>p DEF FlightOK, Flight
  <2>2. s \in Session /\ s.kind \in Kinds
    BY <2>1, RefreshedSessionType
  <2>3. session' = s
    BY <1>1 DEF Store
  <2>4. Settled
    BY <1>1, <2>2, StoreEffect
  <2> QED
    BY <1>f, <2>3, <2>4
<1>2. CASE Emit(Error("session_cleared"), a)
  BY <1>a, <1>f, <1>2, EmitEffect, TransientErrors
<1>3. CASE Emit(MintError(a, flight.from.kind), a)
  BY <1>a, <1>f, <1>3, EmitEffect, TerminalIsOfTheApi
<1> QED
  BY <1>1, <1>2, <1>3 DEF Answered

LEMMA UnansweredEffect ==
  ASSUME RInv, Unanswered
  PROVE  Settled /\ FlightOK' /\ session' \in {session, NoSession}
<1>1. PICK e \in TransportErrors : Emit(from_wreq(e), NoAnswerYet)
  BY DEF Unanswered
<1>2. FlightOK'
  BY NoFlightOK DEF Unanswered, FlightOK
<1> QED
  BY <1>1, <1>2, EmitEffect, TransientErrors

\* What a step of the application, of time or of the server does.
Outer == Settled /\ GateEases /\ UNCHANGED flight

LEMMA OutsideEffect ==
  ASSUME RInv, Application \/ Tick \/ Expire \/ ServerTurns
  PROVE  Outer
<1>p. GateOK /\ SessionOK /\ EventOK /\ EndedOK /\ OthersOK
  BY Parts
<1>1. ASSUME NEW a \in Replies, NEW kind \in Kinds, SignIn(kind, a)
      PROVE  Outer
  <2>1. CASE Mints(a)
    <3>1. PICK s : /\ s = IF kind = "email" THEN EmailSession
                          ELSE session_from_third_party(FALSE, a)
                   /\ Store(s)
      BY <1>1, <2>1 DEF SignIn
    <3>2. s \in Session /\ s.kind \in Kinds
      BY <3>1, MintedSessions DEF Kinds
    <3> QED
      BY <1>1, <3>1, <3>2, StoreEffect DEF SignIn, Outer, GateEases
  <2>2. CASE ~Mints(a)
    BY <1>1, <2>2, IdleEffect DEF SignIn, Outer, GateEases
  <2> QED
    BY <2>1, <2>2
<1>2. ASSUME NEW a \in Replies, ForcedRefresh(a)
      PROVE  Outer
  <2>1. CASE Presentable(session) /\ Mints(a)
    <3>1. Store(RefreshedSession(session, a))
      BY <1>2, <2>1 DEF ForcedRefresh
    <3>2. session \in Session /\ session.kind \in Kinds
      BY <1>p, <1>2 DEF ForcedRefresh, SignedIn, SessionOK, Session, Kinds
    <3>3. /\ RefreshedSession(session, a) \in Session
          /\ RefreshedSession(session, a).kind \in Kinds
      BY <3>2, RefreshedSessionType
    <3> QED
      BY <1>2, <3>1, <3>3, StoreEffect DEF ForcedRefresh, Outer, GateEases
  <2>2. CASE ~(Presentable(session) /\ Mints(a))
    BY <1>2, <2>2, IdleEffect DEF ForcedRefresh, Outer, GateEases
  <2> QED
    BY <2>1, <2>2
<1>3. ASSUME sign_out PROVE Outer
  <2>1. GateRenewed /\ SessionOK' /\ epoch' \in Nat
    BY <1>p, <1>3, ClearEffect DEF sign_out, clear_session, OthersOK
  <2>2. EventOK' /\ EndedOK'
    BY <1>p, <1>3
    DEF sign_out, EventOK, EndedOK, RefreshFailureKind, OnlyTheApiSignsOut
  <2> QED
    BY <1>3, <2>1, <2>2 DEF sign_out, Outer, Settled, GateMoves, GateEases
<1>4. ASSUME NEW on \in BOOLEAN, set_active(on)
      PROVE  Outer
  <2>1. GateKept \/ GateResumed
    BY <1>4 DEF set_active, GateKept, GateResumed
  <2>2. gate'.reported = gate.reported
    BY <1>4, <1>p DEF set_active, clear_backoff, GateOK, RefreshGate
  <2> QED
    BY <1>p, <1>4, <2>1, <2>2
    DEF set_active, Outer, Settled, GateMoves, GateEases, SessionOK, EventOK, EndedOK, OthersOK,
        OnlyTheApiSignsOut
<1>5. ASSUME Tick PROVE Outer
  <2>1. GateTicks
    BY <1>5 DEF Tick, GateTicks
  <2>2. gate'.reported = gate.reported
    BY <1>5, <1>p DEF Tick, GateOK, RefreshGate
  <2> QED
    BY <1>p, <1>5, <2>1, <2>2
    DEF Tick, Outer, Settled, GateMoves, GateEases, SessionOK, EventOK, EndedOK, OthersOK,
        OnlyTheApiSignsOut
<1>6. ASSUME Expire PROVE Outer
  <2>a. SignedIn
    BY <1>p, <1>6 DEF Expire, SessionOK, SignedIn, NoSession
  <2>b. session' = [kind |-> session.kind, id |-> session.id,
                    shown |-> session.shown, fresh |-> FALSE]
    BY <1>p, <1>6 DEF Expire, SessionOK, Session
  <2>1. session' \in Session /\ session'.kind = session.kind /\ SignedIn
    BY <1>p, <2>a, <2>b DEF SessionOK, Session
  <2>2. SessionOK'
    BY <2>1 DEF SessionOK, SignedIn
  <2> QED
    BY <1>p, <1>6, <2>2
    DEF Expire, Outer, Settled, GateMoves, GateEases, GateKept, EventOK, EndedOK, OthersOK,
        OnlyTheApiSignsOut, history
<1>7. ASSUME ServerTurns PROVE Outer
  BY <1>7, IdleEffect DEF ServerTurns, Outer, GateEases
<1> QED
  BY <1>1, <1>2, <1>3, <1>4, <1>5, <1>6, <1>7 DEF Application

\* What every step counts.
LEMMA OthersStep == RInv /\ [Next]_renewalVars /\ epoch' \in Nat => OthersOK'
<1> SUFFICES ASSUME RInv, [Next]_renewalVars, epoch' \in Nat PROVE OthersOK'
  OBVIOUS
<1>p. OthersOK
  BY Parts
<1>1. opsLeft' = opsLeft \/ Spend
  BY DEF Next, Application, Refreshing, SignIn, ForcedRefresh, sign_out, set_active,
     Begin, Answered, Unanswered, Tick, Expire, ServerTurns, renewalVars
<1>2. opsLeft' \in 0 .. MaxOps
  BY <1>p, <1>1, MaxOpsAssumption DEF OthersOK, Spend
<1>3. active' = active \/ active' \in BOOLEAN
  BY DEF Next, Application, Refreshing, SignIn, ForcedRefresh, sign_out, set_active,
     Begin, Answered, Unanswered, Tick, Expire, ServerTurns, renewalVars
<1>4. up' = up \/ up' = ~up
  BY DEF Next, Application, Refreshing, SignIn, ForcedRefresh, sign_out, set_active,
     Begin, Answered, Unanswered, Tick, Expire, ServerTurns, renewalVars
<1> QED
  BY <1>p, <1>2, <1>3, <1>4 DEF OthersOK

LEMMA InitRInv == Init => RInv
<1> SUFFICES ASSUME Init PROVE RInv
  OBVIOUS
<1>1. GateOK
  BY MaxFailuresAssumption DEF Init, GateOK, NewGate, RefreshGate, StreakCounts, Pauses
<1>2. SessionOK /\ EventOK
  BY DEF Init, SessionOK, EventOK, RefreshFailureKind
<1>3. EndedOK
  BY DEF Init, EndedOK, OnlyTheApiSignsOut, OfTheEdge, NoAnswerYet
<1>4. FlightOK /\ OthersOK /\ OpenInFlight
  BY NoFlightOK, MaxOpsAssumption DEF Init, FlightOK, OthersOK, OpenInFlight
<1> QED
  BY <1>1, <1>2, <1>3, <1>4, Parts

LEMMA RInvStep == RInv /\ [Next]_renewalVars => RInv'
<1> SUFFICES ASSUME RInv, [Next]_renewalVars PROVE RInv'
  OBVIOUS
<1>p. GateOK /\ FlightOK
  BY Parts
<1>1. Settled /\ FlightOK'
  <2>1. CASE Begin
    BY <2>1, BeginEffect
  <2>2. CASE \E a \in Replies : Answered(a)
    BY <2>2, AnsweredEffect
  <2>3. CASE Unanswered
    BY <2>3, UnansweredEffect
  <2>4. CASE Application \/ Tick \/ Expire \/ ServerTurns
    BY <1>p, <2>4, OutsideEffect DEF Outer, FlightOK
  <2>5. CASE UNCHANGED renewalVars
    BY <1>p, <2>5, IdleEffect DEF renewalVars, FlightOK, history
  <2> QED
    BY <2>1, <2>2, <2>3, <2>4, <2>5 DEF Next, Refreshing
<1>2. GateOK' /\ SessionOK' /\ EventOK' /\ EndedOK' /\ FlightOK'
  BY <1>p, <1>1, GateStep DEF Settled
<1>3. OthersOK'
  BY <1>1, OthersStep DEF Settled
<1>4. OpenInFlight'
  <2>o. OpenInFlight
    BY Parts
  <2>1. CASE Begin
    BY <2>1 DEF Begin, OpenInFlight, blocked
  <2>2. CASE (\E a \in Replies : Answered(a)) \/ Unanswered
    BY <2>2 DEF Answered, Unanswered, NoFlight, OpenInFlight
  <2>3. CASE Application \/ Tick \/ Expire \/ ServerTurns
    BY <1>p, <2>o, <2>3, OutsideEffect, EaseOpens DEF Outer, OpenInFlight
  <2>4. CASE UNCHANGED renewalVars
    BY <2>o, <2>4 DEF renewalVars, OpenInFlight, blocked
  <2> QED
    BY <2>1, <2>2, <2>3, <2>4 DEF Next, Refreshing
<1> QED
  BY <1>2, <1>3, <1>4
  DEF RInv, RenewalTypeOK, GateOK, SessionOK, EventOK, EndedOK, FlightOK, OthersOK

-----------------------------------------------------------------------------
(***************************************************************************)
(* The theorems.                                                           *)
(***************************************************************************)

\* The inductive invariant of Renewal.
THEOREM RenewalInductive == Spec => []RInv
BY InitRInv, RInvStep, PTL DEF Spec

\* Every variable keeps its type, the gate is never shut for longer than its
\* failures account for, and a reported failure is remembered (RefreshGate).
THEOREM RenewalTypeCorrect == Spec => []RenewalTypeOK
<1>1. RInv => RenewalTypeOK
  BY DEF RInv
<1> QED
  BY <1>1, RenewalInductive, PTL

\* Whatever the server, or whoever answers in its place, says: no page of an
\* edge ends a session (parse_api_error, emit_refresh_failure).
THEOREM OnlyTheApiEnds == Spec => []OnlyTheApiSignsOut
<1>1. RInv => OnlyTheApiSignsOut
  BY DEF RInv
<1> QED
  BY <1>1, RenewalInductive, PTL

\* However many refreshes have failed in a row, and at any saturation of the
\* count, the next one leaves after the cooldown (REFRESH_COOLDOWNS).
THEOREM Spaced == Spec => RefreshesAreSpaced
<1> DEFINE Waits == ~flight.under /\ flight'.under /\ streak > 0
                      => since >= REFRESH_COOLDOWNS[streak]
<1>1. RInv /\ [Next]_renewalVars => [Waits]_renewalVars
  <2> SUFFICES ASSUME RInv, Next, ~flight.under, flight'.under, streak > 0
               PROVE  since >= REFRESH_COOLDOWNS[streak]
    OBVIOUS
  <2>p. GateOK
    BY Parts
  <2>1. flight' # flight
    OBVIOUS
  <2>2. ~(Application \/ Tick \/ Expire \/ ServerTurns)
    BY <2>1, OutsideEffect DEF Outer
  <2>3. Begin
    BY <2>2 DEF Next, Refreshing, Answered, Unanswered, NoFlight
  <2>4. gate.left = 0
    BY <2>p, <2>3 DEF Begin, blocked, GateOK, RefreshGate
  <2> QED
    BY <2>p, <2>4 DEF GateOK, Pauses
<1> QED
  BY <1>1, RenewalInductive, PTL DEF Spec, RefreshesAreSpaced

\* A refresh keeps the way of signing in, the third party's id and the address
\* that is shown (refresh_session, session_from_third_party).
THEOREM CredentialsLast == Spec => CredentialsKept
<1> DEFINE Keeps ==
      flight.under /\ ~flight'.under /\ session' # session /\ session'.fresh
        => /\ session'.kind = flight.from.kind
           /\ Presentable(session')
           /\ flight.from.shown => session'.shown
<1>1. RInv /\ [Next]_renewalVars => [Keeps]_renewalVars
  <2> SUFFICES ASSUME RInv, Next, flight.under, ~flight'.under,
                      session' # session, session'.fresh
               PROVE  /\ session'.kind = flight.from.kind
                      /\ Presentable(session')
                      /\ flight.from.shown => session'.shown
    OBVIOUS
  <2>p. FlightOK
    BY Parts
  <2>1. ~(Application \/ Tick \/ Expire \/ ServerTurns) /\ ~Begin
    BY OutsideEffect DEF Outer, Begin
  <2>2. ~NoSession.fresh
    BY DEF NoSession
  <2>3. ~Unanswered
    BY <2>2, UnansweredEffect
  <2>4. PICK a \in Replies : Answered(a)
    BY <2>1, <2>3 DEF Next, Refreshing
  <2>5. session' = RefreshedSession(flight.from, a)
    BY <2>2, <2>4, AnsweredEffect
  <2>6. flight.from \in Session /\ flight.from.kind \in Kinds
    BY <2>p DEF FlightOK, Flight
  <2> QED
    BY <2>5, <2>6, RefreshedSessionType
<1> QED
  BY <1>1, RenewalInductive, PTL DEF Spec, CredentialsKept

\* Renewal, with its cooldowns and answers, implements BackoffGate.
THEOREM GateImplemented == Spec => ImplementsGate
<1>1. Init => Promise!GateInit
  BY DEF Init, NewGate, Promise!GateInit
<1>2. RInv /\ [Next]_renewalVars => [Promise!GateNext]_(Promise!gateVars)
  <2> SUFFICES ASSUME RInv, [Next]_renewalVars
               PROVE  Promise!GateNext \/ UNCHANGED Promise!gateVars
    OBVIOUS
  <2>p. GateOK
    BY Parts
  <2>1. GateEases \/ (GateFails /\ ~blocked)
    <3>1. CASE UNCHANGED renewalVars
      BY <3>1 DEF renewalVars, GateEases, GateKept
    <3>2. CASE Begin
      BY <3>2, BeginEffect DEF Begin, Settled, GateMoves
    <3>3. CASE (\E a \in Replies : Answered(a)) \/ Unanswered
      <4>1. ~blocked
        BY <3>3, Parts DEF Answered, Unanswered, OpenInFlight
      <4> QED
        BY <3>3, <4>1, AnsweredEffect, UnansweredEffect DEF Settled, GateMoves
    <3>4. CASE Application \/ Tick \/ Expire \/ ServerTurns
      BY <3>4, OutsideEffect DEF Outer
    <3> QED
      BY <3>1, <3>2, <3>3, <3>4 DEF Next, Refreshing
  <2>2. gate \in RefreshGate
    BY <2>p DEF GateOK
  <2>3. CASE GateKept
    BY <2>3 DEF GateKept, Promise!gateVars
  <2>4. CASE GateRenewed
    BY <2>4 DEF GateRenewed, NewGate, Promise!GateNext, Promise!Renew
  <2>5. CASE GateResumed
    BY <2>2, <2>5
    DEF GateResumed, clear_backoff, RefreshGate, Promise!GateNext, Promise!Lapse
  <2>6. CASE GateTicks
    BY <2>2, <2>6
    DEF GateTicks, RefreshGate, Promise!GateNext, Promise!Lapse, Promise!gateVars
  <2>7. CASE GateFails /\ ~blocked
    <3>1. PICK e, r : /\ r \in BOOLEAN /\ (gate.reported => r)
                      /\ gate' = [record_failure_of(gate, e) EXCEPT !.reported = r]
      BY <2>7 DEF GateFails
    <3>2. gate' = [failures |-> Counted(gate), left |-> Cooldown(gate.failures),
                   reported |-> r, client_refused |-> refuses_client_version(e)]
      BY <2>2, <3>1, FailureUpdates
    <3>3. gate'.left > 0
      <4>1. gate.failures \in Nat
        BY <2>2, MaxFailuresAssumption DEF RefreshGate
      <4>2. Cooldown(gate.failures) \in {1, 3, 6, 12}
        BY <4>1 DEF Cooldown, REFRESH_COOLDOWNS
      <4> QED
        BY <3>2, <4>2
    <3>4. ~(gate.left > 0) /\ ~gate.client_refused /\ gate.reported \in BOOLEAN
      BY <2>2, <2>7 DEF blocked, RefreshGate
    <3>5. gate'.client_refused \in BOOLEAN
      BY <3>2 DEF refuses_client_version
    <3>6. gate'.reported = r /\ r \in {gate.reported, TRUE}
      BY <3>1, <3>2, <3>4
    <3> QED
      BY <3>3, <3>4, <3>5, <3>6 DEF Promise!GateNext, Promise!Fail
  <2> QED
    BY <2>1, <2>3, <2>4, <2>5, <2>6, <2>7 DEF GateEases
<1> QED
  BY <1>1, <1>2, RenewalInductive, PTL DEF Spec, ImplementsGate, Promise!GateSpec
=============================================================================
