------------------------------ MODULE Renewal -------------------------------
(***************************************************************************)
(* Background refreshes against the clock (src/src/auth.rs): how long the  *)
(* gate stays shut after a failure, what the answers of the server make of *)
(* the session and of the gate, which credentials a refresh presents and   *)
(* which it keeps, and what the application is told.                       *)
(*                                                                         *)
(* Module Auth has every interleaving of these calls, with answers and     *)
(* times left open.  Here it is the other way round: a refresh is two      *)
(* steps, what is done before the request leaves (under refresh_lock) and  *)
(* what is done of its answer, and a call of the application is one; the   *)
(* answers and the times are what they are.                                *)
(***************************************************************************)
EXTENDS Answers, Sequences

CONSTANTS Replies,      (* answers the server gives                         *)
          MaxFailures,  (* what a u32 counts to                             *)
          MaxOps        (* bound: calls the application makes in all        *)

ASSUME RenewalRepliesAssumption == Replies \subseteq Answer
ASSUME MaxFailuresAssumption == MaxFailures \in Nat /\ MaxFailures >= 4
ASSUME MaxOpsAssumption == MaxOps \in Nat

VARIABLES
  session,     \* AuthState.session
  epoch,       \* AuthState.sign_out_epoch
  gate,        \* AuthState.refresh_gate
  active,      \* AuthState.active_tx
  flight,      \* the background refresh that is under way
  event,       \* the last AuthEvent since the session was signed in to
  up,          \* the server mints what it is asked for
  streak,      \* history: refreshes that failed in a row, up to four
  since,       \* history: ticks since the last of them, up to a minute
  ended,       \* history: the answer that cleared the session
  opsLeft      \* calls the application may still make

history == <<streak, since, ended>>
renewalVars == <<session, epoch, gate, active, flight, event, up, streak,
                 since, ended, opsLeft>>

(***************************************************************************)
(* A session: how it was signed in to; of a third party's, whether its     *)
(* user id is there (earlier versions did not save it) and whether the     *)
(* e-mail address is one the vendor gave to show; whether its token        *)
(* outlives the next REFRESH_BUFFER_SECS.                                  *)
(***************************************************************************)
Kinds == {"email", "google"}

Session == [kind: Kinds \union {"none"}, id: BOOLEAN, shown: BOOLEAN,
            fresh: BOOLEAN]

NoSession == [kind |-> "none", id |-> FALSE, shown |-> FALSE, fresh |-> FALSE]

SignedIn == session.kind # "none"

\* create_session keeps the address that was signed in with.
EmailSession == [kind |-> "email", id |-> FALSE, shown |-> TRUE, fresh |-> TRUE]

\* Variant: without an address to show, the user id is taken, as at sign-in.
NamedOrId(kept, a) ==
  [kind |-> "google", id |-> TRUE, shown |-> a.named, fresh |-> TRUE]

\* session_from_third_party: without an address to show, the one that is kept.
session_from_third_party(kept, a) ==
  [kind |-> "google", id |-> TRUE, shown |-> a.named \/ kept, fresh |-> TRUE]

\* refresh_session, with the credentials of the session it was sent for.
RefreshedSession(from, a) ==
  IF from.kind = "email" THEN EmailSession
                         ELSE session_from_third_party(from.shown, a)

Flight == [under: BOOLEAN, from: Session, epoch: Nat]

NoFlight == [under |-> FALSE, from |-> NoSession, epoch |-> 0]

-----------------------------------------------------------------------------
(***************************************************************************)
(* The gate.  `left' is what `retry_at' lies ahead, in ticks of five       *)
(* seconds.                                                                *)
(***************************************************************************)
REFRESH_COOLDOWNS == <<1, 3, 6, 12>>

RefreshGate == [failures: 0 .. MaxFailures, left: 0 .. 12,
                reported: BOOLEAN, client_refused: BOOLEAN]

NewGate == [failures |-> 0, left |-> 0, reported |-> FALSE,
            client_refused |-> FALSE]

blocked == gate.client_refused \/ gate.left > 0

\* The cooldown after n failures have gone before.
Cooldown(n) == REFRESH_COOLDOWNS[IF n < 3 THEN n + 1 ELSE 4]

\* Variant: the count of failures wraps around.
record_failure_wrapping(g, e) ==
  [g EXCEPT !.left = Cooldown(g.failures),
            !.failures = (g.failures + 1) % (MaxFailures + 1),
            !.client_refused = refuses_client_version(e)]

record_failure_of(g, e) ==
  [g EXCEPT !.left = Cooldown(g.failures),
            !.failures = IF g.failures < MaxFailures THEN g.failures + 1
                                                     ELSE g.failures,
            !.client_refused = refuses_client_version(e)]

\* Variant: the failures are forgotten, the time of the next attempt is not.
clear_failures(g) == [g EXCEPT !.failures = 0]

clear_backoff(g) == [g EXCEPT !.failures = 0, !.left = 0]

\* The history of the gate starts afresh.
Unbroken == streak' = 0 /\ since' = 12

Broken == streak' = (IF streak < 4 THEN streak + 1 ELSE 4) /\ since' = 0

Spend == opsLeft > 0 /\ opsLeft' = opsLeft - 1

\* set_session_if_current, when the epoch is the current one.
Store(s) ==
  /\ session' = s
  /\ gate' = NewGate
  /\ event' = IF gate.reported THEN "recovered" ELSE event
  /\ ended' = NoAnswerYet
  /\ Unbroken

clear_session ==
  /\ session' = NoSession
  /\ epoch' = epoch + 1
  /\ gate' = NewGate
  /\ Unbroken

-----------------------------------------------------------------------------
(***************************************************************************)
(* A background refresh.                                                   *)
(***************************************************************************)
\* What fails without being sent: a third party's session without the id.
Presentable(s) == s.kind = "google" => s.id

\* emit_refresh_failure after record_failure_of; `a' is the answer, if any.
Emit(e, a) ==
  \/ /\ Terminal(e)
     /\ clear_session
     /\ event' = IF e.kind = "banned" THEN "banned" ELSE "signed_out"
     /\ ended' = a
  \/ /\ ~Terminal(e)
     /\ gate' = [record_failure_of(gate, e) EXCEPT
                   !.reported = @ \/ (SignedIn /\ active)]
     /\ event' = IF SignedIn /\ active THEN classify(e) ELSE event
     /\ Broken
     /\ UNCHANGED <<session, epoch, ended>>

\* Variant: a request that finds the gate shut counts as a failure.
BeginRecording ==
  /\ SignedIn /\ ~session.fresh
  /\ ~flight.under
  /\ \/ /\ blocked
        /\ Emit(Error("auth"), NoAnswerYet)
        /\ UNCHANGED flight
     \/ /\ ~blocked /\ ~Presentable(session)
        /\ Emit(Error("auth"), NoAnswerYet)
        /\ UNCHANGED flight
     \/ /\ ~blocked /\ Presentable(session)
        /\ flight' = [under |-> TRUE, from |-> session, epoch |-> epoch]
        /\ UNCHANGED <<session, epoch, gate, event, history>>
  /\ UNCHANGED <<active, up, opsLeft>>

\* Variant: only the cooldown is looked at.
BeginCooled ==
  /\ SignedIn /\ ~session.fresh
  /\ ~flight.under
  /\ gate.left = 0
  /\ \/ /\ ~Presentable(session)
        /\ Emit(Error("auth"), NoAnswerYet)
        /\ UNCHANGED flight
     \/ /\ Presentable(session)
        /\ flight' = [under |-> TRUE, from |-> session, epoch |-> epoch]
        /\ UNCHANGED <<session, epoch, gate, event, history>>
  /\ UNCHANGED <<active, up, opsLeft>>

\* A request finds the token of no use any more and the gate open.
Begin ==
  /\ SignedIn /\ ~session.fresh
  /\ ~flight.under
  /\ ~blocked
  /\ \/ /\ ~Presentable(session)
        /\ Emit(Error("auth"), NoAnswerYet)
        /\ UNCHANGED flight
     \/ /\ Presentable(session)
        /\ flight' = [under |-> TRUE, from |-> session, epoch |-> epoch]
        /\ UNCHANGED <<session, epoch, gate, event, history>>
  /\ UNCHANGED <<active, up, opsLeft>>

\* A server that is up mints, one that is not does anything.
Given(a) == up => Mints(a)

\* Variant: a refusal is taken at its word, whoever gave it.
AnsweredByAnyone(a) ==
  /\ flight.under
  /\ Given(a)
  /\ flight' = NoFlight
  /\ \/ /\ Mints(a) /\ flight.epoch = epoch
        /\ Store(RefreshedSession(flight.from, a))
        /\ UNCHANGED epoch
     \/ Mints(a) /\ flight.epoch # epoch /\ Emit(Error("session_cleared"), a)
     \/ ~Mints(a) /\ Emit(ErrorOfAnyone(a), a)
  /\ UNCHANGED <<active, up, opsLeft>>

\* The answer arrives, and a session that was cleared since is not stored.
Answered(a) ==
  /\ flight.under
  /\ Given(a)
  /\ flight' = NoFlight
  /\ \/ /\ Mints(a) /\ flight.epoch = epoch
        /\ Store(RefreshedSession(flight.from, a))
        /\ UNCHANGED epoch
     \/ Mints(a) /\ flight.epoch # epoch /\ Emit(Error("session_cleared"), a)
     \/ ~Mints(a) /\ Emit(MintError(a, flight.from.kind), a)
  /\ UNCHANGED <<active, up, opsLeft>>

Unanswered ==
  /\ flight.under /\ ~up
  /\ flight' = NoFlight
  /\ \E e \in TransportErrors : Emit(from_wreq(e), NoAnswerYet)
  /\ UNCHANGED <<active, up, opsLeft>>

-----------------------------------------------------------------------------
(***************************************************************************)
(* The application.                                                        *)
(***************************************************************************)
\* sign_in_with_email and sign_in_with_third_party: what a third party shows
\* falls back to its user id.
SignIn(kind, a) ==
  /\ Spend
  /\ Given(a)
  /\ IF Mints(a)
     THEN /\ Store(IF kind = "email" THEN EmailSession
                   ELSE session_from_third_party(FALSE, a))
     ELSE UNCHANGED <<session, gate, event, history>>
  /\ UNCHANGED <<epoch, active, flight, up>>

\* GrindrClient::refresh_session, which leaves the gate and the session alone
\* when it fails.
ForcedRefresh(a) ==
  /\ SignedIn
  /\ Spend
  /\ Given(a)
  /\ IF Presentable(session) /\ Mints(a)
     THEN Store(RefreshedSession(session, a))
     ELSE UNCHANGED <<session, gate, event, history>>
  /\ UNCHANGED <<epoch, active, flight, up>>

sign_out ==
  /\ Spend
  /\ clear_session
  /\ event' = "none"
  /\ UNCHANGED <<active, flight, up, ended>>

set_active(on) ==
  /\ Spend
  /\ active' = on
  /\ IF on /\ ~active
     THEN gate' = clear_backoff(gate) /\ Unbroken
     ELSE UNCHANGED <<gate, streak, since>>
  /\ UNCHANGED <<session, epoch, flight, event, up, ended>>

(***************************************************************************)
(* Time and the server.                                                    *)
(***************************************************************************)
Tick ==
  /\ gate' = [gate EXCEPT !.left = IF @ > 0 THEN @ - 1 ELSE 0]
  /\ since' = IF since < 12 THEN since + 1 ELSE 12
  /\ UNCHANGED <<session, epoch, active, flight, event, up, streak, ended, opsLeft>>

\* The token is about to expire, or the API answers 401 to it.
Expire ==
  /\ session.fresh
  /\ session' = [session EXCEPT !.fresh = FALSE]
  /\ UNCHANGED <<epoch, gate, active, flight, event, up, history, opsLeft>>

ServerTurns ==
  /\ up' = ~up
  /\ UNCHANGED <<session, epoch, gate, active, flight, event, history, opsLeft>>

-----------------------------------------------------------------------------

\* A client is built without a session, or with one that was saved.
Init ==
  /\ session \in {s \in Session : ~s.fresh /\ (s.kind = "none" => s = NoSession)
                                  /\ (s.kind = "email" => ~s.id /\ s.shown)}
  /\ epoch = 0
  /\ gate = NewGate
  /\ active = TRUE
  /\ flight = NoFlight
  /\ event = "none"
  /\ up \in BOOLEAN
  /\ streak = 0 /\ since = 12 /\ ended = NoAnswerYet
  /\ opsLeft = MaxOps

Application ==
  \/ \E a \in Replies, kind \in Kinds : SignIn(kind, a)
  \/ \E a \in Replies : ForcedRefresh(a)
  \/ sign_out
  \/ \E on \in BOOLEAN : set_active(on)

Refreshing == Begin \/ (\E a \in Replies : Answered(a)) \/ Unanswered

Next == Application \/ Refreshing \/ Tick \/ Expire \/ ServerTurns

Spec == Init /\ [][Next]_renewalVars

(***************************************************************************)
(* Fairness: time passes; a refresh is answered or times out; and somebody *)
(* keeps asking for a token, as the websocket task does while it is        *)
(* signed in and active.  The server and the application are not fair.     *)
(***************************************************************************)
FairSpec ==
  /\ Spec
  /\ WF_renewalVars(Tick)
  /\ WF_renewalVars(Begin)
  /\ WF_renewalVars((\E a \in Replies : Answered(a)) \/ Unanswered)

-----------------------------------------------------------------------------
(***************************************************************************)
(* What is checked.                                                        *)
(***************************************************************************)
RefreshFailureKind == {"transport", "blocked", "rate_limited", "server", "session"}

\* Every variable has its type; the gate is never shut for longer than its
\* failures account for, and not at all without one; and while RefreshFailed
\* is the last the application has heard of its session, the gate knows that
\* a recovery is owed (unless calls overlap: see FailureIsRetracted of Auth).
RenewalTypeOK ==
  /\ session \in Session
  /\ session.kind = "none" => session = NoSession
  /\ epoch \in Nat
  /\ gate \in RefreshGate
  /\ active \in BOOLEAN /\ up \in BOOLEAN
  /\ flight \in Flight
  /\ flight.under => flight.from.kind \in Kinds
  /\ event \in RefreshFailureKind \union {"none", "signed_out", "banned", "recovered"}
  /\ streak \in 0 .. 4 /\ since \in 0 .. 12
  /\ ended \in Answer \union {NoAnswerYet}
  /\ opsLeft \in 0 .. MaxOps
  /\ IF gate.failures = 0 THEN gate.left = 0
                          ELSE gate.left <= Cooldown(gate.failures - 1)
  /\ event \in RefreshFailureKind => gate.reported

\* After one, two, three or more background refreshes that failed in a row,
\* the next one leaves 5, 15, 30 or 60 seconds later at the earliest, however
\* many failures there were, unless the session was replaced or cleared or
\* the application became active again (RefreshGate, REFRESH_COOLDOWNS).
RefreshesAreSpaced ==
  [][~flight.under /\ flight'.under /\ streak > 0
       => since >= REFRESH_COOLDOWNS[streak]]_renewalVars

\* Only the API ends a session: no page of an edge, whatever its status and
\* whatever code it holds, and no failure of the transport signs anybody out
\* (parse_api_error, emit_refresh_failure).
OnlyTheApiSignsOut == ~OfTheEdge(ended)

\* A refresh keeps what the credentials it was sent with were: the way of
\* signing in, and the e-mail address that is shown, whatever the server
\* leaves out (refresh_session, session_from_third_party).
CredentialsKept ==
  [][flight.under /\ ~flight'.under /\ session' # session /\ session'.fresh
       => /\ session'.kind = flight.from.kind
          /\ Presentable(session')
          /\ flight.from.shown => session'.shown]_renewalVars

\* Once the server answers again, an outage leaves no trace: the session gets
\* a token, unless it was given up, lacks the id to present, or the client
\* version was refused.  Requests that come while the gate is shut do not
\* keep it shut.
Recovers ==
  <>[]up => []<>(\/ session.fresh \/ ~SignedIn
                 \/ gate.client_refused \/ ~Presentable(session))

\* However long a cooldown is, the gate is one BackoffGate allows.
Promise == INSTANCE BackoffGate WITH cooling <- gate.left > 0,
                                     refused <- gate.client_refused,
                                     reported <- gate.reported

ImplementsGate == Promise!GateSpec

(***************************************************************************)
(* Why it holds: what RenewalProofs adds to make the invariants inductive. *)
(***************************************************************************)
\* The count the gate keeps is the number of failures in a row.
StreakCounts == streak = IF gate.failures < 4 THEN gate.failures ELSE 4

\* What is left of a cooldown and what has passed of it make up all of it.
Pauses == streak > 0 => gate.left + since >= REFRESH_COOLDOWNS[streak]

\* Nothing shuts the gate on a refresh that is under way but its own failure.
OpenInFlight == flight.under => ~blocked

RInv ==
  RenewalTypeOK /\ StreakCounts /\ Pauses /\ OpenInFlight /\ OnlyTheApiSignsOut
=============================================================================
