---------------------------- MODULE BackoffGate ----------------------------
(***************************************************************************)
(* What the gate of background refreshes (RefreshGate, src/src/auth.rs)    *)
(* promises to the server and to the application, whatever goes on around  *)
(* it: no refresh fails while the gate is shut, a failure shuts it, the    *)
(* refusal of the client version keeps it shut until the session is        *)
(* another one, and what was reported stays reported until then.           *)
(*                                                                         *)
(* Nothing says how long it stays shut, or who asks.  Renewal adds the     *)
(* former and Auth the latter, and both implement this.                    *)
(***************************************************************************)
VARIABLES cooling,      (* `retry_at' lies ahead                            *)
          refused,      (* `client_refused'                                 *)
          reported      (* `reported'                                       *)

gateVars == <<cooling, refused, reported>>

GateInit == cooling = FALSE /\ refused = FALSE /\ reported = FALSE

\* A background refresh fails, and may be told of at once or later.
Fail(version) ==
  /\ ~cooling /\ ~refused
  /\ cooling' = TRUE
  /\ refused' = version
  /\ reported' \in {reported, TRUE}

\* A failure is told of, which the gate remembers.
Report ==
  /\ reported' = TRUE
  /\ UNCHANGED <<cooling, refused>>

\* Time has passed, or the application becomes active.
Lapse ==
  /\ cooling' = FALSE
  /\ UNCHANGED <<refused, reported>>

\* Another session, or none.
Renew == cooling' = FALSE /\ refused' = FALSE /\ reported' = FALSE

GateNext ==
  (\E version \in BOOLEAN : Fail(version)) \/ Report \/ Lapse \/ Renew

GateSpec == GateInit /\ [][GateNext]_gateVars
=============================================================================
