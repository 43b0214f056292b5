------------------------------ MODULE Answers -------------------------------
(***************************************************************************)
(* What the client makes of an answer, or of none: who gave it (src/src/   *)
(* rest.rs, is_edge_block to extract_api_error), which error it is         *)
(* (src/src/error.rs), what a refused signature says (src/src/signing.rs)  *)
(* and what a failed refresh says of the session (src/src/auth.rs).        *)
(***************************************************************************)
EXTENDS Integers

CONSTANT CodeSpan       (* the integers an i32 tells apart: 2^32            *)

ASSUME CodeSpanAssumption == CodeSpan \in Nat /\ CodeSpan > 0

(***************************************************************************)
(* An answer: its status, whether its body is empty, text or JSON, the     *)
(* marks of Cloudflare found in it, and of a JSON body the fields that are *)
(* looked at.  `code' is meaningful when `coded'.  `session' says what a   *)
(* body has of a session: nothing, a third-party reply without one, one    *)
(* whose token cannot be decoded, or all of it; `named' that a third-party *)
(* one comes with an id to show.                                           *)
(***************************************************************************)
Marks == {"challenge", "wall"}

Answer == [status: 100 .. 599, body: {"empty", "text", "json"},
           marks: SUBSET Marks, coded: BOOLEAN, code: Int, message: BOOLEAN,
           type: {"none", "timestamp_drift", "nonce_replayed", "other"},
           session: {"none", "absent", "garbled", "full"}, named: BOOLEAN]

NoAnswerYet == [status |-> 0, body |-> "empty", marks |-> {}, coded |-> FALSE,
                code |-> 0, message |-> FALSE, type |-> "none",
                session |-> "none", named |-> FALSE]

Success(a) == a.status \in 200 .. 299

-----------------------------------------------------------------------------
(***************************************************************************)
(* Who answered.                                                           *)
(***************************************************************************)
is_edge_block(a) == a.status = 403 /\ a.body = "text"

is_cloudflare_challenge(a) == ~Success(a) /\ "challenge" \in a.marks

block_kind(a) ==
  IF is_cloudflare_challenge(a) THEN "cloudflare"
  ELSE IF ~is_edge_block(a) THEN "none"
  ELSE IF "wall" \in a.marks THEN "cloudflare" ELSE "edge"

Blocked(a) == block_kind(a) # "none"

\* What the documentation of Blocked recognizes: a 403 whose body is not
\* JSON, or the mark of a challenge on any answer that is no success.
OfTheEdge(a) ==
  \/ a.status = 403 /\ a.body = "text"
  \/ a.status \notin 200 .. 299 /\ "challenge" \in a.marks

(***************************************************************************)
(* Errors: the variant of GrindrError, with the code or the phase where it *)
(* has one.                                                                *)
(***************************************************************************)
ErrorKinds == {"http", "connect", "timeout", "auth", "api", "unauthorized",
               "banned", "rate_limited", "blocked", "invalid_request",
               "session_cleared"}

TimeoutPhases == {"sending", "headers", "receiving", "unfinished"}

GrindrError ==
  [kind: ErrorKinds, code: Int, phase: TimeoutPhases \union {"none"}]

Error(kind) == [kind |-> kind, code |-> 0, phase |-> "none"]

WithCode(kind, code) == [kind |-> kind, code |-> code, phase |-> "none"]

TimedOut(phase) == [kind |-> "timeout", code |-> 0, phase |-> phase]

NoError == [kind |-> "none", code |-> 0, phase |-> "none"]

\* `c as i32' keeps the low bits of an i64.
AsI32(c) ==
  LET low == c % CodeSpan
  IN  IF 2 * low < CodeSpan THEN low ELSE low - CodeSpan

\* extract_api_error: the code of a body that comes with a message, and the
\* status otherwise.
extract_api_error(a) ==
  IF a.body = "json" /\ a.coded /\ a.message THEN AsI32(a.code) ELSE a.status

BanCodes == {27, 28, 31, 35, 36}

\* Variant: the error of a refusal, whoever answered.
ErrorOfAnyone(a) ==
  LET code == extract_api_error(a) IN
  IF code \in BanCodes THEN WithCode("banned", code)
  ELSE IF a.status = 401 THEN WithCode("unauthorized", code)
  ELSE IF a.status = 429 THEN Error("rate_limited")
  ELSE WithCode("api", code)

parse_api_error(a) ==
  LET code == extract_api_error(a) IN
  IF Blocked(a) THEN Error("blocked")
  ELSE IF code \in BanCodes THEN WithCode("banned", code)
  ELSE IF a.status = 401 THEN WithCode("unauthorized", code)
  ELSE IF a.status = 429 THEN Error("rate_limited")
  ELSE WithCode("api", code)

DEPRECATED_CLIENT_VERSION == 8

refuses_client_version(e) ==
  e = WithCode("api", DEPRECATED_CLIENT_VERSION)

(***************************************************************************)
(* No answer: how the transport says so, and where the request was.  A     *)
(* time-out that comes when the whole call is out of time is the call's.   *)
(***************************************************************************)
TransportErrors == [connect: BOOLEAN, timeout: BOOLEAN, request: BOOLEAN]

from_wreq(e) ==
  IF e.connect THEN Error("connect")
  ELSE IF ~e.timeout THEN Error("http")
  ELSE TimedOut(IF e.request THEN "headers" ELSE "receiving")

past_ceiling(e, elapsed) ==
  IF from_wreq(e).kind = "timeout" /\ elapsed THEN TimedOut("unfinished")
                                              ELSE from_wreq(e)

(***************************************************************************)
(* What a refused signature says: to make it again, or that the key is of  *)
(* no use.                                                                 *)
(***************************************************************************)
signing_reject(a) ==
  IF a.body # "json" \/ a.type = "none" THEN "none"
  ELSE IF a.type \in {"timestamp_drift", "nonce_replayed"} THEN "retryable"
  ELSE "fatal"

(***************************************************************************)
(* What a failed refresh says of the session.                              *)
(***************************************************************************)
classify(e) ==
  CASE e.kind \in {"http", "connect", "timeout"} -> "transport"
    [] e.kind = "blocked" -> "blocked"
    [] e.kind = "rate_limited" -> "rate_limited"
    [] e.kind = "api" -> "server"
    [] OTHER -> "session"

Terminal(e) == e.kind \in {"unauthorized", "banned"}

(***************************************************************************)
(* Minting a session, by email or through a third party: what an answer    *)
(* comes to, the page of an edge first of all.                             *)
(***************************************************************************)
Mints(a) == ~Blocked(a) /\ Success(a) /\ a.session = "full"

MintError(a, kind) ==
  IF Blocked(a) THEN Error("blocked")
  ELSE IF ~Success(a) THEN parse_api_error(a)
  ELSE IF a.session = "garbled" \/ (a.session = "absent" /\ kind # "email")
       THEN Error("auth") ELSE Error("http")
=============================================================================
