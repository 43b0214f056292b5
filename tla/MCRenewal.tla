----------------------------- MODULE MCRenewal ------------------------------
(***************************************************************************)
(* Renewal with an answer of each sort: sessions with and without an       *)
(* address to show, the API's refusals, and pages of an edge that carry    *)
(* the status or the code of a refusal.                                    *)
(***************************************************************************)
EXTENDS Renewal

Minted(how, named) ==
  [NoAnswerYet EXCEPT !.status = 200, !.body = "json", !.session = how,
                      !.named = named]

Refusal(status, code) ==
  [NoAnswerYet EXCEPT !.status = status, !.body = "json", !.coded = TRUE,
                      !.code = code, !.message = TRUE]

Page(status, marks) ==
  [NoAnswerYet EXCEPT !.status = status, !.body = "text", !.marks = marks]

MCReplies ==
  {Minted("full", TRUE), Minted("full", FALSE), Minted("absent", FALSE),
   Refusal(401, 4), Refusal(403, 27), Refusal(403, CodeSpan + 28),
   Refusal(400, 8), Refusal(429, 0), Page(401, {"challenge"}), Page(403, {}),
   [Refusal(503, 31) EXCEPT !.marks = {"challenge"}]}
=============================================================================
