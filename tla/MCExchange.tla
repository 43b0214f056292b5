----------------------------- MODULE MCExchange -----------------------------
(***************************************************************************)
(* Exchange on small instances: a device that was generated and one that   *)
(* an earlier version saved, a local clock that is right, ahead, or before *)
(* 1970, and one answer of each sort the client tells apart.               *)
(***************************************************************************)
EXTENDS Exchange, TLC

Pixel == [maker |-> "Google", model |-> "Pixel 8", releases |-> 14 .. 16]
Galaxy == [maker |-> "samsung", model |-> "SM-S901B", releases |-> 12 .. 16]

MCDevices == {Generate("d1", Pixel, 15, "Europe/Riga"),
              SavedEarlier(Generate("d2", Galaxy, 13, "Asia/Tokyo"))}

MCSkews == {2, -9}

Asks(session, body, required) ==
  [session |-> session, body |-> body, required |-> required]

MCRequests ==
  {Asks(TRUE, "empty", "none"), Asks(TRUE, "signed", "none"),
   Asks(TRUE, "key", "none"), Asks(FALSE, "stream", "none"),
   Asks(FALSE, "json", "real"), Asks(FALSE, "signed", "none")}

Symmetry == Permutations(Tasks)

Json(status, type) ==
  [NoAnswerYet EXCEPT !.status = status, !.body = "json", !.type = type]

Page(status, marks) ==
  [NoAnswerYet EXCEPT !.status = status, !.body = "text", !.marks = marks]

MCReplies ==
  {Json(200, "nonce_replayed"), Json(401, "none"), Json(400, "timestamp_drift"),
   Json(403, "other"), Page(403, {}), Page(503, {"challenge"})}
=============================================================================
