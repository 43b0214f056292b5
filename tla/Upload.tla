------------------------------- MODULE Upload -------------------------------
(***************************************************************************)
(* What an upload of a body that is read while it is sent promises to the  *)
(* server and to the application (BodySource and send_streamed,            *)
(* src/src/stream.rs), whoever runs when and whoever gives up:             *)
(*                                                                         *)
(*  - the server never gets more than the size it was told, gets the last  *)
(*    byte only of a source that has yielded exactly that many, and gets   *)
(*    nothing more once the call has returned;                             *)
(*  - what was found out about the source is not revised;                  *)
(*  - the call returns once, and blames the source only if it was found at *)
(*    fault.                                                               *)
(*                                                                         *)
(* Nothing says how bytes are read ahead, queued or timed: StreamUpload    *)
(* does, and implements this.                                              *)
(***************************************************************************)
EXTENDS Naturals

CONSTANT MaxSize        (* bound: the longest body                          *)

VARIABLES size,         (* BodySource::size                                 *)
          given,        (* how many bytes the HTTP client was given         *)
          source,       (* "unknown" until it is found "exact" or "faulty"  *)
          result        (* what the call returned, or "none"                *)

uploadVars == <<size, given, source, result>>

UploadInit ==
  /\ size \in 0 .. MaxSize
  /\ given = 0 /\ source = "unknown" /\ result = "none"

\* The source ends where it should, or fails, ends early or runs long.
FindOut(verdict) ==
  /\ source = "unknown"
  /\ source' = verdict
  /\ UNCHANGED <<size, given, result>>

\* A chunk leaves for the server.
Give(n) ==
  /\ result = "none"
  /\ given + n <= size
  /\ given + n = size => source = "exact"
  /\ given' = given + n
  /\ UNCHANGED <<size, source, result>>

AnswerWith(r) ==
  /\ result = "none"
  /\ r = "source" => source = "faulty"
  /\ result' = r
  /\ UNCHANGED <<size, given, source>>

Results == {"answered", "unfinished", "source", "error", "stalled", "dropped"}

UploadNext ==
  \/ \E verdict \in {"exact", "faulty"} : FindOut(verdict)
  \/ \E n \in 1 .. size : Give(n)
  \/ \E r \in Results : AnswerWith(r)

UploadSpec == UploadInit /\ [][UploadNext]_uploadVars
=============================================================================
