----------------------------- MODULE AppErrors -----------------------------
(***************************************************************************)
(* The errors the Go services share (common/): the HTTP codes fault        *)
(* injection draws, the gRPC code an HTTP code travels under, and what the *)
(* checkout tells its client in the end.                                   *)
(***************************************************************************)
EXTENDS Integers

(***************************************************************************)
(* What common.MaybeError may inject.  It draws an index with              *)
(* rand.Intn(len - 1), so the last code of each of its two lists, 404 and  *)
(* 504, never comes up.                                                    *)
(***************************************************************************)
InjectedHttp == {400, 422} \cup {500, 502, 503}

\* mapCodeToGRPCCode: 400 is not among the codes it knows.
GrpcCode(http) ==
  CASE http = 422 -> "InvalidArgument"
    [] http \in {404, 410} -> "NotFound"
    [] http \in {500, 502, 503, 504} -> "Internal"
    [] OTHER -> "Unknown"

\* What a client can tell apart of the status code of an error answer.
Failures == {"client_error", "unavailable", "server_error"}

AnswerTo(http) ==
  IF http \in 400 .. 499 THEN "client_error"
  ELSE IF http = 503 THEN "unavailable" ELSE "server_error"

\* Mutant: the code of the failed call is handed on to the client as it is.
CodeHandedOn(code) == code

\* Mutant: a call that timed out is reported like missing stock.
TimeoutIsRefusal(code) ==
  CASE code \in {"DeadlineExceeded", "Unavailable", "NotFound"} -> AnswerTo(400)
    [] OTHER -> AnswerTo(500)

\* What the checkout answers when a call to the inventory fails with this code.
AnswerToCode(code) ==
  CASE code \in {"NotFound", "FailedPrecondition", "ResourceExhausted"} ->
         AnswerTo(400)
    [] code \in {"DeadlineExceeded", "Unavailable"} -> AnswerTo(503)
    [] OTHER -> AnswerTo(500)

\* The codes a gRPC client makes up itself: the deadline of the call, a
\* connection that broke, a caller that went away.
CallerCodes == {"DeadlineExceeded", "Unavailable", "Canceled"}
=============================================================================
