------------------------------- MODULE Phases -------------------------------
(***************************************************************************)
(* What evaluations and baselines share: the adapter phases of a surface,  *)
(* how an adapter may answer and end, when _invoke_adapter takes that for  *)
(* a success, and what lineage.py asks of the record that is left.         *)
(***************************************************************************)
EXTENDS Gate

\* The phases of an evaluation.
FullChain ==
  [amdgcn_assembly |->
     <<"build", "disassemble", "static_check", "native_load", "oracle", "benchmark", "profile">>,
   source |-> <<"build", "oracle", "benchmark">>,
   binary |-> <<"rebuild", "static_check", "oracle", "replay", "compare", "benchmark">>]

Operation ==
  {"recover", "rebuild", "roundtrip", "build", "disassemble", "static_check", "native_load",
   "oracle", "replay", "compare", "benchmark", "profile"}

\* stdout: bytes that are no UTF-8, text that is no JSON object, an object
\* that does not echo the request, one that says ok is false, or ok is true.
Reply == {"garbled", "none", "stale", "refused", "passed"}

\* failed: a status other than zero, or more output than allowed.
Exit == {"clean", "failed", "timed_out"}

OkIgnoringExit(reply, exit, files) == reply = "passed"

\* A phase passes when its adapter echoed the request with ok true, ended
\* with status zero in time and within bounds, and is still the same program.
Ok(reply, exit, files) == reply = "passed" /\ exit = "clean" /\ "adapter" \notin files

\* A JSON object that disagrees with how its phase ended.
Disagreeing(r) == ~r.ok /\ r.reply \in {"stale", "passed"}

\* _validate_phase_evidence.  A phase that failed may have left no JSON, but
\* any JSON it left must echo the request and agree with the failure.  Bytes
\* that are no UTF-8 raise an error that nobody handles.
Agrees(r) ==
  /\ r.reply # "garbled"
  /\ r.reply # "none" => r.reply # "stale" /\ (r.ok <=> r.reply = "passed")
  /\ r.ok => r.reply # "none" /\ r.exit = "clean"
=============================================================================
