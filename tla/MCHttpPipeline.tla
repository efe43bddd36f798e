---------------------------- MODULE MCHttpPipeline ----------------------------
(* An instance of HttpPipeline for TLC. *)
EXTENDS HttpPipeline

CONSTANTS r1, r2

TwoRequests == {r1, r2}
=============================================================================
