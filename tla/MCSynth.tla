------------------------------ MODULE MCSynth ------------------------------
(* Two sources that share a page, one of them older than the markers.      *)
EXTENDS Synth

CONSTANTS a, b, p, q

MCYields == [s \in {a, b} |-> IF s = a THEN {p, q} ELSE {q}]
=============================================================================
