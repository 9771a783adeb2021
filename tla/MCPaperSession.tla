--------------------------- MODULE MCPaperSession ---------------------------
(* Two symbols: one that trades every interval, one that may be thin; a bar  *)
(* or two may come late, and any fetch may fail.                             *)
EXTENDS PaperSession

CONSTANTS a, b

Tape(x, y) == [s \in {a, b} |-> IF s = a THEN x ELSE y]

MCTapes ==
  { Tape(0..4, 0..4), Tape(0..4, {1, 4}), Tape({0, 2, 4}, {1, 3}), Tape({1}, {}) }
=============================================================================
