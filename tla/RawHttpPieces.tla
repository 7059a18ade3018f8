--------------------------- MODULE RawHttpPieces ---------------------------
(***************************************************************************)
(* What the pieces in which a stream arrives may change of a connection:   *)
(* nothing.  The reference is RawHttp itself, of a connection whose reader *)
(* already holds every byte that will come, and the error behind them.     *)
(***************************************************************************)
EXTENDS RawHttp

\* The bytes that have not been used: readBytes uses what it has read at once.
Unused == IF pc = "fill" THEN data \o wire ELSE buffer \o wire

Whole == INSTANCE RawHttp WITH
  buffer  <- Unused,
  wire    <- <<>>,
  readErr <- IF end = "open" THEN "none" ELSE end,
  pc      <- IF pc = "fill" THEN "take" ELSE pc,
  data    <- IF pc = "fill" THEN <<>> ELSE data

\* Each step is a read, or what the connection would do had the whole stream
\* arrived at once: where the pieces are cut decides nothing, neither where a
\* header section, a chunk or a body ends nor whether a limit is exceeded
\* (framing.go:33-64, parser.go:22-43).
PiecesDoNotMatter == [][Whole!Next]_(Whole!vars)
=============================================================================
