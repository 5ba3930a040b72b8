------------------------- MODULE MCTruncatingBuffer -------------------------
(***************************************************************************)
(* TruncatingBuffer for TLC.  The smallest legal buffer (3), enough input    *)
(* for two overflows in a row, a word that wraps at 16, a context that       *)
(* filters out some events and allows both kinds of notice.                  *)
(***************************************************************************)
EXTENDS TruncatingBuffer

LogsAndCounters == {"LogMessage", "CounterEvent"}
=============================================================================
