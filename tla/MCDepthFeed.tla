---------------------------- MODULE MCDepthFeed ----------------------------
(***************************************************************************)
(* The depth feed over two price levels that six updates set in turn.     *)
(***************************************************************************)
EXTENDS DepthFeed

CONSTANTS a, b

MCLevels == {a, b}
MCTouched == <<a, b, b, a, b, a>>
MCStreams == {"trade"}
=============================================================================
