--------------------------- MODULE MCEventPipeline ---------------------------
(***************************************************************************)
(* An instance of EventPipeline for TLC: the AUCTION_ENDED of one auction, *)
(* for which the notification consumer makes two calls, of which one names *)
(* a user.                                                                 *)
(***************************************************************************)
EXTENDS EventPipeline, TLC

CallsOfEnd == <<<<"websocket", "auction.won", "auction.lost">>>>

PersonalCalls == {"auction.won", "auction.bid_placed"}

RowsOfEnd == <<Rows>>

=============================================================================
