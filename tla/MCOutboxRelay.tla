---------------------------- MODULE MCOutboxRelay ----------------------------
(***************************************************************************)
(* An instance of OutboxRelay for TLC: an auction that ends, announced by  *)
(* AUCTION_ENDING, which the notification consumer does not subscribe to,  *)
(* and AUCTION_ENDED, which it makes two calls for.                        *)
(***************************************************************************)
EXTENDS OutboxRelay, TLC

CallsOfEnd == <<<<"websocket">>, <<"websocket", "auction.won", "auction.lost">>>>

=============================================================================
