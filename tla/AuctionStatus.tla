---------------------------- MODULE AuctionStatus ----------------------------
(***************************************************************************)
(* The status column of auctions.auctions: its values, the steps the       *)
(* database trigger lets any UPDATE take, and the narrower table the admin *)
(* endpoint consults before it saves.  Constant level: the modules that    *)
(* own an auction row EXTEND it.                                           *)
(***************************************************************************)

AuctionStatuses ==
    {"draft", "scheduled", "deposit_open", "live", "ending", "ended",
     "settling", "settled", "settlement_failed", "cancelled"}

\* trg_auction_outcome_immutability: the forward-only state machine.
DbTransitions ==
    ({"draft"} \X {"scheduled", "cancelled"})
    \cup ({"scheduled"} \X {"deposit_open", "live", "cancelled"})
    \cup ({"deposit_open"} \X {"live", "cancelled"})
    \cup ({"live"} \X {"ending", "cancelled"})
    \cup ({"ending"} \X {"ended", "cancelled"})
    \cup ({"ended"} \X {"settling"})
    \cup ({"settling"} \X {"settled", "settlement_failed"})
    \cup ({"settlement_failed"} \X {"settled"})

\* ALLOWED_TRANSITIONS of AuctionService.updateStatus.
AdminTransitions ==
    {<<"draft", "scheduled">>, <<"scheduled", "live">>}
    \cup ({"live"} \X {"ending", "cancelled"})
    \cup ({"ending"} \X {"ended", "cancelled"})
    \cup ({"ended"} \X {"settling"})
    \cup ({"settling"} \X {"settled", "settlement_failed"})
    \cup ({"settlement_failed"} \X {"settled"})

\* The statuses in which the trigger refuses to touch the outcome columns.
OutcomeFrozen == {"settling", "settlement_failed"}

\* The statuses in which ConsentService.acceptConsent takes a consent.
ConsentStatuses == {"scheduled", "deposit_open", "live", "ending"}

==============================================================================
