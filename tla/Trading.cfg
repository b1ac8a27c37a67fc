SPECIFICATION Spec
CHECK_DEADLOCK FALSE
CONSTANTS
    Cores = {"vwap_momentum", "late_consensus", "ptb_diff", "binary_momentum", "dump_hedge", "fibonacci_bot", "low_side_dual_reversion", "mid_price_sizing", "ninety_nine_cent_sniper", "one_cent_buy", "pre_order_market", "skew_mean_reversion"}
    Instants <- MCInstants
    Feeds <- MCFeeds
    Lot = 2
    MaxOrders <- MCMaxOrders
    MaxLayers = 2
INVARIANTS
    OneInFlight
    ExitsFitPosition
    EntriesAreBounded
    StopIsActedOn
