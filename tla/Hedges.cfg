SPECIFICATION Spec
CHECK_DEADLOCK FALSE
CONSTANTS
    Cores = {"dump_hedge"}
    Instants <- MCInstants
    Feeds <- MCFeeds
    Lot = 2
    MaxOrders <- MCMaxOrders
    MaxLayers = 2
INVARIANT
    HedgesArePlaced
