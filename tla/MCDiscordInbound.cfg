SPECIFICATION GatewayFairSpec
CONSTANTS
    MaxPosts = 2
    ChannelOf <- Placed
    MaxMishaps = 2
    MaxIdentifies = 2
INVARIANTS ExactlyOnceInOrder
PROPERTIES EventAnswered
CHECK_DEADLOCK FALSE
