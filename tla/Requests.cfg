\* Two servers with lists of up to three tools, cut off at two; three listings,
\* payloads five deep, one call and the one that is too many.
SPECIFICATION RequestSpec
CONSTANTS
    Servers = {1, 2}
    Names = {1, 2}
    Lists <- SomeLists
    Limit = 2
    MaxProperties = 2
    MaxToolCalls = 1
    Listings <- SomeListings
    Aliases <- SomeAliases
    Members <- SomeMembers
    Payloads <- SomePayloads
INVARIANT BestFirst
INVARIANT Routed
INVARIANT PayloadKept
INVARIANT TypeFits
CHECK_DEADLOCK FALSE
