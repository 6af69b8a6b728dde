SPECIFICATION BucketSpec
CONSTANT Rates <- MCRates
INVARIANT ConfiguredRateIsKept
CHECK_DEADLOCK FALSE
