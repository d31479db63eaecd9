\* A burst into a full bucket.
SPECIFICATION LimiterSpec
CONSTANTS
    Second = 4
    Rates = {2}
    Bursts = {3}
INVARIANTS
    TokensAllow
