\* Two rates that divide the second and one that does not, two bursts, time in
\* sixteenths of a second.
SPECIFICATION LimiterSpec
CONSTANTS
    Second = 16
    Rates = {2, 3, 4}
    Bursts = {1, 3}
INVARIANTS
    RateKept
    NeverStarved
