---------------------------- MODULE RateLimiter ----------------------------
(***************************************************************************)
(* RateLimiter (bluetooth/rate_limiter.go): a token bucket and a minimal   *)
(* distance between two commands, behind one mutex. Wait and               *)
(* WaitWithTimeout poll Allow: they are Allow steps with time passing.     *)
(*                                                                         *)
(* Time is counted in ticks (the code's are nanoseconds); a moment the     *)
(* code remembers is kept as the ticks gone since, up to Horizon, past     *)
(* which nothing depends on it. What the code truncates is truncated here, *)
(* to ticks and to tokens.                                                 *)
(***************************************************************************)
EXTENDS Integers, Sequences, FiniteSets, SequencesExt

CONSTANTS
    Second,   \* ticks in a second
    Rates,    \* values of MaxCommandsPerSecond
    Bursts    \* values of BurstSize

\* A rate of zero is a division by zero at rate_limiter.go:29 and :131. What the
\* truncated delays of a second leave over is no longer than a delay: so it is,
\* in nanoseconds, for every rate up to 31622.
ASSUME LimiterAssumption ==
    /\ Second \in Nat \ {0}
    /\ Rates \subseteq Nat \ {0} /\ \A r \in Rates : Second % r <= Second \div r
    /\ Bursts \subseteq Nat \ {0} /\ \E most \in Bursts : \A b \in Bursts : b <= most

Horizon == Second * Max(Bursts) + 1

Config == [rate : Rates, burst : Bursts]

VARIABLES
    config,        \* RateLimiter.config
    tokens,        \* RateLimiter.tokens
    sinceRefill,   \* ticks since lastRefill
    sinceCommand,  \* ticks since lastCommand, Never while it is zero
    recent         \* ticks since each grant of the last second, from the last
                   \* Reset or UpdateConfig on

limiterVars == <<config, tokens, sinceRefill, sinceCommand, recent>>

Never == -1

\* time.Second / MaxCommandsPerSecond, truncated.
CommandDelay == Second \div config.rate

LimiterTypeOK ==
    /\ config \in Config
    /\ tokens \in 0 .. config.burst
    /\ sinceRefill \in 0 .. Horizon
    /\ sinceCommand \in Never .. Horizon
    /\ recent \in Seq(0 .. Second - 1)

LimiterInit ==
    /\ config \in Config
    /\ tokens = config.burst
    /\ sinceRefill = 0
    /\ sinceCommand = Never
    /\ recent = <<>>

\* int(elapsed.Seconds() * MaxCommandsPerSecond): the floating-point product of
\* a whole number above one may fall just short of it.
TokensToAdd ==
    LET exact == sinceRefill * config.rate
    IN  IF exact > Second /\ exact % Second = 0
        THEN {exact \div Second, exact \div Second - 1}
        ELSE {exact \div Second}

\* Mutant: lastRefill moves whether or not a token was added.
RefillForgetful ==
    {[tokens |-> Min({tokens + n, config.burst}), since |-> 0] : n \in TokensToAdd}

\* refillTokens: the buckets and ages of lastRefill it may leave.
Refill ==
    {IF n > 0
     THEN [tokens |-> Min({tokens + n, config.burst}), since |-> 0]
     ELSE [tokens |-> tokens, since |-> sinceRefill] : n \in TokensToAdd}

FarEnough == sinceCommand = Never \/ sinceCommand >= CommandDelay

\* Mutant: tokens alone decide.
GrantsTokens(left) == left.tokens > 0

Grants(left) == left.tokens > 0 /\ FarEnough

Allow ==
    /\ \E left \in Refill :
         /\ sinceRefill' = left.since
         /\ \/ /\ Grants(left)
               /\ tokens' = left.tokens - 1
               /\ sinceCommand' = 0
               /\ recent' = Append(recent, 0)
            \/ /\ ~Grants(left)
               /\ tokens' = left.tokens
               /\ UNCHANGED <<sinceCommand, recent>>
    /\ UNCHANGED config

GetStats ==
    /\ \E left \in Refill : tokens' = left.tokens /\ sinceRefill' = left.since
    /\ UNCHANGED <<config, sinceCommand, recent>>

Reset ==
    /\ tokens' = config.burst
    /\ sinceRefill' = 0
    /\ sinceCommand' = Never
    /\ recent' = <<>>
    /\ UNCHANGED config

UpdateConfig ==
    /\ config' \in Config
    /\ tokens' = Min({tokens, config'.burst})
    /\ recent' = <<>>
    /\ UNCHANGED <<sinceRefill, sinceCommand>>

\* The grants a second old are the first ones.
Tick ==
    /\ sinceRefill' = Min({sinceRefill + 1, Horizon})
    /\ sinceCommand' = IF sinceCommand = Never THEN Never ELSE Min({sinceCommand + 1, Horizon})
    /\ \E gone \in 0 .. Len(recent) :
         /\ \A i \in DOMAIN recent : i <= gone <=> recent[i] + 1 >= Second
         /\ recent' = [i \in 1 .. Len(recent) - gone |-> recent[gone + i] + 1]
    /\ UNCHANGED <<config, tokens>>

LimiterNext == Allow \/ GetStats \/ Reset \/ UpdateConfig \/ Tick

LimiterSpec == LimiterInit /\ [][LimiterNext]_limiterVars

-----------------------------------------------------------------------------
\* The variables keep their types, the bucket its burst, and between two resets or
\* new configurations no second holds more grants than MaxCommandsPerSecond, or
\* one more when that rate does not divide the second and its delay is cut short.
RateKept ==
    /\ LimiterTypeOK
    /\ Len(recent) <= config.rate + (IF Second % config.rate = 0 THEN 0 ELSE 1)

\* The bucket never holds a command back for more than a tick longer than the
\* minimal distance does, however often the limiter is polled and reconfigured.
\* The tick is real: at rate 6 the bucket is a token short 166666666 ns after it
\* was emptied, when the distance is kept (rate_limiter.go:91 and :131).
NeverStarved ==
    sinceCommand = Never \/ sinceCommand > CommandDelay => \A left \in Refill : Grants(left)

\* A token in the bucket is permission to send (rate_limiter.go:8 "implements
\* a token bucket rate limiter").
TokensAllow == \A left \in Refill : left.tokens > 0 => Grants(left)
=============================================================================
