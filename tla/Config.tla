-------------------------------- MODULE Config -------------------------------
(***************************************************************************)
(* internal/config/config.go: the configuration from the environment.  A   *)
(* variable that is unset or empty is Nil, and Error stands for a text     *)
(* that is no number or no duration.  Go's int goes from -MaxInt - 1 to    *)
(* MaxInt.                                                                 *)
(***************************************************************************)
EXTENDS Domain, Integers

CONSTANTS
  MaxInt,       \* the greatest int
  MiB,          \* 2^20
  AbsoluteURLs  \* the texts url.Parse finds a scheme and a host in

ASSUME ConfigAssumption == MaxInt \in Nat /\ MaxInt >= 256 /\ MiB \in Nat \ {0}

Ints == (-MaxInt - 1)..MaxInt

\* lookupString, lookupInt and lookupDuration.
lookup(value, fallback) == IF value = Nil THEN fallback ELSE value

Levels == {"debug", "info", "warn", "warning", "error"}

\* Mutant of Validate: a limit of no megabytes is accepted.
ValidateZeroLimit(c) ==
  /\ c.APIBaseURL \in AbsoluteURLs
  /\ c.APITimeout > 0
  /\ c.CacheMaxMB >= 0
  /\ c.PageSize > 0
  /\ c.LogLevel \in Levels

Validate(c) ==
  /\ c.APIBaseURL \in AbsoluteURLs
  /\ c.APITimeout > 0
  /\ c.CacheMaxMB > 0
  /\ c.PageSize > 0
  /\ c.LogLevel \in Levels

LoadFromLookup(env) ==
  LET c == [APIBaseURL |-> lookup(env.TCG_API_URL, "https://tcgtracking.com/tcgapi/v1"),
            LogLevel   |-> lookup(env.TCG_LOG_LEVEL, "info"),
            APITimeout |-> lookup(env.TCG_API_TIMEOUT, 30),
            CacheMaxMB |-> lookup(env.TCG_CACHE_MAX_MB, 256),
            PageSize   |-> lookup(env.TCG_PAGE_SIZE, 50)]
  IN  IF Error \in {c.APITimeout, c.CacheMaxMB, c.PageSize} THEN Error
      ELSE IF Validate(c) THEN c ELSE Error

\* int64(cfg.CacheMaxMB) << 20, the limit that NewMemoryCache gets.
CacheBytes(c) == ((c.CacheMaxMB * MiB + MaxInt + 1) % (2 * (MaxInt + 1))) - (MaxInt + 1)
=============================================================================
