\* Streams of eight bytes in chunks of up to four, with lengths that overflow;
\* what the later stages are given is bounded in their modules.
CONSTANTS
  Digits = {48, 49, 50}
  Others = {120}
  WorkerMax = 11
  ShellMax = 10
  MaxBytes = 8
  MaxChunk = 4
SPECIFICATION MCSpec
INVARIANTS StreamsIgnoreChunking RecordsAreReadAsSent TextsAreKept MatchesAreRight
  ListingsAreTrue PlansActAsShown
CHECK_DEADLOCK FALSE
