CONSTANTS
  Null = Null
  NaN = NaN
  Overflow = Overflow
  MaxFloat = 3
  RangeOffset = 2
  PosInf = 100
  Keys <- MCKeys
  Values <- MCValues
  Patterns <- MCPatterns
  MaxProgram = 40
  Sizes <- MCSizes
  FirstDay <- MCFirstDay
  LastDay <- MCLastDay
  Origins <- MCOrigins
  Steps <- MCSteps
  MaxSeries = 6
  DateError = DateError
  NoDate = NoDate
  Points <- MCPoints
  Unbounded = Unbounded
  RangeError = RangeError
  MaxRanges = 3
  MaxBuckets = 3
  DayTicks = 4
  Micro = 2
  MaxParts <- MCMaxParts
  Months <- MCMonths
  Days <- MCDays
  Ticks <- MCTicks
  Divisors <- MCDivisors
  NullValue = NullValue
  NaNValue = NaNValue
  Deferred = Deferred
  NoLimit = NoLimit
  Arguments <- MCArguments
  RowKeys <- MCRowKeys
  Calls <- MCCalls
  MaxGroup = 3
  MaxExact = 2
SPECIFICATION FunctionsSpec
INVARIANTS FrameExact StretchesExact StepsExact RangesAsSets IntervalOrderKept AggregatesExact
PROPERTIES Implements BoundariesCounted
