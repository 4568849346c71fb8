SPECIFICATION Spec
CONSTANTS
  Fmt <- MCFmt
  FmaFmt <- MCFmaFmt
  RootFmt <- MCRootFmt
  RemFmt <- MCRemFmt
  Conv <- MCConv
  Narrow <- MCNarrow
  EstimateWord = 6
  Fractions <- MCFractions
  Integers64 <- MCIntegers64
INVARIANTS ArithmeticRounds EstimateClose FusedRounds RemainderExact ConversionRounds ComparisonOrders
