CONSTANTS
  OperationalFee = 1
  BurnReserve = 4
  IssuanceFee = 2
  MinBurnFee = 2
  BaseWeight = 1
  ItemWeight = 2
  AccountWeight = 2
  FeeWeight = 2
  MaxItems = 5
  MaxTickSkew = 1
  NoSigner = NoSigner
  Queues <- Queue
  EyeCount = 2
  BlockWeight = 34
  MaxLimit = 4
  Checked = FALSE
  Clocks = {9, 10, 12}
  Now = 10
  Branch = Branch
  Other = Other
  MaxWrong = 1
SPECIFICATION SpecRounds
CHECK_DEADLOCK FALSE
INVARIANT RoundIsLargest
INVARIANT SigningIsExact
INVARIANT BurnsAreFair
PROPERTY ItemsBurn
