SPECIFICATION Spec
CONSTANTS
  BookNo <- MCBookNo
  Trunc <- MCTrunc
  Price = {2}
  Num <- MCNum
  Cost = {0, 1}
  InitFund = 2
  NoBook = NoBook
  MaxBooks = 3
  MaxOps = 4
INVARIANTS
  MoneyMatchesBooks
  MemoryIsStored
  SharedIdExplained
  HiddenBookExplained
