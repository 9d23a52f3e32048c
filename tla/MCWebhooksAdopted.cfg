SPECIFICATION BestSpec
CONSTANTS
  j1 = j1
  e1 = e1
  e2 = e2
  e3 = e3
  Jobs <- OneJob
  Events <- OneEvent
  JobOf <- OneJobOf
  Kind <- Opened
  Sweeping = TRUE
  MaxGiveUps = 0
  MaxLosses = 0
PROPERTY StoredIsProcessed
