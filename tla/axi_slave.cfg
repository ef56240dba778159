CONSTANTS
  Ports <- MC_Ports
  Lags <- MC_Lags
  TimeOut = 8
  Numbers = 2
  Patient = TRUE
SPECIFICATION FairSpec
INVARIANTS TypeOK OwnData AnswerTrue ReadFresh
PROPERTY Answered
