SPECIFICATION FairSpec

CONSTANTS
  CommandLength = 6
  ResponseLength = 6
  SocketBuffer = 4
  Exchanges = 3
  SendErrors = 2

CHECK_DEADLOCK FALSE

INVARIANTS
  CommandArrivesWhole
  AnswerReceivedWhole
  NoOctetLost

PROPERTIES
  ImplementsExchange
  ExchangesComplete
