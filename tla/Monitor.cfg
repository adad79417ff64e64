\* The monitor and the services, in every order.
SPECIFICATION FairSpec
CONSTANTS
  collector = collector
  api1 = api1
  api2 = api2
  gateway1 = gateway1
  Goroutine = {collector, api1, api2, gateway1}
  ServiceOf <- MCServiceOf
  Configs <- MCConfigs
INVARIANTS
  TypeOK
  NoSendOnClosed
  LastReportIsTrue
PROPERTIES
  FailureEndsNode
  ClosedIsRetired
  ReportsAsPromised
