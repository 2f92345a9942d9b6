SPECIFICATION Spec
CONSTANTS
  NoHostname = NoHostname
  NoSection = NoSection
  NoPort = NoPort
  NoRewrite = NoRewrite
  Unresolved = Unresolved
  Inputs <- SomeInputs
  GatewayNamespace <- Ns
  SelectedNamespaces <- Selected
  Requests <- SomeRequests
  Regexes <- SomeRegexes
  StableUpTo = 3
  Certificates = {"cert"}
  Services <- SomeServices
  Destinations <- SomeDestinations
  Endpoints <- SomeEndpoints
  Secrets = {"ca"}
INVARIANTS
  EndpointsReachEnvoy
CHECK_DEADLOCK FALSE
