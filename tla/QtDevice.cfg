CONSTANTS
  Operations = {"SendWMDRMPDAppRequest", "GetWMDRMPDAppResponse", "EnableTrustedFilesOperations", "DisableTrustedFilesOperations", "EndTrustedAppSession"}
  MaxPipes = 3
  MaxFaults = 2
  MaxChallenges = 6
SPECIFICATION Spec
INVARIANT SessionsRight
PROPERTIES TrustIsEarned OpeningEnds
