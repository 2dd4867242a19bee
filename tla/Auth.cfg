SPECIFICATION AuthFairSpec
CONSTANTS
  Hosts <- MCHosts
  Never <- MCNever
  Lifetimes <- MCLifetimes
  Endpoints <- MCEndpoints
  ConfigFiles <- MCConfigFiles
  OwnVars <- MCOwnVars
  RegistryVars <- MCRegistryVars
INVARIANT TokensExpire
PROPERTY ExpiredIsRenewed
