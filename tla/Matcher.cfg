SPECIFICATION Spec
CONSTANTS
  Width = 3
  PrivatePrefixes <- MCPrivatePrefixes
  GeoIPCN <- MCGeoIPCN
  GeoSiteCN <- MCGeoSiteCN
  Labels <- MCLabels
  Language <- MCLanguage
  Jobs <- MCJobs
  Hosts <- MCHosts
CHECK_DEADLOCK FALSE
INVARIANTS MatchesItsRules FilesOverride
