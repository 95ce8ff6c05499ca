SPECIFICATION FairSpec
CONSTANTS
  None = None
  Malformed = Malformed
  p1 = p1  p2 = p2  p3 = p3
  url = url  a = a  b = b
  elsewhere = elsewhere
  Servers = {p1, p2, p3}
  Ships <- MCShips
  Issuers = {url}
  Scopes = {a, b}
  OtherKeys = {"service_documentation", "registration_endpoint"}
  OverlayValues = {elsewhere}
  Configurations <- MCConfigurations
  Bootstrap <- MCBootstrap
  Rewrites <- MCRewrites
INVARIANTS Inv SchemaOnRecord ServesItsSchema RetrySucceeds NoCircularWait AdvertisesWhatItIs
PROPERTIES VersionSpec EveryStartSettles
