CONSTANTS
  Settings <- RetrySettings
  RetryAfters <- SomeHeaders
  Quarter = 1
  Half = 128
  Kinds = {"pools", "holders", "trades"}
  Listings <- SomeListings
  Caps <- SomeCaps
  PageSize = 2
  MaxBacks = 1
  Hosts = {configured, upstream}
  baseURL = configured
  configured = configured
  upstream = upstream
  NoLink = NoLink
  BadLink = BadLink
  BadURL = BadURL
SPECIFICATION SmallWalkSpec
INVARIANT NowhereNewIsNoticed
