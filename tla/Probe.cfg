SPECIFICATION ProbeSpec
CONSTANTS
  Brand = {"brand.com", "brand.de"}
  Family = {"brand-home.com"}
  Regional = {"brand.ch"}
  Redirects <- MCRedirects
  Surfaces <- MCSurfaces
  QuickSearch = 1
  Timeout = 4
  Reserve = 1
  Primary = 3
  ShortWindow = 1
  Window = 2
  LeastWiden = 1
  DnsWait = 1
  Grace = 1
  VerifyTime = 1
  Transport = 2
  Overrun = 1
  MaxRequests = 5
  ExtraRequests = 3
  DomainLimit = 3
  MaxProbe = 1
  MaxCalls = 2
  NotYet = NotYet
INVARIANTS RequestsBounded CutBySibling
