SPECIFICATION FairSpec
CONSTANTS
  host = host
  u1 = u1
  u2 = u2
  None = None
  NoSite = NoSite
  NoProxy = NoProxy
  NoTarget = NoTarget
  NoDeletion = NoDeletion
  Ingresses = {i}
  Domains = {host}
  Domain <- Hosts
  Urls = {u1}
  Rules <- OneRule
  Processes = {p}
  Timer = p
  Deleters = {x, y}
  Attempts = 2
  Retries = 1
INVARIANTS TypeOK GoneStaysGone ReportTrue
PROPERTIES AllServedEventually ReportConverges
