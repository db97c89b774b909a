SPECIFICATION FairSpec
CONSTANTS
  host = host
  u1 = u1
  u2 = u2
  None = None
  NoSite = NoSite
  NoProxy = NoProxy
  NoTarget = NoTarget
  NoDeletion = NoDeletion
  Ingresses = {i}
  Domains = {host}
  Domain <- Hosts
  Urls = {u1, u2}
  Rules <- TwoUrls
  Processes = {p}
  Timer = p
  Deleters = {}
  Attempts = 1
  Retries = 1
PROPERTIES ProxyFollowsIngress
