SPECIFICATION FairSpec
CONSTANTS
  Node = {n1, n2}
  SoftBan <- SoftBans2
  AutoBan <- AutoBans2
  RackFault = 2
  MaxReports = 2
  MaxFault = 2
PROPERTIES RestartRemembers BanReachesDisk
