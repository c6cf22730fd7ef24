SPECIFICATION FairSpec
CONSTANTS
  c1 = c1  c2 = c2  c3 = c3
  NoClient = NoClient
  Clients <- MCClients
  Backlog = 2
INVARIANTS TypeOK ZombieSignalled DescriptorsBounded
PROPERTIES Reaped LaunchesAll
