\* Any order of heartbeats, goodbyes, losses, sweeps and restarts; one poll
\* between two sweeps.
SPECIFICATION AloneFairSpec
CONSTANTS
  a1 = a1  a2 = a2  a3 = a3  remote = remote  d1 = d1
  Manager = manager
  App = {a1}
  Addr <- MCAddr
  Local <- MCLocal
  Id = {d1}
  QueueLen = 1
  Lossy = FALSE
  Minute = 1
  MaxAge = 2
  SweepPolls = 1
  Broadcasts <- MCBroadcasts
INVARIANTS HubTypeOK OneSlotPerClient
PROPERTIES KeepsPromise EventuallyExpired
