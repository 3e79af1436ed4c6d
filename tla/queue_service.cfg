CONSTANTS
    w1 = w1  w2 = w2  c1 = c1
    d1 = d1  d2 = d2
    h1 = h1  h2 = h2
    Workers = {w1, w2}
    Commands = {c1}
    Hosts = {h1, h2}
    HostOf <- OneHost
    Documents = {d1}
    Nobody = Nobody
    LeaseSeconds = 1
    MaxQueued = 2
    MaxJobs = 2
    MaxAttempts = 2
    MaxStoreErrors = 2
SPECIFICATION ServiceSpec
PROPERTIES QueuedJobsAreServed NoJobStranded
