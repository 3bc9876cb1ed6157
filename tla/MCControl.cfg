SPECIFICATION ControlSpec
CONSTANTS
    Deployments <- MCDeployments
    Clients = {c1, c2}
    None = None
    Instances = {"i"}
    Snapshots = {"s"}
    MaxRequests = 4
PROPERTIES SettlesWhenQuiet DeletedGoes UpdateKeepsOthers
CHECK_DEADLOCK FALSE
