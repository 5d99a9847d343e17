SPECIFICATION MCSpec
CONSTANTS
    orders = orders
    users = users
    r1 = r1
    r2 = r2
    route = route
    NoRoute = NoRoute
    Requests = {r1, r2}
    Routes = {route}
    RouteOf <- MCRouteOf
    Payloads = {route}
    Unsupported = {}
    MaxConnections = 2
    PingTimeout = 2
    Ids = {orders, users}
    Reuse = TRUE
    MaxMessages = 3
    MaxCalls = 2
INVARIANTS
    ClientIsTold
    CloseStopsAll
    ServerIsLimited
PROPERTIES
    AllEnd
    AnsweringAreKept
    ServerSettles
CHECK_DEADLOCK FALSE
