SPECIFICATION FairSpec
CONSTANTS
    r1 = r1
    r2 = r2
    t1 = t1
    t2 = t2
    a = a
    b = b
    Requests = {r1, r2}
    Routes = {t1, t2}
    NoRoute = NoRoute
    Target <- MCTarget
    Matched <- MCMatched
    WithPayload = {t2}
    Results <- MCResults
    Validators = {"error", "response"}
    Failures = {"Error", "response", "unknown"}
    Codes = {200, 404}
INVARIANTS
    RequestsAreToldTrue
PROPERTIES
    OneRouteOneHead
    RequestsSettle
CHECK_DEADLOCK FALSE
