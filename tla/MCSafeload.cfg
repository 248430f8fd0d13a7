SPECIFICATION Spec
CONSTANTS
    httpd = httpd
    other = other
    Tasks = {httpd, other}
    NoTask = none
    Ops = {"volume", "eq", "tcp"}
    Values = {0, 1}
    Default = 0
    MaxFailures = 1
INVARIANTS
    ParamsRequested
    FiltersWhole
