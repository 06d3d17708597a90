SPECIFICATION ConfigSpec
CONSTANTS
    Id = {1}
    Handler = {h1}
    Value = {"v"}
INVARIANT ConfigHasCredentials
CHECK_DEADLOCK FALSE
