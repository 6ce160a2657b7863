CONSTANTS
    Clients = {alice}
    Amounts = {1, 5}
    MaxOps = 2
    Serialised = FALSE
    MayFail = FALSE
CHECK_DEADLOCK FALSE
SPECIFICATION Spec
INVARIANT RegistrationsAreListed
