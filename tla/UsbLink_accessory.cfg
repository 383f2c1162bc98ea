CONSTANTS
    PoolSize = 3
    Retries = 1
SPECIFICATION Spec
INVARIANTS SuccessIsNoError
