\* Three submits of the empty, an accepted and a rejected token; two
\* sign-ins (Clock mounts); time counted modulo 3 seconds.
CONSTANTS
    Tokens = {"", "good", "bad"}
    ValidTokens = {"good"}
    MaxSubmits = 3
    Period = 3
    MaxMounts = 2
SPECIFICATION Spec
INVARIANTS
    TypeOK
    OneLoginInFlight
    NoLeakedInterval
PROPERTIES
    LoginFormRecovers
