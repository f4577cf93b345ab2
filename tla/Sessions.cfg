\* The default tenant, and two registrations of one code.
CONSTANTS
    Registrations = {first, second, seed}
    Seed = seed
    Codes = {acme, demo}
    CodeOf <- MCCodeOf
    Roles = {tenantAdmin}
    AdminRole = tenantAdmin
    Calls = {call}
    MaxAttempts = 2
    MaxChanges = 1
    MaxCrashes = 1
    seed = seed
    acme = acme
    demo = demo
SPECIFICATION FairSpec
INVARIANTS
    TypeOK
    TenantsAreWhole
    TokensAreEarned
    ContextsAreCurrent
PROPERTIES
    CodesAreGivenOnce
    StartupCompletes
    RegistrationsEnd
