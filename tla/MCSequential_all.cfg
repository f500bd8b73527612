SPECIFICATION MCSpec
CONSTANTS
    Absent = Absent
    Refused = Refused
    None = None
    Rejected = Rejected
    MinLength = 2
    MaxLength = 3
    PasswordMinLength = 3
    PasswordMaxLength = 4
    Reserved <- MCReserved
    Environs <- MCEnvirons
    Dotenvs <- MCDotenvs
    Forms <- MCForms
    RouteSets <- MCRouteSets
    MaxCommands = 5
INVARIANTS
    SecureWhenGuarded
    StoredFormIsCanonical
    SchemaIsClosed
    NoStatementFails
    VersionTellsSchema
