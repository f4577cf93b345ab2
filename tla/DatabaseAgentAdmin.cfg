\* Does an administrator without grants only read?
CONSTANTS
    Users = {"admin", "analyst", "stranger"}
    Roles = {"analysts"}
    Tenants = {"acme", "globex"}
    Conns = {"sales", "spare", "foreign"}
    Tables = {"customers", "orders", "old_orders", "secrets"}
    TableNames = {"customers", "orders", "secrets"}
    ColumnNames = {"id", "amount", "salary"}
    PermIds = {"p_narrow", "p_write", "p_elsewhere"}
    SqlTableNames = {"customers", "orders", "secrets"}
    SqlColumnNames = {"id", "amount", "salary"}
    Star = "*"
    NoSql = NoSql
    Requests = {"r1"}
    UserOf <- MCUserOf
    ConnTenant <- MCConnTenant
    TableOf <- MCTableOf
    PermOf <- MCPermOf
    ConnectionLists <- MCConnectionLists
    Statements <- MCStatements
    Dialect <- MCDialect
SPECIFICATION Spec
PROPERTY
    AuthorisedAsDocumented
