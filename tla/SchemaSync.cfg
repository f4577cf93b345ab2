\* Two syncs against creation, renaming, deletion, altered databases and a crash.
CONSTANTS
    shop = shop
    shop2 = shop2
    shopName = shopName
    otherName = otherName
    crm = crm
    legacy = legacy
    public = public
    orders = orders
    customer = customer
    notes = notes
    customersId = customersId
    Connections = {shop, shop2}
    Names = {shopName}
    Payload <- MCPayload
    Databases = {crm, legacy}
    Objects = {public, orders, customer, notes}
    Top = Top
    Unnamed = {notes}
    Targets = {customersId}
    NoTarget = NoTarget
    Structures <- MCStructures
    Syncs = {early, late}
    Target <- MCTarget
    NoSync = NoSync
    NoRow = NoRow
    Absent = Absent
    Outages = TRUE
    MaxCrashes = 1
SPECIFICATION FairSpec
INVARIANTS
    TypeOK
    NamesAreUnique
    CatalogueIsATree
    SyncingHasASync
PROPERTIES
    SyncedIsComplete
    RowsStay
    StatusSettles
