\* The two organizations of OrgReset.cfg.
SPECIFICATION BothSpec
CONSTANTS
    bank = bank
    shop = shop
    sonarWay = sonarWay
    custom = custom
    wayGate = wayGate
    hardGate = hardGate
    tplBorn = tplBorn
    tplMade = tplMade
    members = members
    team = team
    shopTpl = shopTpl
    bankWay = bankWay
    pay = pay
    cart = cart
    Org = {bank, shop}
    Entity <- Entities
    OrgOf <- MCOrgOf
    KindOf <- MCKindOf
    BuiltIn <- MCBuiltIn
    Slot <- MCSlot
    SlotOrg <- MCSlotOrg
    SlotKind <- MCSlotKind
    Fits <- MCFits
    Worlds <- MCWorlds
    NoEntity = NoEntity
    Project <- MCProject
    Target <- MCTarget
    Portfolio = {"audit"}
    Selections <- MCSelections
    MaxAdmin = 1
    MaxResets = 1
    feature = feature
    plain = plain
    Branch <- MCBranch
    Reference <- MCReference
    Purged = {plain}
    MaxTries = 2
PROPERTIES
  OnlyCreatedDeleted
CHECK_DEADLOCK FALSE
