\* Five tasks on two items; three objects of each section of the report; two
\* organizations to reset, and one branch pattern.
SPECIFICATION MigrationSpec
CONSTANTS
    generate = generate
    create = create
    configure = configure
    import = import
    tag = tag
    i1 = i1
    i2 = i2
    Item = {i1, i2}
    Taken <- MCTaken
    Task <- MCTask
    Dep <- MCDep
    Source <- MCSource
    NoTask = NoTask
    Creator <- MCCreator
    Reentrant <- MCReentrant
    Goals <- MCGoals
    Exclusions <- MCExclusions
    Width = 2
    Fanout = 2
    MaxAttempts = 2
    o1 = o1
    o2 = o2
    o3 = o3
    here = here
    there = there
    Object <- MCObject
    NameOf <- MCNameOf
    GoesTo <- MCGoesTo
    NoObject = NoObject
    BranchName = {"main", "feature"}
    MainName = "main"
    Importing = {o1}
    Evidence <- MCEvidence
    MaxRows = 3
    bank = bank
    shop = shop
    sonarWay = sonarWay
    custom = custom
    wayGate = wayGate
    hardGate = hardGate
    tplBorn = tplBorn
    tplMade = tplMade
    members = members
    team = team
    shopTpl = shopTpl
    bankWay = bankWay
    pay = pay
    cart = cart
    Org = {bank, shop}
    Entity <- Entities
    OrgOf <- MCOrgOf
    KindOf <- MCKindOf
    BuiltIn <- MCBuiltIn
    Slot <- MCSlot
    SlotOrg <- MCSlotOrg
    SlotKind <- MCSlotKind
    Fits <- MCFits
    Worlds <- MCWorlds
    NoEntity = NoEntity
    Project <- MCProject
    Target <- MCTarget
    Portfolio = {"audit"}
    Selections <- MCSelections
    MaxAdmin = 1
    MaxResets = 1
    feature = feature
    plain = plain
    Branch <- MCBranch
    Reference <- MCReference
    Purged = {plain}
    MaxTries = 2
INVARIANTS
  EngineInv
  NeverTouchesForeign
  NewestRowIsRead
  
  ReportIsWhole
  VerdictIsWorst
  ResetInv
  
PROPERTY
  UnconfirmedUntouched
CHECK_DEADLOCK FALSE
