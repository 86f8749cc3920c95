\* The plan of MigrateRun.cfg, killed and resumed.
SPECIFICATION Spec
CONSTANTS
    generate = generate
    create = create
    configure = configure
    import = import
    tag = tag
    i1 = i1
    i2 = i2
    Item = {i1, i2}
    Taken <- MCTaken
    Task <- MCTask
    Dep <- MCDep
    Source <- MCSource
    NoTask = NoTask
    Creator <- MCCreator
    Reentrant <- MCReentrant
    Goals <- MCGoals
    Exclusions <- MCExclusions
    Width = 2
    Fanout = 2
    MaxAttempts = 2
INVARIANT
  DroppedWereCompleted
CHECK_DEADLOCK FALSE
