SPECIFICATION MCSpec
CONSTANTS
    main = main
    topic = topic
    local = local
    tracking = tracking
    Branch = {main, topic}
    Main = main
    Stash = {local}
    Tracking = tracking
    None = None
    MaxCommits = 7
    MaxStarted = 4
    Trouble = {"pull"}
INVARIANT RebaseOwnsBranch
CHECK_DEADLOCK FALSE
