\* Two generations, two supervisor identities, up to two joins that run out and one
\* failing cycle or start.
SPECIFICATION FairSpec
CONSTANTS
    Feeds = {f1, f2}
    NoFeed = NoFeed
    Subs = {s1, s2}
    NoSubs = NoSubs
    MaxTimeouts = 2
    MaxFailures = 1
INVARIANTS OneFeedThread
PROPERTIES ImplementsLifecycle ServedUnlessTimedOut CloseEnds
CHECK_DEADLOCK FALSE
