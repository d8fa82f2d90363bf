\* One generation, two supervisor identities, one join that runs out.
SPECIFICATION Spec
CONSTANTS
    Feeds = {f1, f2}
    NoFeed = NoFeed
    Subs = {s1}
    NoSubs = NoSubs
    MaxTimeouts = 1
    MaxFailures = 0
INVARIANT ProducersGone
CHECK_DEADLOCK FALSE
