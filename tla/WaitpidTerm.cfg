\* How the parent sees the child end; both end then.
SPECIFICATION WpSpec
INVARIANT WpTermKills
CHECK_DEADLOCK FALSE
