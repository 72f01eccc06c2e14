SPECIFICATION FairSpec

CONSTANTS
    None = None
    Parents <- All
    Inner <- ThreadComments
    Reactions <- CommentReactions
    Selections <- SomeFamilies
    PageSize = 2
    MaxListed = 1
    MaxEvents = 2
    MaxTasks = 2

PROPERTIES
    ReadIsWhole
    CountedIsCurrent
    RefreshIsWhole
    TaskEndsUnlessMoved

CHECK_DEADLOCK FALSE
