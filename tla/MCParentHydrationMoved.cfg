SPECIFICATION FairSpec

CONSTANTS
    None = None
    Parents <- PullOnly
    Inner <- ThreadComments
    Reactions <- CommentReactions
    Selections <- NoRefresh
    PageSize = 2
    MaxListed = 1
    MaxEvents = 1
    MaxTasks = 1

PROPERTY
    TaskEnds

CHECK_DEADLOCK FALSE
