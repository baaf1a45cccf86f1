SPECIFICATION FairSpec
CONSTANTS
  Posters = {p1, p2, p3}
  Other = other
  PageLen = 3
  MaxComments = 4
INVARIANT TypeOK CommentsBounded
PROPERTY PostingEnds
CHECK_DEADLOCK FALSE
