SPECIFICATION MCSpec
CONSTANTS
    ann = ann
    ben = ben
    cyd = cyd
    like = like
    dislike = dislike
    Comment <- TwoComments
    Reader = {ann, ben, cyd}
    Value = {like, dislike}
    AuthorOf <- ByAnn
    None = None
    NotRead = NotRead
    MostCount = 2
INVARIANTS TypeOK
 
