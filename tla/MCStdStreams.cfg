CONSTANT MaxLaunches = 3
SPECIFICATION Spec
INVARIANT TypeOK
INVARIANT StoredReadsBack
INVARIANT LossShows
