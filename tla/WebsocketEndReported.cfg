SPECIFICATION FairSpec
PROPERTIES EndReported
